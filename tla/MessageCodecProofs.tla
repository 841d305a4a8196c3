--------------------------- MODULE MessageCodecProofs --------------------------
(***************************************************************************)
(* The copying path of a generated type, for messages of any members.      *)
(***************************************************************************)
EXTENDS MessageCodec, CodecOpsProofs

--------------------------------------------------------------------------------
(***************************************************************************)
(* The reader of the copying path.                                         *)
(***************************************************************************)
CopyInv ==
  /\ message \in Seq(MemberType)
  /\ size \in Nat
  /\ written \in Serialized
  /\ read.r.pos <= read.r.size

LEMMA CopyInit == Init => CopyInv
<1> SUFFICES ASSUME Init PROVE CopyInv
  OBVIOUS
<1>1. message \in Seq(MemberType) /\ size \in Nat /\ <<>> \in Seq(MemberType)
  BY DEF Init
<1>2. written \in Serialized
  BY <1>1, MessageSerialized DEF Init, Nothing
<1>3. read.r.pos <= read.r.size
  BY DEF Init, Unread, Wrap, HeaderSize
<1>4. QED
  BY <1>1, <1>2, <1>3 DEF CopyInv

LEMMA CopyStep == CopyInv /\ [Next]_vars => CopyInv'
<1> SUFFICES ASSUME CopyInv, [Next]_vars PROVE CopyInv'
  OBVIOUS
<1>1. CASE AddMember
  <2>1. PICK m \in Members : message' = Append(message, m)
    BY <1>1 DEF AddMember
  <2>2. m \in MemberType
    BY <2>1, CodecAssumption
  <2>3. message' \in Seq(MemberType)
    BY <2>1, <2>2 DEF CopyInv
  <2>4. QED
    BY <1>1, <2>3 DEF AddMember, CopyInv
<1>2. CASE GetMessageSize
  BY <1>2, SizeIsNat DEF GetMessageSize, CopyInv
<1>3. CASE SerializeMessageInto
  <2>1. PICK s \in Slack : written' = SerializeInto(message, size + s)
    BY <1>3 DEF SerializeMessageInto
  <2>2. size + s \in Nat
    BY <2>1, CodecAssumption DEF CopyInv
  <2>3. written' \in Serialized
    BY <2>1, <2>2, MessageSerialized DEF CopyInv
  <2>4. QED
    BY <1>3, <2>3 DEF SerializeMessageInto, CopyInv
<1>4. CASE DeserializeMessageFrom
  <2>1. PICK c \in 0 .. DataSize(written.w), noise \in Noise :
          read' = DeserializeFrom(message, written.wire, DataSize(written.w) - c, noise)
    BY <1>4 DEF DeserializeMessageFrom
  <2>2. written.w \in LooseWriter /\ written.wire \in Wires
    BY DEF CopyInv, Serialized
  <2>3. DataSize(written.w) - c \in Nat /\ noise \in Nat
    <3>1. DataSize(written.w) \in Int
      BY <2>2, LooseCalls DEF DataSize
    <3>2. QED
      BY <2>1, <3>1, CodecAssumption
  <2>4. read' \in Arrived(DataSize(written.w) - c)
    BY <2>1, <2>2, <2>3, MessageArrived DEF CopyInv
  <2>5. read'.r.pos <= read'.r.size
    BY <2>4 DEF Arrived, InBuffer
  <2>6. QED
    BY <1>4, <2>5 DEF DeserializeMessageFrom, CopyInv
<1>5. CASE UNCHANGED vars
  BY <1>5 DEF vars, CopyInv
<1>6. QED
  BY <1>1, <1>2, <1>3, <1>4, <1>5 DEF Next

(***************************************************************************)
(* Deserialization never moves out of its buffer, whatever members a type  *)
(* has, however much of the message arrived and whatever the bytes behind  *)
(* the cut say: every read of deserialize_message_from() is bounded.       *)
(***************************************************************************)
THEOREM CopiesStayInBuffer == Spec => []ReaderStaysInBuffer
<1>1. CopyInv => ReaderStaysInBuffer
  BY DEF CopyInv, ReaderStaysInBuffer
<1>2. QED
  BY <1>1, CopyInit, CopyStep, PTL DEF Spec

--------------------------------------------------------------------------------
(***************************************************************************)
(* A serialization that failed was given at least the size the message     *)
(* answered, and its members were not touched since.                       *)
(***************************************************************************)
FlatInv ==
  /\ message \in Seq(Members)
  /\ Len(message) <= MaxMembers
  /\ phase = "sized" => size = ComputeSerializedSize(message)
  /\ phase = "failed" =>
       \E s \in Slack :
         /\ written = SerializeInto(message, ComputeSerializedSize(message) + s)
         /\ HasError(written.w)

LEMMA FlatInit == Init => FlatInv
<1> SUFFICES ASSUME Init PROVE FlatInv
  OBVIOUS
<1>1. message = <<>> /\ phase = "building"
  BY DEF Init
<1>2. QED
  BY <1>1, CodecAssumption DEF FlatInv

LEMMA FlatStep == FlatInv /\ [Next]_vars => FlatInv'
<1> SUFFICES ASSUME FlatInv, [Next]_vars PROVE FlatInv'
  OBVIOUS
<1>1. CASE AddMember
  <2>1. PICK m \in Members : message' = Append(message, m)
    BY <1>1 DEF AddMember
  <2>2. Len(message) < MaxMembers /\ phase' = "building"
    BY <1>1 DEF AddMember
  <2>3. message' \in Seq(Members) /\ Len(message') = Len(message) + 1
    BY <2>1 DEF FlatInv
  <2>4. Len(message) \in Nat /\ MaxMembers \in Nat
    BY CodecAssumption DEF FlatInv
  <2>5. Len(message') <= MaxMembers
    BY <2>2, <2>3, <2>4
  <2>6. QED
    BY <2>2, <2>3, <2>5 DEF FlatInv
<1>2. CASE GetMessageSize
  BY <1>2 DEF GetMessageSize, FlatInv
<1>3. CASE SerializeMessageInto
  <2>1. PICK s \in Slack : written' = SerializeInto(message, size + s)
    BY <1>3 DEF SerializeMessageInto
  <2>2. /\ phase = "sized" /\ message' = message
        /\ phase' = IF HasError(written'.w) THEN "failed" ELSE "written"
    BY <1>3 DEF SerializeMessageInto
  <2>3. size = ComputeSerializedSize(message)
    BY <2>2 DEF FlatInv
  <2>4. QED
    BY <2>1, <2>2, <2>3 DEF FlatInv
<1>4. CASE DeserializeMessageFrom
  BY <1>4 DEF DeserializeMessageFrom, FlatInv
<1>5. CASE UNCHANGED vars
  BY <1>5 DEF vars, FlatInv
<1>6. QED
  BY <1>1, <1>2, <1>3, <1>4, <1>5 DEF Next

(***************************************************************************)
(* The size get_message_size() computes always suffices for a message      *)
(* without nested members or wide strings, whatever its fields, their      *)
(* order and their padding: the writer is never further behind the header  *)
(* than the size calculation.                                              *)
(***************************************************************************)
THEOREM FlatSizeAlwaysSuffices == Spec => []FlatSizeSuffices
<1>1. FlatInv => FlatSizeSuffices
  <2> SUFFICES ASSUME FlatInv, phase = "failed", ~HasNested, ~HasWString PROVE FALSE
    BY DEF FlatSizeSuffices
  <2>1. PICK s \in Slack :
          /\ written = SerializeInto(message, ComputeSerializedSize(message) + s)
          /\ HasError(written.w)
    BY DEF FlatInv
  <2>2. message \in Seq(MemberType) /\ Len(message) \in 0 .. MaxMembers
    BY CodecAssumption DEF FlatInv
  <2>3. ComputeSerializedSize(message) \in Nat /\ s \in Nat
    BY <2>1, <2>2, SizeIsNat, CodecAssumption
  <2> DEFINE c == ComputeSerializedSize(message) + s
  <2>4. c \in Nat /\ ComputeSerializedSize(message) <= c
    BY <2>3
  <2>5. 2 * c + 64 <= SizeMax
    <3>1. message \in [1 .. Len(message) -> Members]
      BY DEF FlatInv
    <3>2. QED
      BY <2>1, <2>2, <3>1, CodecMemoryAssumption
  <2>6. \A k \in 1 .. Len(message) : message[k] \in LeafType /\ message[k].kind # "wstring"
    <3> TAKE k \in 1 .. Len(message)
    <3>1. message[k] \in MemberType /\ message[k] \in Range(message)
      BY <2>2 DEF Range
    <3>2. ~IsNested(message[k])
      BY <3>1 DEF HasNested
    <3>3. message[k] \in AllFields
      BY <3>1, <3>2 DEF AllFields, Fields
    <3>4. message[k].kind # "wstring"
      BY <3>3 DEF HasWString
    <3>5. QED
      BY <3>1, <3>2, <3>4, MemberFields DEF IsNested
  <2> HIDE DEF c
  <2>7. ~SerializeInto(message, c).w.overflow
    BY <2>2, <2>4, <2>5, <2>6, MessageRoom
  <2>8. QED
    BY <2>1, <2>7 DEF HasError, c
<1>2. QED
  BY <1>1, FlatInit, FlatStep, PTL DEF Spec

--------------------------------------------------------------------------------
(***************************************************************************)
(* What was written is the message, into at least the storage it asked     *)
(* for; what was read is that serialization, or the first bytes of it.     *)
(***************************************************************************)
WasWritten ==
  /\ message # <<>>
  /\ \E s \in Slack : written = SerializeInto(message, ComputeSerializedSize(message) + s)
  /\ ~HasError(written.w)

WasRead ==
  /\ cut \in 0 .. DataSize(written.w)
  /\ \E noise \in Noise :
       read = DeserializeFrom(message, written.wire, DataSize(written.w) - cut, noise)

RoundInv ==
  /\ message \in Seq(Members)
  /\ Len(message) <= MaxMembers
  /\ phase = "sized" => message # <<>> /\ size = ComputeSerializedSize(message)
  /\ phase \in {"written", "read"} => WasWritten
  /\ phase = "read" => WasRead

LEMMA RoundInit == Init => RoundInv
<1> SUFFICES ASSUME Init PROVE RoundInv
  OBVIOUS
<1>1. message = <<>> /\ phase = "building"
  BY DEF Init
<1>2. QED
  BY <1>1, CodecAssumption DEF RoundInv

LEMMA RoundStep == RoundInv /\ [Next]_vars => RoundInv'
<1> SUFFICES ASSUME RoundInv, [Next]_vars PROVE RoundInv'
  OBVIOUS
<1>1. CASE AddMember
  <2>1. PICK m \in Members : message' = Append(message, m)
    BY <1>1 DEF AddMember
  <2>2. Len(message) < MaxMembers /\ phase' = "building"
    BY <1>1 DEF AddMember
  <2>3. message' \in Seq(Members) /\ Len(message') = Len(message) + 1
    BY <2>1 DEF RoundInv
  <2>4. Len(message) \in Nat /\ MaxMembers \in Nat
    BY CodecAssumption DEF RoundInv
  <2>5. Len(message') <= MaxMembers
    BY <2>2, <2>3, <2>4
  <2>6. QED
    BY <2>2, <2>3, <2>5 DEF RoundInv
<1>2. CASE GetMessageSize
  BY <1>2 DEF GetMessageSize, RoundInv
<1>3. CASE SerializeMessageInto
  <2>1. PICK s \in Slack : written' = SerializeInto(message, size + s)
    BY <1>3 DEF SerializeMessageInto
  <2>2. /\ phase = "sized" /\ message' = message /\ size' = size
        /\ phase' = IF HasError(written'.w) THEN "failed" ELSE "written"
    BY <1>3 DEF SerializeMessageInto
  <2>3. message # <<>> /\ size = ComputeSerializedSize(message)
    BY <2>2 DEF RoundInv
  <2>4. ASSUME phase' = "written" PROVE WasWritten'
    <3>1. ~HasError(written'.w)
      BY <2>2, <2>4
    <3>2. QED
      BY <2>1, <2>2, <2>3, <3>1 DEF WasWritten
  <2>5. phase' # "sized" /\ phase' # "read"
    BY <2>2
  <2>6. QED
    BY <2>2, <2>4, <2>5 DEF RoundInv
<1>4. CASE DeserializeMessageFrom
  <2>1. PICK c \in 0 .. DataSize(written.w), noise \in Noise :
          /\ cut' = c
          /\ read' = DeserializeFrom(message, written.wire, DataSize(written.w) - c, noise)
    BY <1>4 DEF DeserializeMessageFrom
  <2>2. /\ phase = "written" /\ phase' = "read" /\ message' = message
        /\ size' = size /\ written' = written
    BY <1>4 DEF DeserializeMessageFrom
  <2>3. WasWritten'
    BY <2>2 DEF RoundInv, WasWritten
  <2>4. WasRead'
    BY <2>1, <2>2 DEF WasRead
  <2>5. QED
    BY <2>2, <2>3, <2>4 DEF RoundInv
<1>5. CASE UNCHANGED vars
  BY <1>5 DEF vars, RoundInv, WasWritten, WasRead
<1>6. QED
  BY <1>1, <1>2, <1>3, <1>4, <1>5 DEF Next

\* The storage a message was written to, and that its members are small for it.
LEMMA WrittenSmall ==
  ASSUME RoundInv, WasWritten
  PROVE  \E c \in Nat :
           /\ written = SerializeInto(message, c) /\ c + 64 <= SizeMax
           /\ \A k \in 1 .. Len(message) : SmallMember(message[k], c)
<1>1. PICK s \in Slack : written = SerializeInto(message, ComputeSerializedSize(message) + s)
  BY DEF WasWritten
<1> DEFINE a == ComputeSerializedSize(message)
           c == a + s
<1>2. message \in Seq(MemberType) /\ Len(message) \in 1 .. MaxMembers /\ MaxMembers \in Nat
  <2>1. message \in Seq(Members) /\ message # <<>> /\ Len(message) <= MaxMembers
    BY DEF RoundInv, WasWritten
  <2>2. QED
    BY <2>1, CodecAssumption
<1>3. a \in Nat /\ s \in Nat
  BY <1>1, <1>2, SizeIsNat, CodecAssumption
<1>4. 2 * (a + s) + 64 <= SizeMax
  <2>1. message \in [1 .. Len(message) -> Members]
    BY DEF RoundInv
  <2>2. QED
    BY <1>1, <1>2, <2>1, CodecMemoryAssumption
<1> HIDE DEF a
<1>5. c \in Nat /\ c + 64 <= SizeMax
  BY <1>3, <1>4, SizeMaxAssumption
<1>6. ASSUME NEW k \in 1 .. Len(message) PROVE SmallMember(message[k], c)
  <2> DEFINE m == message[k]
             x == ComputeSerializedSize(<<m>>)
  <2>1. m \in Members /\ m \in MemberType
    BY CodecAssumption DEF RoundInv
  <2>2. <<m>> \in [1 .. 1 -> Members] /\ 1 \in 0 .. MaxMembers
    BY <1>2, <2>1
  <2>3. x \in Nat
    <3>1. <<m>> \in Seq(MemberType)
      BY <2>1
    <3>2. QED
      BY <3>1, SizeIsNat
  <2>4. 2 * (x + s) + 64 <= SizeMax
    BY <1>1, <2>2, CodecMemoryAssumption
  <2> HIDE DEF m
  <2>5. c + x + 64 <= SizeMax
    <3> HIDE DEF x
    <3>1. QED
      BY <1>3, <1>4, <2>3, <2>4, SizeMaxAssumption
  <2>6. SmallMember(m, c)
    BY <1>5, <2>1, <2>5, SmallMemberBySize
  <2>7. QED
    BY <2>6 DEF m
<1>7. QED
  BY <1>1, <1>5, <1>6 DEF a

\* Messages without an empty sequence of wide elements, member by member: their
\* numbers fit the prefixes.
LEMMA MembersHold ==
  ASSUME RoundInv, ~HasWideEmpty
  PROVE  \A k \in 1 .. Len(message) :
           ReadsBack(message[k]) /\ (~HasNested => ~IsNested(message[k]))
<1> TAKE k \in 1 .. Len(message)
<1>1. message[k] \in Range(message)
  BY DEF RoundInv, Range
<1>2. NoWideEmpty(message[k])
  BY <1>1 DEF NoWideEmpty, HasWideEmpty, AllFields
<1>3. PrefixesFit(message[k])
  BY CodecNumberAssumption DEF RoundInv
<1>4. QED
  BY <1>1, <1>2, <1>3 DEF HasNested, ReadsBack

\* What the reader of the bytes that arrived found: in step with the writer, or
\* refused.
LEMMA ReadAlong ==
  ASSUME RoundInv, phase = "read", ~HasWideEmpty, HasNested => cut = 0
  PROVE  /\ written.w.pos \in Nat /\ DataSize(written.w) = written.w.pos
         /\ DataPlace(written.w) = written.w.pos /\ written.w.depth = 0
         /\ cut \in 0 .. written.w.pos
         /\ Along(written, read, written.w.pos - cut)
<1>1. WasWritten /\ WasRead /\ message \in Seq(MemberType) /\ message # <<>>
  BY CodecAssumption DEF RoundInv, WasWritten
<1>2. PICK c \in Nat :
        /\ written = SerializeInto(message, c) /\ c + 64 <= SizeMax
        /\ \A k \in 1 .. Len(message) : SmallMember(message[k], c)
  BY <1>1, WrittenSmall
<1> DEFINE f == written
           msg == message
<1>3. PICK noise \in Noise : read = DeserializeFrom(msg, f.wire, DataSize(f.w) - cut, noise)
  BY <1>1 DEF WasRead
<1>4. ~f.w.overflow /\ noise \in Nat /\ cut \in 0 .. DataSize(f.w)
  BY <1>1, CodecAssumption DEF WasWritten, WasRead, HasError
<1>5. /\ msg \in Seq(MemberType) /\ msg # <<>> /\ f = SerializeInto(msg, c) /\ c + 64 <= SizeMax
      /\ \A k \in 1 .. Len(msg) : SmallMember(msg[k], c) /\ ReadsBack(msg[k])
      /\ cut # 0 => \A k \in 1 .. Len(msg) : ~IsNested(msg[k])
  BY <1>1, <1>2, MembersHold
<1> HIDE DEF f, msg
<1>6. Poised(f, c) /\ f.w.header /\ f.w.depth = 0
  BY <1>4, <1>5, MessageWritten
<1>7. f.w.pos \in Nat /\ DataSize(f.w) = f.w.pos /\ DataPlace(f.w) = f.w.pos
  BY <1>6, ReadyPlace DEF Poised, DataSize, Cursor, DataPlace
<1> DEFINE N == f.w.pos - cut
<1>8. N \in Nat /\ (cut = 0 => N = f.w.pos) /\ cut \in 0 .. f.w.pos
  BY <1>4, <1>7
<1>9. \A k \in 1 .. Len(msg) : IsNested(msg[k]) => DataPlace(f.w) <= N
  BY <1>5, <1>7, <1>8
<1>10. read = DeserializeFrom(msg, f.wire, N, noise)
  BY <1>3, <1>7
<1> HIDE DEF N
<1>11. Along(f, read, N)
  BY <1>4, <1>5, <1>8, <1>9, <1>10, MessageAlong
<1>12. QED
  BY <1>6, <1>7, <1>8, <1>11 DEF f, N

(***************************************************************************)
(* A message that arrives whole is read back whole, whatever its members   *)
(* as long as their numbers fit 32-bit prefixes (CodecNumberAssumption),   *)
(* and whatever storage beyond get_message_size() it was given: every      *)
(* read of deserialize_message_from() begins where serialize_message_      *)
(* into() began the write of that field, strings in sequences and fields   *)
(* of nested messages included, and the reader ends where the writer did.  *)
(* Only messages with an empty sequence of wide elements are excepted.     *)
(***************************************************************************)
THEOREM CopiesRoundTrip == Spec => []RoundTrip
<1>1. RoundInv => RoundTrip
  <2> SUFFICES ASSUME RoundInv, phase = "read", cut = 0, ~HasWideEmpty PROVE ReadInStep
    BY DEF RoundTrip
  <2>1. /\ written.w.pos \in Nat /\ DataSize(written.w) = written.w.pos
        /\ DataPlace(written.w) = written.w.pos /\ written.w.depth = 0
        /\ Along(written, read, written.w.pos - cut)
    BY ReadAlong
  <2>2. written.w.pos - cut = written.w.pos
    BY <2>1
  <2>3. InStep(written, read)
    BY <2>1, <2>2 DEF Along
  <2>4. QED
    BY <2>1, <2>3 DEF InStep, ReadInStep
<1>2. QED
  BY <1>1, RoundInit, RoundStep, PTL DEF Spec

(***************************************************************************)
(* A message without nested members that lost any of its last bytes is     *)
(* refused by deserialize_message_from(), whatever its fields, with        *)
(* numbers that fit 32-bit prefixes (CodecNumberAssumption), and whatever  *)
(* the bytes behind the cut say: a reader that answers OK is where the     *)
(* writer ended, and that is not within what arrived.                      *)
(***************************************************************************)
THEOREM FlatLossAlwaysNoticed == Spec => []FlatLossIsNoticed
<1>1. RoundInv => FlatLossIsNoticed
  <2> SUFFICES ASSUME RoundInv, phase = "read", cut > 0, ~HasNested, ~HasWideEmpty, read.ok
               PROVE  FALSE
    BY DEF FlatLossIsNoticed
  <2> DEFINE N == written.w.pos - cut
  <2>1. /\ written.w.pos \in Nat /\ cut \in 0 .. written.w.pos
        /\ DataPlace(written.w) = written.w.pos /\ Along(written, read, N)
    BY ReadAlong
  <2>2. read.r.pos = written.w.pos /\ read \in Arrived(N)
    BY <2>1 DEF Along, InStep
  <2>3. read.r.pos <= N
    BY <2>2 DEF Arrived, InBuffer
  <2>4. QED
    BY <2>1, <2>2, <2>3
<1>2. QED
  BY <1>1, RoundInit, RoundStep, PTL DEF Spec

================================================================================
