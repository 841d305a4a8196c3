------------------------------ MODULE MessageCodec -----------------------------
(***************************************************************************)
(* The copying path of a generated message type, end to end: a message is  *)
(* built, get_message_size() says how much storage it needs, the message   *)
(* is serialized into storage of that size or of more, and the bytes, all  *)
(* of them or the first few, are deserialized into another message.        *)
(***************************************************************************)
EXTENDS GeneratedCodec

CONSTANTS
  Members,       \* the members messages are made of
  MaxMembers,    \* bound: members of a message
  Slack,         \* storage handed out beyond get_message_size()
  Noise          \* what 4 bytes that are no prefix may hold

ASSUME CodecAssumption ==
  /\ Members \subseteq MemberType
  /\ MaxMembers \in Nat
  /\ Slack \subseteq Nat
  /\ Noise \subseteq Nat

\* Storage handed out is less than half of what size_t counts, as any object is.
ASSUME CodecMemoryAssumption ==
  \A n \in 0 .. MaxMembers : \A msg \in [1 .. n -> Members] : \A s \in Slack :
    2 * (ComputeSerializedSize(msg) + s) + 64 <= SizeMax

\* Every number fits its prefix. A message with a longer member is not read back.
ASSUME CodecNumberAssumption == \A m \in Members : PrefixesFit(m)

VARIABLES
  phase,       \* "building", "sized", "written", "failed", "read"
  message,     \* the members so far
  size,        \* what get_message_size() answered
  written,     \* writer, wire and field positions of the serialization
  cut,         \* bytes that do not arrive
  read         \* reader, return code and field positions of the deserialization

vars == <<phase, message, size, written, cut, read>>

--------------------------------------------------------------------------------
Nothing == SerializeInto(<<>>, 0)
Unread == [r |-> Wrap(0, TRUE), ok |-> FALSE, at |-> <<>>]

Init ==
  /\ phase = "building"
  /\ message = <<>>
  /\ size = 0
  /\ written = Nothing
  /\ cut = 0
  /\ read = Unread

AddMember ==
  /\ phase = "building"
  /\ Len(message) < MaxMembers
  /\ \E m \in Members : message' = Append(message, m)
  /\ UNCHANGED <<phase, size, written, cut, read>>

GetMessageSize ==
  /\ phase = "building"
  /\ message # <<>>
  /\ size' = ComputeSerializedSize(message)
  /\ phase' = "sized"
  /\ UNCHANGED <<message, written, cut, read>>

SerializeMessageInto ==
  /\ phase = "sized"
  /\ \E s \in Slack : written' = SerializeInto(message, size + s)
  /\ phase' = IF HasError(written'.w) THEN "failed" ELSE "written"
  /\ UNCHANGED <<message, size, cut, read>>

\* The storage reaches the other side, perhaps without its last bytes.
DeserializeMessageFrom ==
  /\ phase = "written"
  /\ \E c \in 0 .. DataSize(written.w), noise \in Noise :
       /\ cut' = c
       /\ read' = DeserializeFrom(message, written.wire, DataSize(written.w) - c, noise)
  /\ phase' = "read"
  /\ UNCHANGED <<message, size, written>>

Next == AddMember \/ GetMessageSize \/ SerializeMessageInto \/ DeserializeMessageFrom

Spec == Init /\ [][Next]_vars

--------------------------------------------------------------------------------
AllFields == UNION {Fields(m) : m \in Range(message)}
HasNested == \E m \in Range(message) : IsNested(m)
HasWString == \E f \in AllFields : f.kind = "wstring"

HasWideEmpty == \E f \in AllFields : WideEmpty(f)

ReadInStep ==
  /\ read.ok
  /\ read.at = written.at
  /\ read.r.pos = DataSize(written.w)
  /\ read.r.depth = 0

(***************************************************************************)
(* A message that arrives whole is read back whole: every field, strings   *)
(* in sequences and nested messages included, is read from the position it *)
(* was written to and the reader ends where the writer did. Messages with  *)
(* an empty sequence of wide elements are the exception.                   *)
(***************************************************************************)
RoundTrip ==
  phase = "read" /\ cut = 0 /\ ~HasWideEmpty => ReadInStep

(***************************************************************************)
(* "Sequences: Align to 4 bytes (for length prefix), then elements align   *)
(* individually" (README.md:228): where there is no element nothing is     *)
(* aligned, so messages with empty sequences are read back too.            *)
(***************************************************************************)
EmptySequencesRoundTrip == phase = "read" /\ cut = 0 => ReadInStep

(***************************************************************************)
(* The reader never moves out of the buffer it was given, whatever number  *)
(* it finds in a prefix and whether or not errors are dropped on the way.  *)
(***************************************************************************)
ReaderStaysInBuffer == phase = "read" => read.r.pos <= read.r.size

(***************************************************************************)
(* A message without nested members that lost its last bytes is refused:   *)
(* whatever follows the cut, deserialize_message_from() does not answer OK *)
(* for fields it could not read. (A reader that lost step behind an empty  *)
(* sequence of wide elements may find anything.)                           *)
(***************************************************************************)
FlatLossIsNoticed ==
  phase = "read" /\ cut > 0 /\ ~HasNested /\ ~HasWideEmpty => ~read.ok

(***************************************************************************)
(* "\return RCUTILS_RET_OK on success, or RCUTILS_RET_ERROR"               *)
(* (message_type_support.h:135): OK means that every field was read, in    *)
(* messages with nested members too.                                       *)
(***************************************************************************)
LossIsNoticed == phase = "read" /\ read.ok => Len(read.at) = Len(written.at)

(***************************************************************************)
(* Storage of get_message_size() bytes is enough for a message without     *)
(* nested members or wide strings, whatever padding its fields need.       *)
(***************************************************************************)
FlatSizeSuffices == phase = "failed" => HasNested \/ HasWString

(***************************************************************************)
(* "Compute the actual serialized size of a given message"                 *)
(* (message_type_support.h:84), with nested members that start unaligned.  *)
(***************************************************************************)
NestedSizeSuffices == phase = "failed" => HasWString
================================================================================
