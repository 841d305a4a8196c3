----------------------------- MODULE ZeroCopyPath -----------------------------
(***************************************************************************)
(* The zero-copy path of a message type with constraints, end to end:      *)
(* create_constrained caches a layout that reserves every field's bound,   *)
(* construct_message_at() writes the length prefixes of the bounds into    *)
(* the loaned block and points a message view at it, the application fills *)
(* the view, compact_message_in_place() moves the data together inside the *)
(* block and gives it back, and a receiver reads it, either by casting a   *)
(* view of its own onto the bytes or by copying them out.                  *)
(*                                                                         *)
(* Members are those of GeneratedCodec; a string or sequence also has the  *)
(* `bound` it was constrained to, and `strings` the bound of its elements  *)
(* (`charBound`). The block is a function from offsets to cells, so what a *)
(* move overwrites is lost. memcpy is taken to copy as memmove does when   *)
(* source and destination overlap.                                         *)
(***************************************************************************)
EXTENDS GeneratedCodec, LayoutParserOps

CONSTANTS
  Members,      \* the members messages are made of
  MaxMembers,   \* bound: members of a message
  Noise         \* what 4 bytes that are no prefix may hold

\* Fields of a constrained type without nested messages, and of any.
ConstrainedLeaf ==
  [kind : {"primitive"}, size : PrimitiveSizes]
    \cup [kind : {"array"}, size : PrimitiveSizes, count : Nat \ {0}]
    \cup [kind : {"string"}, chars : Nat, bound : Nat, checked : {TRUE}]
    \cup [kind : {"sequence"}, size : PrimitiveSizes, count : Nat, bound : Nat, checked : {TRUE}]

ConstrainedMember ==
  ConstrainedLeaf
    \cup [kind : {"strings"}, count : Nat, chars : Nat, bound : Nat, charBound : Nat]
    \cup [kind : {"nested"}, fields : Seq(ConstrainedLeaf) \ {<<>>}]

ASSUME PathAssumption ==
  Members \subseteq ConstrainedMember /\ MaxMembers \in Nat /\ Noise \subseteq Nat

VARIABLES
  phase,      \* "defining", "loaned", "filled", "compacting", "sent", "failed", "received"
  message,    \* the members, with bounds and actual sizes
  layout,     \* cached_layout of the constrained handle
  memory,     \* the block
  writer,     \* the compaction's XCdrWriter
  emitFrom,   \* the first leaf it wrote; 0 while `emit` is false
  next,       \* the leaf it visits next
  region,     \* bytes of the block that are sent
  received    \* how it was received, the status, where each leaf was found

vars == <<phase, message, layout, memory, writer, emitFrom, next, region, received>>

--------------------------------------------------------------------------------
(* Leaves: what a traversal of the message visits, in order *)

\* Elements of a sequence of strings are never checked against their bound.
Elements(m) ==
  [i \in 1 .. m.count |->
     [kind |-> "string", chars |-> m.chars, bound |-> m.charBound, checked |-> FALSE]]

LeavesOf(m) ==
  CASE m.kind = "nested" -> m.fields
    [] m.kind = "strings" ->
         <<[kind |-> "count", count |-> m.count, bound |-> m.bound, checked |-> TRUE]>>
           \o Elements(m)
    [] OTHER -> <<m>>

Leaves(msg) == FlattenSeq([i \in 1 .. Len(msg) |-> LeavesOf(msg[i])])

Prefixed4(leaf) == leaf.kind \in {"string", "sequence", "count"}

FieldAlignment(leaf) == IF Prefixed4(leaf) THEN PrefixSize ELSE leaf.size

\* The size a bound applies to, the length a size makes, and what a prefix stores of it.
Actual(leaf) == IF leaf.kind = "string" THEN leaf.chars ELSE leaf.count

Length(leaf, n) == IF leaf.kind = "string" THEN n + 1 ELSE n

Number(leaf, n) == AsUint32(Length(leaf, n))

\* Bytes of content, terminator not included.
Bytes(leaf) ==
  CASE leaf.kind = "primitive" -> leaf.size
    [] leaf.kind \in {"array", "sequence"} -> leaf.size * leaf.count
    [] leaf.kind = "string" -> leaf.chars
    [] leaf.kind = "count" -> 0

--------------------------------------------------------------------------------
(* The cells of the block *)

Junk == [what |-> "junk", of |-> 0, byte |-> 0]
NumberCells(n) == [k \in 0 .. 3 |-> [what |-> "number", of |-> n, byte |-> k]]
DataCells(i, leaf) == [k \in 0 .. (Bytes(leaf) - 1) |-> [what |-> "data", of |-> i, byte |-> k]]

\* Stores outside the block are lost to the model, loads there find junk.
Cell(mem, o) == IF o \in DOMAIN mem THEN mem[o] ELSE Junk

Put(mem, at, n, cell(_)) ==
  [o \in DOMAIN mem |-> IF o \in at .. (at + n - 1) THEN cell(o - at) ELSE mem[o]]

PutNumber(mem, at, n) == Put(mem, at, PrefixSize, LAMBDA k : NumberCells(n)[k])

Clear(mem, from, to) == Put(mem, from, to - from, LAMBDA k : Junk)

NumberStoredAt(mem, at, n) ==
  \A k \in 0 .. 3 : at + k \in DOMAIN mem /\ mem[at + k] = NumberCells(n)[k]

\* The prefixes a reader of the first `size` bytes finds.
WireOf(mem, size) ==
  LET starts == {o \in DOMAIN mem :
                   o + 3 < size /\ mem[o].what = "number" /\ NumberStoredAt(mem, o, mem[o].of)}
  IN [o \in starts |-> mem[o].of]

\* The bytes from `content` on are those the application gave leaf i.
ContentAt(mem, i, leaf, content) ==
  \A k \in 0 .. (Bytes(leaf) - 1) : Cell(mem, content + k) = DataCells(i, leaf)[k]

--------------------------------------------------------------------------------
(* build_layout_fields and parse_fields of the generated type *)

LayoutLeaf(b, m) ==
  CASE m.kind = "primitive" -> Allocate(b, PrimitiveLayout(m.size))
    [] m.kind = "array" -> AllocateInOneShot(b, PrimitiveArrayLayout(m.size, m.count))
    [] m.kind = "string" -> Allocate(b, StringLayout(m.bound, 1))
    [] m.kind = "sequence" -> AllocateInOneShot(b, PrimitiveSequenceLayout(m.size, m.bound))

LayoutMember(b, m) ==
  CASE m.kind = "nested" -> EndStruct(FoldLeft(LayoutLeaf, BeginStruct(b), m.fields))
    [] m.kind = "strings" ->
         EndSequence(Allocate(BeginSequence(b, m.bound), StringLayout(m.charBound, 1)))
    [] OTHER -> LayoutLeaf(b, m)

LayoutOf(msg) == Finalize(FoldLeft(LayoutMember, NewBuilder, msg))

\* A message that exists: its block and what a field has elsewhere, in memory at
\* the same time, are far from what a size_t can count.
ASSUME MemoryAssumption ==
  \A n \in 1 .. MaxMembers : \A msg \in [1 .. n -> Members] :
    \A leaf \in Range(Leaves(msg)) : LayoutOf(msg).size + Bytes(leaf) + 64 <= SizeMax

\* Every length fits its prefix. A message with a longer field is not delivered.
ASSUME LengthAssumption ==
  \A m \in Members : \A leaf \in Range(LeavesOf(m)) :
    Prefixed4(leaf) => Length(leaf, Actual(leaf)) <= NumberMax

ParseLeaf(p, m, wire, noise) ==
  CASE m.kind = "primitive" -> ParsePrimitive(p, m.size)
    [] m.kind = "array" -> ParsePrimitiveArray(p, m.size, m.count)
    [] m.kind = "string" -> ParseString(p, 1, wire, noise)
    [] m.kind = "sequence" -> ParsePrimitiveSequence(p, m.size, 0, wire, noise)

\* One string is parsed whatever the count of the sequence.
ParseMember(p, m, wire, noise) ==
  CASE m.kind = "nested" ->
         EndParseStruct(FoldLeft(LAMBDA q, f : ParseLeaf(q, f, wire, noise),
                                 BeginParseStruct(p), m.fields))
    [] m.kind = "strings" ->
         EndParseSequence(ParseString(BeginParseSequence(p, wire, noise), 1, wire, noise))
    [] OTHER -> ParseLeaf(p, m, wire, noise)

ParsedLayout(msg, wire, size, noise) ==
  Finalize(FoldLeft(LAMBDA p, m : ParseMember(p, m, wire, noise), NewParser(size), msg).b)

--------------------------------------------------------------------------------
(* populate_external_storage: where a layout puts each leaf *)

\* Content begins right behind the prefix, whatever its alignment.
LeafPlace(leaf, base) ==
  [at |-> base, content |-> IF Prefixed4(leaf) THEN base + PrefixSize ELSE base]

PlacesOf(m, member, base) ==
  LET at == base + member.offset
  IN CASE m.kind = "nested" ->
            [i \in 1 .. Len(m.fields) |->
               LeafPlace(m.fields[i], at + member.layout.members[i].offset)]
       [] m.kind = "strings" ->
            [i \in 1 .. (m.count + 1) |->
               LeafPlace(LeavesOf(m)[i],
                         IF i = 1 THEN at
                         ELSE at + PrefixSize + ElementOffset(member.layout, i - 2))]
       [] OTHER -> <<LeafPlace(m, at)>>

Places(msg, l) ==
  FlattenSeq([i \in 1 .. Len(msg) |-> PlacesOf(msg[i], l.members[i], HeaderSize)])

\* The members a parse has to leave behind for its accessor to find every leaf.
Describes(msg, l) ==
  /\ Len(l.members) = Len(msg)
  /\ \A i \in 1 .. Len(msg) :
       /\ l.members[i].layout.kind = (IF msg[i].kind = "nested" THEN "struct" ELSE msg[i].kind)
       /\ msg[i].kind = "nested" => Len(l.members[i].layout.members) = Len(msg[i].fields)
       /\ msg[i].kind = "strings" => l.members[i].layout.count = msg[i].count

--------------------------------------------------------------------------------
(* XCdrStructLayout::apply(): prefixes of members, never of their elements *)

ApplyMember(mem, base, m) ==
  LET at == base + m.offset
  IN CASE m.layout.kind = "string" -> PutNumber(mem, at, AsUint32(m.layout.chars + 1))
       [] m.layout.kind \in {"sequence", "strings"} -> PutNumber(mem, at, AsUint32(m.layout.count))
       [] OTHER -> mem

Apply(l) ==
  LET block == [o \in 0 .. (l.size - 1) |-> Junk]
  IN FoldLeft(LAMBDA mem, m :
                IF m.layout.kind = "struct"
                THEN FoldLeft(LAMBDA x, f : ApplyMember(x, HeaderSize + m.offset, f),
                              mem, m.layout.members)
                ELSE ApplyMember(mem, HeaderSize, m),
              block, l.members)

--------------------------------------------------------------------------------
(* compact_fields *)

Emit == emitFrom # 0

Oversized(leaf) == Prefixed4(leaf) /\ leaf.checked /\ Actual(leaf) > leaf.bound

\* Mutant: only strings are looked at.
UndersizedStringsOnly(leaf) == leaf.kind = "string" /\ leaf.checked /\ Actual(leaf) < leaf.bound

Undersized(leaf) == Prefixed4(leaf) /\ leaf.checked /\ Actual(leaf) < leaf.bound

\* A nested message met while writing goes to serialize_fields, which checks no bound.
GoesToSerializeFields(i) ==
  \E k \in 1 .. Len(message) :
    LET first == Len(Leaves(SubSeq(message, 1, k - 1))) + 1
    IN /\ message[k].kind = "nested"
       /\ i \in first .. (first + Len(message[k].fields) - 1)
       /\ emitFrom \in 1 .. (first - 1)

Violates(i) == Oversized(Leaves(message)[i]) /\ ~GoesToSerializeFields(i)

\* Where content goes behind what begins at `at`.
ContentBehind(leaf, at) ==
  IF leaf.kind = "sequence" THEN DataAlign(at + PrefixSize, leaf.size)
  ELSE LeafPlace(leaf, at).content

SkipLeaf(s, m) ==
  CASE m.kind = "primitive" -> Unprefixed(s, Skip(s.w, m.size), m.size)
    [] m.kind = "array" -> Unprefixed(s, SkipArray(s.w, m.size, m.count), m.size)
    [] m.kind = "string" -> Prefixed(s, SkipString(s.w, m.chars), m.chars + 1)
    [] m.kind = "sequence" -> Prefixed(s, SkipSequence(s.w, m.size, m.count), m.count)
    [] m.kind = "count" -> Prefixed(s, EndWrite(BeginSkipSequence(s.w)), m.count)

\* The context of a sequence of strings, which nothing reads, is closed at once.
EmitLeaf(s, m) ==
  IF m.kind = "count" THEN Prefixed(s, EndWrite(BeginWriteSequence(s.w)), m.count)
  ELSE WriteLeaf(s, m)

\* The block once a leaf is written at the cursor: padding, prefix, content from
\* the view, terminator. A primitive is loaded before anything is stored. What
\* exceeded its slot comes from elsewhere.
Rewritten(mem, cursor, i, leaf, source) ==
  LET at       == DataAlign(cursor, FieldAlignment(leaf))
      content  == IF Bytes(leaf) = 0 THEN at + PrefixSize ELSE ContentBehind(leaf, at)
      padded   == Clear(mem, cursor, at)
      prefixed == IF Prefixed4(leaf)
                  THEN Clear(PutNumber(padded, at, Number(leaf, Actual(leaf))),
                             at + PrefixSize, content)
                  ELSE padded
      from     == IF leaf.kind = "primitive" THEN mem ELSE prefixed
      copied   == Put(prefixed, content, Bytes(leaf), LAMBDA k : IF Oversized(leaf) THEN DataCells(i, leaf)[k]
                                  ELSE Cell(from, source + k))
      end      == content + Bytes(leaf)
  IN IF leaf.kind = "string" THEN Clear(copied, end, end + 1) ELSE copied

--------------------------------------------------------------------------------
NoLayout == LayoutOf(<<>>)
NoWriter == SerializeInto(<<>>, 0)
NotReceived == [by |-> "none", ok |-> FALSE, places |-> <<>>]

Init ==
  /\ phase = "defining"
  /\ message = <<>>
  /\ layout = NoLayout
  /\ memory = Apply(NoLayout)
  /\ writer = NoWriter
  /\ emitFrom = 0
  /\ next = 1
  /\ region = 0
  /\ received = NotReceived

DefineMember ==
  /\ phase = "defining"
  /\ Len(message) < MaxMembers
  /\ \E m \in Members : message' = Append(message, m)
  /\ UNCHANGED <<phase, layout, memory, writer, emitFrom, next, region, received>>

\* create_constrained, then construct_message_at() in a block of total_size() bytes.
ConstructMessageAt ==
  /\ phase = "defining"
  /\ message # <<>>
  /\ layout' = LayoutOf(message)
  /\ memory' = Apply(layout')
  /\ phase' = "loaned"
  /\ UNCHANGED <<message, writer, emitFrom, next, region, received>>

\* The application assigns every field; what exceeds its slot lives elsewhere.
Filled(mem, i) ==
  LET leaf    == Leaves(message)[i]
      content == Places(message, layout)[i].content
      data    == Put(mem, content, Bytes(leaf), LAMBDA k : DataCells(i, leaf)[k])
      end     == content + Bytes(leaf)
  IN IF Oversized(leaf) THEN mem
     ELSE IF leaf.kind = "string" THEN Clear(data, end, end + 1) ELSE data

Fill ==
  /\ phase = "loaned"
  /\ memory' = FoldLeft(Filled, memory, [i \in 1 .. Len(Leaves(message)) |-> i])
  /\ phase' = "filled"
  /\ UNCHANGED <<message, layout, writer, emitFrom, next, region, received>>

CompactMessageInPlace ==
  /\ phase = "filled"
  /\ writer' = [NoWriter EXCEPT !.w = FixedSpanAt(layout.size, HeaderSize)]
  /\ phase' = "compacting"
  /\ UNCHANGED <<message, layout, memory, emitFrom, next, region, received>>

\* A bound violation ends the traversal; the message is not consumed.
RefuseLeaf ==
  /\ phase = "compacting"
  /\ next <= Len(Leaves(message))
  /\ Violates(next)
  /\ phase' = "failed"
  /\ UNCHANGED <<message, layout, memory, writer, emitFrom, next, region, received>>

\* Mutant: the leaf that was found undersized is still skipped.
CompactLeafFlipsLate ==
  LET leaf    == Leaves(message)[next]
      source  == Places(message, layout)[next].content
      written == EmitLeaf(writer, leaf)
  IN /\ phase = "compacting"
     /\ next <= Len(Leaves(message))
     /\ ~Violates(next)
     /\ emitFrom' = IF ~Emit /\ Undersized(leaf) THEN next ELSE emitFrom
     /\ writer' = IF Emit THEN written ELSE SkipLeaf(writer, leaf)
     /\ memory' = IF Emit /\ ~HasError(writer'.w)
                  THEN Rewritten(memory, Cursor(writer.w), next, leaf, source) ELSE memory
     /\ next' = next + 1
     /\ UNCHANGED <<phase, message, layout, region, received>>

\* The first undersized leaf and all after it are rewritten, those before skipped.
CompactLeaf ==
  LET leaf    == Leaves(message)[next]
      source  == Places(message, layout)[next].content
      written == EmitLeaf(writer, leaf)
  IN /\ phase = "compacting"
     /\ next <= Len(Leaves(message))
     /\ ~Violates(next)
     /\ emitFrom' = IF ~Emit /\ Undersized(leaf) THEN next ELSE emitFrom
     /\ writer' = IF emitFrom' # 0 THEN written ELSE SkipLeaf(writer, leaf)
     /\ memory' = IF emitFrom' # 0 /\ ~HasError(writer'.w)
                  THEN Rewritten(memory, Cursor(writer.w), next, leaf, source) ELSE memory
     /\ next' = next + 1
     /\ UNCHANGED <<phase, message, layout, region, received>>

\* Mutant: the header is counted on top of a block that includes it.
FinishCompactionHeaderTwice ==
  /\ phase = "compacting"
  /\ next > Len(Leaves(message))
  /\ region' = IF ~Emit THEN HeaderSize + layout.size
               ELSE IF HasError(writer.w) THEN 0 ELSE BytesWritten(writer.w)
  /\ phase' = IF Emit /\ HasError(writer.w) THEN "failed" ELSE "sent"
  /\ UNCHANGED <<message, layout, memory, writer, emitFrom, next, received>>

\* Released as it is, or as far as the rewrite got; a failed rewrite consumes nothing.
FinishCompaction ==
  /\ phase = "compacting"
  /\ next > Len(Leaves(message))
  /\ region' = IF ~Emit THEN layout.size
               ELSE IF HasError(writer.w) THEN 0 ELSE BytesWritten(writer.w)
  /\ phase' = IF Emit /\ HasError(writer.w) THEN "failed" ELSE "sent"
  /\ UNCHANGED <<message, layout, memory, writer, emitFrom, next, received>>

Cast(l) ==
  LET ok == region >= l.size /\ Describes(message, l)
  IN [by |-> "cast", ok |-> ok, places |-> IF ok THEN Places(message, l) ELSE <<>>]

\* cast_message_at(): fails or throws unless the parse found every member.
CastMessageAt ==
  /\ phase = "sent"
  /\ \E noise \in Noise :
       received' = Cast(ParsedLayout(message, WireOf(memory, region), region, noise))
  /\ phase' = "received"
  /\ UNCHANGED <<message, layout, memory, writer, emitFrom, next, region>>

CopiedLeaf(i, at) == [at |-> at, content |-> ContentBehind(Leaves(message)[i], at)]

Copied(d) ==
  LET ok == d.ok /\ Len(d.at) = Len(Leaves(message))
  IN [by |-> "copy", ok |-> ok,
      places |-> IF ok THEN [i \in 1 .. Len(d.at) |-> CopiedLeaf(i, d.at[i])] ELSE <<>>]

\* deserialize_message_from() on the same bytes.
DeserializeMessageFrom ==
  /\ phase = "sent"
  /\ \E noise \in Noise :
       received' = Copied(DeserializeFrom(message, WireOf(memory, region), region, noise))
  /\ phase' = "received"
  /\ UNCHANGED <<message, layout, memory, writer, emitFrom, next, region>>

Next ==
  \/ DefineMember \/ ConstructMessageAt \/ Fill
  \/ CompactMessageInPlace \/ RefuseLeaf \/ CompactLeaf \/ FinishCompaction
  \/ CastMessageAt \/ DeserializeMessageFrom

Spec == Init /\ [][Next]_vars

--------------------------------------------------------------------------------
Phases ==
  {"defining", "loaned", "filled", "compacting", "failed", "sent", "received"}

\* With the bounds the traversal and the region obey.
TypeOK ==
  /\ phase \in Phases
  /\ message \in Seq(Members)
  /\ DOMAIN memory = 0 .. (layout.size - 1)
  /\ next \in 1 .. (Len(Leaves(message)) + 1)
  /\ region \in 0 .. layout.size
  /\ emitFrom \in 0 .. (next - 1)
  /\ writer.w.pos \in 0 .. layout.size
  /\ received.ok \in BOOLEAN

LeafIndices == 1 .. Len(Leaves(message))

\* A nested message of primitives and strings that starts with its widest field.
WidestFirst(m) ==
  m.kind = "nested" =>
    \A f \in Range(m.fields) :
      /\ f.kind \in {"primitive", "string"}
      /\ FieldAlignment(f) <= FieldAlignment(m.fields[1])

(***************************************************************************)
(* The types the layout, the writer and both readers place alike: no       *)
(* sequence of elements wider than its prefix, no sequence of strings, no  *)
(* string whose size is not checked against its bound, nested messages     *)
(* only where their alignment is that of their first field, and nothing in *)
(* them beyond its bound.                                                  *)
(***************************************************************************)
NoWideSequence == \A leaf \in Range(Leaves(message)) : leaf.kind = "sequence" => leaf.size <= PrefixSize
NoStrings      == \A m \in Range(message) : m.kind # "strings"
AllChecked     == \A leaf \in Range(Leaves(message)) : Prefixed4(leaf) => leaf.checked
NestedAligned  == \A m \in Range(message) : WidestFirst(m)
NestedInBounds ==
  \A m \in Range(message) : m.kind = "nested" => \A f \in Range(m.fields) : ~Oversized(f)

Plain == NoWideSequence /\ NoStrings /\ AllChecked /\ NestedAligned /\ NestedInBounds

Delivered ==
  /\ received.ok
  /\ \A i \in LeafIndices :
       LET leaf == Leaves(message)[i]
           p    == received.places[i]
       IN /\ Prefixed4(leaf) => NumberStoredAt(memory, p.at, Length(leaf, Actual(leaf)))
          /\ ContentAt(memory, i, leaf, p.content)
          /\ p.content + Bytes(leaf) <= region

(***************************************************************************)
(* What the application wrote into a loaned message of a plain type is     *)
(* what a receiver finds, field for field, whichever fields were           *)
(* undersized and from wherever the block was rewritten: one that casts    *)
(* the region finds it in its view, and one that copies, whose reader      *)
(* knows nothing of layouts or bounds, finds it too.                       *)
(***************************************************************************)
Delivers == received.by # "none" /\ Plain => Delivered

(***************************************************************************)
(* The rewrite moves data towards the front of the very block it reads     *)
(* from: no store of it, padding and terminators included, may destroy a   *)
(* field that the traversal has not reached yet.                           *)
(***************************************************************************)
RewriteSparesTheRest ==
  phase \in {"filled", "compacting"} /\ Plain =>
    \A i \in LeafIndices :
      i >= next /\ ~Oversized(Leaves(message)[i]) =>
        ContentAt(memory, i, Leaves(message)[i], Places(message, layout)[i].content)

SentLike(s) == ~HasError(s.w) /\ writer.at = s.at /\ region = DataSize(s.w)

(***************************************************************************)
(* Compaction and serialization agree: the region sent, skipped in part,   *)
(* rewritten in part or released untouched, ends exactly where             *)
(* serialize_message_into() would have ended, header included, with every  *)
(* field at the same offset.                                               *)
(***************************************************************************)
CompactsAsSerialized ==
  phase \in {"sent", "received"} /\ Plain => SentLike(SerializeInto(message, layout.size))

--------------------------------------------------------------------------------
(***************************************************************************)
(* "an undersized variable-length field anywhere in the nested tree must   *)
(* force the compact rewrite" (msg__type_support.cpp.em:1657): the         *)
(* elements of sequences of strings are such fields.                       *)
(***************************************************************************)
UndersizedForcesRewrite ==
  phase = "sent" /\ ~Emit =>
    \A leaf \in Range(Leaves(message)) : Prefixed4(leaf) => Actual(leaf) = leaf.bound
================================================================================
