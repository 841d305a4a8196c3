----------------------------- MODULE GeneratedCodec ----------------------------
(***************************************************************************)
(* What the template generates for the copying path of a message type:     *)
(* get_message_size(), serialize_fields and deserialize_fields, as folds   *)
(* over the members of a message.                                          *)
(*                                                                         *)
(* A message is a sequence of members, each a record with a `kind` and the *)
(* sizes that decide positions. A nested member holds the fields of        *)
(* another message type; one level of nesting stands for any.              *)
(***************************************************************************)
EXTENDS XcdrWriterOps, XcdrReaderOps, Sequences, FiniteSets, SequencesExt

\* The members of a message type without nested messages, and of any type, that
\* may carry the bounds of a constrained type. An array has at least one element,
\* a bool is one byte; rosidl gives a message without members one that stands for
\* none.
LeafType ==
  [kind : {"primitive"}, size : PrimitiveSizes]
    \cup [kind : {"string", "wstring"}, chars : Nat]
    \cup [kind : {"array"}, size : PrimitiveSizes, count : Nat \ {0}]
    \cup [kind : {"sequence"}, size : PrimitiveSizes, count : Nat]
    \cup [kind : {"bools"}, size : {1}, count : Nat]
    \cup [kind : {"strings"}, count : Nat, chars : Nat]
    \cup [kind : {"string"}, chars : Nat, bound : Nat, checked : BOOLEAN]
    \cup [kind : {"sequence"}, size : PrimitiveSizes, count : Nat, bound : Nat, checked : BOOLEAN]
    \cup [kind : {"strings"}, count : Nat, chars : Nat, bound : Nat, charBound : Nat]

MemberType ==
  LeafType
    \cup [kind : {"nested"}, fields : Seq(LeafType) \ {<<>>}]
    \cup [kind : {"nestedSequence"}, count : Nat, fields : Seq(LeafType) \ {<<>>}]

IsNested(m) == m.kind \in {"nested", "nestedSequence"}

Fields(m) == IF IsNested(m) THEN Range(m.fields) ELSE {m}

\* An empty sequence of elements wider than its own prefix.
WideEmpty(f) == f.kind = "sequence" /\ f.count = 0 /\ f.size > PrefixSize

\* Every number that writing a field puts into a prefix fits it.
LeafFits(f) ==
  CASE f.kind = "string" -> f.chars + 1 <= NumberMax
    [] f.kind = "wstring" -> 2 * (f.chars + 1) <= NumberMax
    [] f.kind \in {"sequence", "bools"} -> f.count <= NumberMax
    [] f.kind = "strings" -> f.count <= NumberMax /\ f.chars + 1 <= NumberMax
    [] OTHER -> TRUE

PrefixesFit(m) ==
  /\ \A f \in Fields(m) : LeafFits(f)
  /\ m.kind = "nestedSequence" => m.count <= NumberMax

\* f applied n times.
Times(f(_), x, n) == FoldLeft(LAMBDA acc, i : f(acc), x, [i \in 1 .. n |-> i])

--------------------------------------------------------------------------------
(* get_message_size(): generate_size_calculation, header not included *)

\* Mutant: the terminator is not counted.
StringSizeNoTerminator(offset, chars) == AlignTo(offset, PrefixSize) + PrefixSize + chars

StringSize(offset, chars) == AlignTo(offset, PrefixSize) + PrefixSize + chars + 1

StringsSize(offset, m) ==
  Times(LAMBDA o : StringSize(o, m.chars), AlignTo(offset, PrefixSize) + PrefixSize, m.count)

LeafSize(offset, m) ==
  CASE m.kind = "primitive" -> AlignTo(offset, m.size) + m.size
    [] m.kind \in {"string", "wstring"} -> StringSize(offset, m.chars)
    [] m.kind = "array" -> AlignTo(offset, m.size) + m.size * m.count
    [] m.kind \in {"sequence", "bools"} ->
         AlignTo(AlignTo(offset, PrefixSize) + PrefixSize, m.size) + m.size * m.count
    [] m.kind = "strings" -> StringsSize(offset, m)

\* A nested message is sized on its own, as if it began at offset 0.
NestedSize(m) == FoldLeft(LeafSize, 0, m.fields)

MemberSize(offset, m) ==
  CASE m.kind = "nested" -> offset + NestedSize(m)
    [] m.kind = "nestedSequence" ->
         AlignTo(offset, PrefixSize) + PrefixSize + m.count * NestedSize(m)
    [] OTHER -> LeafSize(offset, m)

ComputeSerializedSize(msg) == HeaderSize + FoldLeft(MemberSize, 0, msg)

--------------------------------------------------------------------------------
(* serialize_message_into(): generate_writer_field. The record s collects  *)
(* the writer, the prefixes it stored and where each field's data begins.  *)

DataFrom(w, alignment) == DataAlign(Cursor(EnsureHeaderWritten(w)), alignment)

\* The writer moves to w2; a field with the prefix of `number` begins where it stood.
Prefixed(s, w2, number) ==
  LET at == DataFrom(s.w, PrefixSize)
  IN [w    |-> w2,
      at   |-> Append(s.at, at),
      wire |-> [p \in DOMAIN s.wire \cup {at} |-> IF p = at THEN AsUint32(number) ELSE s.wire[p]]]

Unprefixed(s, w2, alignment) ==
  [s EXCEPT !.w = w2, !.at = Append(@, DataFrom(s.w, alignment))]

\* The elements of a sequence, once its count is written.
WriteFlags(b, m) == EndWrite(Times(LAMBDA w : WritePrimitive(w, 1), b, m.count))

WriteStrings(b, m) ==
  LET e == Times(LAMBDA x : Prefixed(x, WriteString(x.w, m.chars), m.chars + 1), b, m.count)
  IN [e EXCEPT !.w = EndWrite(@)]

WriteLeaf(s, m) ==
  CASE m.kind = "primitive" -> Unprefixed(s, WritePrimitive(s.w, m.size), m.size)
    [] m.kind = "array" -> Unprefixed(s, WriteArray(s.w, m.size, m.count), m.size)
    [] m.kind = "string" -> Prefixed(s, WriteString(s.w, m.chars), m.chars + 1)
    [] m.kind = "wstring" -> Prefixed(s, WriteWString(s.w, m.chars), 2 * (m.chars + 1))
    [] m.kind = "sequence" ->
         Prefixed(s, WriteSequence(s.w, m.size, m.count), m.count)
    [] m.kind = "bools" ->
         Prefixed(s, WriteFlags(BeginWriteSequence(s.w), m), m.count)
    [] m.kind = "strings" ->
         WriteStrings(Prefixed(s, BeginWriteSequence(s.w), m.count), m)

\* No begin_write_struct: nested fields go straight into the writer.
WriteNested(s, m) == FoldLeft(WriteLeaf, s, m.fields)

WriteNestedElements(b, m) ==
  LET e == Times(LAMBDA x : WriteNested(x, m), b, m.count)
  IN [e EXCEPT !.w = EndWrite(@)]

WriteMember(s, m) ==
  CASE m.kind = "nested" -> WriteNested(s, m)
    [] m.kind = "nestedSequence" ->
         WriteNestedElements(Prefixed(s, BeginWriteSequence(s.w), m.count), m)
    [] OTHER -> WriteLeaf(s, m)

SerializeInto(msg, capacity) ==
  FoldLeft(WriteMember, [w |-> FixedSpan(capacity), at |-> <<>>, wire |-> <<>>], msg)

--------------------------------------------------------------------------------
(* deserialize_message_from(): generate_reader_field. The record d holds   *)
(* the reader, the return code so far and where each field was read.       *)

\* Read one value with `after`; a refused read returns from the function.
ReadValue(d, after, alignment) ==
  IF ~d.ok THEN d
  ELSE [r |-> after, ok |-> after.ok,
        at |-> IF after.ok THEN Append(d.at, DataAlign(d.r.pos, alignment)) ELSE d.at]

\* The context of a sequence that was read to its end is closed.
Closed(d) == IF d.ok THEN [d EXCEPT !.r = EndRead(@)] ELSE d

ReadStrings(b, m, wire, noise) ==
  Closed(Times(LAMBDA x : ReadValue(x, ReadString(x.r, wire, noise), PrefixSize), b, b.r.got))

\* The flags of a sequence of booleans, whose count reader b has read.
ReadFlags(b) == EndRead(Times(LAMBDA r : ReadPrimitive(r, 1), b, b.got))

ReadLeaf(d, m, wire, noise) ==
  CASE m.kind = "primitive" -> ReadValue(d, ReadPrimitive(d.r, m.size), m.size)
    [] m.kind = "array" -> ReadValue(d, ReadFixedSpan(d.r, m.size, m.count), m.size)
    [] m.kind = "string" -> ReadValue(d, ReadString(d.r, wire, noise), PrefixSize)
    [] m.kind = "wstring" -> ReadValue(d, ReadWString(d.r, wire, noise), PrefixSize)
    [] m.kind = "sequence" ->
         ReadValue(d, ReadSpan(d.r, m.size, wire, noise), PrefixSize)
    [] m.kind = "bools" ->
         ReadValue(d, ReadFlags(BeginReadSequence(d.r, wire, noise)), PrefixSize)
    [] m.kind = "strings" ->
         ReadStrings(ReadValue(d, BeginReadSequence(d.r, wire, noise), PrefixSize),
                     m, wire, noise)

\* deserialize_fields of the nested type, as it returns.
ReadNested(d, m, wire, noise) ==
  FoldLeft(LAMBDA x, f : ReadLeaf(x, f, wire, noise), d, m.fields)

\* Its caller drops the return code and carries on with the reader.
Ignoring(d) == [d EXCEPT !.ok = TRUE, !.r.ok = TRUE]

\* Elements of a sequence of nested messages, once its count is read.
ReadNestedElements(b, m, wire, noise) ==
  IF b.ok THEN Closed(Times(LAMBDA x : Ignoring(ReadNested(x, m, wire, noise)), b, b.r.got))
  ELSE b

ReadMember(d, m, wire, noise) ==
  CASE ~d.ok -> d
    [] d.ok /\ m.kind = "nested" -> Ignoring(ReadNested(d, m, wire, noise))
    [] d.ok /\ m.kind = "nestedSequence" ->
         ReadNestedElements(ReadValue(d, BeginReadSequence(d.r, wire, noise), PrefixSize),
                            m, wire, noise)
    [] OTHER -> ReadLeaf(d, m, wire, noise)

\* The generated struct's types say what to read; the wire says how much of it.
DeserializeFrom(msg, wire, bytes, noise) ==
  LET begun == [r |-> Wrap(bytes, TRUE), ok |-> Wrap(bytes, TRUE).ok, at |-> <<>>]
  IN FoldLeft(LAMBDA d, m : ReadMember(d, m, wire, noise), begun, msg)
================================================================================
