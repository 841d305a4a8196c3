------------------------------- MODULE LayoutOps -------------------------------
(***************************************************************************)
(* The layouts of xcdr_buffers, XCdrLayoutBuilder and XCdrLayoutParser.    *)
(* A layout is a record that carries the answers of its size() and         *)
(* alignment() methods; a struct layout's members are records [offset,     *)
(* layout]. Builder and parser are records, their calls functions from the *)
(* record before a call to the record after it. Structs nest one level.    *)
(*                                                                         *)
(* Builder:                                                                *)
(*   offset    current_offset_, relative to the first byte of the struct   *)
(*   maxAlign  max_alignment_                                              *)
(*   members   members_                                                    *)
(*   contexts  context_stack_, each [type, start, count, elements, nested] *)
(***************************************************************************)
EXTENDS XcdrAlign, Sequences, SequencesExt

--------------------------------------------------------------------------------
(* Layouts *)

PrimitiveLayout(s) == [kind |-> "primitive", size |-> s, align |-> s]

\* The character count excludes the terminator.
StringLayout(chars, charSize) ==
  [kind |-> "string", chars |-> chars, align |-> PrefixSize,
   size |-> PrefixSize + chars * charSize + charSize]

PrimitiveArrayLayout(s, count) ==
  [kind |-> "array", element |-> s, count |-> count, size |-> s * count, align |-> s]

\* Mutant: the size forgets the padding behind the prefix.
PrimitiveSequenceLayoutUnpadded(s, count) ==
  [kind |-> "sequence", element |-> s, count |-> count, align |-> PrefixSize,
   size |-> PrefixSize + s * count]

\* The padding behind the prefix is that of a sequence at offset 0.
PrimitiveSequenceLayout(s, count) ==
  [kind |-> "sequence", element |-> s, count |-> count, align |-> PrefixSize,
   size |-> AlignTo(PrefixSize, s) + s * count]

ArrayLayout(elements) ==
  [kind |-> "elements", count |-> Len(elements), elements |-> elements,
   size |-> Last(elements).offset + Last(elements).layout.size,
   align |-> Max({e.layout.align : e \in Range(elements)})]

\* From one element to the next in a sequence described by a template.
ElementStride(l) == AlignTo(l.size, l.align)

SequenceLayout(elements, count) ==
  [kind |-> "strings", count |-> count, elements |-> elements, align |-> PrefixSize,
   size |-> PrefixSize +
     (IF count > Len(elements) THEN ElementStride(elements[1].layout) * count
      ELSE Last(elements).offset + Last(elements).layout.size)]

\* Offset of element i (from 0) behind the length prefix.
ElementOffset(sequence, i) ==
  LET first == sequence.elements[1]
  IN IF i < Len(sequence.elements) THEN sequence.elements[i + 1].offset
     ELSE first.offset + i * ElementStride(first.layout)

\* The total of a top-level struct counts the header.
StructLayout(members, total, maxAlign) ==
  [kind |-> "struct", members |-> members, size |-> total, align |-> maxAlign]

Member(offset, layout) == [offset |-> offset, layout |-> layout]

--------------------------------------------------------------------------------
(* XCdrLayoutBuilder *)

EmptyStruct == [offset |-> 0, maxAlign |-> 1, members |-> <<>>]

NewBuilder == [offset |-> 0, maxAlign |-> 1, members |-> <<>>, contexts |-> <<>>]

AlignOffset(b, a) == [b EXCEPT !.offset = AlignTo(@, a), !.maxAlign = Max({@, a})]

TopIs(b, types) == b.contexts # <<>> /\ Last(b.contexts).type \in types

InStruct(b) == TopIs(b, {"struct"})

PushContext(b, type, start, count) ==
  [b EXCEPT !.contexts =
     Append(@, [type |-> type, start |-> start, count |-> count,
                elements |-> <<>>, nested |-> EmptyStruct])]

PopContext(b) == [b EXCEPT !.contexts = Front(@)]

\* A field of the struct being built itself.
Place(b, layout) ==
  LET a == AlignOffset(b, layout.align)
  IN [a EXCEPT !.members = Append(@, Member(a.offset, layout)), !.offset = @ + layout.size]

\* An element of the open array or sequence, relative to its first element.
PlaceElement(b, layout) ==
  LET a      == AlignOffset(b, layout.align)
      top    == Len(b.contexts)
      prefix == IF b.contexts[top].type = "sequence" THEN PrefixSize ELSE 0
      at     == a.offset - b.contexts[top].start - prefix
  IN [a EXCEPT !.contexts[top].elements = Append(@, Member(at, layout)),
               !.offset = @ + layout.size]

\* allocate_primitive() and allocate_string(): a struct context takes the field over.
Allocate(b, layout) ==
  IF InStruct(b) THEN [b EXCEPT !.contexts[Len(b.contexts)].nested = Place(@, layout)]
  ELSE IF b.contexts # <<>> THEN PlaceElement(b, layout)
  ELSE Place(b, layout)

\* add_field() on the open struct's builder, or on this one.
AddField(b, member) ==
  IF InStruct(b)
  THEN [b EXCEPT !.contexts[Len(b.contexts)].nested.members = Append(@, member)]
  ELSE [b EXCEPT !.members = Append(@, member)]

\* allocate_primitive_array() and allocate_primitive_sequence(): placed at this
\* builder's offset even when the field goes to an open struct.
AllocateInOneShot(b, layout) ==
  LET a == AlignOffset(b, layout.align)
  IN AddField([a EXCEPT !.offset = @ + layout.size], Member(a.offset, layout))

BeginArray(b, count) == PushContext(b, "array", b.offset, count)

\* One element description stands for `count` elements, each aligned to the
\* element alignment relative to the start of the array.
Replicated(element, count) ==
  LET l == element.layout
      at[i \in 1 .. count] ==
        IF i = 1 THEN element.offset ELSE AlignTo(at[i - 1] + l.size, l.align)
  IN [i \in 1 .. count |-> Member(at[i], l)]

\* An array or sequence that got no element leaves no field behind.
EndArray(b) ==
  LET ctx    == Last(b.contexts)
      popped == PopContext(b)
      layout == ArrayLayout(IF Len(ctx.elements) = 1 /\ ctx.count > 1
                            THEN Replicated(ctx.elements[1], ctx.count) ELSE ctx.elements)
  IN IF ~TopIs(b, {"array"}) THEN b
     ELSE IF ctx.elements = <<>> THEN popped
     ELSE [AddField(popped, Member(ctx.start, layout)) EXCEPT !.offset = ctx.start + layout.size]

BeginSequence(b, count) ==
  LET a == AlignOffset(b, PrefixSize)
  IN [PushContext(a, "sequence", a.offset, count) EXCEPT !.offset = @ + PrefixSize]

EndSequence(b) ==
  LET ctx    == Last(b.contexts)
      popped == PopContext(b)
      layout == SequenceLayout(ctx.elements, ctx.count)
  IN IF ~TopIs(b, {"sequence"}) THEN b
     ELSE IF ctx.elements = <<>> THEN popped
     ELSE [AddField(popped, Member(ctx.start, layout)) EXCEPT !.offset = ctx.start + layout.size]

BeginStruct(b) == PushContext(b, "struct", b.offset, 0)

\* Mutant: the struct starts where the last field ended.
EndStructUnaligned(b) ==
  LET n      == Last(b.contexts).nested
      layout == StructLayout(n.members, n.offset, n.maxAlign)
      popped == PopContext(b)
  IN IF ~InStruct(b) THEN b
     ELSE [AddField(popped, Member(popped.offset, layout)) EXCEPT !.offset = @ + n.offset]

\* A struct that ends inside an array or sequence becomes a member, not an element.
EndStruct(b) ==
  LET n      == Last(b.contexts).nested
      layout == StructLayout(n.members, n.offset, n.maxAlign)
      popped == AlignOffset(PopContext(b), n.maxAlign)
  IN IF ~InStruct(b) THEN b
     ELSE [AddField(popped, Member(popped.offset, layout)) EXCEPT !.offset = @ + n.offset]

\* finalize() of a top-level builder; nothing checks for open contexts.
Finalize(b) == StructLayout(b.members, b.offset + HeaderSize, b.maxAlign)
================================================================================
