------------------------------ MODULE LayoutAccess ------------------------------
(***************************************************************************)
(* The zero-copy interface of xcdr_buffers without generated code: a       *)
(* client describes a message to an XCdrLayoutBuilder, applies the layout  *)
(* to a buffer, wraps the buffer in an XCdrAccessor and assigns fields and *)
(* elements through paths, while an XCdrConstAccessor over the same bytes  *)
(* sees what was assigned.                                                 *)
(*                                                                         *)
(* An accessor is a record of the layout it stands on and its base_offset_.*)
(* A path is the sequence of indices that item() is called with; members   *)
(* are named by their index. The buffer is a function from offsets to what *)
(* was stored there last: a byte of the header, of the length prefix or of *)
(* the content of the field at a path.                                     *)
(***************************************************************************)
EXTENDS LayoutOps

CONSTANTS
  Sizes,       \* primitive sizes
  Chars,       \* string lengths, terminators not counted
  Counts,      \* array and sequence element counts
  MaxCalls,    \* bound: calls to the builder
  MaxAssigns   \* bound: assignments through the accessor

ASSUME AccessAssumption ==
  /\ Sizes \subseteq PrimitiveSizes
  /\ Chars \subseteq Nat
  /\ Counts \subseteq Nat
  /\ MaxCalls \in Nat /\ MaxAssigns \in Nat

VARIABLES
  builder,   \* the XCdrLayoutBuilder
  calls,     \* calls made to it
  misled,    \* it was made to place a field at an offset of another struct,
             \* or to take one element for the measure of different ones (history)
  wrapped,   \* the accessor exists
  layout,    \* the finished layout
  buffer,    \* what the bytes hold
  assigned,  \* the paths assigned so far (history)
  refused    \* an access was refused for want of room

vars == <<builder, calls, misled, wrapped, layout, buffer, assigned, refused>>

--------------------------------------------------------------------------------
(* Accessors *)

Accessor(l, base) == [layout |-> l, base |-> base]

\* wrap(): base_offset_ is that of the first byte behind the header.
Wrapped(l) == Accessor(l, HeaderSize)

\* size(), and for a struct the members item() accepts.
ItemCount(a) ==
  CASE a.layout.kind = "struct" -> Len(a.layout.members)
    [] a.layout.kind \in {"array", "elements", "sequence", "strings"} -> a.layout.count
    [] OTHER -> 0

\* Mutant: the elements of a primitive sequence start where its prefix does.
ItemPrefixForgotten(a, i) ==
  LET l == a.layout
  IN CASE l.kind = "struct" -> Accessor(l.members[i].layout, a.base + l.members[i].offset)
       [] l.kind = "elements" -> Accessor(l.elements[i].layout, a.base + l.elements[i].offset)
       [] l.kind \in {"array", "sequence"} ->
            Accessor(PrimitiveLayout(l.element), a.base + (i - 1) * l.element)
       [] l.kind = "strings" ->
            Accessor(l.elements[IF i <= Len(l.elements) THEN i ELSE 1].layout,
                     a.base + PrefixSize + ElementOffset(l, i - 1))

\* item(i - 1), which is member() by index for a struct. Elements of primitive
\* arrays and sequences have no layout object of their own in the layout.
Item(a, i) ==
  LET l == a.layout
  IN CASE l.kind = "struct" -> Accessor(l.members[i].layout, a.base + l.members[i].offset)
       [] l.kind = "array" -> Accessor(PrimitiveLayout(l.element), a.base + (i - 1) * l.element)
       [] l.kind = "elements" -> Accessor(l.elements[i].layout, a.base + l.elements[i].offset)
       [] l.kind = "sequence" ->
            Accessor(PrimitiveLayout(l.element),
                     a.base + AlignTo(PrefixSize, l.element) + (i - 1) * l.element)
       [] l.kind = "strings" ->
            Accessor(l.elements[IF i <= Len(l.elements) THEN i ELSE 1].layout,
                     a.base + PrefixSize + ElementOffset(l, i - 1))

\* A path as member() follows "a.b.c" and the client a chain of item() calls.
At(l, path) == FoldLeft(Item, Wrapped(l), path)

Deeper(l, paths) ==
  UNION {{Append(p, i) : i \in 1 .. ItemCount(At(l, p))} : p \in paths}

\* Every path of a layout in which structs nest one level.
Paths(l) ==
  LET one == Deeper(l, {<<>>})
      two == Deeper(l, one)
  IN one \cup two \cup Deeper(l, two)

Leaves(l) == {p \in Paths(l) : At(l, p).layout.kind \in {"primitive", "string"}}

IsString(a) == a.layout.kind = "string"

\* Where operator= stores and as<T>() looks; for a string the terminator too.
ContentFrom(a) == IF IsString(a) THEN a.base + PrefixSize ELSE a.base

ContentSize(a) == IF IsString(a) THEN a.layout.chars + 1 ELSE a.layout.size

Content(a) == ContentFrom(a) .. (ContentFrom(a) + ContentSize(a) - 1)

--------------------------------------------------------------------------------
(* The bytes *)

Junk == [what |-> "junk", path |-> <<>>]
Header == [what |-> "header", path |-> <<>>]
PrefixOf(path) == [what |-> "prefix", path |-> path]
ContentOf(path) == [what |-> "content", path |-> path]

Store(bytes, where, cell) == [o \in DOMAIN bytes |-> IF o \in where THEN cell ELSE bytes[o]]

\* apply() gives a prefix to strings and sequences that are members, not to
\* those that are elements.
HasPrefix(l, path) ==
  /\ At(l, Front(path)).layout.kind = "struct"
  /\ At(l, path).layout.kind \in {"string", "sequence", "strings"}

PrefixBytes(l, path) == LET at == At(l, path).base IN at .. (at + PrefixSize - 1)

\* A buffer of total_size() bytes, in the order apply() stores to it.
Apply(l) ==
  LET fresh == [o \in 0 .. (l.size - 1) |-> IF o < HeaderSize THEN Header ELSE Junk]
      put(bytes, path) ==
        IF HasPrefix(l, path) THEN Store(bytes, PrefixBytes(l, path), PrefixOf(path)) ELSE bytes
      inMember(bytes, i) ==
        FoldLeft(put, put(bytes, <<i>>),
                 IF l.members[i].layout.kind = "struct"
                 THEN [k \in 1 .. Len(l.members[i].layout.members) |-> <<i, k>>] ELSE <<>>)
  IN FoldLeft(inMember, fresh, [i \in 1 .. Len(l.members) |-> i])

--------------------------------------------------------------------------------
(* The client *)

NoLayout == Finalize(NewBuilder)

Init ==
  /\ builder = NewBuilder
  /\ calls = 0
  /\ misled = FALSE
  /\ wrapped = FALSE
  /\ layout = NoLayout
  /\ buffer = Apply(NoLayout)
  /\ assigned = {}
  /\ refused = FALSE

\* Nothing is promised to a misled client, so the model follows it no further.
Build(after, misleading) ==
  /\ ~wrapped
  /\ ~misled
  /\ calls < MaxCalls
  /\ builder' = after
  /\ calls' = calls + 1
  /\ misled' = (misled \/ misleading)
  /\ UNCHANGED <<wrapped, layout, buffer, assigned, refused>>

Inside == builder.contexts # <<>>

Collecting == TopIs(builder, {"array", "sequence"})

\* A primitive as an element fails an assertion when the array ends.
AllocatePrimitive(s) == ~Collecting /\ Build(Allocate(builder, PrimitiveLayout(s)), FALSE)

AllocateString(n) == Build(Allocate(builder, StringLayout(n, 1)), FALSE)

AllocatePrimitiveArray(s, n) ==
  Build(AllocateInOneShot(builder, PrimitiveArrayLayout(s, n)), Inside)

AllocatePrimitiveSequence(s, n) ==
  Build(AllocateInOneShot(builder, PrimitiveSequenceLayout(s, n)), Inside)

BeginAllocateArray(n) == Build(BeginArray(builder, n), Inside)

BeginAllocateSequence(n) == Build(BeginSequence(builder, n), Inside)

EndAllocateArray == TopIs(builder, {"array"}) /\ Build(EndArray(builder), FALSE)

EndAllocateSequence ==
  LET described == Len(Last(builder.contexts).elements)
  IN /\ TopIs(builder, {"sequence"})
     /\ Build(EndSequence(builder), described > 1 /\ described < Last(builder.contexts).count)

BeginAllocateStruct == ~InStruct(builder) /\ Build(BeginStruct(builder), Inside)

EndAllocateStruct == InStruct(builder) /\ Build(EndStruct(builder), FALSE)

\* finalize(), which empties the builder, apply() to a buffer of the layout's
\* size, wrap().
Wrap ==
  /\ ~wrapped
  /\ ~misled
  /\ wrapped' = TRUE
  /\ builder' = NewBuilder
  /\ calls' = 0
  /\ layout' = Finalize(builder)
  /\ buffer' = Apply(layout')
  /\ UNCHANGED <<misled, assigned, refused>>

\* operator=(T) and operator=(std::string_view) of a string of the layout's length.
Assign(path) ==
  LET a == At(layout, path)
  IN /\ wrapped
     /\ assigned' = assigned \cup {path}
     /\ Cardinality(assigned') <= MaxAssigns
     /\ IF Content(a) \subseteq DOMAIN buffer
        THEN buffer' = Store(buffer, Content(a), ContentOf(path)) /\ UNCHANGED refused
        ELSE refused' = TRUE /\ UNCHANGED buffer
     /\ UNCHANGED <<builder, calls, misled, wrapped, layout>>

Next ==
  \/ \E s \in Sizes : AllocatePrimitive(s)
  \/ \E n \in Chars : AllocateString(n)
  \/ \E s \in Sizes, n \in Counts :
       AllocatePrimitiveArray(s, n) \/ AllocatePrimitiveSequence(s, n)
  \/ \E n \in Counts : BeginAllocateArray(n) \/ BeginAllocateSequence(n)
  \/ EndAllocateArray \/ EndAllocateSequence
  \/ BeginAllocateStruct \/ EndAllocateStruct
  \/ Wrap
  \/ \E path \in Leaves(layout) : Assign(path)

Spec == Init /\ [][Next]_vars

--------------------------------------------------------------------------------
(***************************************************************************)
(* An accessor that wrap() accepted reaches every field and element of its *)
(* layout: offsets the builder gave members and elements, and those item() *)
(* derives for elements that share a description, all lie inside the size  *)
(* the buffer was given, so neither operator= nor as<T>() ever throws      *)
(* "Buffer overflow" (accessor.cpp:433, accessor.hpp:321).                 *)
(***************************************************************************)
NeverRefused == ~misled => ~refused

(***************************************************************************)
(* Assignments do not disturb each other, nor the prefixes and the header  *)
(* apply() stored: whatever was assigned through which path, in any order, *)
(* every path still shows what was assigned through it and a reader still  *)
(* finds every length.                                                     *)
(***************************************************************************)
KeepsApart ==
  ~misled =>
    /\ \A path \in assigned : \A o \in Content(At(layout, path)) : buffer[o] = ContentOf(path)
    /\ \A path \in Paths(layout) :
         HasPrefix(layout, path) =>
           /\ PrefixBytes(layout, path) \subseteq DOMAIN buffer
           /\ \A o \in PrefixBytes(layout, path) : buffer[o] = PrefixOf(path)
    /\ \A o \in 0 .. (HeaderSize - 1) : buffer[o] = Header
================================================================================
