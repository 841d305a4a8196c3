---------------------------- MODULE MC_ZeroCopyPath ----------------------------
(***************************************************************************)
(* Model-checking instance of ZeroCopyPath: strings and sequences at, below *)
(* and above their bounds between primitives of every alignment.           *)
(***************************************************************************)
EXTENDS ZeroCopyPath

Primitive(s) == [kind |-> "primitive", size |-> s]
Array(s, n)  == [kind |-> "array", size |-> s, count |-> n]
String(n, bound) == [kind |-> "string", chars |-> n, bound |-> bound, checked |-> TRUE]
Sequence(s, n, bound) ==
  [kind |-> "sequence", size |-> s, count |-> n, bound |-> bound, checked |-> TRUE]
Strings(n, bound, chars, charBound) ==
  [kind |-> "strings", count |-> n, bound |-> bound, chars |-> chars, charBound |-> charBound]
Nested(fs) == [kind |-> "nested", fields |-> fs]

MCMembers ==
  {Primitive(1), Primitive(8), Array(2, 3), String(3, 3), String(1, 6), String(7, 6),
   Sequence(1, 2, 5), Sequence(4, 2, 2), Sequence(4, 0, 1),
   Nested(<<Primitive(4), Primitive(1)>>), Nested(<<String(2, 3), Primitive(1)>>),
   Nested(<<String(4, 3), Primitive(2)>>)}

\* Members for the runs about one disagreement each.
FewMembers ==
  {Primitive(1), Primitive(4), String(1, 6), String(7, 6), Sequence(8, 1, 2),
   Strings(2, 2, 1, 3), Nested(<<Primitive(1), Primitive(4)>>),
   Nested(<<String(4, 3), Primitive(2)>>)}
================================================================================
