---------------------------- MODULE MC_MessageCodec ----------------------------
(***************************************************************************)
(* Model-checking instance of MessageCodec: members whose sizes put every  *)
(* following field at every residue that matters. The comparison of the    *)
(* unit loops is evaluated along with it.                                  *)
(***************************************************************************)
EXTENDS MessageCodec, UnitLoops

Primitive(s) == [kind |-> "primitive", size |-> s]
String(n)    == [kind |-> "string", chars |-> n]
WString(n)   == [kind |-> "wstring", chars |-> n]
Array(s, n)  == [kind |-> "array", size |-> s, count |-> n]
Sequence(s, n) == [kind |-> "sequence", size |-> s, count |-> n]
Bools(n)     == [kind |-> "bools", size |-> 1, count |-> n]
Strings(n, c) == [kind |-> "strings", count |-> n, chars |-> c]
Nested(fs)   == [kind |-> "nested", fields |-> fs]
NestedSequence(n, fs) == [kind |-> "nestedSequence", count |-> n, fields |-> fs]

MCMembers ==
  {Primitive(1), Primitive(4), String(2), WString(1), Array(2, 3),
   Sequence(8, 0), Sequence(8, 1), Bools(2), Strings(2, 1),
   Nested(<<Primitive(8), Primitive(1)>>), NestedSequence(2, <<String(1), Primitive(2)>>)}

\* Members for the runs about one disagreement each.
FewMembers ==
  {Primitive(1), Primitive(4), Sequence(8, 0), WString(1),
   Nested(<<Primitive(8), Primitive(1)>>)}
================================================================================
