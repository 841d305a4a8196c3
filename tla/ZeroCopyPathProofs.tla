------------------------- MODULE ZeroCopyPathProofs -------------------------
(***************************************************************************)
(* Proofs about the zero-copy path, for every set of constrained members   *)
(* and messages of any number of them.                                     *)
(*                                                                         *)
(* The block is typed by an invariant that holds of any message (PathInv). *)
(* What compaction does to a plain message needs more, TraversalInv: with  *)
(* c the ends of the fields in the loan and d those in what is sent, the   *)
(* fields ahead of the traversal are intact at their places of the loan,   *)
(* those behind it are at their places of the wire, and a field never ends *)
(* later on the wire than in the loan, so that a rewrite only stores into  *)
(* room its own field or an earlier one had.                               *)
(*                                                                         *)
(* What receivers find needs two more, CellsInv (the bytes of the block)   *)
(* and ReceivedInv. A parser that reads what was sent builds the layout of *)
(* the same message with its bounds replaced by its sizes (Exacted), whose *)
(* fields are where they were sent; a reader that copies is one that goes  *)
(* along the writer that serialize_message_into() would have been.         *)
(***************************************************************************)
EXTENDS ZeroCopyPath, CodecOpsProofs

(***************************************************************************)
(* A chain of values, each made from the one before, exists.               *)
(***************************************************************************)
ChainBy(g, n, T, base, step) ==
  /\ g \in [0 .. n -> T]
  /\ g[0] = base /\ \A k \in 1 .. n : g[k] = step[k][g[k - 1]]

LEMMA ChainExists ==
  ASSUME NEW n \in Nat, NEW T, NEW base \in T, NEW step \in [1 .. n -> [T -> T]]
  PROVE  \E g : ChainBy(g, n, T, base, step)
<1>1. PICK f : FoldsBy(f, n, T, base, step)
  BY FoldExists
<1>2. StepsBy(f, n, T, base, step)
  <2>1. {} \in SUBSET (1 .. n)
    OBVIOUS
  <2>2. QED
    BY <1>1, <2>1 DEF FoldsBy, StepsBy
<1>3. PICK g : TraceOf(g, f, n, T, base, step)
  BY <1>2, FoldTrace
<1>4. ChainBy(g, n, T, base, step)
  BY <1>3 DEF TraceOf, ChainBy
<1>5. QED
  BY <1>4

(***************************************************************************)
(* st[k] elements precede those of the sequence ss[k + 1] in FlattenSeq(ss).*)
(***************************************************************************)
Starts(st, ss) ==
  /\ st \in [0 .. Len(ss) -> Nat]
  /\ st[0] = 0
  /\ \A k \in 1 .. Len(ss) : st[k] = st[k - 1] + Len(ss[k])

LEMMA StartsExist ==
  ASSUME NEW S, NEW ss \in Seq(Seq(S))
  PROVE  \E st : Starts(st, ss)
<1> DEFINE n == Len(ss)
           step == [k \in 1 .. n |-> [x \in Nat |-> x + Len(ss[k])]]
<1>1. n \in Nat /\ 0 \in Nat
  OBVIOUS
<1>2. \A k \in 1 .. n : Len(ss[k]) \in Nat
  <2> TAKE k \in 1 .. n
  <2>1. ss[k] \in Seq(S)
    OBVIOUS
  <2>2. QED
    BY <2>1
<1>3. step \in [1 .. n -> [Nat -> Nat]]
  BY <1>2
<1>4. \A k \in 1 .. n : \A x \in Nat : step[k][x] = x + Len(ss[k])
  OBVIOUS
<1> HIDE DEF step
<1>5. PICK g : ChainBy(g, n, Nat, 0, step)
  <2> HIDE DEF n
  <2>1. QED
    BY <1>1, <1>3, ChainExists
<1>6. \A k \in 1 .. n : g[k] = g[k - 1] + Len(ss[k])
  <2> TAKE k \in 1 .. n
  <2>1. k - 1 \in 0 .. n
    BY <1>1
  <2>2. QED
    BY <1>4, <1>5, <2>1 DEF ChainBy
<1>7. Starts(g, ss)
  BY <1>5, <1>6 DEF Starts, ChainBy
<1>8. QED
  BY <1>7

\* The starts grow, and every index belongs to one of the sequences.
LEMMA StartsGrow ==
  ASSUME NEW S, NEW ss \in Seq(Seq(S)), NEW st, Starts(st, ss)
  PROVE  /\ \A k \in 0 .. Len(ss) : \A i \in 1 .. st[k] :
              \E m \in 1 .. k : \E j \in 1 .. Len(ss[m]) : i = st[m - 1] + j
         /\ \A k \in 0 .. Len(ss) : \A m \in 0 .. k : st[m] <= st[k]
<1> DEFINE Q(k) == /\ \A i \in 1 .. st[k] :
                        \E m \in 1 .. k : \E j \in 1 .. Len(ss[m]) : i = st[m - 1] + j
                   /\ \A m \in 0 .. k : st[m] <= st[k]
           W == {k \in Nat : k <= Len(ss) => Q(k)}
<1>1. Len(ss) \in Nat /\ st[0] = 0 /\ 0 \in 0 .. Len(ss)
  BY DEF Starts
<1>2. 0 \in W
  BY <1>1
<1>3. ASSUME NEW k \in Nat, k \in W PROVE k + 1 \in W
  <2> SUFFICES ASSUME k + 1 <= Len(ss) PROVE Q(k + 1)
    <3> HIDE DEF Q
    <3>1. QED
      OBVIOUS
  <2>1. Q(k)
    BY <1>1, <1>3
  <2>2. k \in 0 .. Len(ss) /\ k + 1 \in 1 .. Len(ss) /\ (k + 1) - 1 = k
    BY <1>1
  <2>3. ss[k + 1] \in Seq(S)
    BY <2>2
  <2>4. Len(ss[k + 1]) \in Nat /\ st[k] \in Nat /\ st[k + 1] = st[k] + Len(ss[k + 1])
    <3>1. Len(ss[k + 1]) \in Nat
      BY <2>3
    <3>2. st[k] \in Nat
      BY <2>2 DEF Starts
    <3>3. st[k + 1] = st[k] + Len(ss[k + 1])
      BY <2>2 DEF Starts
    <3>4. QED
      BY <3>1, <3>2, <3>3
  <2> DEFINE len == Len(ss[k + 1])
  <2>5. ASSUME NEW i \in 1 .. st[k + 1]
        PROVE  \E m \in 1 .. (k + 1) : \E j \in 1 .. Len(ss[m]) : i = st[m - 1] + j
    <3>1. CASE i \in 1 .. st[k]
      <4>1. PICK m \in 1 .. k : \E j \in 1 .. Len(ss[m]) : i = st[m - 1] + j
        BY <2>1, <3>1
      <4>2. m \in 1 .. (k + 1)
        OBVIOUS
      <4>3. QED
        BY <4>1, <4>2
    <3>2. CASE i \notin 1 .. st[k]
      <4>1. i - st[k] \in 1 .. Len(ss[k + 1])
        BY <2>4, <2>5, <3>2
      <4>2. i = st[(k + 1) - 1] + (i - st[k])
        BY <2>2, <2>4
      <4>3. k + 1 \in 1 .. (k + 1)
        OBVIOUS
      <4>4. QED
        BY <4>1, <4>2, <4>3
    <3>3. QED
      BY <3>1, <3>2
  <2>6. \A m \in 0 .. (k + 1) : st[m] <= st[k + 1]
    <3> TAKE m \in 0 .. (k + 1)
    <3>1. CASE m = k + 1
      BY <2>4, <3>1
    <3>2. CASE m # k + 1
      <4>1. m \in 0 .. k /\ m \in 0 .. Len(ss)
        BY <2>2, <3>2
      <4>2. st[m] <= st[k] /\ st[m] \in Nat
        BY <2>1, <4>1 DEF Starts
      <4>3. QED
        BY <2>4, <4>2
    <3>3. QED
      BY <3>1, <3>2
  <2>7. QED
    BY <2>5, <2>6
<1> HIDE DEF Q
<1>4. Nat \subseteq W
  <2> HIDE DEF W
  <2>1. QED
    BY <1>2, <1>3, SetInduction
<1>5. \A k \in 0 .. Len(ss) : Q(k)
  BY <1>1, <1>4
<1>6. QED
  BY <1>5 DEF Q

(***************************************************************************)
(* What FlattenSeq returns, element by element.                            *)
(***************************************************************************)
LEMMA Flattened ==
  ASSUME NEW S, NEW ss \in Seq(Seq(S)), NEW st, Starts(st, ss)
  PROVE  /\ FlattenSeq(ss) \in Seq(S)
         /\ Len(FlattenSeq(ss)) = st[Len(ss)]
         /\ \A k \in 1 .. Len(ss) : \A j \in 1 .. Len(ss[k]) :
              FlattenSeq(ss)[st[k - 1] + j] = ss[k][j]
<1> DEFINE n == Len(ss)
           body(f) == [i \in 1 .. n |-> IF i = 1 THEN ss[i] ELSE f[i - 1] \o ss[i]]
           flat == CHOOSE f : f = body(f)
           step == [k \in 1 .. n |-> [x \in Seq(S) |-> x \o ss[k]]]
<1>1. n \in Nat /\ <<>> \in Seq(S) /\ \A k \in 1 .. n : ss[k] \in Seq(S)
  OBVIOUS
<1>2. step \in [1 .. n -> [Seq(S) -> Seq(S)]]
  BY <1>1
<1>3. \A k \in 1 .. n : \A x \in Seq(S) : step[k][x] = x \o ss[k]
  OBVIOUS
<1> HIDE DEF step
<1>4. PICK g : ChainBy(g, n, Seq(S), <<>>, step)
  <2> HIDE DEF n
  <2>1. QED
    BY <1>1, <1>2, ChainExists
<1>5. \A k \in 1 .. n : g[k - 1] \in Seq(S) /\ g[k] = g[k - 1] \o ss[k]
  <2> TAKE k \in 1 .. n
  <2>1. k - 1 \in 0 .. n
    BY <1>1
  <2>2. QED
    BY <1>3, <1>4, <2>1 DEF ChainBy
<1>6. \E f : f = body(f)
  <2> DEFINE h == [i \in 1 .. n |-> g[i]]
  <2>1. ASSUME NEW i \in 1 .. n PROVE h[i] = IF i = 1 THEN ss[i] ELSE h[i - 1] \o ss[i]
    <3>1. CASE i = 1
      <4>0. 1 \in 1 .. n /\ 1 - 1 = 0
        BY <3>1
      <4>1. g[1] = g[0] \o ss[1] /\ g[0] = <<>>
        BY <1>4, <1>5, <4>0 DEF ChainBy
      <4>2. g[1] = ss[1]
        BY <1>1, <4>0, <4>1
      <4>3. QED
        BY <3>1, <4>2
    <3>2. CASE i # 1
      <4>1. i - 1 \in 1 .. n
        BY <1>1, <3>2
      <4>2. QED
        BY <1>5, <3>2, <4>1
    <3>3. QED
      BY <3>1, <3>2
  <2>2. h = [i \in 1 .. n |-> h[i]]
    OBVIOUS
  <2> HIDE DEF h
  <2>3. h = body(h)
    BY <2>1, <2>2
  <2> HIDE DEF body
  <2>4. QED
    BY <2>3
<1>7. flat = body(flat)
  BY <1>6
<1>8. FlattenSeq(ss) = IF n = 0 THEN ss ELSE flat[n]
  BY DEF FlattenSeq
<1> HIDE DEF flat
<1>9. \A i \in 1 .. n : flat[i] = IF i = 1 THEN ss[i] ELSE flat[i - 1] \o ss[i]
  BY <1>7
<1> HIDE DEF body
<1> DEFINE Q(k) ==
             /\ flat[k] \in Seq(S)
             /\ Len(flat[k]) = st[k]
             /\ \A m \in 1 .. k : \A j \in 1 .. Len(ss[m]) : flat[k][st[m - 1] + j] = ss[m][j]
           W == {k \in Nat : k # 0 /\ k <= n => Q(k)}
<1>10. 0 \in W
  OBVIOUS
<1>11. ASSUME NEW k \in Nat, k \in W PROVE k + 1 \in W
  <2> SUFFICES ASSUME k + 1 <= n PROVE Q(k + 1)
    <3> HIDE DEF Q
    <3>1. QED
      OBVIOUS
  <2>1. k + 1 \in 1 .. n /\ k \in 0 .. n /\ (k + 1) - 1 = k
    BY <1>1
  <2>2. ss[k + 1] \in Seq(S) /\ st[k + 1] = st[k] + Len(ss[k + 1]) /\ st[k] \in Nat
    BY <1>1, <2>1 DEF Starts
  <2>3. CASE k = 0
    <3>1. flat[1] = ss[1] /\ st[0] = 0
      BY <1>9, <2>1, <2>3 DEF Starts
    <3>2. \A m \in 1 .. 1 : m = 1 /\ m - 1 = 0
      OBVIOUS
    <3>3. \A j \in 1 .. Len(ss[1]) : 0 + j = j
      OBVIOUS
    <3>4. QED
      BY <2>2, <2>3, <3>1, <3>2, <3>3
  <2>4. CASE k # 0
    <3>1. Q(k)
      BY <1>1, <1>11, <2>4
    <3>2. flat[k + 1] = flat[k] \o ss[k + 1]
      <4>1. k + 1 # 1
        BY <2>4
      <4>2. flat[k + 1] = flat[(k + 1) - 1] \o ss[k + 1]
        BY <1>9, <2>1, <4>1
      <4>3. QED
        BY <2>1, <4>2
    <3> DEFINE a == flat[k]
               b == ss[k + 1]
    <3>3. a \in Seq(S) /\ b \in Seq(S) /\ Len(a) = st[k]
      BY <2>2, <3>1
    <3> HIDE DEF a, b
    <3>4. /\ a \o b \in Seq(S) /\ Len(a \o b) = Len(a) + Len(b)
          /\ \A p \in 1 .. Len(a) : (a \o b)[p] = a[p]
          /\ \A j \in 1 .. Len(b) : (a \o b)[Len(a) + j] = b[j]
      <4>1. a \o b \in Seq(S) /\ Len(a \o b) = Len(a) + Len(b) /\ Len(a) \in Nat /\ Len(b) \in Nat
        <5>1. a \o b \in Seq(S) /\ Len(a \o b) = Len(a) + Len(b)
          BY <3>3, ConcatProperties
        <5>2. Len(a) \in Nat
          BY <3>3
        <5>3. Len(b) \in Nat
          BY <3>3
        <5>4. QED
          BY <5>1, <5>2, <5>3
      <4>2. \A p \in 1 .. (Len(a) + Len(b)) :
              (a \o b)[p] = IF p <= Len(a) THEN a[p] ELSE b[p - Len(a)]
        BY <3>3, ConcatProperties
      <4>3. \A j \in 1 .. Len(b) : /\ Len(a) + j \in 1 .. (Len(a) + Len(b))
                                   /\ ~(Len(a) + j <= Len(a)) /\ (Len(a) + j) - Len(a) = j
        BY <4>1
      <4>4. \A p \in 1 .. Len(a) : p \in 1 .. (Len(a) + Len(b)) /\ p <= Len(a)
        BY <4>1
      <4>5. QED
        BY <4>1, <4>2, <4>3, <4>4
    <3>5. \A m \in 1 .. (k + 1) : \A j \in 1 .. Len(ss[m]) : (a \o b)[st[m - 1] + j] = ss[m][j]
      <4> TAKE m \in 1 .. (k + 1)
      <4> TAKE j \in 1 .. Len(ss[m])
      <4>1. CASE m = k + 1
        BY <2>1, <3>3, <3>4, <4>1 DEF b
      <4>2. CASE m # k + 1
        <5>1. m \in 1 .. k /\ m \in 1 .. n /\ m - 1 \in 0 .. n
          BY <2>1, <4>2
        <5>2. st[m] <= st[k] /\ st[m] = st[m - 1] + Len(ss[m]) /\ st[m - 1] \in Nat /\ st[m] \in Nat
          <6>1. m \in 0 .. k /\ m \in 0 .. n
            BY <5>1, <2>1
          <6>2. QED
            BY <2>1, <5>1, <6>1, StartsGrow DEF Starts
        <5>3. Len(ss[m]) \in Nat
          BY <1>1, <5>1
        <5>4. st[m - 1] + j \in 1 .. Len(a)
          <6> DEFINE p == st[m - 1]
                     q == st[m]
                     r == st[k]
                     l == Len(ss[m])
          <6>1. q <= r /\ q = p + l /\ p \in Nat /\ q \in Nat /\ r \in Nat /\ l \in Nat /\ Len(a) = r
            BY <2>2, <3>3, <5>2, <5>3
          <6>2. j \in 1 .. l
            OBVIOUS
          <6> HIDE DEF p, q, r, l
          <6>3. p + j \in 1 .. r
            BY <6>1, <6>2
          <6>4. QED
            BY <6>1, <6>3 DEF p
        <5>5. a[st[m - 1] + j] = ss[m][j]
          BY <3>1, <5>1 DEF a
        <5>6. QED
          BY <3>4, <5>4, <5>5
      <4>3. QED
        BY <4>1, <4>2
    <3>6. QED
      BY <2>2, <3>2, <3>3, <3>4, <3>5 DEF a, b
  <2>5. QED
    BY <2>3, <2>4
<1> HIDE DEF Q
<1>12. Nat \subseteq W
  <2> HIDE DEF W
  <2>1. QED
    BY <1>10, <1>11, SetInduction
<1>13. CASE n = 0
  BY <1>1, <1>8, <1>13 DEF Starts
<1>14. CASE n # 0
  <2>1. Q(n)
    BY <1>1, <1>12, <1>14
  <2>2. QED
    BY <1>8, <1>14, <2>1 DEF Q
<1>15. QED
  BY <1>13, <1>14

--------------------------------------------------------------------------------
(* The leaves of a message *)

(***************************************************************************)
(* The leaves of constrained members.                                      *)
(***************************************************************************)
AnyLeaf ==
  ConstrainedLeaf
    \cup [kind : {"string"}, chars : Nat, bound : Nat, checked : {FALSE}]
    \cup [kind : {"count"}, count : Nat, bound : Nat, checked : {TRUE}]

LEMMA AnyLeafFields ==
  ASSUME NEW m \in AnyLeaf
  PROVE  /\ m.kind \in {"primitive", "array", "string", "sequence", "count"}
         /\ m.kind = "primitive" => m.size \in PrimitiveSizes
         /\ m.kind = "array" => m.size \in PrimitiveSizes /\ m.count \in Nat /\ m.count # 0
         /\ m.kind = "string" => m.chars \in Nat /\ m.bound \in Nat /\ m.checked \in BOOLEAN
         /\ m.kind = "sequence" => /\ m.size \in PrimitiveSizes /\ m.count \in Nat
                                   /\ m.bound \in Nat /\ m.checked
         /\ m.kind = "count" => m.count \in Nat /\ m.bound \in Nat /\ m.checked
<1>1. CASE m \in [kind : {"primitive"}, size : PrimitiveSizes]
  BY <1>1
<1>2. CASE m \in [kind : {"array"}, size : PrimitiveSizes, count : Nat \ {0}]
  BY <1>2
<1>3. CASE m \in [kind : {"string"}, chars : Nat, bound : Nat, checked : {TRUE}]
  BY <1>3
<1>4. CASE m \in [kind : {"sequence"}, size : PrimitiveSizes, count : Nat, bound : Nat, checked : {TRUE}]
  BY <1>4
<1>5. CASE m \in [kind : {"string"}, chars : Nat, bound : Nat, checked : {FALSE}]
  BY <1>5
<1>6. CASE m \in [kind : {"count"}, count : Nat, bound : Nat, checked : {TRUE}]
  BY <1>6
<1>7. QED
  BY <1>1, <1>2, <1>3, <1>4, <1>5, <1>6 DEF AnyLeaf, ConstrainedLeaf

LEMMA ConstrainedLeafFields ==
  ASSUME NEW m \in ConstrainedLeaf
  PROVE  /\ m \in AnyLeaf /\ m \in LeafType
         /\ m.kind \in {"primitive", "array", "string", "sequence"}
<1>1. m \in AnyLeaf
  BY DEF AnyLeaf
<1>2. CASE m \in [kind : {"primitive"}, size : PrimitiveSizes]
  BY <1>1, <1>2 DEF LeafType
<1>3. CASE m \in [kind : {"array"}, size : PrimitiveSizes, count : Nat \ {0}]
  BY <1>1, <1>3 DEF LeafType
<1>4. CASE m \in [kind : {"string"}, chars : Nat, bound : Nat, checked : {TRUE}]
  <2>1. m \in [kind : {"string"}, chars : Nat, bound : Nat, checked : BOOLEAN] /\ m.kind = "string"
    BY <1>4
  <2>2. m \in LeafType
    BY <2>1 DEF LeafType
  <2>3. QED
    BY <1>1, <2>1, <2>2
<1>5. CASE m \in [kind : {"sequence"}, size : PrimitiveSizes, count : Nat, bound : Nat, checked : {TRUE}]
  <2>1. /\ m \in [kind : {"sequence"}, size : PrimitiveSizes, count : Nat, bound : Nat, checked : BOOLEAN]
        /\ m.kind = "sequence"
    BY <1>5
  <2>2. m \in LeafType
    BY <2>1 DEF LeafType
  <2>3. QED
    BY <1>1, <2>1, <2>2
<1>6. QED
  BY <1>2, <1>3, <1>4, <1>5 DEF ConstrainedLeaf

LEMMA AnyLeafSizes ==
  ASSUME NEW m \in AnyLeaf
  PROVE  /\ Bytes(m) \in Nat
         /\ FieldAlignment(m) \in PrimitiveSizes
         /\ Prefixed4(m) => /\ Actual(m) \in Nat /\ m.bound \in Nat
                            /\ \A n \in Nat : Length(m, n) \in Nat /\ Number(m, n) \in Nat
<1>1. /\ m.kind = "primitive" => m.size \in Nat
      /\ m.kind \in {"array", "sequence"} => m.size \in PrimitiveSizes /\ m.count \in Nat
      /\ m.kind = "string" => m.chars \in Nat
  BY AnyLeafFields, SizesArePositive
<1>2. m.kind \in {"array", "sequence"} => m.size * m.count \in Nat
  BY <1>1, ProductIsNat
<1>3. Bytes(m) \in Nat
  BY <1>1, <1>2, AnyLeafFields DEF Bytes
<1>4. FieldAlignment(m) \in PrimitiveSizes
  <2>1. PrefixSize \in PrimitiveSizes
    BY DEF PrefixSize, PrimitiveSizes
  <2>2. QED
    BY <2>1, AnyLeafFields DEF FieldAlignment, Prefixed4
<1>5. Prefixed4(m) => /\ Actual(m) \in Nat /\ m.bound \in Nat
                      /\ \A n \in Nat : Length(m, n) \in Nat /\ Number(m, n) \in Nat
  <2>1. Prefixed4(m) => Actual(m) \in Nat /\ m.bound \in Nat
    BY AnyLeafFields DEF Prefixed4, Actual
  <2>2. \A n \in Nat : Length(m, n) \in Nat
    BY DEF Length
  <2>3. \A n \in Nat : Number(m, n) \in Nat
    BY <2>2, LengthsStored DEF Number
  <2>4. QED
    BY <2>1, <2>2, <2>3
<1>6. QED
  BY <1>3, <1>4, <1>5

LEMMA ConstrainedMemberCases ==
  ASSUME NEW m \in ConstrainedMember
  PROVE  \/ m \in ConstrainedLeaf /\ m.kind \in {"primitive", "array", "string", "sequence"}
         \/ /\ m.kind = "strings" /\ m.count \in Nat /\ m.chars \in Nat
            /\ m.bound \in Nat /\ m.charBound \in Nat
         \/ /\ m.kind = "nested" /\ m.fields \in Seq(ConstrainedLeaf) /\ m.fields # <<>>
<1>1. CASE m \in ConstrainedLeaf
  BY <1>1, ConstrainedLeafFields
<1>2. CASE m \in [kind : {"strings"}, count : Nat, chars : Nat, bound : Nat, charBound : Nat]
  BY <1>2
<1>3. CASE m \in [kind : {"nested"}, fields : Seq(ConstrainedLeaf) \ {<<>>}]
  BY <1>3
<1>4. QED
  BY <1>1, <1>2, <1>3 DEF ConstrainedMember

LEMMA LeavesOfMember ==
  ASSUME NEW m \in ConstrainedMember
  PROVE  LeavesOf(m) \in Seq(AnyLeaf)
<1>1. CASE m \in ConstrainedLeaf
  <2>1. m.kind \in {"primitive", "array", "string", "sequence"} /\ m \in AnyLeaf
    BY <1>1, ConstrainedLeafFields
  <2>2. LeavesOf(m) = <<m>>
    BY <2>1 DEF LeavesOf
  <2>3. QED
    BY <2>1, <2>2
<1>2. CASE m.kind = "strings"
  <2>1. m.count \in Nat /\ m.chars \in Nat /\ m.bound \in Nat /\ m.charBound \in Nat
    BY <1>2, ConstrainedMemberCases
  <2> DEFINE c == [kind |-> "count", count |-> m.count, bound |-> m.bound, checked |-> TRUE]
             e == [kind |-> "string", chars |-> m.chars, bound |-> m.charBound, checked |-> FALSE]
  <2>2. c \in AnyLeaf
    <3>1. c \in [kind : {"count"}, count : Nat, bound : Nat, checked : {TRUE}]
      BY <2>1
    <3>2. QED
      BY <3>1 DEF AnyLeaf
  <2>3. e \in AnyLeaf
    <3>1. e \in [kind : {"string"}, chars : Nat, bound : Nat, checked : {FALSE}]
      BY <2>1
    <3>2. QED
      BY <3>1 DEF AnyLeaf
  <2>4. LeavesOf(m) = <<c>> \o Elements(m) /\ Elements(m) = [i \in 1 .. m.count |-> e]
    BY <1>2 DEF LeavesOf, Elements
  <2> HIDE DEF c, e
  <2>5. Elements(m) \in Seq(AnyLeaf) /\ <<c>> \in Seq(AnyLeaf)
    <3> DEFINE n == m.count
               E == Elements(m)
               T == AnyLeaf
    <3>1. n \in Nat /\ E = [i \in 1 .. n |-> e] /\ e \in T /\ c \in T
      BY <2>1, <2>2, <2>3, <2>4
    <3> HIDE DEF n, E, T
    <3>2. E \in Seq(T)
      BY <3>1
    <3>3. <<c>> \in Seq(T)
      BY <3>1
    <3>4. QED
      BY <3>2, <3>3 DEF E, T
  <2>6. QED
    BY <2>4, <2>5, ConcatProperties
<1>3. CASE m.kind = "nested"
  <2>1. m.fields \in Seq(ConstrainedLeaf) /\ LeavesOf(m) = m.fields
    BY <1>3, ConstrainedMemberCases DEF LeavesOf
  <2>2. \A x \in ConstrainedLeaf : x \in AnyLeaf
    BY DEF AnyLeaf
  <2>3. m.fields \in Seq(AnyLeaf)
    BY <2>1, <2>2
  <2>4. QED
    BY <2>1, <2>3
<1>4. QED
  BY <1>1, <1>2, <1>3, ConstrainedMemberCases

MemberLeaves(msg) == [i \in 1 .. Len(msg) |-> LeavesOf(msg[i])]

LEMMA MemberLeavesType ==
  ASSUME NEW msg \in Seq(ConstrainedMember)
  PROVE  /\ MemberLeaves(msg) \in Seq(Seq(AnyLeaf))
         /\ Len(MemberLeaves(msg)) = Len(msg)
         /\ \A k \in 1 .. Len(msg) : MemberLeaves(msg)[k] = LeavesOf(msg[k])
         /\ Leaves(msg) = FlattenSeq(MemberLeaves(msg))
<1>1. Len(msg) \in Nat
  OBVIOUS
<1>2. \A k \in 1 .. Len(msg) : LeavesOf(msg[k]) \in Seq(AnyLeaf)
  <2> TAKE k \in 1 .. Len(msg)
  <2>1. msg[k] \in ConstrainedMember
    OBVIOUS
  <2>2. QED
    BY <2>1, LeavesOfMember
<1> DEFINE S == Seq(AnyLeaf)
           n == Len(msg)
           L(k) == LeavesOf(msg[k])
<1>3. MemberLeaves(msg) = [i \in 1 .. n |-> L(i)]
  BY DEF MemberLeaves
<1>4. n \in Nat /\ \A k \in 1 .. n : L(k) \in S
  BY <1>1, <1>2
<1>5. Leaves(msg) = FlattenSeq(MemberLeaves(msg))
  BY DEF Leaves, MemberLeaves
<1> HIDE DEF S, n, L
<1>6. MemberLeaves(msg) \in Seq(S) /\ Len(MemberLeaves(msg)) = n
  BY <1>3, <1>4
<1>7. \A k \in 1 .. n : MemberLeaves(msg)[k] = L(k)
  BY <1>3
<1>8. QED
  BY <1>5, <1>6, <1>7 DEF S, n, L

LEMMA LeavesType ==
  ASSUME NEW msg \in Seq(ConstrainedMember)
  PROVE  /\ Leaves(msg) \in Seq(AnyLeaf)
         /\ \E st : Starts(st, MemberLeaves(msg))
<1>1. PICK st : Starts(st, MemberLeaves(msg))
  BY MemberLeavesType, StartsExist
<1>2. Leaves(msg) \in Seq(AnyLeaf)
  BY <1>1, MemberLeavesType, Flattened
<1>3. QED
  BY <1>1, <1>2

\* Leaves of the first k members.
LEMMA LeavesOfPrefix ==
  ASSUME NEW msg \in Seq(ConstrainedMember), NEW st, Starts(st, MemberLeaves(msg)),
         NEW k \in 0 .. Len(msg)
  PROVE  Len(Leaves(SubSeq(msg, 1, k))) = st[k]
<1> DEFINE sub == SubSeq(msg, 1, k)
           su == [i \in 0 .. k |-> st[i]]
<1>1. k \in Nat /\ k <= Len(msg) /\ Len(msg) \in Nat
  OBVIOUS
<1>2. /\ sub \in Seq(ConstrainedMember) /\ Len(sub) = k
      /\ \A i \in 1 .. k : sub[i] = msg[i]
  BY <1>1
<1> HIDE DEF sub
<1>3. /\ Len(MemberLeaves(msg)) = Len(msg)
      /\ \A i \in 1 .. Len(msg) : MemberLeaves(msg)[i] = LeavesOf(msg[i])
  BY MemberLeavesType
<1>4. /\ Len(MemberLeaves(sub)) = k /\ MemberLeaves(sub) \in Seq(Seq(AnyLeaf))
      /\ Leaves(sub) = FlattenSeq(MemberLeaves(sub))
      /\ \A i \in 1 .. k : MemberLeaves(sub)[i] = MemberLeaves(msg)[i]
  <2>1. /\ Len(MemberLeaves(sub)) = k /\ MemberLeaves(sub) \in Seq(Seq(AnyLeaf))
        /\ Leaves(sub) = FlattenSeq(MemberLeaves(sub))
        /\ \A i \in 1 .. k : MemberLeaves(sub)[i] = LeavesOf(sub[i])
    BY <1>2, MemberLeavesType
  <2>2. \A i \in 1 .. k : i \in 1 .. Len(msg)
    BY <1>1
  <2>3. QED
    BY <1>2, <1>3, <2>1, <2>2
<1>5. Starts(su, MemberLeaves(sub))
  <2>1. su \in [0 .. k -> Nat]
    <3>1. \A i \in 0 .. k : i \in 0 .. Len(msg)
      BY <1>1
    <3>2. \A i \in 0 .. k : st[i] \in Nat
      BY <1>3, <3>1 DEF Starts
    <3>3. QED
      BY <3>2
  <2>2. su[0] = 0
    BY <1>1 DEF Starts
  <2>3. \A i \in 1 .. k : su[i] = su[i - 1] + Len(MemberLeaves(sub)[i])
    <3> TAKE i \in 1 .. k
    <3>1. i \in 0 .. k /\ i - 1 \in 0 .. k /\ i \in 1 .. Len(msg)
      BY <1>1
    <3>2. st[i] = st[i - 1] + Len(MemberLeaves(msg)[i])
      BY <1>3, <3>1 DEF Starts
    <3>3. QED
      BY <1>4, <3>1, <3>2
  <2> HIDE DEF su
  <2>4. QED
    BY <1>4, <2>1, <2>2, <2>3 DEF Starts
<1>6. Len(FlattenSeq(MemberLeaves(sub))) = su[Len(MemberLeaves(sub))]
  BY <1>4, <1>5, Flattened
<1>7. QED
  BY <1>1, <1>4, <1>6 DEF sub

\* A leaf of a message: of which member, and which of its.
LEMMA LeafAt ==
  ASSUME NEW msg \in Seq(ConstrainedMember), NEW st, Starts(st, MemberLeaves(msg))
  PROVE  /\ Len(Leaves(msg)) = st[Len(msg)]
         /\ \A k \in 0 .. Len(msg) : st[k] \in 0 .. Len(Leaves(msg))
         /\ \A k \in 1 .. Len(msg) : /\ st[k - 1] \in Nat
                                     /\ st[k] = st[k - 1] + Len(LeavesOf(msg[k]))
         /\ \A k \in 1 .. Len(msg) : \A j \in 1 .. Len(LeavesOf(msg[k])) :
              /\ st[k - 1] + j \in 1 .. Len(Leaves(msg))
              /\ Leaves(msg)[st[k - 1] + j] = LeavesOf(msg[k])[j]
         /\ \A i \in 1 .. Len(Leaves(msg)) :
              \E k \in 1 .. Len(msg) : \E j \in 1 .. Len(LeavesOf(msg[k])) : i = st[k - 1] + j
<1> DEFINE ss == MemberLeaves(msg)
           n == Len(msg)
           L == Leaves(msg)
<1>1. /\ ss \in Seq(Seq(AnyLeaf)) /\ Len(ss) = n /\ n \in Nat
      /\ \A k \in 1 .. n : ss[k] = LeavesOf(msg[k]) /\ LeavesOf(msg[k]) \in Seq(AnyLeaf)
      /\ L = FlattenSeq(ss)
  <2>1. \A k \in 1 .. n : msg[k] \in ConstrainedMember
    OBVIOUS
  <2>2. n \in Nat
    OBVIOUS
  <2>3. QED
    BY <2>1, <2>2, MemberLeavesType, LeavesOfMember
<1> HIDE DEF ss, n, L
<1>2. Starts(st, ss)
  BY DEF ss
<1>3. /\ Len(L) = st[n] /\ L \in Seq(AnyLeaf)
      /\ \A k \in 1 .. n : \A j \in 1 .. Len(ss[k]) : L[st[k - 1] + j] = ss[k][j]
  <2>0. ss \in Seq(Seq(AnyLeaf))
    BY <1>1
  <2>1. /\ FlattenSeq(ss) \in Seq(AnyLeaf)
        /\ Len(FlattenSeq(ss)) = st[Len(ss)]
        /\ \A k \in 1 .. Len(ss) : \A j \in 1 .. Len(ss[k]) :
             FlattenSeq(ss)[st[k - 1] + j] = ss[k][j]
    BY <2>0, <1>2, Flattened
  <2>2. Len(ss) = n /\ L = FlattenSeq(ss)
    BY <1>1
  <2>3. QED
    BY <2>1, <2>2
<1>4. /\ \A k \in 0 .. n : \A i \in 1 .. st[k] :
              \E m \in 1 .. k : \E j \in 1 .. Len(ss[m]) : i = st[m - 1] + j
      /\ \A k \in 0 .. n : \A m \in 0 .. k : st[m] <= st[k]
  <2>1. /\ \A k \in 0 .. Len(ss) : \A i \in 1 .. st[k] :
              \E m \in 1 .. k : \E j \in 1 .. Len(ss[m]) : i = st[m - 1] + j
        /\ \A k \in 0 .. Len(ss) : \A m \in 0 .. k : st[m] <= st[k]
    BY <1>1, <1>2, StartsGrow
  <2>2. Len(ss) = n
    BY <1>1
  <2>3. QED
    BY <2>1, <2>2
<1>5. n \in 0 .. n
  BY <1>1
<1>6. \A k \in 0 .. n : st[k] \in Nat
  BY <1>1, <1>2 DEF Starts
<1>7. \A k \in 0 .. n : st[k] \in 0 .. Len(L)
  <2> TAKE k \in 0 .. n
  <2>1. st[k] <= st[n]
    BY <1>4, <1>5
  <2>2. QED
    BY <1>3, <1>5, <1>6, <2>1
<1>8. \A k \in 1 .. n : k \in 0 .. n /\ k - 1 \in 0 .. n
  BY <1>1
<1>9. \A k \in 1 .. n : st[k - 1] \in Nat /\ st[k] = st[k - 1] + Len(LeavesOf(msg[k]))
  BY <1>1, <1>2, <1>6, <1>8 DEF Starts
<1>10. \A k \in 1 .. n : \A j \in 1 .. Len(LeavesOf(msg[k])) :
         st[k - 1] + j \in 1 .. Len(L)
  <2> TAKE k \in 1 .. n
  <2> DEFINE l == Len(LeavesOf(msg[k]))
             p == st[k - 1]
             q == st[k]
             t == Len(L)
  <2>0. l \in Nat
    BY <1>1
  <2> TAKE j \in 1 .. l
  <2>1. p \in Nat /\ q = p + l /\ q \in 0 .. t
    BY <1>7, <1>8, <1>9
  <2>2. t \in Nat
    BY <1>3
  <2> HIDE DEF l, p, q, t
  <2>3. p + j \in 1 .. t
    BY <2>0, <2>1, <2>2
  <2>4. QED
    BY <2>3 DEF p, t
<1>11. \A i \in 1 .. Len(L) :
         \E k \in 1 .. n : \E j \in 1 .. Len(LeavesOf(msg[k])) : i = st[k - 1] + j
  <2>1. \A i \in 1 .. Len(L) : \E k \in 1 .. n : \E j \in 1 .. Len(ss[k]) : i = st[k - 1] + j
    <3>1. Len(L) = st[n]
      BY <1>3
    <3>2. \A i \in 1 .. st[n] : \E k \in 1 .. n : \E j \in 1 .. Len(ss[k]) : i = st[k - 1] + j
      BY <1>4, <1>5
    <3>3. QED
      BY <3>1, <3>2
  <2>2. \A k \in 1 .. n : ss[k] = LeavesOf(msg[k])
    BY <1>1
  <2>3. QED
    BY <2>1, <2>2
<1>12. \A k \in 1 .. n : \A j \in 1 .. Len(LeavesOf(msg[k])) : L[st[k - 1] + j] = LeavesOf(msg[k])[j]
  <2>1. \A k \in 1 .. n : ss[k] = LeavesOf(msg[k])
    BY <1>1
  <2>2. QED
    BY <1>3, <2>1
<1>13. \A k \in 1 .. n : \A j \in 1 .. Len(LeavesOf(msg[k])) :
              /\ st[k - 1] + j \in 1 .. Len(L)
              /\ L[st[k - 1] + j] = LeavesOf(msg[k])[j]
  BY <1>10, <1>12
<1>14. Len(L) = st[n]
  BY <1>3
<1>15. QED
  BY <1>7, <1>9, <1>11, <1>13, <1>14 DEF n, L

--------------------------------------------------------------------------------
(* The folds of the layout, of apply() and of Fill, step by step *)

\* The builder over the fields of a nested message.
LayoutFieldsStays(T, m) ==
  \A k \in 1 .. Len(m.fields) : \A x \in T : LayoutLeaf(x, m.fields[k]) \in T

LayoutFieldsSteps(g, T, b, m) ==
  /\ g \in [0 .. Len(m.fields) -> T]
  /\ g[0] = b /\ FoldLeft(LayoutLeaf, b, m.fields) = g[Len(m.fields)]
  /\ \A k \in 1 .. Len(m.fields) : g[k] = LayoutLeaf(g[k - 1], m.fields[k])

LEMMA LayoutFieldsTrace ==
  ASSUME NEW T, NEW b \in T, NEW m, NEW S, m.fields \in Seq(S),
         LayoutFieldsStays(T, m)
  PROVE  \E g : LayoutFieldsSteps(g, T, b, m)
<1> DEFINE n == Len(m.fields)
           seq == m.fields
           F(x, k) == LayoutLeaf(x, m.fields[k])
           step == [k \in 1 .. n |-> [x \in T |-> F(x, k)]]
           body(f) == [s \in SUBSET DOMAIN seq |->
                        IF s = {} THEN b ELSE F(f[s \ {Max(s)}], Max(s))]
           it == CHOOSE f : f = body(f)
<1>0. n \in Nat /\ DOMAIN seq = 1 .. n
  OBVIOUS
<1>1. FoldLeft(LayoutLeaf, b, m.fields) = it[DOMAIN seq]
  BY <1>0 DEF FoldLeft, MapThenFoldSet
<1>2. step \in [1 .. n -> [T -> T]] /\ \A k \in 1 .. n : \A x \in T : step[k][x] = F(x, k)
  BY DEF LayoutFieldsStays
<1> HIDE DEF F, step, seq, n
<1>3. \E f : f = body(f)
  <2>1. PICK f : FoldsBy(f, n, T, b, step)
    BY <1>0, <1>2, FoldExists
  <2>2. \A s \in SUBSET (1 .. n) :
          s # {} => step[Max(s)][f[s \ {Max(s)}]] = F(f[s \ {Max(s)}], Max(s))
    BY <1>2, <2>1 DEF FoldsBy
  <2>3. f = body(f)
    BY <1>0, <2>1, <2>2 DEF FoldsBy
  <2> HIDE DEF body
  <2>4. QED
    BY <2>3
<1>4. it = body(it)
  BY <1>3
<1> HIDE DEF it
<1>5. it[{}] = b /\ \A s \in SUBSET (1 .. n) : s # {} => it[s] = F(it[s \ {Max(s)}], Max(s))
  BY <1>0, <1>4
<1>6. StepsBy(it, n, T, b, step)
  BY <1>2, <1>5 DEF StepsBy
<1>7. PICK g : TraceOf(g, it, n, T, b, step)
  BY <1>0, <1>2, <1>6, FoldTrace
<1>8. \A k \in 1 .. n : g[k] = F(g[k - 1], k)
  <2> TAKE k \in 1 .. n
  <2>1. k - 1 \in 0 .. n
    BY <1>0
  <2>2. QED
    BY <1>2, <1>7, <2>1 DEF TraceOf
<1>9. g[0] = b /\ g[n] = it[DOMAIN seq]
  BY <1>0, <1>7 DEF TraceOf
<1>10. LayoutFieldsSteps(g, T, b, m)
  BY <1>1, <1>7, <1>8, <1>9 DEF F, n, TraceOf, LayoutFieldsSteps
<1>11. QED
  BY <1>10

\* The builder over the members of a message.
LayoutStays(T, msg) ==
  \A k \in 1 .. Len(msg) : \A x \in T : LayoutMember(x, msg[k]) \in T

LayoutSteps(g, T, b, msg) ==
  /\ g \in [0 .. Len(msg) -> T]
  /\ g[0] = b /\ LayoutOf(msg) = Finalize(g[Len(msg)])
  /\ \A k \in 1 .. Len(msg) : g[k] = LayoutMember(g[k - 1], msg[k])

LEMMA LayoutTrace ==
  ASSUME NEW T, NEW b \in T, b = NewBuilder, NEW msg, NEW S, msg \in Seq(S),
         LayoutStays(T, msg)
  PROVE  \E g : LayoutSteps(g, T, b, msg)
<1> DEFINE n == Len(msg)
           seq == msg
           F(x, k) == LayoutMember(x, msg[k])
           step == [k \in 1 .. n |-> [x \in T |-> F(x, k)]]
           body(f) == [s \in SUBSET DOMAIN seq |->
                        IF s = {} THEN b ELSE F(f[s \ {Max(s)}], Max(s))]
           it == CHOOSE f : f = body(f)
<1>0. n \in Nat /\ DOMAIN seq = 1 .. n
  OBVIOUS
<1>1. LayoutOf(msg) = Finalize(it[DOMAIN seq])
  BY <1>0 DEF LayoutOf, FoldLeft, MapThenFoldSet
<1>2. step \in [1 .. n -> [T -> T]] /\ \A k \in 1 .. n : \A x \in T : step[k][x] = F(x, k)
  BY DEF LayoutStays
<1> HIDE DEF F, step, seq, n
<1>3. \E f : f = body(f)
  <2>1. PICK f : FoldsBy(f, n, T, b, step)
    BY <1>0, <1>2, FoldExists
  <2>2. \A s \in SUBSET (1 .. n) :
          s # {} => step[Max(s)][f[s \ {Max(s)}]] = F(f[s \ {Max(s)}], Max(s))
    BY <1>2, <2>1 DEF FoldsBy
  <2>3. f = body(f)
    BY <1>0, <2>1, <2>2 DEF FoldsBy
  <2> HIDE DEF body
  <2>4. QED
    BY <2>3
<1>4. it = body(it)
  BY <1>3
<1> HIDE DEF it
<1>5. it[{}] = b /\ \A s \in SUBSET (1 .. n) : s # {} => it[s] = F(it[s \ {Max(s)}], Max(s))
  BY <1>0, <1>4
<1>6. StepsBy(it, n, T, b, step)
  BY <1>2, <1>5 DEF StepsBy
<1>7. PICK g : TraceOf(g, it, n, T, b, step)
  BY <1>0, <1>2, <1>6, FoldTrace
<1>8. \A k \in 1 .. n : g[k] = F(g[k - 1], k)
  <2> TAKE k \in 1 .. n
  <2>1. k - 1 \in 0 .. n
    BY <1>0
  <2>2. QED
    BY <1>2, <1>7, <2>1 DEF TraceOf
<1>9. g[0] = b /\ g[n] = it[DOMAIN seq]
  BY <1>0, <1>7 DEF TraceOf
<1>10. LayoutSteps(g, T, b, msg)
  BY <1>1, <1>7, <1>8, <1>9 DEF F, n, TraceOf, LayoutSteps
<1>11. QED
  BY <1>10

\* apply() over the members of a struct.
ApplyFieldsStays(T, m) ==
  \A k \in 1 .. Len(m.layout.members) : \A x \in T : ApplyMember(x, HeaderSize + m.offset, m.layout.members[k]) \in T

ApplyFieldsSteps(g, T, b, m) ==
  /\ g \in [0 .. Len(m.layout.members) -> T]
  /\ g[0] = b /\ FoldLeft(LAMBDA x, f : ApplyMember(x, HeaderSize + m.offset, f), b, m.layout.members) = g[Len(m.layout.members)]
  /\ \A k \in 1 .. Len(m.layout.members) : g[k] = ApplyMember(g[k - 1], HeaderSize + m.offset, m.layout.members[k])

LEMMA ApplyFieldsTrace ==
  ASSUME NEW T, NEW b \in T, NEW m, NEW S, m.layout.members \in Seq(S),
         ApplyFieldsStays(T, m)
  PROVE  \E g : ApplyFieldsSteps(g, T, b, m)
<1> DEFINE n == Len(m.layout.members)
           seq == m.layout.members
           F(x, k) == ApplyMember(x, HeaderSize + m.offset, m.layout.members[k])
           step == [k \in 1 .. n |-> [x \in T |-> F(x, k)]]
           body(f) == [s \in SUBSET DOMAIN seq |->
                        IF s = {} THEN b ELSE F(f[s \ {Max(s)}], Max(s))]
           it == CHOOSE f : f = body(f)
<1>0. n \in Nat /\ DOMAIN seq = 1 .. n
  OBVIOUS
<1>1. FoldLeft(LAMBDA x, f : ApplyMember(x, HeaderSize + m.offset, f), b, m.layout.members) = it[DOMAIN seq]
  BY <1>0 DEF FoldLeft, MapThenFoldSet
<1>2. step \in [1 .. n -> [T -> T]] /\ \A k \in 1 .. n : \A x \in T : step[k][x] = F(x, k)
  BY DEF ApplyFieldsStays
<1> HIDE DEF F, step, seq, n
<1>3. \E f : f = body(f)
  <2>1. PICK f : FoldsBy(f, n, T, b, step)
    BY <1>0, <1>2, FoldExists
  <2>2. \A s \in SUBSET (1 .. n) :
          s # {} => step[Max(s)][f[s \ {Max(s)}]] = F(f[s \ {Max(s)}], Max(s))
    BY <1>2, <2>1 DEF FoldsBy
  <2>3. f = body(f)
    BY <1>0, <2>1, <2>2 DEF FoldsBy
  <2> HIDE DEF body
  <2>4. QED
    BY <2>3
<1>4. it = body(it)
  BY <1>3
<1> HIDE DEF it
<1>5. it[{}] = b /\ \A s \in SUBSET (1 .. n) : s # {} => it[s] = F(it[s \ {Max(s)}], Max(s))
  BY <1>0, <1>4
<1>6. StepsBy(it, n, T, b, step)
  BY <1>2, <1>5 DEF StepsBy
<1>7. PICK g : TraceOf(g, it, n, T, b, step)
  BY <1>0, <1>2, <1>6, FoldTrace
<1>8. \A k \in 1 .. n : g[k] = F(g[k - 1], k)
  <2> TAKE k \in 1 .. n
  <2>1. k - 1 \in 0 .. n
    BY <1>0
  <2>2. QED
    BY <1>2, <1>7, <2>1 DEF TraceOf
<1>9. g[0] = b /\ g[n] = it[DOMAIN seq]
  BY <1>0, <1>7 DEF TraceOf
<1>10. ApplyFieldsSteps(g, T, b, m)
  BY <1>1, <1>7, <1>8, <1>9 DEF F, n, TraceOf, ApplyFieldsSteps
<1>11. QED
  BY <1>10

\* apply() of one member of a message's layout.
Applied(x, m) ==
  IF m.layout.kind = "struct"
  THEN FoldLeft(LAMBDA y, f : ApplyMember(y, HeaderSize + m.offset, f), x, m.layout.members)
  ELSE ApplyMember(x, HeaderSize, m)

\* apply() over the members of a layout.
ApplyStays(T, l) ==
  \A k \in 1 .. Len(l.members) : \A x \in T : Applied(x, l.members[k]) \in T

ApplySteps(g, T, b, l) ==
  /\ g \in [0 .. Len(l.members) -> T]
  /\ g[0] = b /\ Apply(l) = g[Len(l.members)]
  /\ \A k \in 1 .. Len(l.members) : g[k] = Applied(g[k - 1], l.members[k])

LEMMA ApplyTrace ==
  ASSUME NEW T, NEW b \in T, NEW l, b = [o \in 0 .. (l.size - 1) |-> Junk], NEW S, l.members \in Seq(S),
         ApplyStays(T, l)
  PROVE  \E g : ApplySteps(g, T, b, l)
<1> DEFINE n == Len(l.members)
           seq == l.members
           F(x, k) == Applied(x, l.members[k])
           step == [k \in 1 .. n |-> [x \in T |-> F(x, k)]]
           body(f) == [s \in SUBSET DOMAIN seq |->
                        IF s = {} THEN b ELSE F(f[s \ {Max(s)}], Max(s))]
           it == CHOOSE f : f = body(f)
<1>0. n \in Nat /\ DOMAIN seq = 1 .. n
  OBVIOUS
<1>1. Apply(l) = it[DOMAIN seq]
  BY <1>0 DEF Apply, Applied, FoldLeft, MapThenFoldSet
<1>2. step \in [1 .. n -> [T -> T]] /\ \A k \in 1 .. n : \A x \in T : step[k][x] = F(x, k)
  BY DEF ApplyStays
<1> HIDE DEF F, step, seq, n
<1>3. \E f : f = body(f)
  <2>1. PICK f : FoldsBy(f, n, T, b, step)
    BY <1>0, <1>2, FoldExists
  <2>2. \A s \in SUBSET (1 .. n) :
          s # {} => step[Max(s)][f[s \ {Max(s)}]] = F(f[s \ {Max(s)}], Max(s))
    BY <1>2, <2>1 DEF FoldsBy
  <2>3. f = body(f)
    BY <1>0, <2>1, <2>2 DEF FoldsBy
  <2> HIDE DEF body
  <2>4. QED
    BY <2>3
<1>4. it = body(it)
  BY <1>3
<1> HIDE DEF it
<1>5. it[{}] = b /\ \A s \in SUBSET (1 .. n) : s # {} => it[s] = F(it[s \ {Max(s)}], Max(s))
  BY <1>0, <1>4
<1>6. StepsBy(it, n, T, b, step)
  BY <1>2, <1>5 DEF StepsBy
<1>7. PICK g : TraceOf(g, it, n, T, b, step)
  BY <1>0, <1>2, <1>6, FoldTrace
<1>8. \A k \in 1 .. n : g[k] = F(g[k - 1], k)
  <2> TAKE k \in 1 .. n
  <2>1. k - 1 \in 0 .. n
    BY <1>0
  <2>2. QED
    BY <1>2, <1>7, <2>1 DEF TraceOf
<1>9. g[0] = b /\ g[n] = it[DOMAIN seq]
  BY <1>0, <1>7 DEF TraceOf
<1>10. ApplySteps(g, T, b, l)
  BY <1>1, <1>7, <1>8, <1>9 DEF F, n, TraceOf, ApplySteps
<1>11. QED
  BY <1>10

\* The application over the leaves of a message.
FillStays(T, L) ==
  \A k \in 1 .. L : \A x \in T : Filled(x, k) \in T

FillSteps(g, T, b, L) ==
  /\ g \in [0 .. L -> T]
  /\ g[0] = b /\ FoldLeft(Filled, b, [i \in 1 .. L |-> i]) = g[L]
  /\ \A k \in 1 .. L : g[k] = Filled(g[k - 1], k)

LEMMA FillTrace ==
  ASSUME NEW T, NEW b \in T, NEW L \in Nat,
         FillStays(T, L)
  PROVE  \E g : FillSteps(g, T, b, L)
<1> DEFINE n == L
           seq == [i \in 1 .. L |-> i]
           F(x, k) == Filled(x, seq[k])
           step == [k \in 1 .. n |-> [x \in T |-> F(x, k)]]
           body(f) == [s \in SUBSET DOMAIN seq |->
                        IF s = {} THEN b ELSE F(f[s \ {Max(s)}], Max(s))]
           it == CHOOSE f : f = body(f)
<1>0. n \in Nat /\ DOMAIN seq = 1 .. n
  OBVIOUS
<1>12. \A k \in 1 .. n : seq[k] = k
  OBVIOUS
<1>1. FoldLeft(Filled, b, [i \in 1 .. L |-> i]) = it[DOMAIN seq]
  BY <1>0 DEF FoldLeft, MapThenFoldSet
<1>2. step \in [1 .. n -> [T -> T]] /\ \A k \in 1 .. n : \A x \in T : step[k][x] = F(x, k)
  BY <1>12 DEF FillStays
<1> HIDE DEF F, step, seq, n
<1>3. \E f : f = body(f)
  <2>1. PICK f : FoldsBy(f, n, T, b, step)
    BY <1>0, <1>2, FoldExists
  <2>2. \A s \in SUBSET (1 .. n) :
          s # {} => step[Max(s)][f[s \ {Max(s)}]] = F(f[s \ {Max(s)}], Max(s))
    BY <1>2, <2>1 DEF FoldsBy
  <2>3. f = body(f)
    BY <1>0, <2>1, <2>2 DEF FoldsBy
  <2> HIDE DEF body
  <2>4. QED
    BY <2>3
<1>4. it = body(it)
  BY <1>3
<1> HIDE DEF it
<1>5. it[{}] = b /\ \A s \in SUBSET (1 .. n) : s # {} => it[s] = F(it[s \ {Max(s)}], Max(s))
  BY <1>0, <1>4
<1>6. StepsBy(it, n, T, b, step)
  BY <1>2, <1>5 DEF StepsBy
<1>7. PICK g : TraceOf(g, it, n, T, b, step)
  BY <1>0, <1>2, <1>6, FoldTrace
<1>8. \A k \in 1 .. n : g[k] = F(g[k - 1], k)
  <2> TAKE k \in 1 .. n
  <2>1. k - 1 \in 0 .. n
    BY <1>0
  <2>2. QED
    BY <1>2, <1>7, <2>1 DEF TraceOf
<1>9. g[0] = b /\ g[n] = it[DOMAIN seq]
  BY <1>0, <1>7 DEF TraceOf
<1>10. FillSteps(g, T, b, L)
  BY <1>1, <1>7, <1>8, <1>9, <1>12 DEF F, n, TraceOf, FillSteps
<1>11. QED
  BY <1>10

--------------------------------------------------------------------------------
(* What the layout builder makes of each member *)

LEMMA MaxOfTwo ==
  ASSUME NEW a \in Int, NEW b \in Int
  PROVE  Max({a, b}) = IF a >= b THEN a ELSE b
<1>1. CASE a >= b
  <2>1. {a, b} \in SUBSET Int /\ a \in {a, b} /\ \A k \in {a, b} : k <= a
    BY <1>1
  <2>2. QED
    BY <1>1, <2>1, MaxOfTop
<1>2. CASE ~(a >= b)
  <2>1. {a, b} \in SUBSET Int /\ b \in {a, b} /\ \A k \in {a, b} : k <= b
    BY <1>2
  <2>2. QED
    BY <1>2, <2>1, MaxOfTop
<1>3. QED
  BY <1>1, <1>2

LEMMA MaxOfSizes ==
  ASSUME NEW a \in PrimitiveSizes, NEW b \in PrimitiveSizes
  PROVE  Max({a, b}) \in PrimitiveSizes /\ (b <= a => Max({a, b}) = a) /\ Max({1, a}) = a
<1>1. a \in Int /\ b \in Int /\ 1 \in Int /\ a >= 1
  BY DEF PrimitiveSizes
<1>2. Max({a, b}) = IF a >= b THEN a ELSE b
  BY <1>1, MaxOfTwo
<1>3. Max({1, a}) = a
  <2>1. Max({1, a}) = IF 1 >= a THEN 1 ELSE a
    BY <1>1, MaxOfTwo
  <2>2. QED
    BY <1>1, <2>1
<1>4. QED
  BY <1>1, <1>2, <1>3

(***************************************************************************)
(* Layouts, builders and what they are made of.                            *)
(***************************************************************************)
LeafLayouts ==
  [kind : {"primitive"}, size : Nat, align : PrimitiveSizes]
    \cup [kind : {"array"}, element : PrimitiveSizes, count : Nat, size : Nat, align : PrimitiveSizes]
    \cup [kind : {"string"}, chars : Nat, align : PrimitiveSizes, size : Nat]
    \cup [kind : {"sequence"}, element : PrimitiveSizes, count : Nat, align : PrimitiveSizes, size : Nat]

PlacedLeaves == [offset : Nat, layout : LeafLayouts]

MemberLayouts ==
  LeafLayouts
    \cup [kind : {"strings"}, count : Nat, elements : Seq(PlacedLeaves), align : PrimitiveSizes, size : Nat]
    \cup [kind : {"struct"}, members : Seq(PlacedLeaves), size : Nat, align : PrimitiveSizes]

PlacedMembers == [offset : Nat, layout : MemberLayouts]

Builders ==
  [offset : Nat, maxAlign : PrimitiveSizes, members : Seq(PlacedMembers), contexts : {<<>>}]

Structs == [offset : Nat, maxAlign : PrimitiveSizes, members : Seq(PlacedLeaves)]

LEMMA AlignOffsetIs ==
  ASSUME NEW o \in Nat, NEW a \in PrimitiveSizes
  PROVE  AlignTo(o, a) \in Nat /\ o <= AlignTo(o, a)
<1>1. o \in Int
  OBVIOUS
<1>2. AlignTo(o, a) \in Int /\ o <= AlignTo(o, a)
  BY <1>1, AlignToBounds
<1>3. QED
  BY <1>2

\* The layout a field of a constrained type gets.
LeafLayout(m) ==
  CASE m.kind = "primitive" -> PrimitiveLayout(m.size)
    [] m.kind = "array" -> PrimitiveArrayLayout(m.size, m.count)
    [] m.kind = "string" -> StringLayout(m.bound, 1)
    [] m.kind = "sequence" -> PrimitiveSequenceLayout(m.size, m.bound)

LEMMA LeafLayoutIs ==
  ASSUME NEW m \in ConstrainedLeaf
  PROVE  /\ LeafLayout(m) \in LeafLayouts
         /\ LeafLayout(m).kind = m.kind
         /\ LeafLayout(m).size \in Nat
         /\ LeafLayout(m).align = FieldAlignment(m)
         /\ FieldAlignment(m) \in PrimitiveSizes
<1>0. m \in AnyLeaf /\ m.kind \in {"primitive", "array", "string", "sequence"}
  BY ConstrainedLeafFields
<1>1. PrefixSize \in PrimitiveSizes /\ PrefixSize \in Nat /\ PrefixSize \in Int
  BY DEF PrefixSize, PrimitiveSizes
<1>2. CASE m.kind = "primitive"
  <2>1. LeafLayout(m) = [kind |-> "primitive", size |-> m.size, align |-> m.size]
    BY <1>2 DEF LeafLayout, PrimitiveLayout
  <2>2. m.size \in PrimitiveSizes /\ m.size \in Nat /\ FieldAlignment(m) = m.size
    BY <1>0, <1>2, AnyLeafFields, SizesArePositive DEF FieldAlignment, Prefixed4
  <2>3. LeafLayout(m) \in LeafLayouts
    BY <2>1, <2>2 DEF LeafLayouts
  <2>4. QED
    BY <1>2, <2>1, <2>2, <2>3
<1>3. CASE m.kind = "array"
  <2>1. LeafLayout(m) = [kind |-> "array", element |-> m.size, count |-> m.count,
                         size |-> m.size * m.count, align |-> m.size]
    BY <1>3 DEF LeafLayout, PrimitiveArrayLayout
  <2>2. m.size \in PrimitiveSizes /\ m.count \in Nat /\ FieldAlignment(m) = m.size
    BY <1>0, <1>3, AnyLeafFields DEF FieldAlignment, Prefixed4
  <2>3. m.size * m.count \in Nat
    BY <2>2, ProductIsNat
  <2>4. LeafLayout(m) \in LeafLayouts
    BY <2>1, <2>2, <2>3 DEF LeafLayouts
  <2>5. QED
    BY <1>3, <2>1, <2>2, <2>3, <2>4
<1>4. CASE m.kind = "string"
  <2>1. LeafLayout(m) = [kind |-> "string", chars |-> m.bound, align |-> PrefixSize,
                         size |-> PrefixSize + m.bound * 1 + 1]
    BY <1>4 DEF LeafLayout, StringLayout
  <2>2. m.bound \in Nat /\ FieldAlignment(m) = PrefixSize
    BY <1>0, <1>4, AnyLeafFields DEF FieldAlignment, Prefixed4
  <2>3. PrefixSize + m.bound * 1 + 1 \in Nat
    BY <1>1, <2>2
  <2>4. LeafLayout(m) \in LeafLayouts
    BY <1>1, <2>1, <2>2, <2>3 DEF LeafLayouts
  <2>5. QED
    BY <1>1, <1>4, <2>1, <2>2, <2>3, <2>4
<1>5. CASE m.kind = "sequence"
  <2>1. LeafLayout(m) = [kind |-> "sequence", element |-> m.size, count |-> m.bound, align |-> PrefixSize,
                         size |-> AlignTo(PrefixSize, m.size) + m.size * m.bound]
    BY <1>5 DEF LeafLayout, PrimitiveSequenceLayout
  <2>2. m.size \in PrimitiveSizes /\ m.bound \in Nat /\ FieldAlignment(m) = PrefixSize
    BY <1>0, <1>5, AnyLeafFields DEF FieldAlignment, Prefixed4
  <2>3. m.size * m.bound \in Nat
    BY <2>2, ProductIsNat
  <2>4. AlignTo(PrefixSize, m.size) \in Nat
    BY <1>1, <2>2, AlignOffsetIs
  <2>5. AlignTo(PrefixSize, m.size) + m.size * m.bound \in Nat
    BY <2>3, <2>4
  <2>6. LeafLayout(m) \in LeafLayouts
    BY <1>1, <2>1, <2>2, <2>5 DEF LeafLayouts
  <2>7. QED
    BY <1>1, <1>5, <2>1, <2>2, <2>5, <2>6
<1>6. QED
  BY <1>0, <1>2, <1>3, <1>4, <1>5

LEMMA LayoutKinds ==
  ASSUME NEW l \in MemberLayouts
  PROVE  l.size \in Nat /\ l.align \in PrimitiveSizes
<1>1. CASE l \in LeafLayouts
  BY <1>1 DEF LeafLayouts
<1>2. CASE l \notin LeafLayouts
  BY <1>2 DEF MemberLayouts
<1>3. QED
  BY <1>1, <1>2

\* A struct record with another member behind those it has.
Extended(b, l) ==
  [offset   |-> AlignTo(b.offset, l.align) + l.size,
   maxAlign |-> Max({b.maxAlign, l.align}),
   members  |-> Append(b.members, Member(AlignTo(b.offset, l.align), l))]

LEMMA ExtendedIs ==
  ASSUME NEW T, NEW b, b.offset \in Nat, b.maxAlign \in PrimitiveSizes,
         b.members \in Seq([offset : Nat, layout : T]),
         NEW l \in T, l.size \in Nat, l.align \in PrimitiveSizes, NEW e, e = Extended(b, l)
  PROVE  e.offset \in Nat /\ e.maxAlign \in PrimitiveSizes
         /\ e.members \in Seq([offset : Nat, layout : T])
         /\ Len(e.members) = Len(b.members) + 1
         /\ e.members[Len(b.members) + 1] = Member(AlignTo(b.offset, l.align), l)
         /\ \A i \in 1 .. Len(b.members) : e.members[i] = b.members[i]
<1>1. AlignTo(b.offset, l.align) \in Nat
  BY AlignOffsetIs
<1>2. Max({b.maxAlign, l.align}) \in PrimitiveSizes
  BY MaxOfSizes
<1> DEFINE U == [offset : Nat, layout : T]
           x == Member(AlignTo(b.offset, l.align), l)
           s == b.members
<1>3. x \in U
  BY <1>1 DEF Member
<1>4. s \in Seq(U)
  OBVIOUS
<1>5. e.members = Append(s, x) /\ e.maxAlign = Max({b.maxAlign, l.align})
      /\ e.offset = AlignTo(b.offset, l.align) + l.size
  BY DEF Extended
<1> HIDE DEF U, x, s
<1>6. Append(s, x) \in Seq(U) /\ Len(Append(s, x)) = Len(s) + 1
      /\ Append(s, x)[Len(s) + 1] = x
      /\ \A i \in 1 .. Len(s) : Append(s, x)[i] = s[i]
  BY <1>3, <1>4, AppendProperties
<1>7. QED
  BY <1>1, <1>2, <1>5, <1>6 DEF U, x, s

\* A builder given field by field, and the assignments to its fields.
BuilderOf(o, x, ms, cs) == [offset |-> o, maxAlign |-> x, members |-> ms, contexts |-> cs]

LEMMA BuilderFields ==
  ASSUME NEW o, NEW x, NEW ms, NEW cs, NEW m
  PROVE  LET b == BuilderOf(o, x, ms, cs)
         IN /\ b.offset = o /\ b.maxAlign = x /\ b.members = ms /\ b.contexts = cs
            /\ [b EXCEPT !.offset = m] = BuilderOf(m, x, ms, cs)
            /\ [b EXCEPT !.maxAlign = m] = BuilderOf(o, m, ms, cs)
            /\ [b EXCEPT !.members = m] = BuilderOf(o, x, m, cs)
            /\ [b EXCEPT !.contexts = m] = BuilderOf(o, x, ms, m)
BY DEF BuilderOf

LEMMA TwoAssignments ==
  ASSUME NEW b, NEW p, NEW q
  PROVE  /\ [b EXCEPT !.offset = p, !.maxAlign = q] = [[b EXCEPT !.offset = p] EXCEPT !.maxAlign = q]
         /\ [b EXCEPT !.members = p, !.offset = q] = [[b EXCEPT !.members = p] EXCEPT !.offset = q]
OBVIOUS

LEMMA AlignOffsetFields ==
  ASSUME NEW o, NEW x, NEW ms, NEW cs, NEW a
  PROVE  AlignOffset(BuilderOf(o, x, ms, cs), a) = BuilderOf(AlignTo(o, a), Max({x, a}), ms, cs)
<1> DEFINE b == BuilderOf(o, x, ms, cs)
           p == AlignTo(o, a)
           q == Max({x, a})
<1>1. b.offset = o /\ b.maxAlign = x /\ [b EXCEPT !.offset = p] = BuilderOf(p, x, ms, cs)
  BY BuilderFields
<1>2. [BuilderOf(p, x, ms, cs) EXCEPT !.maxAlign = q] = BuilderOf(p, q, ms, cs)
  BY BuilderFields
<1> HIDE DEF b, p, q
<1>3. AlignOffset(b, a) = [b EXCEPT !.offset = p, !.maxAlign = q]
  BY <1>1 DEF AlignOffset, p, q
<1>4. AlignOffset(b, a) = BuilderOf(p, q, ms, cs)
  BY <1>1, <1>2, <1>3, TwoAssignments
<1>5. QED
  BY <1>4 DEF b, p, q

LEMMA BuildersFields ==
  ASSUME NEW b \in Builders
  PROVE  /\ b = BuilderOf(b.offset, b.maxAlign, b.members, <<>>)
         /\ b.offset \in Nat /\ b.maxAlign \in PrimitiveSizes /\ b.members \in Seq(PlacedMembers)
         /\ b.contexts = <<>>
BY DEF Builders, BuilderOf

LEMMA PlaceFields ==
  ASSUME NEW o, NEW x, NEW ms, NEW cs, NEW l, NEW b, b = BuilderOf(o, x, ms, cs)
  PROVE  Place(b, l) = BuilderOf(AlignTo(o, l.align) + l.size, Max({x, l.align}),
                                 Append(ms, Member(AlignTo(o, l.align), l)), cs)
<1> DEFINE at == AlignTo(o, l.align)
           mx == Max({x, l.align})
           to == at + l.size
           grown == Append(ms, Member(at, l))
           a == BuilderOf(at, mx, ms, cs)
<1>1. AlignOffset(b, l.align) = a
  BY AlignOffsetFields
<1> HIDE DEF at, mx, to, grown
<1>2. a.offset = at /\ a.members = ms /\ [a EXCEPT !.members = grown] = BuilderOf(at, mx, grown, cs)
  BY BuilderFields
<1>3. [BuilderOf(at, mx, grown, cs) EXCEPT !.offset = to] = BuilderOf(to, mx, grown, cs)
  BY BuilderFields
<1> HIDE DEF a
<1>4. Place(b, l) = [a EXCEPT !.members = Append(@, Member(a.offset, l)), !.offset = @ + l.size]
  BY <1>1 DEF Place
<1>5. Place(b, l) = [a EXCEPT !.members = grown, !.offset = to]
  BY <1>2, <1>4 DEF grown, to
<1>6. Place(b, l) = BuilderOf(to, mx, grown, cs)
  BY <1>2, <1>3, <1>5, TwoAssignments
<1>7. QED
  BY <1>6 DEF at, mx, to, grown

LEMMA PlaceOnTop ==
  ASSUME NEW b \in Builders, NEW l \in MemberLayouts, NEW e, e = Extended(b, l)
  PROVE  LET c == BuilderOf(e.offset, e.maxAlign, e.members, <<>>)
         IN /\ Allocate(b, l) = c /\ AllocateInOneShot(b, l) = c /\ c \in Builders
<1> DEFINE c == BuilderOf(e.offset, e.maxAlign, e.members, <<>>)
           at == AlignTo(b.offset, l.align)
           mx == Max({b.maxAlign, l.align})
           ms == b.members
           to == at + l.size
           grown == Append(ms, Member(at, l))
           a == BuilderOf(at, mx, ms, <<>>)
           d == BuilderOf(to, mx, ms, <<>>)
<1>1. b = BuilderOf(b.offset, b.maxAlign, ms, <<>>) /\ b.contexts = <<>>
  BY BuildersFields
<1>2. AlignOffset(b, l.align) = a
  BY <1>1, AlignOffsetFields
<1>0. c = BuilderOf(to, mx, grown, <<>>)
  BY DEF Extended
<1>3. Place(b, l) = BuilderOf(to, mx, grown, <<>>)
  BY <1>1, PlaceFields
<1> HIDE DEF c, at, mx, ms, to, grown
<1>8. a.offset = at /\ [a EXCEPT !.offset = to] = d
  BY BuilderFields
<1>9. d.contexts = <<>> /\ d.members = ms /\ [d EXCEPT !.members = grown] = BuilderOf(to, mx, grown, <<>>)
  BY BuilderFields
<1> HIDE DEF a, d
<1>4. ~InStruct(b) /\ Allocate(b, l) = Place(b, l)
  BY <1>1 DEF InStruct, TopIs, Allocate
<1>5. AllocateInOneShot(b, l) = c
  <2>1. AllocateInOneShot(b, l) = AddField([a EXCEPT !.offset = @ + l.size], Member(a.offset, l))
    BY <1>2 DEF AllocateInOneShot
  <2>2. AllocateInOneShot(b, l) = AddField(d, Member(at, l))
    BY <1>8, <2>1 DEF to
  <2>3. ~InStruct(d)
    BY <1>9 DEF InStruct, TopIs
  <2>4. AddField(d, Member(at, l)) = [d EXCEPT !.members = grown]
    BY <1>9, <2>3 DEF AddField, grown
  <2>5. QED
    BY <1>0, <1>9, <2>2, <2>4
<1>6. c \in Builders
  <2>1. l.size \in Nat /\ l.align \in PrimitiveSizes
    BY LayoutKinds
  <2>2. b.offset \in Nat /\ b.maxAlign \in PrimitiveSizes
        /\ b.members \in Seq([offset : Nat, layout : MemberLayouts])
    BY BuildersFields DEF PlacedMembers
  <2>3. e.offset \in Nat /\ e.maxAlign \in PrimitiveSizes
        /\ e.members \in Seq([offset : Nat, layout : MemberLayouts])
    BY <2>1, <2>2, ExtendedIs
  <2>4. QED
    BY <2>3 DEF c, Builders, BuilderOf, PlacedMembers
<1>7. QED
  BY <1>0, <1>3, <1>4, <1>5, <1>6 DEF c

\* A field of a message of its own.
LEMMA LayoutLeafOnTop ==
  ASSUME NEW b \in Builders, NEW m \in ConstrainedLeaf, NEW e, e = Extended(b, LeafLayout(m))
  PROVE  LET c == BuilderOf(e.offset, e.maxAlign, e.members, <<>>)
         IN LayoutLeaf(b, m) = c /\ LayoutMember(b, m) = c /\ c \in Builders
<1> DEFINE l == LeafLayout(m)
           c == BuilderOf(e.offset, e.maxAlign, e.members, <<>>)
<1>1. l \in MemberLayouts
  BY LeafLayoutIs DEF MemberLayouts
<1>2. m.kind \in {"primitive", "array", "string", "sequence"}
  BY ConstrainedLeafFields
<1>3. LayoutLeaf(b, m) \in {Allocate(b, l), AllocateInOneShot(b, l)} /\ LayoutMember(b, m) = LayoutLeaf(b, m)
  BY <1>2 DEF LayoutLeaf, LayoutMember, LeafLayout
<1> HIDE DEF l, c
<1>4. Allocate(b, l) = c /\ AllocateInOneShot(b, l) = c /\ c \in Builders
  BY <1>1, PlaceOnTop DEF l, c
<1>5. LayoutLeaf(b, m) = c /\ LayoutMember(b, m) = c /\ c \in Builders
  BY <1>3, <1>4
<1>6. QED
  BY <1>5 DEF c

StructOf(o, x, ms) == [offset |-> o, maxAlign |-> x, members |-> ms]

StructContext(start, n) ==
  [type |-> "struct", start |-> start, count |-> 0, elements |-> <<>>, nested |-> n]

LEMMA StructFields ==
  ASSUME NEW o, NEW x, NEW ms, NEW m
  PROVE  LET n == StructOf(o, x, ms)
         IN /\ n.offset = o /\ n.maxAlign = x /\ n.members = ms
            /\ [n EXCEPT !.offset = m] = StructOf(m, x, ms)
            /\ [n EXCEPT !.maxAlign = m] = StructOf(o, m, ms)
            /\ [n EXCEPT !.members = m] = StructOf(o, x, m)
BY DEF StructOf

LEMMA PlaceInStruct ==
  ASSUME NEW o, NEW x, NEW ms, NEW l, NEW n, n = StructOf(o, x, ms)
  PROVE  Place(n, l) = Extended(n, l)
<1> DEFINE at == AlignTo(o, l.align)
           mx == Max({x, l.align})
           to == at + l.size
           grown == Append(ms, Member(at, l))
           a == StructOf(at, mx, ms)
           a1 == StructOf(at, x, ms)
<1>0. n.offset = o /\ n.maxAlign = x /\ n.members = ms
  BY StructFields
<1>1. Extended(n, l) = StructOf(to, mx, grown)
  BY <1>0 DEF Extended, StructOf
<1> HIDE DEF at, mx, to, grown
<1>2. [n EXCEPT !.offset = at] = a1 /\ [a1 EXCEPT !.maxAlign = mx] = a
  BY StructFields
<1>3. a.offset = at /\ a.members = ms /\ [a EXCEPT !.members = grown] = StructOf(at, mx, grown)
  BY StructFields
<1>4. [StructOf(at, mx, grown) EXCEPT !.offset = to] = StructOf(to, mx, grown)
  BY StructFields
<1> HIDE DEF a, a1
<1>5. AlignOffset(n, l.align) = [n EXCEPT !.offset = at, !.maxAlign = mx]
  BY <1>0 DEF AlignOffset, at, mx
<1>6. AlignOffset(n, l.align) = a
  BY <1>2, <1>5, TwoAssignments
<1>7. Place(n, l) = [a EXCEPT !.members = Append(@, Member(a.offset, l)), !.offset = @ + l.size]
  BY <1>6 DEF Place
<1>8. Place(n, l) = [a EXCEPT !.members = grown, !.offset = to]
  BY <1>3, <1>7 DEF grown, to
<1>9. Place(n, l) = StructOf(to, mx, grown)
  BY <1>3, <1>4, <1>8, TwoAssignments
<1>10. QED
  BY <1>1, <1>9

LEMMA SetNested ==
  ASSUME NEW o, NEW x, NEW ms, NEW start, NEW n, NEW v, NEW b,
         b = BuilderOf(o, x, ms, <<StructContext(start, n)>>)
  PROVE  /\ Len(b.contexts) = 1 /\ b.contexts # <<>> /\ b.contexts[1].type = "struct"
         /\ b.contexts[1] = StructContext(start, n)
         /\ b.contexts[1].nested = n
         /\ [b EXCEPT !.contexts[1].nested = v]
              = BuilderOf(o, x, ms, <<StructContext(start, v)>>)
<1> DEFINE c == StructContext(start, n)
           d == StructContext(start, v)
<1>0. b = BuilderOf(o, x, ms, <<c>>)
  OBVIOUS
<1>1. c.type = "struct" /\ c.nested = n /\ [c EXCEPT !.nested = v] = d
  BY DEF StructContext
<1> HIDE DEF c, d
<1>2. [<<c>> EXCEPT ![1] = d] = <<d>>
  OBVIOUS
<1>3. b.contexts = <<c>>
  BY <1>0, BuilderFields
<1>4. [b EXCEPT !.contexts[1].nested = v] = [b EXCEPT !.contexts = [<<c>> EXCEPT ![1] = [c EXCEPT !.nested = v]]]
  <2>1. b.contexts[1] = c
    BY <1>3
  <2>2. QED
    BY <1>3, <2>1
<1>5. [b EXCEPT !.contexts = <<d>>] = BuilderOf(o, x, ms, <<d>>)
  BY <1>0, BuilderFields
<1>6. [b EXCEPT !.contexts[1].nested = v] = BuilderOf(o, x, ms, <<d>>)
  BY <1>1, <1>2, <1>4, <1>5
<1>7. Len(b.contexts) = 1 /\ b.contexts # <<>> /\ b.contexts[1] = c
  BY <1>3
<1>8. QED
  BY <1>1, <1>6, <1>7 DEF c, d

LEMMA AllocateInStruct ==
  ASSUME NEW o, NEW x, NEW ms, NEW start, NEW n, NEW l, NEW b,
         b = BuilderOf(o, x, ms, <<StructContext(start, n)>>)
  PROVE  /\ Allocate(b, l) = BuilderOf(o, x, ms, <<StructContext(start, Place(n, l))>>)
         /\ AllocateInOneShot(b, l) =
              BuilderOf(AlignTo(o, l.align) + l.size, Max({x, l.align}), ms,
                        <<StructContext(start, [n EXCEPT !.members = Append(n.members, Member(AlignTo(o, l.align), l))])>>)
<1> DEFINE cs == <<StructContext(start, n)>>
<1>1. /\ Len(b.contexts) = 1 /\ b.contexts # <<>> /\ b.contexts[1].type = "struct"
      /\ b.contexts[1].nested = n
      /\ [b EXCEPT !.contexts[1].nested = Place(n, l)]
           = BuilderOf(o, x, ms, <<StructContext(start, Place(n, l))>>)
  BY SetNested
<1>2. InStruct(b)
  BY <1>1 DEF InStruct, TopIs, Last
<1>3. Allocate(b, l) = [b EXCEPT !.contexts[1].nested = Place(n, l)]
  BY <1>1, <1>2 DEF Allocate
<1>4. Allocate(b, l) = BuilderOf(o, x, ms, <<StructContext(start, Place(n, l))>>)
  BY <1>1, <1>3
<1>5. AllocateInOneShot(b, l) =
        BuilderOf(AlignTo(o, l.align) + l.size, Max({x, l.align}), ms,
                  <<StructContext(start, [n EXCEPT !.members = Append(n.members, Member(AlignTo(o, l.align), l))])>>)
  <2> DEFINE at == AlignTo(o, l.align)
             mx == Max({x, l.align})
             to == at + l.size
             y == Member(at, l)
             a == BuilderOf(at, mx, ms, cs)
             d == BuilderOf(to, mx, ms, cs)
             v == [n EXCEPT !.members = Append(n.members, y)]
  <2>1. AlignOffset(b, l.align) = a
    BY AlignOffsetFields
  <2> HIDE DEF at, mx, to, y, v, cs
  <2>2. a.offset = at /\ [a EXCEPT !.offset = to] = d
    BY BuilderFields
  <2>3. /\ Len(d.contexts) = 1 /\ d.contexts # <<>> /\ d.contexts[1].type = "struct"
        /\ d.contexts[1].nested = n
        /\ [d EXCEPT !.contexts[1].nested = v] = BuilderOf(to, mx, ms, <<StructContext(start, v)>>)
    <3> DEFINE k == <<StructContext(start, n)>>
    <3>1. d = BuilderOf(to, mx, ms, k)
      BY DEF cs
    <3> HIDE DEF d
    <3>2. QED
      BY <3>1, SetNested
  <2> HIDE DEF a, d
  <2>4. AllocateInOneShot(b, l) = AddField([a EXCEPT !.offset = @ + l.size], Member(a.offset, l))
    BY <2>1 DEF AllocateInOneShot
  <2>5. AllocateInOneShot(b, l) = AddField(d, y)
    BY <2>2, <2>4 DEF to, y
  <2>6. InStruct(d)
    BY <2>3 DEF InStruct, TopIs, Last
  <2>7. AddField(d, y) = [d EXCEPT !.contexts[1].nested.members = Append(n.members, y)]
    BY <2>3, <2>6 DEF AddField
  <2>8. [d EXCEPT !.contexts[1].nested.members = Append(n.members, y)] = [d EXCEPT !.contexts[1].nested = v]
    BY <2>3 DEF v
  <2>9. QED
    BY <2>3, <2>5, <2>7, <2>8 DEF at, mx, to, y, v
<1>6. QED
  BY <1>4, <1>5

\* What is a multiple of an alignment is one of every smaller alignment.
LEMMA SmallerDivides ==
  ASSUME NEW p \in Int, NEW a \in PrimitiveSizes, NEW b \in PrimitiveSizes, b <= a, p % a = 0
  PROVE  p % b = 0
<1>1. CASE a = 1
  <2>1. b = 1
    BY <1>1 DEF PrimitiveSizes
  <2>2. QED
    BY <1>1, <2>1
<1>2. CASE a = 2
  <2>1. b \in {1, 2}
    BY <1>2 DEF PrimitiveSizes
  <2>2. QED
    BY <1>2, <2>1
<1>3. CASE a = 4
  <2>1. b \in {1, 2, 4}
    BY <1>3 DEF PrimitiveSizes
  <2>2. QED
    BY <1>3, <2>1
<1>4. CASE a = 8
  <2>1. b \in {1, 2, 4, 8}
    BY <1>4 DEF PrimitiveSizes
  <2>2. QED
    BY <1>4, <2>1
<1>5. CASE a = 16
  <2>1. b \in {1, 2, 4, 8, 16}
    BY DEF PrimitiveSizes
  <2>2. QED
    BY <1>5, <2>1
<1>6. QED
  BY <1>1, <1>2, <1>3, <1>4, <1>5 DEF PrimitiveSizes

\* Behind an aligned base, aligning is aligning relative to the base.
LEMMA AlignedBase ==
  ASSUME NEW p \in Int, NEW y \in Int, NEW a \in PrimitiveSizes, p % a = 0
  PROVE  AlignTo(p + y, a) = p + AlignTo(y, a)
<1> USE DEF AlignTo, CalculateAlignment
<1>1. CASE a = 1
  BY <1>1, SMT
<1>2. CASE a = 2
  BY <1>2, SMT
<1>3. CASE a = 4
  BY <1>3, SMT
<1>4. CASE a = 8
  BY <1>4, SMT
<1>5. CASE a = 16
  BY <1>5, SMT
<1>6. QED
  BY <1>1, <1>2, <1>3, <1>4, <1>5 DEF PrimitiveSizes

LEMMA DataAlignOf ==
  ASSUME NEW o \in Int, NEW a
  PROVE  DataAlign(HeaderSize + o, a) = HeaderSize + AlignTo(o, a)
<1>1. (HeaderSize + o) - HeaderSize = o
  BY DEF HeaderSize
<1>2. QED
  BY <1>1 DEF DataAlign

OpenedBuilders ==
  {BuilderOf(o, x, ms, <<StructContext(start, n)>>) :
     o \in Nat, x \in PrimitiveSizes, ms \in Seq(PlacedMembers), start \in Nat, n \in Structs}

LEMMA StructsFields ==
  ASSUME NEW n \in Structs
  PROVE  /\ n = StructOf(n.offset, n.maxAlign, n.members)
         /\ n.offset \in Nat /\ n.maxAlign \in PrimitiveSizes /\ n.members \in Seq(PlacedLeaves)
BY DEF Structs, StructOf

LEMMA OpenedIs ==
  ASSUME NEW o \in Nat, NEW x \in PrimitiveSizes, NEW ms \in Seq(PlacedMembers), NEW start \in Nat,
         NEW n \in Structs
  PROVE  BuilderOf(o, x, ms, <<StructContext(start, n)>>) \in OpenedBuilders
BY DEF OpenedBuilders

\* A field of a nested message.
LEMMA LayoutLeafInStruct ==
  ASSUME NEW o \in Nat, NEW x \in PrimitiveSizes, NEW ms \in Seq(PlacedMembers), NEW start \in Nat,
         NEW n \in Structs, NEW b, b = BuilderOf(o, x, ms, <<StructContext(start, n)>>),
         NEW m \in ConstrainedLeaf
  PROVE  /\ LayoutLeaf(b, m) \in OpenedBuilders
         /\ Extended(n, LeafLayout(m)) \in Structs
         /\ m.kind \in {"primitive", "string"} =>
              LayoutLeaf(b, m) = BuilderOf(o, x, ms, <<StructContext(start, Extended(n, LeafLayout(m)))>>)
<1> DEFINE l == LeafLayout(m)
           e == Extended(n, l)
           v == [n EXCEPT !.members = Append(n.members, Member(AlignTo(o, l.align), l))]
           one == BuilderOf(o, x, ms, <<StructContext(start, e)>>)
           two == BuilderOf(AlignTo(o, l.align) + l.size, Max({x, l.align}), ms,
                            <<StructContext(start, v)>>)
<1>1. l \in LeafLayouts /\ l.size \in Nat /\ l.align \in PrimitiveSizes
  BY LeafLayoutIs
<1>2. m.kind \in {"primitive", "array", "string", "sequence"}
  BY ConstrainedLeafFields
<1>3. /\ n = StructOf(n.offset, n.maxAlign, n.members)
      /\ n.offset \in Nat /\ n.maxAlign \in PrimitiveSizes /\ n.members \in Seq(PlacedLeaves)
  BY StructsFields
<1>4. /\ m.kind \in {"primitive", "string"} => LayoutLeaf(b, m) = Allocate(b, l)
      /\ m.kind \in {"array", "sequence"} => LayoutLeaf(b, m) = AllocateInOneShot(b, l)
  BY <1>2 DEF LayoutLeaf, LeafLayout
<1> HIDE DEF l
<1>5. Place(n, l) = e
  BY <1>3, PlaceInStruct
<1>6. Allocate(b, l) = one /\ AllocateInOneShot(b, l) = two
  <2>1. Allocate(b, l) = BuilderOf(o, x, ms, <<StructContext(start, Place(n, l))>>) /\ AllocateInOneShot(b, l) = two
    BY AllocateInStruct
  <2>2. QED
    BY <1>5, <2>1
<1>7. e \in Structs
  <2> HIDE DEF e
  <2>1. n.members \in Seq([offset : Nat, layout : LeafLayouts])
    BY <1>3 DEF PlacedLeaves
  <2>2. e.offset \in Nat /\ e.maxAlign \in PrimitiveSizes
        /\ e.members \in Seq([offset : Nat, layout : LeafLayouts])
    BY <1>1, <1>3, <2>1, ExtendedIs DEF e
  <2>3. e = [offset |-> e.offset, maxAlign |-> e.maxAlign, members |-> e.members]
    BY DEF e, Extended
  <2>4. QED
    BY <2>2, <2>3 DEF Structs, PlacedLeaves
<1>8. AlignTo(o, l.align) \in Nat /\ AlignTo(o, l.align) + l.size \in Nat
      /\ Max({x, l.align}) \in PrimitiveSizes
  <2>1. AlignTo(o, l.align) \in Nat
    BY <1>1, AlignOffsetIs
  <2>2. Max({x, l.align}) \in PrimitiveSizes
    BY <1>1, MaxOfSizes
  <2>3. QED
    BY <1>1, <2>1, <2>2
<1>9. v \in Structs
  <2> DEFINE y == Member(AlignTo(o, l.align), l)
             s == n.members
  <2>1. y \in PlacedLeaves
    BY <1>1, <1>8 DEF Member, PlacedLeaves
  <2> HIDE DEF y, s
  <2>2. Append(s, y) \in Seq(PlacedLeaves)
    BY <1>3, <2>1, AppendProperties DEF s
  <2>3. v = [n EXCEPT !.members = Append(s, y)]
    BY DEF s, y
  <2>4. [n EXCEPT !.members = Append(s, y)] = StructOf(n.offset, n.maxAlign, Append(s, y))
    <3> DEFINE p == n.offset
               q == n.maxAlign
    <3>1. n = StructOf(p, q, s)
      BY <1>3 DEF s
    <3> DEFINE g == Append(s, y)
    <3> HIDE DEF p, q, g
    <3>2. [StructOf(p, q, s) EXCEPT !.members = g] = StructOf(p, q, g)
      BY StructFields
    <3>3. [n EXCEPT !.members = g] = StructOf(p, q, g)
      BY <3>1, <3>2
    <3>4. QED
      BY <3>3 DEF p, q, g
  <2>5. QED
    BY <1>3, <2>2, <2>3, <2>4 DEF Structs, StructOf
<1> HIDE DEF e, v
<1>10. one \in OpenedBuilders /\ two \in OpenedBuilders
  BY <1>7, <1>8, <1>9, OpenedIs
<1> HIDE DEF one, two
<1>11. LayoutLeaf(b, m) \in OpenedBuilders
  BY <1>2, <1>4, <1>6, <1>10
<1>12. QED
  BY <1>4, <1>6, <1>7, <1>11 DEF one, e, l

LEMMA BeginStructIs ==
  ASSUME NEW b \in Builders
  PROVE  /\ BeginStruct(b) = BuilderOf(b.offset, b.maxAlign, b.members,
                                       <<StructContext(b.offset, EmptyStruct)>>)
         /\ EmptyStruct \in Structs /\ EmptyStruct.members = <<>> /\ EmptyStruct.offset = 0
         /\ EmptyStruct.maxAlign = 1
         /\ BeginStruct(b) \in OpenedBuilders
<1>1. EmptyStruct \in Structs /\ EmptyStruct.members = <<>> /\ EmptyStruct.offset = 0
      /\ EmptyStruct.maxAlign = 1
  BY DEF EmptyStruct, Structs, PrimitiveSizes
<1>2. /\ b = BuilderOf(b.offset, b.maxAlign, b.members, <<>>)
      /\ b.offset \in Nat /\ b.maxAlign \in PrimitiveSizes /\ b.members \in Seq(PlacedMembers)
      /\ b.contexts = <<>>
  BY BuildersFields
<1> DEFINE c == StructContext(b.offset, EmptyStruct)
           o == b.offset
           x == b.maxAlign
           ms == b.members
<1>3. BeginStruct(b) = [b EXCEPT !.contexts = Append(@, c)]
  BY DEF BeginStruct, PushContext, StructContext
<1> HIDE DEF c
<1>4. BeginStruct(b) = [b EXCEPT !.contexts = <<c>>]
  BY <1>2, <1>3
<1>5. b = BuilderOf(o, x, ms, <<>>)
  BY <1>2
<1> HIDE DEF o, x, ms
<1>6. [BuilderOf(o, x, ms, <<>>) EXCEPT !.contexts = <<c>>] = BuilderOf(o, x, ms, <<c>>)
  BY BuilderFields
<1>7. BeginStruct(b) = BuilderOf(o, x, ms, <<c>>)
  BY <1>4, <1>5, <1>6
<1>8. BeginStruct(b) \in OpenedBuilders
  BY <1>1, <1>2, <1>7, OpenedIs DEF o, x, ms, c
<1>9. QED
  BY <1>1, <1>7, <1>8 DEF o, x, ms, c

StructOfMember(n) == StructLayout(n.members, n.offset, n.maxAlign)

LEMMA EndStructIs ==
  ASSUME NEW o \in Nat, NEW x \in PrimitiveSizes, NEW ms \in Seq(PlacedMembers), NEW start \in Nat,
         NEW n \in Structs, NEW b, b = BuilderOf(o, x, ms, <<StructContext(start, n)>>),
         NEW at, at = AlignTo(o, n.maxAlign)
  PROVE  /\ EndStruct(b) = BuilderOf(at + n.offset, Max({x, n.maxAlign}),
                                     Append(ms, Member(at, StructOfMember(n))), <<>>)
         /\ EndStruct(b) \in Builders
         /\ at \in Nat
<1> DEFINE c == StructContext(start, n)
           l == StructOfMember(n)
           mx == Max({x, n.maxAlign})
           to == at + n.offset
           y == Member(at, l)
           grown == Append(ms, y)
           a == BuilderOf(at, mx, ms, <<>>)
           d == BuilderOf(at, mx, grown, <<>>)
<1>1. /\ n.offset \in Nat /\ n.maxAlign \in PrimitiveSizes /\ n.members \in Seq(PlacedLeaves)
  BY StructsFields
<1>2. /\ Len(b.contexts) = 1 /\ b.contexts # <<>> /\ b.contexts[1].type = "struct"
      /\ b.contexts[1] = c /\ b.contexts[1].nested = n
      /\ [b EXCEPT !.contexts[1].nested = n] = BuilderOf(o, x, ms, <<StructContext(start, n)>>)
  BY SetNested
<1>3. InStruct(b) /\ Last(b.contexts) = c /\ c.nested = n
  BY <1>2 DEF InStruct, TopIs, Last
<1>4. PopContext(b) = BuilderOf(o, x, ms, <<>>)
  <2>1. b.contexts = <<c>>
    BY BuilderFields
  <2> HIDE DEF c
  <2>2. Front(<<c>>) = <<>>
    BY DEF Front
  <2>3. PopContext(b) = [b EXCEPT !.contexts = <<>>]
    BY <2>1, <2>2 DEF PopContext
  <2>4. b = BuilderOf(o, x, ms, <<c>>)
    BY DEF c
  <2>5. [BuilderOf(o, x, ms, <<c>>) EXCEPT !.contexts = <<>>] = BuilderOf(o, x, ms, <<>>)
    BY BuilderFields
  <2>6. QED
    BY <2>3, <2>4, <2>5
<1>5. AlignOffset(BuilderOf(o, x, ms, <<>>), n.maxAlign) = a
  BY AlignOffsetFields
<1> HIDE DEF c, l, mx, to, y, grown
<1>6. a.offset = at /\ a.members = ms /\ a.contexts = <<>> /\ [a EXCEPT !.members = grown] = d
  BY BuilderFields
<1>7. d.offset = at /\ [d EXCEPT !.offset = to] = BuilderOf(to, mx, grown, <<>>)
  BY BuilderFields
<1> HIDE DEF a, d
<1>8. EndStruct(b) = [AddField(a, Member(a.offset, StructLayout(n.members, n.offset, n.maxAlign)))
                        EXCEPT !.offset = @ + n.offset]
  BY <1>3, <1>4, <1>5 DEF EndStruct
<1>9. AddField(a, y) = d
  <2>1. ~InStruct(a)
    BY <1>6 DEF InStruct, TopIs
  <2>2. AddField(a, y) = [a EXCEPT !.members = Append(ms, y)]
    BY <1>6, <2>1 DEF AddField
  <2>3. QED
    BY <1>6, <2>2 DEF grown
<1>10. EndStruct(b) = [d EXCEPT !.offset = to]
  BY <1>6, <1>7, <1>8, <1>9 DEF y, l, StructOfMember, to
<1>11. at \in Nat
  BY <1>1, AlignOffsetIs
<1>12. BuilderOf(to, mx, grown, <<>>) \in Builders
  <2>1. l \in MemberLayouts
    BY <1>1 DEF l, StructOfMember, StructLayout, MemberLayouts
  <2>2. y \in PlacedMembers
    BY <1>11, <2>1 DEF y, Member, PlacedMembers
  <2>3. grown \in Seq(PlacedMembers)
    BY <2>2, AppendProperties DEF grown
  <2>4. to \in Nat
    BY <1>1, <1>11 DEF to
  <2>6. mx \in PrimitiveSizes
    BY <1>1, MaxOfSizes DEF mx
  <2>5. QED
    BY <2>3, <2>4, <2>6 DEF Builders, BuilderOf
<1>13. QED
  BY <1>7, <1>10, <1>11, <1>12 DEF to, mx, grown, y, l

\* Whatever its fields are, a nested message leaves a builder behind.
LEMMA LayoutNestedIsBuilder ==
  ASSUME NEW b \in Builders, NEW m, m.kind = "nested", m.fields \in Seq(ConstrainedLeaf)
  PROVE  LayoutMember(b, m) \in Builders
<1> DEFINE s == BeginStruct(b)
           f == FoldLeft(LayoutLeaf, s, m.fields)
<1>1. s \in OpenedBuilders
  BY BeginStructIs
<1>2. LayoutFieldsStays(OpenedBuilders, m)
  <2> SUFFICES ASSUME NEW k \in 1 .. Len(m.fields), NEW x \in OpenedBuilders
               PROVE  LayoutLeaf(x, m.fields[k]) \in OpenedBuilders
    BY DEF LayoutFieldsStays
  <2>1. m.fields[k] \in ConstrainedLeaf
    OBVIOUS
  <2>2. PICK o \in Nat, y \in PrimitiveSizes, ms \in Seq(PlacedMembers), start \in Nat, n \in Structs :
          x = BuilderOf(o, y, ms, <<StructContext(start, n)>>)
    BY DEF OpenedBuilders
  <2>3. QED
    BY <2>1, <2>2, LayoutLeafInStruct
<1> HIDE DEF s
<1>3. PICK g : LayoutFieldsSteps(g, OpenedBuilders, s, m)
  BY <1>1, <1>2, LayoutFieldsTrace
<1>4. f \in OpenedBuilders
  <2>1. Len(m.fields) \in 0 .. Len(m.fields)
    OBVIOUS
  <2>2. QED
    BY <1>3, <2>1 DEF LayoutFieldsSteps
<1>5. LayoutMember(b, m) = EndStruct(f)
  BY DEF LayoutMember, s
<1> HIDE DEF f
<1>6. PICK o \in Nat, y \in PrimitiveSizes, ms \in Seq(PlacedMembers), start \in Nat, n \in Structs :
          f = BuilderOf(o, y, ms, <<StructContext(start, n)>>)
  BY <1>4 DEF OpenedBuilders
<1> DEFINE at == AlignTo(o, n.maxAlign)
<1>7. EndStruct(f) \in Builders
  BY <1>6, EndStructIs
<1>8. QED
  BY <1>5, <1>7

SequenceContext(start, count, elements) ==
  [type |-> "sequence", start |-> start, count |-> count, elements |-> elements,
   nested |-> EmptyStruct]

LEMMA BeginSequenceIs ==
  ASSUME NEW o, NEW x, NEW ms, NEW count, NEW b, b = BuilderOf(o, x, ms, <<>>),
         NEW at, at = AlignTo(o, PrefixSize)
  PROVE  BeginSequence(b, count) = BuilderOf(at + PrefixSize, Max({x, PrefixSize}), ms,
                                             <<SequenceContext(at, count, <<>>)>>)
<1> DEFINE c == SequenceContext(at, count, <<>>)
           mx == Max({x, PrefixSize})
           to == at + PrefixSize
           cs == <<c>>
           a == BuilderOf(at, mx, ms, <<>>)
           d == BuilderOf(at, mx, ms, cs)
<1>1. AlignOffset(b, PrefixSize) = a
  BY AlignOffsetFields
<1>2. PushContext(a, "sequence", at, count) = [a EXCEPT !.contexts = Append(@, c)]
  BY DEF PushContext, SequenceContext
<1> HIDE DEF c, mx, to, cs
<1>3. a.offset = at /\ a.contexts = <<>> /\ [a EXCEPT !.contexts = cs] = d
  BY BuilderFields
<1>4. d.offset = at /\ [d EXCEPT !.offset = to] = BuilderOf(to, mx, ms, cs)
  BY BuilderFields
<1> HIDE DEF a, d
<1>5. PushContext(a, "sequence", a.offset, count) = d
  BY <1>2, <1>3 DEF cs
<1>6. BeginSequence(b, count) = [PushContext(a, "sequence", a.offset, count) EXCEPT !.offset = @ + PrefixSize]
  BY <1>1 DEF BeginSequence
<1>7. BeginSequence(b, count) = [d EXCEPT !.offset = to]
  BY <1>4, <1>5, <1>6 DEF to
<1>8. QED
  BY <1>4, <1>7 DEF c, mx, to, cs

LEMMA PlaceFirstElement ==
  ASSUME NEW o, NEW x, NEW ms, NEW start, NEW count, NEW b, NEW l,
         b = BuilderOf(o, x, ms, <<SequenceContext(start, count, <<>>)>>),
         NEW at, at = AlignTo(o, l.align)
  PROVE  Allocate(b, l) = BuilderOf(at + l.size, Max({x, l.align}), ms,
           <<SequenceContext(start, count, <<Member(at - start - PrefixSize, l)>>)>>)
<1> DEFINE c == SequenceContext(start, count, <<>>)
           y == Member(at - start - PrefixSize, l)
           e == SequenceContext(start, count, <<y>>)
           mx == Max({x, l.align})
           to == at + l.size
           cs == <<c>>
           es == <<e>>
           a == BuilderOf(at, mx, ms, cs)
           d == BuilderOf(at, mx, ms, es)
<1>1. AlignOffset(b, l.align) = a
  BY AlignOffsetFields
<1>2. b.contexts = <<c>>
  BY BuilderFields
<1> HIDE DEF y
<1>3. c.type = "sequence" /\ c.start = start /\ c.elements = <<>> /\ [c EXCEPT !.elements = <<y>>] = e
  BY DEF SequenceContext
<1> HIDE DEF c, e, mx, to
<1>0. cs[1] = c /\ es[1] = e /\ [cs EXCEPT ![1] = e] = es
  OBVIOUS
<1>4. Len(b.contexts) = 1 /\ b.contexts # <<>> /\ b.contexts[1] = c /\ Last(b.contexts) = c
  BY <1>2 DEF Last
<1>5. ~InStruct(b)
  BY <1>3, <1>4 DEF InStruct, TopIs
<1>6. Allocate(b, l) = PlaceElement(b, l)
  BY <1>4, <1>5 DEF Allocate
<1> HIDE DEF cs, es
<1>7. a.offset = at /\ a.contexts = cs /\ [a EXCEPT !.contexts = es] = d
  BY BuilderFields
<1>8. d.offset = at /\ [d EXCEPT !.offset = to] = BuilderOf(to, mx, ms, es)
  BY BuilderFields
<1> HIDE DEF a, d
<1>9. PlaceElement(b, l) = [a EXCEPT !.contexts[1].elements = Append(@, y), !.offset = @ + l.size]
  <2>1. Member(a.offset - b.contexts[1].start - PrefixSize, l) = y
    BY <1>3, <1>4, <1>7 DEF y
  <2>2. b.contexts[1].type = "sequence" /\ Len(b.contexts) = 1
    BY <1>3, <1>4
  <2> HIDE DEF y
  <2>3. QED
    BY <1>1, <2>1, <2>2 DEF PlaceElement
<1>10. [a EXCEPT !.contexts[1].elements = Append(@, y)] = d
  <2>1. a.contexts[1] = c
    BY <1>0, <1>7
  <2>2. Append(c.elements, y) = <<y>>
    BY <1>3
  <2>4. [a EXCEPT !.contexts[1].elements = Append(@, y)] = [a EXCEPT !.contexts = [cs EXCEPT ![1] = [c EXCEPT !.elements = <<y>>]]]
    BY <1>7, <2>1, <2>2
  <2>5. QED
    BY <1>0, <1>3, <1>7, <2>4
<1>11. PlaceElement(b, l) = [d EXCEPT !.offset = to]
  <2>1. [a EXCEPT !.contexts[1].elements = Append(@, y), !.offset = @ + l.size]
          = [[a EXCEPT !.contexts[1].elements = Append(@, y)] EXCEPT !.offset = a.offset + l.size]
    OBVIOUS
  <2>2. QED
    BY <1>7, <1>9, <1>10, <2>1 DEF to
<1>12. QED
  BY <1>6, <1>8, <1>11 DEF mx, to, es, e, y

LEMMA EndSequenceIs ==
  ASSUME NEW o, NEW x, NEW ms, NEW start, NEW count, NEW b, NEW y,
         b = BuilderOf(o, x, ms, <<SequenceContext(start, count, <<y>>)>>),
         NEW l, l = SequenceLayout(<<y>>, count)
  PROVE  EndSequence(b) = BuilderOf(start + l.size, x, Append(ms, Member(start, l)), <<>>)
<1> DEFINE c == SequenceContext(start, count, <<y>>)
           to == start + l.size
           z == Member(start, l)
           grown == Append(ms, z)
           a == BuilderOf(o, x, ms, <<>>)
           d == BuilderOf(o, x, grown, <<>>)
<1>1. b.contexts = <<c>>
  BY BuilderFields
<1>2. c.type = "sequence" /\ c.start = start /\ c.elements = <<y>> /\ c.count = count
  BY DEF SequenceContext
<1>0. b = BuilderOf(o, x, ms, <<c>>)
  OBVIOUS
<1> HIDE DEF c, to, z, grown
<1>3. Last(b.contexts) = c /\ b.contexts # <<>> /\ TopIs(b, {"sequence"})
  BY <1>1, <1>2 DEF Last, TopIs
<1>4. PopContext(b) = a
  <2>1. Front(<<c>>) = <<>>
    BY DEF Front
  <2>2. PopContext(b) = [b EXCEPT !.contexts = <<>>]
    BY <1>1, <2>1 DEF PopContext
  <2>3. [BuilderOf(o, x, ms, <<c>>) EXCEPT !.contexts = <<>>] = BuilderOf(o, x, ms, <<>>)
    BY BuilderFields
  <2>4. QED
    BY <1>0, <2>2, <2>3
<1>5. a.contexts = <<>> /\ a.members = ms /\ [a EXCEPT !.members = grown] = d
  BY BuilderFields
<1>6. [d EXCEPT !.offset = to] = BuilderOf(to, x, grown, <<>>)
  BY BuilderFields
<1> HIDE DEF a, d
<1>7. AddField(a, z) = d
  <2>1. ~InStruct(a)
    BY <1>5 DEF InStruct, TopIs
  <2>2. QED
    BY <1>5, <2>1 DEF AddField, grown
<1>8. EndSequence(b) = [AddField(a, Member(start, l)) EXCEPT !.offset = start + l.size]
  <2>1. ~(~TopIs(b, {"sequence"}))
    BY <1>3
  <2>2. c.elements # <<>> /\ SequenceLayout(c.elements, c.count) = l /\ c.start = start
    BY <1>2
  <2>3. EndSequence(b) = [AddField(PopContext(b), Member(c.start, SequenceLayout(c.elements, c.count)))
                            EXCEPT !.offset = c.start + SequenceLayout(c.elements, c.count).size]
    BY <1>3, <2>1, <2>2 DEF EndSequence
  <2>4. QED
    BY <1>4, <2>2, <2>3
<1>9. EndSequence(b) = [d EXCEPT !.offset = to]
  BY <1>7, <1>8 DEF z, to
<1>10. QED
  BY <1>6, <1>9 DEF to, grown, z

\* So does a sequence of strings.
LEMMA LayoutStringsIsBuilder ==
  ASSUME NEW b \in Builders, NEW m, m.kind = "strings", m.bound \in Nat, m.charBound \in Nat
  PROVE  LayoutMember(b, m) \in Builders
<1> DEFINE o == b.offset
           x == b.maxAlign
           ms == b.members
           at == AlignTo(o, PrefixSize)
           from == at + PrefixSize
           mx == Max({x, PrefixSize})
           e == StringLayout(m.charBound, 1)
           first == AlignTo(from, e.align)
           gap == first - at - PrefixSize
           y == Member(gap, e)
           l == SequenceLayout(<<y>>, m.bound)
           s == BeginSequence(b, m.bound)
           f == Allocate(s, e)
           top == Max({mx, e.align})
           end == first + e.size
           to == at + l.size
<1>1. /\ b = BuilderOf(o, x, ms, <<>>)
      /\ o \in Nat /\ x \in PrimitiveSizes /\ ms \in Seq(PlacedMembers)
  BY BuildersFields
<1>2. PrefixSize \in PrimitiveSizes /\ PrefixSize \in Nat
  BY DEF PrefixSize, PrimitiveSizes
<1>3. LayoutMember(b, m) = EndSequence(f)
  BY DEF LayoutMember
<1>4. /\ e = [kind |-> "string", chars |-> m.charBound, align |-> PrefixSize,
             size |-> PrefixSize + m.charBound * 1 + 1]
      /\ e.align = PrefixSize /\ e.size = PrefixSize + m.charBound * 1 + 1
  BY DEF StringLayout
<1>5. PrefixSize + m.charBound * 1 + 1 \in Nat
  BY <1>2
<1>6. e \in LeafLayouts /\ e.size \in Nat /\ e.align \in PrimitiveSizes
  BY <1>2, <1>4, <1>5 DEF LeafLayouts
<1> HIDE DEF o, x, ms, e
<1>7. at \in Nat /\ from \in Nat
  <2>1. at \in Nat
    BY <1>1, <1>2, AlignOffsetIs
  <2>2. QED
    BY <1>2, <2>1
<1>8. mx \in PrimitiveSizes
  BY <1>1, <1>2, MaxOfSizes
<1> HIDE DEF from, mx
<1>9. first \in Nat /\ from <= first
  BY <1>6, <1>7, AlignOffsetIs
<1>10. gap \in Nat
  BY <1>2, <1>7, <1>9 DEF from
<1>11. s = BuilderOf(from, mx, ms, <<SequenceContext(at, m.bound, <<>>)>>)
  BY <1>1, BeginSequenceIs DEF from, mx
<1> HIDE DEF at, s
<1>12. f = BuilderOf(end, top, ms, <<SequenceContext(at, m.bound, <<y>>)>>)
  BY <1>11, PlaceFirstElement
<1>13. y \in PlacedLeaves /\ y.offset = gap /\ y.layout = e
  BY <1>6, <1>10 DEF Member, PlacedLeaves
<1> HIDE DEF first, gap, y, end, top, f
<1>14. EndSequence(f) = BuilderOf(to, top, Append(ms, Member(at, l)), <<>>)
  BY <1>12, EndSequenceIs
<1>15. top \in PrimitiveSizes
  BY <1>6, <1>8, MaxOfSizes DEF top
<1>16. l \in MemberLayouts /\ l.size \in Nat
  <2> DEFINE n == m.bound
             stride == ElementStride(e)
             size == PrefixSize + (IF n > 1 THEN stride * n ELSE gap + e.size)
  <2>1. Len(<<y>>) = 1 /\ <<y>>[1] = y /\ Last(<<y>>) = y /\ <<y>> \in Seq(PlacedLeaves)
    BY <1>13 DEF Last
  <2>2. l = [kind |-> "strings", count |-> n, elements |-> <<y>>, align |-> PrefixSize, size |-> size]
    BY <1>13, <2>1 DEF SequenceLayout
  <2>3. stride \in Nat
    BY <1>6, AlignOffsetIs DEF ElementStride
  <2> HIDE DEF stride
  <2>4. stride * n \in Nat
    BY <2>3, ProductIsNat
  <2> DEFINE product == stride * n
  <2> HIDE DEF product
  <2>6. product \in Nat
    BY <2>4 DEF product
  <2>5. size \in Nat
    <3>1. PrefixSize + (IF n > 1 THEN product ELSE gap + e.size) \in Nat
      BY <1>2, <1>6, <1>10, <2>6
    <3>2. QED
      BY <3>1 DEF product
  <2> DEFINE es == <<y>>
  <2> HIDE DEF size, n, l, es
  <2>8. es \in Seq(PlacedLeaves) /\ n \in Nat
    BY <2>1 DEF es, n
  <2>9. l = [kind |-> "strings", count |-> n, elements |-> es, align |-> PrefixSize, size |-> size]
    BY <2>2 DEF es
  <2>10. l.size = size /\ l \in MemberLayouts
    BY <1>2, <2>5, <2>8, <2>9 DEF MemberLayouts
  <2>7. QED
    BY <2>5, <2>10
<1> HIDE DEF l
<1>17. Append(ms, Member(at, l)) \in Seq(PlacedMembers)
  <2> DEFINE z == Member(at, l)
  <2>1. z \in PlacedMembers
    BY <1>7, <1>16 DEF Member, PlacedMembers
  <2> HIDE DEF z
  <2>2. Append(ms, z) \in Seq(PlacedMembers)
    BY <1>1, <2>1, AppendProperties
  <2>3. QED
    BY <2>2 DEF z
<1>18. to \in Nat
  BY <1>7, <1>16
<1> HIDE DEF to
<1>19. BuilderOf(to, top, Append(ms, Member(at, l)), <<>>) \in Builders
  BY <1>15, <1>17, <1>18 DEF Builders, BuilderOf
<1>20. QED
  BY <1>3, <1>14, <1>19

\* What build_layout_fields leaves behind for any message.
LEMMA LayoutOfMessage ==
  ASSUME NEW msg \in Seq(ConstrainedMember)
  PROVE  /\ \E g : LayoutSteps(g, Builders, NewBuilder, msg)
         /\ LayoutOf(msg).members \in Seq(PlacedMembers)
         /\ LayoutOf(msg).size \in Nat
         /\ LayoutOf(msg).size >= HeaderSize
<1>1. NewBuilder \in Builders
  BY DEF NewBuilder, Builders, PrimitiveSizes
<1>2. LayoutStays(Builders, msg)
  <2> SUFFICES ASSUME NEW k \in 1 .. Len(msg), NEW x \in Builders
               PROVE  LayoutMember(x, msg[k]) \in Builders
    BY DEF LayoutStays
  <2> DEFINE m == msg[k]
  <2>1. m \in ConstrainedMember
    OBVIOUS
  <2> HIDE DEF m
  <2>2. \/ m \in ConstrainedLeaf
        \/ m.kind = "strings" /\ m.bound \in Nat /\ m.charBound \in Nat
        \/ m.kind = "nested" /\ m.fields \in Seq(ConstrainedLeaf)
    BY <2>1, ConstrainedMemberCases
  <2>3. CASE m \in ConstrainedLeaf
    <3> DEFINE e == Extended(x, LeafLayout(m))
    <3>1. LayoutMember(x, m) \in Builders
      BY <2>3, LayoutLeafOnTop
    <3>2. QED
      BY <3>1 DEF m
  <2>4. CASE m.kind = "strings" /\ m.bound \in Nat /\ m.charBound \in Nat
    BY <2>4, LayoutStringsIsBuilder DEF m
  <2>5. CASE m.kind = "nested" /\ m.fields \in Seq(ConstrainedLeaf)
    BY <2>5, LayoutNestedIsBuilder DEF m
  <2>6. QED
    BY <2>2, <2>3, <2>4, <2>5
<1>3. PICK g : LayoutSteps(g, Builders, NewBuilder, msg)
  BY <1>1, <1>2, LayoutTrace
<1>4. g[Len(msg)] \in Builders /\ LayoutOf(msg) = Finalize(g[Len(msg)])
  <2>1. Len(msg) \in 0 .. Len(msg)
    OBVIOUS
  <2>2. QED
    BY <1>3, <2>1 DEF LayoutSteps
<1> DEFINE b == g[Len(msg)]
<1> HIDE DEF b
<1>5. b.offset \in Nat /\ b.members \in Seq(PlacedMembers)
  BY <1>4, BuildersFields DEF b
<1>6. LayoutOf(msg).members = b.members /\ LayoutOf(msg).size = b.offset + HeaderSize
  BY <1>4 DEF b, Finalize, StructLayout
<1>7. QED
  BY <1>3, <1>5, <1>6 DEF HeaderSize

--------------------------------------------------------------------------------
(* The cells of the block *)

CellOf == [what : {"junk", "number", "data"}, of : Nat, byte : Nat]

\* A number in the block leaves a block of the same extent behind.
LEMMA PutNumberCells ==
  ASSUME NEW D \in SUBSET Int, NEW mem \in [D -> CellOf], NEW at \in Int, NEW n \in Nat
  PROVE  PutNumber(mem, at, n) \in [D -> CellOf]
<1>1. \A k \in 0 .. 3 : NumberCells(n)[k] \in CellOf
  BY DEF NumberCells, CellOf
<1>2. PutNumber(mem, at, n) =
        [o \in D |-> IF o \in at .. (at + PrefixSize - 1) THEN NumberCells(n)[o - at] ELSE mem[o]]
  BY DEF PutNumber, Put
<1>3. \A o \in D : o \in at .. (at + PrefixSize - 1) => o - at \in 0 .. 3
  BY DEF PrefixSize
<1>4. QED
  BY <1>1, <1>2, <1>3

LEMMA ApplyMemberCells ==
  ASSUME NEW D \in SUBSET Int, NEW mem \in [D -> CellOf], NEW base \in Nat, NEW m \in PlacedMembers
  PROVE  ApplyMember(mem, base, m) \in [D -> CellOf]
<1>1. base + m.offset \in Int /\ m.layout \in MemberLayouts
  BY DEF PlacedMembers
<1>2. m.layout.kind = "string" => AsUint32(m.layout.chars + 1) \in Nat
  <2>1. m.layout.kind = "string" => m.layout.chars + 1 \in Nat
    BY <1>1 DEF MemberLayouts, LeafLayouts
  <2>2. QED
    BY <2>1, LengthsStored
<1>3. m.layout.kind \in {"sequence", "strings"} => AsUint32(m.layout.count) \in Nat
  <2>1. m.layout.kind \in {"sequence", "strings"} => m.layout.count \in Nat
    BY <1>1 DEF MemberLayouts, LeafLayouts
  <2>2. QED
    BY <2>1, LengthsStored
<1>4. CASE m.layout.kind = "string"
  BY <1>1, <1>2, <1>4, PutNumberCells DEF ApplyMember
<1>5. CASE m.layout.kind \in {"sequence", "strings"}
  BY <1>1, <1>3, <1>5, PutNumberCells DEF ApplyMember
<1>6. CASE m.layout.kind \notin {"string", "sequence", "strings"}
  BY <1>6 DEF ApplyMember
<1>7. QED
  BY <1>4, <1>5, <1>6

LEMMA StructMembers ==
  ASSUME NEW m \in PlacedMembers
  PROVE  /\ m.offset \in Nat
         /\ m.layout.kind = "struct" => m.layout.members \in Seq(PlacedLeaves)
         /\ \A f \in PlacedLeaves : f \in PlacedMembers
BY DEF PlacedMembers, MemberLayouts, LeafLayouts, PlacedLeaves

LEMMA AppliedCells ==
  ASSUME NEW D \in SUBSET Int, NEW mem \in [D -> CellOf], NEW m \in PlacedMembers
  PROVE  Applied(mem, m) \in [D -> CellOf]
<1> DEFINE T == [D -> CellOf]
<1>0. HeaderSize \in Nat /\ HeaderSize + m.offset \in Nat
  BY StructMembers DEF HeaderSize
<1>1. CASE m.layout.kind = "struct"
  <2>1. m.layout.members \in Seq(PlacedLeaves)
    BY <1>1, StructMembers
  <2>2. ApplyFieldsStays(T, m)
    <3> SUFFICES ASSUME NEW k \in 1 .. Len(m.layout.members), NEW x \in T
                 PROVE  ApplyMember(x, HeaderSize + m.offset, m.layout.members[k]) \in T
      BY DEF ApplyFieldsStays
    <3>1. m.layout.members[k] \in PlacedMembers
      BY <2>1, StructMembers
    <3>2. QED
      BY <1>0, <3>1, ApplyMemberCells
  <2> HIDE DEF T
  <2>3. mem \in T
    BY DEF T
  <2>4. PICK g : ApplyFieldsSteps(g, T, mem, m)
    BY <2>1, <2>2, <2>3, ApplyFieldsTrace
  <2>5. Len(m.layout.members) \in 0 .. Len(m.layout.members)
    BY <2>1
  <2>6. FoldLeft(LAMBDA y, f : ApplyMember(y, HeaderSize + m.offset, f), mem, m.layout.members) \in T
    BY <2>4, <2>5 DEF ApplyFieldsSteps
  <2>7. QED
    BY <1>1, <2>6 DEF Applied, T
<1>2. CASE m.layout.kind # "struct"
  BY <1>0, <1>2, ApplyMemberCells DEF Applied
<1>3. QED
  BY <1>1, <1>2

\* apply() fills a block of the layout's size.
LEMMA ApplyCells ==
  ASSUME NEW l, l.size \in Nat, l.members \in Seq(PlacedMembers)
  PROVE  Apply(l) \in [0 .. (l.size - 1) -> CellOf]
<1> DEFINE D == 0 .. (l.size - 1)
           T == [D -> CellOf]
           b == [o \in 0 .. (l.size - 1) |-> Junk]
<1>1. b \in T
  BY DEF Junk, CellOf
<1>2. ApplyStays(T, l)
  <2> SUFFICES ASSUME NEW k \in 1 .. Len(l.members), NEW x \in T
               PROVE  Applied(x, l.members[k]) \in T
    BY DEF ApplyStays
  <2>1. l.members[k] \in PlacedMembers /\ D \in SUBSET Int
    OBVIOUS
  <2>2. QED
    BY <2>1, AppliedCells
<1> HIDE DEF T
<1>3. PICK g : ApplySteps(g, T, b, l)
  BY <1>1, <1>2, ApplyTrace
<1>4. Len(l.members) \in 0 .. Len(l.members)
  OBVIOUS
<1>5. Apply(l) \in T
  BY <1>3, <1>4 DEF ApplySteps
<1>6. QED
  BY <1>5 DEF T

\* A block is a function.
IsBlock(mem) == mem = [o \in DOMAIN mem |-> mem[o]]

LEMMA ClearIs ==
  ASSUME NEW mem, NEW from, NEW to
  PROVE  Clear(mem, from, to) =
           [o \in DOMAIN mem |-> IF o \in from .. (from + (to - from) - 1) THEN Junk ELSE mem[o]]
BY DEF Clear, Put

\* The application stores to the block and nowhere else.
LEMMA FillRun ==
  ASSUME NEW D, NEW S, memory \in [D -> S], NEW L \in Nat
  PROVE  \E g, T : FillSteps(g, T, memory, L) /\ \A x \in T : DOMAIN x = D /\ IsBlock(x)
<1> DEFINE content(i) == Places(message, layout)[i].content
           own == {DataCells(i, Leaves(message)[i])[o - content(i)] : i \in 1 .. L, o \in D}
           T == [D -> S \cup own \cup {Junk}]
<1>1. memory \in T
  OBVIOUS
<1>2. FillStays(T, L)
  <2> SUFFICES ASSUME NEW i \in 1 .. L, NEW x \in T
               PROVE  Filled(x, i) \in T
    BY DEF FillStays
  <2> DEFINE leaf == Leaves(message)[i]
             c == content(i)
             n == Bytes(leaf)
             data == Put(x, c, n, LAMBDA k : DataCells(i, leaf)[k])
             end == c + n
             to == end + 1
             closed == Clear(data, end, to)
  <2>1. data = [o \in D |-> IF o \in c .. (c + n - 1) THEN DataCells(i, leaf)[o - c] ELSE x[o]]
    BY DEF Put
  <2> DEFINE value(o) == DataCells(i, leaf)[o - c]
  <2>2. \A o \in D : value(o) \in own
    OBVIOUS
  <2> DEFINE R == S \cup own \cup {Junk}
  <2>8. data = [o \in D |-> IF o \in c .. (c + n - 1) THEN value(o) ELSE x[o]]
    BY <2>1
  <2>9. x \in [D -> R] /\ Junk \in R /\ \A o \in D : value(o) \in R
    BY <2>2
  <2> HIDE DEF data, value, R, to, end, c
  <2>3. data \in [D -> R]
    BY <2>8, <2>9
  <2>4. closed = [o \in D |-> IF o \in end .. (end + (to - end) - 1) THEN Junk ELSE data[o]]
    <3>1. DOMAIN data = D
      BY <2>3
    <3>2. QED
      BY <3>1, ClearIs
  <2> HIDE DEF closed
  <2>5. closed \in [D -> R]
    BY <2>3, <2>4, <2>9
  <2>10. T = [D -> R]
    BY DEF R
  <2> HIDE DEF T
  <2>6. Filled(x, i) = IF Oversized(leaf) THEN x ELSE IF leaf.kind = "string" THEN closed ELSE data
    BY DEF Filled, data, closed, to, end, c
  <2> HIDE DEF leaf
  <2>7. QED
    BY <2>3, <2>5, <2>6, <2>10
<1> HIDE DEF T
<1>3. PICK g : FillSteps(g, T, memory, L)
  BY <1>1, <1>2, FillTrace
<1>4. \A x \in T : DOMAIN x = D /\ IsBlock(x)
  BY DEF T, IsBlock
<1>5. QED
  BY <1>3, <1>4

LEMMA FillExtent ==
  ASSUME NEW D, NEW S, memory \in [D -> S], NEW L \in Nat
  PROVE  LET filled == FoldLeft(Filled, memory, [i \in 1 .. L |-> i])
         IN DOMAIN filled = D /\ IsBlock(filled)
<1>3. PICK g, T : FillSteps(g, T, memory, L) /\ \A x \in T : DOMAIN x = D /\ IsBlock(x)
  BY FillRun
<1>4. L \in 0 .. L
  OBVIOUS
<1> DEFINE filled == FoldLeft(Filled, memory, [i \in 1 .. L |-> i])
<1>5. filled \in T
  BY <1>3, <1>4 DEF FillSteps
<1> HIDE DEF filled
<1>6. DOMAIN filled = D /\ IsBlock(filled)
  BY <1>3, <1>5
<1>7. QED
  BY <1>6 DEF filled

LEMMA RewrittenExtent ==
  ASSUME NEW mem, NEW cursor, NEW i, NEW leaf, NEW source
  PROVE  /\ DOMAIN Rewritten(mem, cursor, i, leaf, source) = DOMAIN mem
         /\ IsBlock(Rewritten(mem, cursor, i, leaf, source))
<1> DEFINE at       == DataAlign(cursor, FieldAlignment(leaf))
           content  == IF Bytes(leaf) = 0 THEN at + PrefixSize ELSE ContentBehind(leaf, at)
           padded   == Clear(mem, cursor, at)
           numbered == PutNumber(padded, at, Number(leaf, Actual(leaf)))
           cleared  == Clear(numbered, at + PrefixSize, content)
           prefixed == IF Prefixed4(leaf) THEN cleared ELSE padded
           from     == IF leaf.kind = "primitive" THEN mem ELSE prefixed
           cell(k)  == IF Oversized(leaf) THEN DataCells(i, leaf)[k] ELSE Cell(from, source + k)
           copied   == Put(prefixed, content, Bytes(leaf), LAMBDA k : IF Oversized(leaf) THEN DataCells(i, leaf)[k]
                                                         ELSE Cell(from, source + k))
           end      == content + Bytes(leaf)
<1>1. DOMAIN padded = DOMAIN mem
  BY DEF Clear, Put
<1>2. DOMAIN numbered = DOMAIN padded
  BY DEF PutNumber, Put
<1>3. DOMAIN cleared = DOMAIN numbered
  BY DEF Clear, Put
<1>4. DOMAIN copied = DOMAIN prefixed /\ IsBlock(copied)
  BY DEF Put, IsBlock
<1>5. DOMAIN Clear(copied, end, end + 1) = DOMAIN copied /\ IsBlock(Clear(copied, end, end + 1))
  <2> HIDE DEF copied, end
  <2>1. QED
    BY ClearIs DEF IsBlock
<1>6. Rewritten(mem, cursor, i, leaf, source) = IF leaf.kind = "string" THEN Clear(copied, end, end + 1) ELSE copied
  BY DEF Rewritten
<1> HIDE DEF padded, numbered, cleared, copied
<1>7. DOMAIN prefixed = DOMAIN mem
  BY <1>1, <1>2, <1>3
<1> HIDE DEF prefixed
<1>8. QED
  BY <1>4, <1>5, <1>6, <1>7

--------------------------------------------------------------------------------
(* Type correctness *)

\* The calls on the writer alone.
SkipCall(x, m) ==
  CASE m.kind = "primitive" -> Skip(x, m.size)
    [] m.kind = "array" -> SkipArray(x, m.size, m.count)
    [] m.kind = "string" -> SkipString(x, m.chars)
    [] m.kind = "sequence" -> SkipSequence(x, m.size, m.count)
    [] m.kind = "count" -> EndWrite(BeginSkipSequence(x))

EmitCall(x, m) ==
  CASE m.kind = "primitive" -> WritePrimitive(x, m.size)
    [] m.kind = "array" -> WriteArray(x, m.size, m.count)
    [] m.kind = "string" -> WriteString(x, m.chars)
    [] m.kind = "sequence" -> WriteSequence(x, m.size, m.count)
    [] m.kind = "count" -> EndWrite(BeginWriteSequence(x))

\* What a call that took the writer to y leaves of the record.
After(s, m, y) ==
  IF Prefixed4(m) THEN Prefixed(s, y, Length(m, Actual(m))) ELSE Unprefixed(s, y, FieldAlignment(m))

LEMMA LeafCalls ==
  ASSUME NEW s, NEW m \in AnyLeaf
  PROVE  /\ SkipLeaf(s, m) = After(s, m, SkipCall(s.w, m))
         /\ EmitLeaf(s, m) = After(s, m, EmitCall(s.w, m))
<1>1. m.kind \in {"primitive", "array", "string", "sequence", "count"}
  BY AnyLeafFields
<1> USE DEF SkipLeaf, EmitLeaf, WriteLeaf, SkipCall, EmitCall, After, Prefixed4, Length, Actual,
            FieldAlignment
<1>2. CASE m.kind = "primitive"
  BY <1>2
<1>3. CASE m.kind = "array"
  BY <1>3
<1>4. CASE m.kind = "string"
  BY <1>4
<1>5. CASE m.kind = "sequence"
  BY <1>5
<1>6. CASE m.kind = "count"
  BY <1>6
<1>7. QED
  BY <1>1, <1>2, <1>3, <1>4, <1>5, <1>6

\* Skipping a field keeps a valid writer of the same span valid.
LEMMA SkipCallValid ==
  ASSUME NEW x, Valid(x), NEW m \in AnyLeaf
  PROVE  ValidAfter(x, SkipCall(x, m))
<1>1. /\ m.kind \in {"primitive", "array", "string", "sequence", "count"}
      /\ m.kind = "primitive" => m.size \in PrimitiveSizes
      /\ m.kind \in {"array", "sequence"} => m.size \in PrimitiveSizes /\ m.count \in Nat
      /\ m.kind = "string" => m.chars \in Nat
  BY AnyLeafFields
<1>0. 1 \in PrimitiveSizes /\ 0 \in Nat
  BY DEF PrimitiveSizes
<1>2. CASE m.kind = "primitive"
  BY <1>0, <1>1, <1>2, SkipValid DEF SkipCall
<1>3. CASE m.kind = "array"
  BY <1>1, <1>3, SkipArrayValid DEF SkipCall
<1>4. CASE m.kind = "string"
  BY <1>0, <1>1, <1>4, SkipValid DEF SkipCall
<1>5. CASE m.kind = "sequence"
  BY <1>1, <1>5, SkipSequenceValid DEF SkipCall
<1>6. CASE m.kind = "count"
  <2> DEFINE y == BeginSkipSequence(x)
  <2>1. SkipCall(x, m) = Pop(y)
    BY <1>6 DEF SkipCall, EndWrite
  <2>3. ValidAfter(x, y)
    BY <1>0, SkipValid
  <2> HIDE DEF y
  <2>4. ValidAfter(y, Pop(y))
    BY <2>3, PushPopValid DEF ValidAfter
  <2>5. QED
    BY <2>1, <2>3, <2>4, ValidAfterTransitive
<1>7. QED
  BY <1>1, <1>2, <1>3, <1>4, <1>5, <1>6

\* So does writing one that fits in memory next to the span.
LEMMA EmitCallValid ==
  ASSUME NEW x, Valid(x), x.fixed, NEW m \in AnyLeaf, x.cap + Bytes(m) + 64 <= SizeMax
  PROVE  ValidAfter(x, EmitCall(x, m))
<1>1. /\ m.kind \in {"primitive", "array", "string", "sequence", "count"}
      /\ m.kind = "primitive" => m.size \in PrimitiveSizes
      /\ m.kind \in {"array", "sequence"} => m.size \in PrimitiveSizes /\ m.count \in Nat
      /\ m.kind = "string" => m.chars \in Nat
  BY AnyLeafFields
<1>2. Cursor(x) + Bytes(m) + 64 <= SizeMax /\ Cursor(x) + 64 <= SizeMax
  <2>1. x.pos \in Nat /\ x.cap \in Nat /\ x.pos <= x.cap /\ Cursor(x) = x.pos
    BY CursorInSpan
  <2>2. Bytes(m) \in Nat
    BY AnyLeafSizes
  <2>3. QED
    BY <2>1, <2>2, SizeMaxAssumption
<1>9. m.kind \in {"array", "sequence"} => Bytes(m) = m.size * m.count
  BY DEF Bytes
<1>3. CASE m.kind = "primitive"
  BY <1>1, <1>2, <1>3, WritePrimitiveValid DEF EmitCall
<1>4. CASE m.kind = "array"
  <2>1. ValidAfter(x, WriteArray(x, m.size, m.count))
    BY <1>1, <1>2, <1>4, <1>9, WriteArraySequenceValid
  <2>2. QED
    BY <1>4, <2>1 DEF EmitCall
<1>5. CASE m.kind = "string"
  BY <1>1, <1>2, <1>5, WriteStringValid DEF EmitCall
<1>6. CASE m.kind = "sequence"
  <2>1. ValidAfter(x, WriteSequence(x, m.size, m.count))
    BY <1>1, <1>2, <1>6, <1>9, WriteArraySequenceValid
  <2>2. QED
    BY <1>6, <2>1 DEF EmitCall
<1>7. CASE m.kind = "count"
  <2> DEFINE y == BeginWriteSequence(x)
  <2>1. EmitCall(x, m) = Pop(y)
    BY <1>7 DEF EmitCall, EndWrite
  <2>2. ValidAfter(x, y)
    BY <1>2, BeginValid
  <2> HIDE DEF y
  <2>3. ValidAfter(y, Pop(y))
    BY <2>2, PushPopValid DEF ValidAfter
  <2>4. QED
    BY <2>1, <2>2, <2>3, ValidAfterTransitive
<1>8. QED
  BY <1>1, <1>3, <1>4, <1>5, <1>6, <1>7

LEMMA AfterPoised ==
  ASSUME NEW c, NEW s, Poised(s, c), NEW m \in AnyLeaf, NEW y, ValidAfter(s.w, y)
  PROVE  Poised(After(s, m, y), c) /\ After(s, m, y).w = y
<1>1. y \in LooseWriter /\ Valid(y) /\ y.fixed /\ y.cap = c
  BY ValidIsLoose DEF ValidAfter, Poised
<1>2. s \in Serialized /\ FieldAlignment(m) \in PrimitiveSizes
  BY AnyLeafSizes DEF Poised
<1>3. Prefixed4(m) => Length(m, Actual(m)) \in Nat
  BY AnyLeafSizes
<1>4. After(s, m, y) \in Serialized
  <2> DEFINE a == FieldAlignment(m)
             n == Length(m, Actual(m))
  <2>1. a \in PrimitiveSizes /\ 0 \in Nat /\ 1 \in PrimitiveSizes
    BY <1>2 DEF PrimitiveSizes
  <2>2. Prefixed4(m) => n \in Nat
    BY <1>3
  <2> HIDE DEF a, n
  <2>3. Unprefixed(s, y, a) \in Serialized
    BY <1>1, <1>2, <2>1, SerializedSteps
  <2>4. Prefixed4(m) => Prefixed(s, y, n) \in Serialized
    BY <1>1, <1>2, <2>1, <2>2, SerializedSteps
  <2>5. QED
    BY <2>3, <2>4 DEF After, a, n
<1>5. After(s, m, y).w = y
  BY <1>2 DEF After, Prefixed, Unprefixed, Serialized
<1>6. QED
  BY <1>1, <1>4, <1>5 DEF Poised

LEMMA NoWriterIs ==
  NoWriter.w = FixedSpan(0) /\ NoWriter.w.pos = 0 /\ NoWriter.w.overflow = FALSE
  /\ NoWriter.at = <<>> /\ NoWriter.wire = <<>>
  /\ NoWriter = [w |-> FixedSpan(0), at |-> <<>>, wire |-> <<>>]
<1> DEFINE b == [w |-> FixedSpan(0), at |-> <<>>, wire |-> <<>>]
           T == {b}
<1>1. SerializeStays(T, <<>>)
  BY DEF SerializeStays
<1>2. b \in T /\ <<>> \in Seq({})
  OBVIOUS
<1> HIDE DEF T
<1> HIDE DEF b
<1>3. PICK g : SerializeSteps(g, T, b, <<>>, 0)
  BY <1>1, <1>2, SerializeTrace DEF b
<1>4. SerializeInto(<<>>, 0) = b
  BY <1>3 DEF SerializeSteps
<1>5. FixedSpan(0).pos = 0 /\ FixedSpan(0).overflow = FALSE
  BY DEF FixedSpan, Growing
<1>6. NoWriter = b
  BY <1>4 DEF NoWriter
<1>7. QED
  BY <1>5, <1>6 DEF b

LEMMA BeforeCompaction ==
  ASSUME NEW msg, msg \in Seq(Members), Len(msg) <= MaxMembers
  PROVE  /\ msg \in Seq(ConstrainedMember) /\ Leaves(msg) \in Seq(AnyLeaf)
         /\ LayoutOf(msg).size \in Nat /\ LayoutOf(msg).size >= HeaderSize
         /\ LayoutOf(msg).members \in Seq(PlacedMembers)
         /\ msg # <<>> => \A i \in 1 .. Len(Leaves(msg)) :
                            LayoutOf(msg).size + Bytes(Leaves(msg)[i]) + 64 <= SizeMax
<1>1. msg \in Seq(ConstrainedMember)
  BY PathAssumption
<1>2. Leaves(msg) \in Seq(AnyLeaf)
  BY <1>1, LeavesType
<1>3. ASSUME msg # <<>>, NEW i \in 1 .. Len(Leaves(msg))
      PROVE  LayoutOf(msg).size + Bytes(Leaves(msg)[i]) + 64 <= SizeMax
  <2> DEFINE n == Len(msg)
             L == Leaves(msg)
  <2>1. n \in 1 .. MaxMembers /\ msg \in [1 .. n -> Members]
    BY <1>3, PathAssumption
  <2> HIDE DEF n, L
  <2>2. L[i] \in Range(L)
    BY <1>2, <1>3 DEF Range, L
  <2>3. QED
    BY <2>1, <2>2, MemoryAssumption DEF L
<1>4. QED
  BY <1>1, <1>2, <1>3, LayoutOfMessage

LEMMA NoLayoutIs ==
  /\ NoLayout.size \in Nat /\ NoLayout.size >= HeaderSize
  /\ Apply(NoLayout) \in [0 .. (NoLayout.size - 1) -> CellOf]
<1>1. <<>> \in Seq(ConstrainedMember)
  OBVIOUS
<1>2. NoLayout.size \in Nat /\ NoLayout.size >= HeaderSize /\ NoLayout.members \in Seq(PlacedMembers)
  BY <1>1, LayoutOfMessage DEF NoLayout
<1>3. QED
  BY <1>2, ApplyCells

(***************************************************************************)
(* What the actions keep, whatever the message: the layout is that of the  *)
(* message once there is a block, and the writer writes to that block.     *)
(***************************************************************************)
Before == {"defining", "loaned", "filled"}

PathInv ==
  /\ TypeOK
  /\ IsBlock(memory)
  /\ Len(message) <= MaxMembers
  /\ phase = "defining" => layout = NoLayout
  /\ phase # "defining" => message # <<>> /\ layout = LayoutOf(message)
  /\ phase \in Before => writer = NoWriter /\ next = 1 /\ emitFrom = 0
  /\ phase \notin Before => Poised(writer, layout.size)
  /\ phase \in Before \cup {"compacting"} => region = 0

\* What the invariant says of the sizes.
LEMMA PathFacts ==
  ASSUME PathInv
  PROVE  /\ message \in Seq(ConstrainedMember) /\ Leaves(message) \in Seq(AnyLeaf)
         /\ Len(Leaves(message)) \in Nat /\ Len(message) \in Nat
         /\ layout.size \in Nat /\ layout.size >= HeaderSize
         /\ next \in Nat /\ emitFrom \in Nat /\ region \in Nat
<1>1. message \in Seq(Members) /\ Len(message) <= MaxMembers
  BY DEF PathInv, TypeOK
<1>2. /\ message \in Seq(ConstrainedMember) /\ Leaves(message) \in Seq(AnyLeaf)
      /\ LayoutOf(message).size \in Nat /\ LayoutOf(message).size >= HeaderSize
  BY <1>1, BeforeCompaction
<1>3. layout.size \in Nat /\ layout.size >= HeaderSize
  BY <1>2, NoLayoutIs DEF PathInv
<1>4. QED
  BY <1>1, <1>2, <1>3 DEF PathInv, TypeOK

LEMMA PathStarts ==
  ASSUME Init PROVE PathInv
<1>1. message = <<>> /\ message \in Seq(Members) /\ Len(message) = 0
  BY DEF Init
<1>2. Leaves(<<>>) \in Seq(AnyLeaf)
  <2>1. <<>> \in Seq(Members) /\ Len(<<>>) <= MaxMembers
    BY PathAssumption
  <2>2. QED
    BY <2>1, BeforeCompaction
<1>3. Len(Leaves(message)) \in Nat
  BY <1>1, <1>2
<1>4. DOMAIN memory = 0 .. (layout.size - 1) /\ layout.size \in Nat /\ IsBlock(memory)
  BY NoLayoutIs DEF Init, IsBlock
<1>5. TypeOK
  BY <1>1, <1>3, <1>4, NoWriterIs DEF Init, TypeOK, Phases, NotReceived
<1>6. QED
  BY <1>1, <1>4, <1>5, PathAssumption DEF Init, PathInv, Before

LEMMA PathDefine ==
  ASSUME PathInv, DefineMember PROVE PathInv'
<1>1. PICK m \in Members : message' = Append(message, m)
  BY DEF DefineMember
<1>2. phase = "defining" /\ Len(message) < MaxMembers /\ message \in Seq(Members)
      /\ UNCHANGED <<phase, layout, memory, writer, emitFrom, next, region, received>>
  BY DEF DefineMember, PathInv, TypeOK
<1>3. message' \in Seq(Members) /\ Len(message') = Len(message) + 1
  BY <1>1, <1>2, AppendProperties
<1>4. Len(message') <= MaxMembers
  BY <1>2, <1>3, PathAssumption
<1> DEFINE grown == message'
<1>5. Leaves(grown) \in Seq(AnyLeaf)
  BY <1>3, <1>4, BeforeCompaction
<1>6. Len(Leaves(message)') \in Nat
  BY <1>5
<1>7. next = 1 /\ emitFrom = 0 /\ writer = NoWriter /\ region = 0 /\ layout = NoLayout
  BY <1>2 DEF PathInv, Before
<1>8. TypeOK'
  BY <1>2, <1>3, <1>6, <1>7 DEF PathInv, TypeOK
<1>9. QED
  BY <1>2, <1>4, <1>7, <1>8 DEF PathInv, Before

LEMMA PathConstruct ==
  ASSUME PathInv, ConstructMessageAt PROVE PathInv'
<1>1. /\ phase = "defining" /\ message # <<>> /\ layout' = LayoutOf(message) /\ memory' = Apply(layout')
      /\ phase' = "loaned"
      /\ UNCHANGED <<message, writer, emitFrom, next, region, received>>
      /\ writer = NoWriter /\ next = 1 /\ emitFrom = 0 /\ region = 0
      /\ message \in Seq(Members) /\ Len(message) <= MaxMembers
  BY DEF ConstructMessageAt, PathInv, TypeOK, Before
<1>2. /\ LayoutOf(message).size \in Nat /\ LayoutOf(message).size >= HeaderSize
      /\ LayoutOf(message).members \in Seq(PlacedMembers)
  BY <1>1, BeforeCompaction
<1>3. Apply(LayoutOf(message)) \in [0 .. (LayoutOf(message).size - 1) -> CellOf]
  BY <1>2, ApplyCells
<1>4. DOMAIN memory' = 0 .. (layout'.size - 1) /\ layout'.size \in Nat /\ IsBlock(memory')
  BY <1>1, <1>2, <1>3 DEF IsBlock
<1>5. TypeOK'
  BY <1>1, <1>4, NoWriterIs DEF PathInv, TypeOK, Phases
<1>6. QED
  BY <1>1, <1>4, <1>5 DEF PathInv, Before

LEMMA PathFill ==
  ASSUME PathInv, Fill PROVE PathInv'
<1>1. /\ phase = "loaned" /\ phase' = "filled"
      /\ memory' = FoldLeft(Filled, memory, [i \in 1 .. Len(Leaves(message)) |-> i])
      /\ UNCHANGED <<message, layout, writer, emitFrom, next, region, received>>
  BY DEF Fill
<1>2. Len(Leaves(message)) \in Nat
  BY PathFacts
<1> DEFINE D == 0 .. (layout.size - 1)
           S == {memory[o] : o \in D}
<1>3. DOMAIN memory' = DOMAIN memory /\ IsBlock(memory')
  <2>1. DOMAIN memory = D
    BY DEF PathInv, TypeOK
  <2>2. memory \in [D -> S]
    BY <2>1 DEF PathInv, IsBlock
  <2> DEFINE L == Len(Leaves(message))
  <2>3. L \in Nat
    BY <1>2
  <2> HIDE DEF D, S
  <2> DEFINE filled == FoldLeft(Filled, memory, [i \in 1 .. L |-> i])
  <2>4. DOMAIN filled = D /\ IsBlock(filled)
    BY <2>2, <2>3, FillExtent
  <2>5. QED
    BY <1>1, <2>1, <2>4 DEF L
<1>4. TypeOK'
  BY <1>1, <1>3 DEF PathInv, TypeOK, Phases
<1>5. QED
  BY <1>1, <1>3, <1>4 DEF PathInv, Before

LEMMA SpanIsPoised ==
  ASSUME NEW c \in Nat, c >= HeaderSize, NEW s, s = [NoWriter EXCEPT !.w = FixedSpanAt(c, HeaderSize)]
  PROVE  /\ Poised(s, c) /\ s.w.pos = HeaderSize /\ s.w.header /\ ~s.w.overflow
         /\ s.at = <<>> /\ s.w = FixedSpanAt(c, HeaderSize)
<1>1. HeaderSize \in Nat
  BY DEF HeaderSize
<1> DEFINE w == FixedSpanAt(c, HeaderSize)
           f == FixedSpan(c)
<1>2. Valid(w) /\ w.fixed /\ w.cap = c
  BY <1>1, SpanValid
<1>3. w \in LooseWriter
  BY <1>2, ValidIsLoose
<1>4. w.pos = HeaderSize /\ w.header /\ ~w.overflow
  <2>1. f \in WriterType
    BY SpanValid DEF Valid
  <2>2. ~(HeaderSize > c)
    BY <1>1
  <2>3. w = [f EXCEPT !.header = TRUE, !.overflow = HeaderSize > c,
                      !.pos = IF HeaderSize > c THEN 0 ELSE HeaderSize]
    BY DEF FixedSpanAt
  <2> HIDE DEF f
  <2>4. QED
    BY <2>1, <2>2, <2>3 DEF WriterType
<1> HIDE DEF w
<1>5. s = [w |-> w, at |-> <<>>, wire |-> <<>>]
  BY NoWriterIs DEF w
<1>6. <<>> \in Wires
  <2>1. <<>> \in [{} -> Nat]
    OBVIOUS
  <2>2. QED
    BY <2>1 DEF Wires
<1>7. s \in Serialized
  <2>1. <<>> \in Seq(Int)
    OBVIOUS
  <2> DEFINE e == <<>>
  <2>2. e \in Seq(Int) /\ e \in Wires
    BY <1>6, <2>1
  <2>3. s = [w |-> w, at |-> e, wire |-> e]
    BY <1>5
  <2> HIDE DEF e
  <2>4. \A x \in LooseWriter : \A y \in Seq(Int) : \A z \in Wires : [w |-> x, at |-> y, wire |-> z] \in Serialized
    BY DEF Serialized
  <2>5. QED
    BY <1>3, <2>2, <2>3, <2>4
<1>8. QED
  BY <1>2, <1>4, <1>5, <1>7 DEF Poised, w

LEMMA PathBegin ==
  ASSUME PathInv, CompactMessageInPlace PROVE PathInv'
<1>1. /\ phase = "filled" /\ phase' = "compacting"
      /\ writer' = [NoWriter EXCEPT !.w = FixedSpanAt(layout.size, HeaderSize)]
      /\ UNCHANGED <<message, layout, memory, emitFrom, next, region, received>>
  BY DEF CompactMessageInPlace
<1>2. layout.size \in Nat /\ layout.size >= HeaderSize
  BY PathFacts
<1>3. Poised(writer', layout.size) /\ writer'.w.pos = HeaderSize
  BY <1>1, <1>2, SpanIsPoised
<1>4. writer'.w.pos \in 0 .. layout.size
  BY <1>2, <1>3 DEF HeaderSize
<1>5. TypeOK'
  BY <1>1, <1>4 DEF PathInv, TypeOK, Phases
<1>6. QED
  BY <1>1, <1>3, <1>5 DEF PathInv, Before

LEMMA PathRefuse ==
  ASSUME PathInv, RefuseLeaf PROVE PathInv'
<1>1. /\ phase = "compacting" /\ phase' = "failed"
      /\ UNCHANGED <<message, layout, memory, writer, emitFrom, next, region, received>>
  BY DEF RefuseLeaf
<1>2. TypeOK'
  BY <1>1 DEF PathInv, TypeOK, Phases
<1>3. QED
  BY <1>1, <1>2 DEF PathInv, Before

LEMMA PathLeaf ==
  ASSUME PathInv, CompactLeaf PROVE PathInv'
<1> DEFINE leaf == Leaves(message)[next]
           source == Places(message, layout)[next].content
           written == EmitLeaf(writer, leaf)
           skipped == SkipLeaf(writer, leaf)
<1>1. /\ phase = "compacting" /\ next <= Len(Leaves(message))
      /\ emitFrom' = IF ~Emit /\ Undersized(leaf) THEN next ELSE emitFrom
      /\ writer' = IF emitFrom' # 0 THEN written ELSE skipped
      /\ memory' = IF emitFrom' # 0 /\ ~HasError(writer'.w)
                   THEN Rewritten(memory, Cursor(writer.w), next, leaf, source) ELSE memory
      /\ next' = next + 1
      /\ UNCHANGED <<phase, message, layout, region, received>>
  BY DEF CompactLeaf
<1>2. /\ next \in 1 .. Len(Leaves(message)) /\ leaf \in AnyLeaf /\ layout.size \in Nat
      /\ emitFrom \in 0 .. (next - 1) /\ Poised(writer, layout.size)
  BY <1>1, PathFacts DEF PathInv, TypeOK, Before
<1>3. layout.size + Bytes(leaf) + 64 <= SizeMax
  <2>1. message \in Seq(Members) /\ Len(message) <= MaxMembers /\ message # <<>>
        /\ layout = LayoutOf(message)
    BY <1>1 DEF PathInv, TypeOK
  <2>2. QED
    BY <1>2, <2>1, BeforeCompaction
<1> HIDE DEF leaf, source
<1>4. Poised(written, layout.size) /\ Poised(skipped, layout.size)
  <2> DEFINE c == layout.size
  <2>1. Valid(writer.w) /\ writer.w.fixed /\ writer.w.cap = c
    BY <1>2 DEF Poised
  <2> HIDE DEF c
  <2>2. ValidAfter(writer.w, EmitCall(writer.w, leaf))
    BY <1>2, <1>3, <2>1, EmitCallValid DEF c
  <2>3. ValidAfter(writer.w, SkipCall(writer.w, leaf))
    BY <1>2, <2>1, SkipCallValid
  <2>4. Poised(writer, c)
    BY <1>2 DEF c
  <2> DEFINE y == EmitCall(writer.w, leaf)
             z == SkipCall(writer.w, leaf)
  <2>5. written = After(writer, leaf, y) /\ skipped = After(writer, leaf, z)
    BY <1>2, LeafCalls
  <2> HIDE DEF y, z, written, skipped
  <2>6. Poised(After(writer, leaf, y), c) /\ Poised(After(writer, leaf, z), c)
    BY <1>2, <2>2, <2>3, <2>4, AfterPoised DEF y, z
  <2>7. QED
    BY <2>5, <2>6 DEF c
<1> HIDE DEF written, skipped
<1>5. Poised(writer', layout.size)
  BY <1>1, <1>4
<1>6. writer'.w.pos \in 0 .. layout.size
  BY <1>2, <1>5, CursorInSpan DEF Poised
<1>7. DOMAIN memory' = DOMAIN memory /\ IsBlock(memory')
  BY <1>1, RewrittenExtent DEF PathInv
<1>8. next' \in 1 .. (Len(Leaves(message)) + 1) /\ emitFrom' \in 0 .. (next' - 1)
  BY <1>1, <1>2
<1>9. TypeOK'
  BY <1>1, <1>6, <1>7, <1>8 DEF PathInv, TypeOK
<1>10. QED
  BY <1>1, <1>5, <1>7, <1>9 DEF PathInv, Before

LEMMA PathFinish ==
  ASSUME PathInv, FinishCompaction PROVE PathInv'
<1>1. /\ phase = "compacting" /\ phase' \in {"failed", "sent"}
      /\ region' = IF ~Emit THEN layout.size
                   ELSE IF HasError(writer.w) THEN 0 ELSE BytesWritten(writer.w)
      /\ UNCHANGED <<message, layout, memory, writer, emitFrom, next, received>>
  BY DEF FinishCompaction
<1>2. layout.size \in Nat /\ writer.w.pos \in 0 .. layout.size
  BY PathFacts DEF PathInv, TypeOK
<1>3. region' \in 0 .. layout.size
  BY <1>1, <1>2 DEF BytesWritten
<1>4. TypeOK'
  BY <1>1, <1>3 DEF PathInv, TypeOK, Phases
<1>5. QED
  BY <1>1, <1>4 DEF PathInv, Before

LEMMA PathReceive ==
  ASSUME PathInv, CastMessageAt \/ DeserializeMessageFrom PROVE PathInv'
<1>1. /\ phase = "sent" /\ phase' = "received"
      /\ UNCHANGED <<message, layout, memory, writer, emitFrom, next, region>>
  BY DEF CastMessageAt, DeserializeMessageFrom
<1>2. received'.ok \in BOOLEAN
  <2>1. CASE CastMessageAt
    <3>1. \A l : Cast(l).ok \in BOOLEAN
      BY DEF Cast
    <3>2. QED
      BY <2>1, <3>1 DEF CastMessageAt
  <2>2. CASE DeserializeMessageFrom
    <3>1. \A d : Copied(d).ok \in BOOLEAN
      BY DEF Copied
    <3>2. QED
      BY <2>2, <3>1 DEF DeserializeMessageFrom
  <2>3. QED
    BY <2>1, <2>2
<1>3. TypeOK'
  BY <1>1, <1>2 DEF PathInv, TypeOK, Phases
<1>4. QED
  BY <1>1, <1>3 DEF PathInv, Before

LEMMA PathStep ==
  ASSUME PathInv, [Next]_vars PROVE PathInv'
<1>1. CASE UNCHANGED vars
  BY <1>1 DEF vars, PathInv, TypeOK, Before, IsBlock
<1>2. CASE Next
  BY <1>2, PathDefine, PathConstruct, PathFill, PathBegin, PathRefuse, PathLeaf, PathFinish, PathReceive
     DEF Next
<1>3. QED
  BY <1>1, <1>2

(***************************************************************************)
(* Whatever the message, the block is as large as its layout says, the     *)
(* traversal stays within the message and its writer within the block, and *)
(* no more than the block is sent.                                         *)
(***************************************************************************)
THEOREM PathTypeCorrect == Spec => []TypeOK
<1>1. Init => PathInv
  BY PathStarts
<1>2. PathInv /\ [Next]_vars => PathInv'
  BY PathStep
<1>3. PathInv => TypeOK
  BY DEF PathInv
<1>4. QED
  BY <1>1, <1>2, <1>3, PTL DEF Spec

--------------------------------------------------------------------------------
(* Where the fields of a message end, one behind the other *)

Ends(leaves, w) ==
  LET c[i \in 0 .. Len(leaves)] ==
        IF i = 0 THEN HeaderSize ELSE DataAlign(c[i - 1], FieldAlignment(leaves[i])) + w[i]
  IN c

SlotAt(leaves, c, i) == DataAlign(c[i - 1], FieldAlignment(leaves[i]))

\* Bytes of a field, padding in front not included: reserved, and in use.
Reserve(leaf) == LeafLayout(leaf).size

UsedWidth(leaf) ==
  (IF Prefixed4(leaf) THEN PrefixSize ELSE 0) + Bytes(leaf) + (IF leaf.kind = "string" THEN 1 ELSE 0)

Widths(leaves) == [i \in 1 .. Len(leaves) |-> Reserve(leaves[i])]

Useds(leaves) == [i \in 1 .. Len(leaves) |-> UsedWidth(leaves[i])]

Chain(c, leaves, w) ==
  /\ c \in [0 .. Len(leaves) -> Nat]
  /\ c[0] = HeaderSize
  /\ \A i \in 1 .. Len(leaves) : c[i] = SlotAt(leaves, c, i) + w[i]

LEMMA EndsChain ==
  ASSUME NEW leaves \in Seq(AnyLeaf), NEW w \in [1 .. Len(leaves) -> Nat]
  PROVE  Chain(Ends(leaves, w), leaves, w)
<1> DEFINE n == Len(leaves)
           a(i) == FieldAlignment(leaves[i])
           step == [i \in 1 .. n |-> [x \in Nat |-> DataAlign(x, a(i)) + w[i]]]
           body(f) == [i \in 0 .. n |-> IF i = 0 THEN HeaderSize ELSE DataAlign(f[i - 1], a(i)) + w[i]]
           it == CHOOSE f : f = body(f)
<1>1. n \in Nat /\ HeaderSize \in Nat
  BY DEF HeaderSize
<1>2. \A i \in 1 .. n : a(i) \in PrimitiveSizes
  <2> TAKE i \in 1 .. n
  <2>1. leaves[i] \in AnyLeaf
    OBVIOUS
  <2>2. QED
    BY <2>1, AnyLeafSizes
<1> HIDE DEF a
<1>3. \A i \in 1 .. n : \A x \in Nat : DataAlign(x, a(i)) + w[i] \in Nat
  <2> TAKE i \in 1 .. n
  <2> TAKE x \in Nat
  <2>1. DataAlign(x, a(i)) \in Nat
    BY <1>2, DataAlignBounds
  <2>2. w[i] \in Nat
    OBVIOUS
  <2>3. QED
    BY <2>1, <2>2
<1>4. step \in [1 .. n -> [Nat -> Nat]]
  BY <1>3
<1>5. \A i \in 1 .. n : \A x \in Nat : step[i][x] = DataAlign(x, a(i)) + w[i]
  OBVIOUS
<1> HIDE DEF step, n
<1>6. PICK g : ChainBy(g, n, Nat, HeaderSize, step)
  BY <1>1, <1>4, ChainExists
<1>7. \A i \in 1 .. n : i - 1 \in 0 .. n
  BY <1>1
<1>8. g = body(g)
  <2>1. g \in [0 .. n -> Nat] /\ g[0] = HeaderSize /\ \A i \in 1 .. n : g[i] = step[i][g[i - 1]]
    BY <1>6 DEF ChainBy
  <2>2. \A i \in 1 .. n : g[i] = DataAlign(g[i - 1], a(i)) + w[i]
    BY <1>5, <1>7, <2>1
  <2>3. \A i \in 0 .. n : g[i] = IF i = 0 THEN HeaderSize ELSE DataAlign(g[i - 1], a(i)) + w[i]
    <3> TAKE i \in 0 .. n
    <3>1. CASE i = 0
      BY <2>1, <3>1
    <3>2. CASE i # 0
      <4>1. i \in 1 .. n
        BY <1>1, <3>2
      <4>2. QED
        BY <2>2, <3>2, <4>1
    <3>3. QED
      BY <3>1, <3>2
  <2>4. g = [i \in 0 .. n |-> g[i]]
    BY <2>1
  <2>5. QED
    BY <2>3, <2>4
<1>9. it = body(it)
  <2> HIDE DEF body
  <2>1. QED
    BY <1>8
<1> HIDE DEF it
<1>10. \A i \in 1 .. n : it[i] = DataAlign(it[i - 1], a(i)) + w[i]
  BY <1>1, <1>9
<1>11. it[0] = HeaderSize /\ it = [i \in 0 .. n |-> it[i]]
  BY <1>1, <1>9
<1>12. \A i \in 0 .. n : it[i] \in Nat
  <2> DEFINE W == {k \in Nat : k <= n => it[k] \in Nat}
  <2>1. 0 \in W
    BY <1>1, <1>11
  <2>2. ASSUME NEW k \in Nat, k \in W PROVE k + 1 \in W
    <3> SUFFICES ASSUME k + 1 <= n PROVE it[k + 1] \in Nat
      OBVIOUS
    <3>1. k \in 0 .. n /\ k + 1 \in 1 .. n /\ it[k] \in Nat /\ (k + 1) - 1 = k
      BY <1>1, <2>2
    <3>2. it[k + 1] = DataAlign(it[k], a(k + 1)) + w[k + 1]
      BY <1>10, <3>1
    <3>3. QED
      BY <1>3, <3>1, <3>2
  <2> HIDE DEF W
  <2>3. Nat \subseteq W
    BY <2>1, <2>2, SetInduction
  <2>4. QED
    BY <1>1, <2>3 DEF W
<1>13. it = Ends(leaves, w)
  BY DEF it, Ends, n, a
<1>14. Chain(it, leaves, w)
  BY <1>10, <1>11, <1>12 DEF Chain, SlotAt, n, a
<1>15. QED
  BY <1>13, <1>14

LEMMA ChainGrows ==
  ASSUME NEW leaves \in Seq(AnyLeaf), NEW w \in [1 .. Len(leaves) -> Nat], NEW c, Chain(c, leaves, w)
  PROVE  /\ \A i \in 1 .. Len(leaves) :
              /\ SlotAt(leaves, c, i) \in Nat /\ c[i - 1] \in Nat /\ c[i] \in Nat
              /\ c[i - 1] <= SlotAt(leaves, c, i) /\ c[i] = SlotAt(leaves, c, i) + w[i]
              /\ SlotAt(leaves, c, i) <= c[i] /\ w[i] \in Nat
         /\ \A i \in 0 .. Len(leaves) : c[i] \in Nat /\ \A j \in 0 .. i : c[j] <= c[i]
<1> DEFINE n == Len(leaves)
<1>1. n \in Nat
  OBVIOUS
<1>2. ASSUME NEW i \in 1 .. n
      PROVE  /\ SlotAt(leaves, c, i) \in Nat /\ c[i - 1] \in Nat /\ c[i] \in Nat
             /\ c[i - 1] <= SlotAt(leaves, c, i) /\ c[i] = SlotAt(leaves, c, i) + w[i]
             /\ SlotAt(leaves, c, i) <= c[i] /\ w[i] \in Nat
  <2>1. i - 1 \in 0 .. n /\ i \in 0 .. n /\ leaves[i] \in AnyLeaf /\ w[i] \in Nat
    BY <1>1
  <2>2. FieldAlignment(leaves[i]) \in PrimitiveSizes /\ c[i - 1] \in Nat
    BY <2>1, AnyLeafSizes DEF Chain
  <2>3. SlotAt(leaves, c, i) \in Nat /\ c[i - 1] <= SlotAt(leaves, c, i)
    BY <2>2, DataAlignBounds DEF SlotAt
  <2>4. c[i] = SlotAt(leaves, c, i) + w[i]
    BY DEF Chain
  <2>5. QED
    BY <2>1, <2>2, <2>3, <2>4
<1>3. \A i \in 0 .. n : c[i] \in Nat
  BY DEF Chain
<1>4. \A i \in 0 .. n : \A j \in 0 .. i : c[j] <= c[i]
  <2> DEFINE W == {k \in Nat : k <= n => \A j \in 0 .. k : c[j] <= c[k]}
  <2>1. 0 \in W
    BY <1>1, <1>3
  <2>2. ASSUME NEW k \in Nat, k \in W PROVE k + 1 \in W
    <3> SUFFICES ASSUME k + 1 <= n, NEW j \in 0 .. (k + 1) PROVE c[j] <= c[k + 1]
      OBVIOUS
    <3>1. k + 1 \in 1 .. n /\ k \in 0 .. n /\ (k + 1) - 1 = k /\ k + 1 \in 0 .. n
      BY <1>1
    <3>2. c[k] <= c[k + 1] /\ c[k] \in Nat /\ c[k + 1] \in Nat
      <4>1. c[(k + 1) - 1] <= SlotAt(leaves, c, k + 1) /\ SlotAt(leaves, c, k + 1) <= c[k + 1]
            /\ SlotAt(leaves, c, k + 1) \in Nat
        BY <1>2, <3>1
      <4>2. QED
        BY <1>3, <3>1, <4>1
    <3>3. CASE j \in 0 .. k
      <4>1. c[j] <= c[k] /\ c[j] \in Nat
        BY <1>1, <1>3, <2>2, <3>1, <3>3
      <4>2. QED
        BY <3>2, <4>1
    <3>4. CASE j = k + 1
      BY <3>2, <3>4
    <3>5. QED
      BY <3>3, <3>4
  <2> HIDE DEF W
  <2>3. Nat \subseteq W
    BY <2>1, <2>2, SetInduction
  <2>4. QED
    BY <1>1, <2>3 DEF W
<1>5. QED
  BY <1>2, <1>3, <1>4

LEMMA DataAlignMonotone ==
  ASSUME NEW p \in Nat, NEW q \in Nat, p <= q, NEW a \in PrimitiveSizes
  PROVE  DataAlign(p, a) <= DataAlign(q, a)
<1>1. p - HeaderSize \in Int /\ q - HeaderSize \in Int /\ p - HeaderSize <= q - HeaderSize /\ HeaderSize \in Int
  BY DEF HeaderSize
<1>2. AlignTo(p - HeaderSize, a) <= AlignTo(q - HeaderSize, a)
  BY <1>1, AlignMonotone
<1>3. AlignTo(p - HeaderSize, a) \in Int /\ AlignTo(q - HeaderSize, a) \in Int
  BY <1>1, AlignToBounds
<1>4. QED
  BY <1>1, <1>2, <1>3 DEF DataAlign

\* Fields that take no more than others end no later.
LEMMA ChainBelow ==
  ASSUME NEW leaves \in Seq(AnyLeaf), NEW w \in [1 .. Len(leaves) -> Nat], NEW v \in [1 .. Len(leaves) -> Nat],
         NEW c, NEW d, Chain(c, leaves, w), Chain(d, leaves, v),
         NEW n \in 0 .. Len(leaves), \A i \in 1 .. n : v[i] <= w[i]
  PROVE  \A i \in 0 .. n : d[i] <= c[i]
<1> DEFINE W == {k \in Nat : k <= n => d[k] <= c[k]}
<1>0. Len(leaves) \in Nat /\ n <= Len(leaves) /\ n \in Nat
  OBVIOUS
<1>1. 0 \in W
  BY DEF Chain, HeaderSize
<1>2. ASSUME NEW k \in Nat, k \in W PROVE k + 1 \in W
  <2> SUFFICES ASSUME k + 1 <= n PROVE d[k + 1] <= c[k + 1]
    OBVIOUS
  <2>1. k + 1 \in 1 .. n /\ k + 1 \in 1 .. Len(leaves) /\ (k + 1) - 1 = k /\ d[k] <= c[k]
    BY <1>0, <1>2
  <2> DEFINE i == k + 1
             a == FieldAlignment(leaves[i])
  <2>2. leaves[i] \in AnyLeaf /\ a \in PrimitiveSizes
    BY <2>1, AnyLeafSizes
  <2>3. /\ d[i - 1] \in Nat /\ c[i - 1] \in Nat
        /\ d[i] = SlotAt(leaves, d, i) + v[i] /\ c[i] = SlotAt(leaves, c, i) + w[i]
        /\ v[i] \in Nat /\ w[i] \in Nat /\ SlotAt(leaves, d, i) \in Nat /\ SlotAt(leaves, c, i) \in Nat
    BY <2>1, ChainGrows
  <2>4. SlotAt(leaves, d, i) <= SlotAt(leaves, c, i)
    BY <2>1, <2>2, <2>3, DataAlignMonotone DEF SlotAt
  <2>5. v[i] <= w[i]
    BY <2>1
  <2>6. QED
    BY <2>3, <2>4, <2>5
<1> HIDE DEF W
<1>3. Nat \subseteq W
  BY <1>1, <1>2, SetInduction
<1>4. QED
  BY <1>0, <1>3 DEF W

\* Fields that take as much end where others do.

--------------------------------------------------------------------------------
(* What the layout of a message says of its members *)

\* The entry of member m in a layout, whose first field is behind c[s].
EntryAt(entry, m, c, s) ==
  /\ entry \in PlacedMembers
  /\ IF m.kind = "nested"
     THEN /\ entry.layout.kind = "struct" /\ entry.layout.members \in Seq(PlacedLeaves)
          /\ Len(entry.layout.members) = Len(m.fields)
          /\ \A j \in 1 .. Len(m.fields) :
               /\ entry.layout.members[j].layout = LeafLayout(m.fields[j])
               /\ HeaderSize + entry.offset + entry.layout.members[j].offset
                    = DataAlign(c[s + j - 1], FieldAlignment(m.fields[j]))
     ELSE /\ entry.layout = LeafLayout(m)
          /\ HeaderSize + entry.offset = DataAlign(c[s], FieldAlignment(m))

\* Fields that begin behind c[s] end one behind the other.
Segment(c, s, fields) ==
  /\ \A j \in 0 .. Len(fields) : c[s + j] \in Nat
  /\ \A j \in 1 .. Len(fields) :
       c[s + j] = DataAlign(c[s + j - 1], FieldAlignment(fields[j])) + Reserve(fields[j])

\* The first j fields of a nested message that begins at `at`, in the struct n.
FieldsIn(n, fields, j, at, c, s) ==
  /\ n \in Structs /\ Len(n.members) = j
  /\ n.maxAlign = FieldAlignment(fields[1])
  /\ HeaderSize + at + n.offset = c[s + j]
  /\ \A i \in 1 .. j : /\ n.members[i].layout = LeafLayout(fields[i])
                       /\ HeaderSize + at + n.members[i].offset
                            = DataAlign(c[s + i - 1], FieldAlignment(fields[i]))

LEMMA ExtendedLeaf ==
  ASSUME NEW n, n.offset \in Nat, n.maxAlign \in PrimitiveSizes, n.members \in Seq(PlacedLeaves),
         NEW l \in LeafLayouts, l.size \in Nat, l.align \in PrimitiveSizes, NEW e, e = Extended(n, l)
  PROVE  /\ e.offset \in Nat /\ e.maxAlign \in PrimitiveSizes
         /\ e.members \in Seq(PlacedLeaves)
         /\ Len(e.members) = Len(n.members) + 1
         /\ e.members[Len(n.members) + 1] = Member(AlignTo(n.offset, l.align), l)
         /\ \A i \in 1 .. Len(n.members) : e.members[i] = n.members[i]
<1>1. AlignTo(n.offset, l.align) \in Nat
  BY AlignOffsetIs
<1>2. Max({n.maxAlign, l.align}) \in PrimitiveSizes
  BY MaxOfSizes
<1> DEFINE x == Member(AlignTo(n.offset, l.align), l)
           s == n.members
<1>3. x \in PlacedLeaves
  BY <1>1 DEF Member, PlacedLeaves
<1>5. e.members = Append(s, x) /\ e.maxAlign = Max({n.maxAlign, l.align})
      /\ e.offset = AlignTo(n.offset, l.align) + l.size
  BY DEF Extended
<1>4. s \in Seq(PlacedLeaves)
  OBVIOUS
<1> HIDE DEF x, s
<1>6. Append(s, x) \in Seq(PlacedLeaves) /\ Len(Append(s, x)) = Len(s) + 1
      /\ Append(s, x)[Len(s) + 1] = x
      /\ \A i \in 1 .. Len(s) : Append(s, x)[i] = s[i]
  BY <1>3, <1>4, AppendProperties
<1>7. QED
  BY <1>1, <1>2, <1>5, <1>6 DEF x, s

LEMMA FirstField ==
  ASSUME NEW fields \in Seq(ConstrainedLeaf), fields # <<>>,
         NEW c, NEW s \in Nat, Segment(c, s, fields),
         NEW o \in Nat, c[s] = HeaderSize + o,
         NEW at, at = AlignTo(o, FieldAlignment(fields[1])),
         NEW e, e = Extended(EmptyStruct, LeafLayout(fields[1]))
  PROVE  FieldsIn(e, fields, 1, at, c, s)
<1> DEFINE f == fields[1]
           l == LeafLayout(f)
           a == FieldAlignment(f)
<1>1. Len(fields) \in Nat /\ 1 \in 1 .. Len(fields) /\ f \in ConstrainedLeaf
  OBVIOUS
<1>2. l \in LeafLayouts /\ l.size \in Nat /\ l.align = a /\ a \in PrimitiveSizes
  BY <1>1, LeafLayoutIs
<1>3. /\ EmptyStruct.members = <<>> /\ EmptyStruct.offset = 0 /\ EmptyStruct.maxAlign = 1
      /\ 0 \in Nat /\ 1 \in PrimitiveSizes /\ <<>> \in Seq([offset : Nat, layout : LeafLayouts])
  BY DEF EmptyStruct, PrimitiveSizes
<1>0. c[s + 1] = DataAlign(c[s + 1 - 1], a) + l.size /\ s + 1 - 1 = s
  BY <1>1 DEF Segment, Reserve
<1> HIDE DEF f, l
<1>4. AlignTo(0, a) = 0
  BY <1>2 DEF AlignTo, CalculateAlignment, PrimitiveSizes
<1>5. e.offset = l.size /\ e.maxAlign = a /\ e.members = <<Member(0, l)>>
  <2>1. Max({1, a}) = a
    BY <1>2, <1>3, MaxOfSizes
  <2>2. e.offset = AlignTo(0, a) + l.size /\ e.maxAlign = Max({1, a})
        /\ e.members = Append(<<>>, Member(AlignTo(0, a), l))
    BY <1>2, <1>3 DEF Extended, l, f
  <2>3. QED
    BY <1>2, <1>4, <2>1, <2>2
<1>6. e \in Structs
  <2>1. Member(0, l) \in PlacedLeaves
    BY <1>2, <1>3 DEF Member, PlacedLeaves
  <2>2. e = [offset |-> e.offset, maxAlign |-> e.maxAlign, members |-> e.members]
    BY DEF Extended
  <2>3. e.members \in Seq(PlacedLeaves)
    BY <1>5, <2>1
  <2>4. QED
    BY <1>2, <1>5, <2>2, <2>3 DEF Structs
<1>7. HeaderSize + at = DataAlign(c[s], a) /\ at \in Nat
  BY <1>2, DataAlignOf, AlignOffsetIs DEF f
<1>8. Len(e.members) = 1 /\ e.members[1].layout = l /\ e.members[1].offset = 0
  BY <1>5 DEF Member
<1>9. HeaderSize + at + e.offset = c[s + 1]
  BY <1>0, <1>2, <1>5, <1>7 DEF HeaderSize
<1>10. HeaderSize + at + e.members[1].offset = DataAlign(c[s + 1 - 1], a)
  BY <1>0, <1>7, <1>8 DEF HeaderSize
<1>11. \A i \in 1 .. 1 : i = 1
  OBVIOUS
<1>12. QED
  BY <1>5, <1>6, <1>8, <1>9, <1>10, <1>11 DEF FieldsIn, f, l

LEMMA NextField ==
  ASSUME NEW fields \in Seq(ConstrainedLeaf), fields # <<>>,
         NEW c, NEW s \in Nat, Segment(c, s, fields), NEW j \in 1 .. (Len(fields) - 1),
         NEW at \in Nat, at % FieldAlignment(fields[1]) = 0,
         FieldAlignment(fields[j + 1]) <= FieldAlignment(fields[1]),
         NEW n, FieldsIn(n, fields, j, at, c, s),
         NEW e, e = Extended(n, LeafLayout(fields[j + 1]))
  PROVE  FieldsIn(e, fields, j + 1, at, c, s)
<1> DEFINE f == fields[j + 1]
           l == LeafLayout(f)
           b == FieldAlignment(f)
           a == FieldAlignment(fields[1])
           y == AlignTo(n.offset, b)
<1>1. /\ Len(fields) \in Nat /\ j + 1 \in 1 .. Len(fields) /\ j \in Nat /\ j \in 0 .. Len(fields)
      /\ f \in ConstrainedLeaf /\ fields[1] \in ConstrainedLeaf
  OBVIOUS
<1>2. /\ l \in LeafLayouts /\ l.size \in Nat /\ l.align = b /\ b \in PrimitiveSizes
      /\ a \in PrimitiveSizes /\ b <= a
  BY <1>1, LeafLayoutIs
<1>3. /\ n \in Structs /\ Len(n.members) = j /\ n.maxAlign = a /\ HeaderSize + at + n.offset = c[s + j]
      /\ n.offset \in Nat /\ n.members \in Seq(PlacedLeaves) /\ n.maxAlign \in PrimitiveSizes
  BY <1>2, StructsFields DEF FieldsIn
<1>4. /\ c[s + (j + 1)] = DataAlign(c[s + (j + 1) - 1], b) + l.size
      /\ s + (j + 1) - 1 = s + j
  BY <1>1 DEF Segment, Reserve
<1> HIDE DEF f, l, b
<1>5. /\ e.offset \in Nat /\ e.maxAlign \in PrimitiveSizes
      /\ e.members \in Seq(PlacedLeaves)
      /\ Len(e.members) = j + 1 /\ e.members[j + 1] = Member(y, l)
      /\ \A i \in 1 .. j : e.members[i] = n.members[i]
  <2>1. n.members \in Seq([offset : Nat, layout : LeafLayouts])
    BY <1>3 DEF PlacedLeaves
  <2>2. e = Extended(n, l)
    BY DEF l, f
  <2> HIDE DEF y
  <2>3. l.align \in PrimitiveSizes /\ l.size \in Nat
    BY <1>2
  <2>4. /\ e.offset \in Nat /\ e.maxAlign \in PrimitiveSizes
        /\ e.members \in Seq(PlacedLeaves)
        /\ Len(e.members) = Len(n.members) + 1
        /\ e.members[Len(n.members) + 1] = Member(AlignTo(n.offset, l.align), l)
        /\ \A i \in 1 .. Len(n.members) : e.members[i] = n.members[i]
    BY <1>2, <1>3, <2>2, <2>3, ExtendedLeaf
  <2>5. QED
    BY <1>2, <1>3, <2>4 DEF y
<1>6. e.offset = y + l.size /\ e.maxAlign = a
  <2>1. e.offset = AlignTo(n.offset, l.align) + l.size /\ e.maxAlign = Max({n.maxAlign, l.align})
    BY DEF Extended, l, f
  <2>2. Max({a, b}) = a
    BY <1>2, MaxOfSizes
  <2>3. QED
    BY <1>2, <1>3, <2>1, <2>2
<1>7. e \in Structs
  <2>1. e = [offset |-> e.offset, maxAlign |-> e.maxAlign, members |-> e.members]
    BY DEF Extended
  <2>2. QED
    BY <1>5, <2>1 DEF Structs
<1>8. y \in Nat
  BY <1>2, <1>3, AlignOffsetIs
<1>9. DataAlign(c[s + j], b) = HeaderSize + at + y
  <2>1. at % b = 0
    <3>1. at % a = 0 /\ at \in Int
      OBVIOUS
    <3> HIDE DEF a
    <3>2. QED
      BY <1>2, <3>1, SmallerDivides
  <2>2. AlignTo(at + n.offset, b) = at + y
    BY <1>2, <1>3, <2>1, AlignedBase
  <2>3. HeaderSize + at + n.offset = HeaderSize + (at + n.offset)
    BY <1>3 DEF HeaderSize
  <2>4. DataAlign(HeaderSize + (at + n.offset), b) = HeaderSize + AlignTo(at + n.offset, b)
    BY <1>3, DataAlignOf
  <2>5. HeaderSize + (at + y) = HeaderSize + at + y
    BY <1>8 DEF HeaderSize
  <2>6. QED
    BY <1>3, <2>2, <2>3, <2>4, <2>5
<1> HIDE DEF y, a
<1>10. HeaderSize + at + e.offset = c[s + (j + 1)]
  <2> DEFINE z == c[s + (j + 1)]
             q == DataAlign(c[s + j], b)
  <2>1. z = q + l.size
    BY <1>4
  <2>2. q = HeaderSize + at + y /\ e.offset = y + l.size
    BY <1>6, <1>9
  <2> HIDE DEF z, q
  <2>3. HeaderSize + at + e.offset = z
    BY <1>2, <1>8, <2>1, <2>2 DEF HeaderSize
  <2>4. QED
    BY <2>3 DEF z
<1>11. ASSUME NEW i \in 1 .. (j + 1)
       PROVE  /\ e.members[i].layout = LeafLayout(fields[i])
              /\ HeaderSize + at + e.members[i].offset = DataAlign(c[s + i - 1], FieldAlignment(fields[i]))
  <2>1. CASE i \in 1 .. j
    BY <1>5, <2>1 DEF FieldsIn
  <2>2. CASE i = j + 1
    <3>1. e.members[i].layout = l /\ e.members[i].offset = y
      BY <1>5, <2>2 DEF Member
    <3>2. DataAlign(c[s + (j + 1) - 1], b) = HeaderSize + at + y
      BY <1>4, <1>9
    <3>3. QED
      BY <2>2, <3>1, <3>2 DEF l, f, b
  <2>3. QED
    BY <1>1, <2>1, <2>2
<1>12. e.maxAlign = FieldAlignment(fields[1])
  BY <1>6 DEF a
<1>13. QED
  BY <1>5, <1>7, <1>10, <1>11, <1>12 DEF FieldsIn

\* What is open while the fields of a nested message are laid out.
OpenWith(b, n) == BuilderOf(b.offset, b.maxAlign, b.members, <<StructContext(b.offset, n)>>)

LEMMA NestedFields ==
  ASSUME NEW b \in Builders, NEW m, m.fields \in Seq(ConstrainedLeaf), m.fields # <<>>,
         \A f \in Range(m.fields) : /\ f.kind \in {"primitive", "string"}
                                    /\ FieldAlignment(f) <= FieldAlignment(m.fields[1]),
         NEW c, NEW s \in Nat, Segment(c, s, m.fields), c[s] = HeaderSize + b.offset,
         NEW at, at = AlignTo(b.offset, FieldAlignment(m.fields[1]))
  PROVE  \E n : /\ FieldsIn(n, m.fields, Len(m.fields), at, c, s)
                /\ FoldLeft(LayoutLeaf, BeginStruct(b), m.fields) = OpenWith(b, n)
<1> DEFINE T == OpenedBuilders
           fields == m.fields
           a == FieldAlignment(fields[1])
           N == Len(fields)
           R(g, j) == \E n : g[j] = OpenWith(b, n) /\ FieldsIn(n, fields, j, at, c, s)
<1>1. N \in Nat /\ N >= 1 /\ 1 \in 1 .. N /\ fields[1] \in ConstrainedLeaf /\ b.offset \in Nat
      /\ b.maxAlign \in PrimitiveSizes /\ b.members \in Seq(PlacedMembers)
  BY BuildersFields
<1>2. a \in PrimitiveSizes
  BY <1>1, LeafLayoutIs
<1>3. BeginStruct(b) \in T /\ EmptyStruct \in Structs /\ BeginStruct(b) = OpenWith(b, EmptyStruct)
  BY BeginStructIs DEF OpenWith
<1>4. \A j \in 1 .. N : /\ fields[j] \in ConstrainedLeaf /\ fields[j].kind \in {"primitive", "string"}
                        /\ FieldAlignment(fields[j]) <= a
  <2> TAKE j \in 1 .. N
  <2>1. fields[j] \in Range(fields) /\ fields[j] \in ConstrainedLeaf
    BY DEF Range
  <2>2. QED
    BY <2>1
<1>5. LayoutFieldsStays(T, m)
  <2>1. ASSUME NEW k \in 1 .. Len(m.fields), NEW x \in T PROVE LayoutLeaf(x, m.fields[k]) \in T
    <3>1. PICK o \in Nat, y \in PrimitiveSizes, ms \in Seq(PlacedMembers), start \in Nat, n \in Structs :
            x = BuilderOf(o, y, ms, <<StructContext(start, n)>>)
      BY DEF OpenedBuilders
    <3>2. m.fields[k] \in ConstrainedLeaf
      BY <1>4
    <3>3. QED
      BY <3>1, <3>2, LayoutLeafInStruct
  <2>2. QED
    BY <2>1 DEF LayoutFieldsStays
<1>6. PICK g : LayoutFieldsSteps(g, T, BeginStruct(b), m)
  <2>1. m.fields \in Seq(ConstrainedLeaf)
    OBVIOUS
  <2> HIDE DEF T
  <2>2. QED
    BY <1>3, <1>5, <2>1, LayoutFieldsTrace
<1>7. /\ g[0] = OpenWith(b, EmptyStruct) /\ FoldLeft(LayoutLeaf, BeginStruct(b), m.fields) = g[N]
      /\ \A k \in 1 .. N : g[k] = LayoutLeaf(g[k - 1], fields[k])
  BY <1>3, <1>6 DEF LayoutFieldsSteps
<1>8. at \in Nat /\ at % a = 0
  <2>1. b.offset \in Int
    BY <1>1
  <2>2. QED
    BY <1>1, <1>2, <2>1, AlignOffsetIs, AlignToBounds
<1>9. ASSUME NEW n \in Structs, NEW f \in ConstrainedLeaf, f.kind \in {"primitive", "string"}
      PROVE  LayoutLeaf(OpenWith(b, n), f) = OpenWith(b, Extended(n, LeafLayout(f)))
  BY <1>1, <1>9, LayoutLeafInStruct DEF OpenWith
<1> HIDE DEF T
<1>10. R(g, 1)
  <2> DEFINE e == Extended(EmptyStruct, LeafLayout(fields[1]))
  <2>1. FieldsIn(e, fields, 1, at, c, s)
    BY <1>1, FirstField
  <2>2. g[1] = LayoutLeaf(g[0], fields[1])
    BY <1>1, <1>7
  <2>3. g[1] = OpenWith(b, e)
    BY <1>1, <1>3, <1>4, <1>7, <1>9, <2>2
  <2>4. QED
    BY <2>1, <2>3
<1>11. ASSUME NEW j \in 1 .. (N - 1), R(g, j) PROVE R(g, j + 1)
  <2>1. PICK n : g[j] = OpenWith(b, n) /\ FieldsIn(n, fields, j, at, c, s)
    BY <1>11
  <2> DEFINE f == fields[j + 1]
             e == Extended(n, LeafLayout(f))
  <2>2. j + 1 \in 1 .. N /\ (j + 1) - 1 = j
    BY <1>1
  <2>3. f \in ConstrainedLeaf /\ f.kind \in {"primitive", "string"} /\ FieldAlignment(f) <= a
    BY <1>4, <2>2
  <2>4. FieldsIn(e, fields, j + 1, at, c, s)
    BY <1>8, <2>1, <2>3, NextField
  <2>5. n \in Structs
    BY <2>1 DEF FieldsIn
  <2>6. g[j + 1] = LayoutLeaf(g[j], f)
    <3>1. g[j + 1] = LayoutLeaf(g[(j + 1) - 1], f)
      BY <1>7, <2>2
    <3>2. QED
      BY <2>2, <3>1
  <2>7. LayoutLeaf(OpenWith(b, n), f) = OpenWith(b, e)
    BY <1>9, <2>3, <2>5
  <2>8. QED
    BY <2>1, <2>4, <2>6, <2>7
<1> HIDE DEF R
<1>12. \A j \in Nat : j + 1 <= N => R(g, j + 1)
  <2> DEFINE W == {j \in Nat : j + 1 <= N => R(g, j + 1)}
  <2>1. 0 \in W
    <3>1. 0 + 1 = 1
      OBVIOUS
    <3>2. QED
      BY <1>10, <3>1
  <2>2. ASSUME NEW k \in Nat, k \in W PROVE k + 1 \in W
    <3> SUFFICES ASSUME (k + 1) + 1 <= N PROVE R(g, (k + 1) + 1)
      OBVIOUS
    <3>1. k + 1 \in 1 .. (N - 1) /\ R(g, k + 1)
      BY <1>1, <2>2
    <3>2. QED
      BY <1>11, <3>1
  <2> HIDE DEF W
  <2>3. Nat \subseteq W
    BY <2>1, <2>2, SetInduction
  <2>4. QED
    BY <2>3 DEF W
<1>13. R(g, N)
  <2>1. N - 1 \in Nat /\ (N - 1) + 1 = N /\ N <= N
    BY <1>1
  <2> HIDE DEF N, fields, a
  <2>2. R(g, (N - 1) + 1)
    BY <1>12, <2>1
  <2>3. QED
    BY <2>1, <2>2
<1>14. QED
  BY <1>7, <1>13 DEF R

LEMMA LeafMemberPlaced ==
  ASSUME NEW b \in Builders, NEW m \in ConstrainedLeaf, m.kind # "nested",
         NEW c, NEW s \in Nat, Segment(c, s, <<m>>), c[s] = HeaderSize + b.offset,
         NEW r, r = LayoutMember(b, m)
  PROVE  \E entry : /\ r.members = Append(b.members, entry) /\ EntryAt(entry, m, c, s)
                    /\ HeaderSize + r.offset = c[s + 1]
<1> DEFINE l == LeafLayout(m)
           e == Extended(b, l)
           at == AlignTo(b.offset, l.align)
           entry == Member(at, l)
           a == FieldAlignment(m)
<1>1. b.offset \in Nat /\ b.offset \in Int
  BY BuildersFields
<1>2. l \in LeafLayouts /\ l.size \in Nat /\ l.align = a /\ a \in PrimitiveSizes
  BY LeafLayoutIs
<1>3. r = BuilderOf(e.offset, e.maxAlign, e.members, <<>>)
  BY LayoutLeafOnTop
<1>4. e.offset = at + l.size /\ e.members = Append(b.members, entry)
  BY DEF Extended
<1>5. r.offset = at + l.size /\ r.members = Append(b.members, entry)
  <2> HIDE DEF e, at, entry, l
  <2>1. r.offset = e.offset /\ r.members = e.members
    BY <1>3 DEF BuilderOf
  <2>2. QED
    BY <1>4, <2>1
<1>6. c[s + 1] = DataAlign(c[s + 1 - 1], a) + l.size /\ s + 1 - 1 = s
  <2>1. Len(<<m>>) = 1 /\ <<m>>[1] = m /\ 1 \in 1 .. 1
    OBVIOUS
  <2>2. QED
    BY <2>1 DEF Segment, Reserve
<1>7. at \in Nat
  BY <1>1, <1>2, AlignOffsetIs
<1>8. DataAlign(c[s], a) = HeaderSize + at
  BY <1>1, <1>2, DataAlignOf
<1> HIDE DEF l, e, a, at
<1>9. entry.offset = at /\ entry.layout = l /\ entry \in PlacedMembers
  BY <1>2, <1>7 DEF Member, PlacedMembers, MemberLayouts
<1>10. EntryAt(entry, m, c, s)
  BY <1>8, <1>9 DEF EntryAt, l, a
<1>11. HeaderSize + r.offset = c[s + 1]
  <2> HIDE DEF entry
  <2>1. c[s + 1] = (HeaderSize + at) + l.size
    BY <1>6, <1>8
  <2>2. HeaderSize + (at + l.size) = (HeaderSize + at) + l.size
    BY <1>2, <1>7 DEF HeaderSize
  <2>3. QED
    BY <1>5, <2>1, <2>2
<1>12. QED
  BY <1>5, <1>10, <1>11

LEMMA NestedMemberPlaced ==
  ASSUME NEW b \in Builders, NEW m, m.kind = "nested", m.fields \in Seq(ConstrainedLeaf), m.fields # <<>>,
         WidestFirst(m), NEW c, NEW s \in Nat, Segment(c, s, m.fields), c[s] = HeaderSize + b.offset,
         NEW r, r = LayoutMember(b, m)
  PROVE  \E entry : /\ r.members = Append(b.members, entry) /\ EntryAt(entry, m, c, s)
                    /\ HeaderSize + r.offset = c[s + Len(m.fields)]
<1> DEFINE fields == m.fields
           a == FieldAlignment(fields[1])
           at == AlignTo(b.offset, a)
           N == Len(fields)
<1>1. N \in Nat /\ N >= 1 /\ fields[1] \in ConstrainedLeaf /\ b.offset \in Nat
      /\ b.maxAlign \in PrimitiveSizes /\ b.members \in Seq(PlacedMembers)
  BY BuildersFields
<1>2. \A f \in Range(m.fields) : /\ f.kind \in {"primitive", "string"}
                                 /\ FieldAlignment(f) <= FieldAlignment(m.fields[1])
  BY DEF WidestFirst
<1>3. PICK n : /\ FieldsIn(n, m.fields, Len(m.fields), at, c, s)
               /\ FoldLeft(LayoutLeaf, BeginStruct(b), m.fields) = OpenWith(b, n)
  BY <1>2, NestedFields
<1>4. /\ n \in Structs /\ Len(n.members) = N /\ n.maxAlign = a /\ HeaderSize + at + n.offset = c[s + N]
      /\ \A j \in 1 .. N : /\ n.members[j].layout = LeafLayout(fields[j])
                           /\ HeaderSize + at + n.members[j].offset
                                = DataAlign(c[s + j - 1], FieldAlignment(fields[j]))
  BY <1>3 DEF FieldsIn
<1>5. n.offset \in Nat /\ n.maxAlign \in PrimitiveSizes /\ n.members \in Seq(PlacedLeaves)
  BY <1>4, StructsFields
<1>6. r = EndStruct(OpenWith(b, n))
  BY <1>3 DEF LayoutMember
<1> DEFINE l == StructOfMember(n)
           entry == Member(at, l)
<1>7. EndStruct(OpenWith(b, n)) = BuilderOf(at + n.offset, Max({b.maxAlign, n.maxAlign}), Append(b.members, entry), <<>>)
      /\ at \in Nat
  <2>1. at = AlignTo(b.offset, n.maxAlign)
    BY <1>4
  <2> DEFINE o == b.offset
             x == b.maxAlign
             ms == b.members
             d == OpenWith(b, n)
  <2>2. d = BuilderOf(o, x, ms, <<StructContext(o, n)>>)
    BY DEF OpenWith
  <2>3. o \in Nat /\ x \in PrimitiveSizes /\ ms \in Seq(PlacedMembers) /\ at = AlignTo(o, n.maxAlign)
    BY <1>1, <2>1
  <2> HIDE DEF at, o, x, ms, d
  <2>4. /\ EndStruct(d) = BuilderOf(at + n.offset, Max({x, n.maxAlign}),
                                     Append(ms, Member(at, StructOfMember(n))), <<>>)
        /\ at \in Nat
    <3>1. n \in Structs
      BY <1>4
    <3>2. EndStruct(d) = BuilderOf(at + n.offset, Max({x, n.maxAlign}),
                                   Append(ms, Member(at, StructOfMember(n))), <<>>)
      BY <3>1, <2>2, <2>3, EndStructIs
    <3>3. at \in Nat
      <4>1. o \in Nat /\ at = AlignTo(o, n.maxAlign)
        BY <2>3
      <4>2. n.maxAlign \in PrimitiveSizes
        BY <1>5
      <4>3. AlignTo(o, n.maxAlign) \in Nat
        BY <4>1, <4>2, AlignOffsetIs
      <4>4. QED
        BY <4>1, <4>3
    <3>4. QED
      BY <3>2, <3>3
  <2>5. QED
    BY <2>4 DEF o, x, ms, d
<1>8. r.offset = at + n.offset /\ r.members = Append(b.members, entry)
  <2> DEFINE y == BuilderOf(at + n.offset, Max({b.maxAlign, n.maxAlign}), Append(b.members, entry), <<>>)
  <2>1. y.offset = at + n.offset /\ y.members = Append(b.members, entry)
    BY DEF BuilderOf
  <2>2. r = y
    BY <1>6, <1>7
  <2> HIDE DEF y
  <2>3. QED
    BY <2>1, <2>2
<1>9. l = [kind |-> "struct", members |-> n.members, size |-> n.offset, align |-> n.maxAlign]
  BY DEF StructOfMember, StructLayout
<1>10. l \in MemberLayouts /\ l.kind = "struct" /\ l.members = n.members
  <2>1. l \in [kind : {"struct"}, members : Seq(PlacedLeaves), size : Nat, align : PrimitiveSizes]
    BY <1>5, <1>9
  <2>2. QED
    BY <1>9, <2>1 DEF MemberLayouts
<1> HIDE DEF l, at
<1>11. entry.offset = at /\ entry.layout = l /\ entry \in PlacedMembers
  BY <1>7, <1>10 DEF Member, PlacedMembers
<1>12. EntryAt(entry, m, c, s)
  <2>1. \A j \in 1 .. Len(m.fields) :
               /\ entry.layout.members[j].layout = LeafLayout(m.fields[j])
               /\ HeaderSize + entry.offset + entry.layout.members[j].offset
                    = DataAlign(c[s + j - 1], FieldAlignment(m.fields[j]))
    BY <1>4, <1>10, <1>11
  <2>2. /\ entry.layout.kind = "struct" /\ entry.layout.members \in Seq(PlacedLeaves)
        /\ Len(entry.layout.members) = Len(m.fields)
    BY <1>4, <1>5, <1>10, <1>11
  <2>3. QED
    BY <1>11, <2>1, <2>2 DEF EntryAt
<1>13. HeaderSize + r.offset = c[s + N]
  <2>1. HeaderSize + (at + n.offset) = HeaderSize + at + n.offset
    BY <1>5, <1>7 DEF HeaderSize
  <2>2. QED
    BY <1>4, <1>8, <2>1
<1>14. QED
  BY <1>8, <1>12, <1>13

\* Messages without sequences of strings, their nested messages aligned.
AlignedMessage(msg) ==
  msg \in Seq(ConstrainedMember) /\ \A m \in Range(msg) : m.kind # "strings" /\ WidestFirst(m)

LEMMA AlignedMembers ==
  ASSUME NEW msg, AlignedMessage(msg), NEW k \in 1 .. Len(msg)
  PROVE  LET m == msg[k]
         IN /\ m \in ConstrainedMember /\ m.kind # "strings" /\ WidestFirst(m)
            /\ \/ m \in ConstrainedLeaf /\ m.kind # "nested" /\ LeavesOf(m) = <<m>>
               \/ m.kind = "nested" /\ m.fields \in Seq(ConstrainedLeaf) /\ m.fields # <<>>
                  /\ LeavesOf(m) = m.fields
            /\ LeavesOf(m) \in Seq(ConstrainedLeaf)
<1> DEFINE m == msg[k]
<1>1. msg \in Seq(ConstrainedMember) /\ m \in Range(msg) /\ m \in ConstrainedMember
  BY DEF AlignedMessage, Range
<1>2. m.kind # "strings" /\ WidestFirst(m)
  BY <1>1 DEF AlignedMessage
<1> HIDE DEF m
<1>3. CASE m \in ConstrainedLeaf /\ m.kind \in {"primitive", "array", "string", "sequence"}
  <2>1. m.kind # "nested" /\ m.kind # "strings"
    BY <1>3
  <2>2. LeavesOf(m) = <<m>>
    BY <2>1 DEF LeavesOf
  <2>3. QED
    BY <1>1, <1>2, <1>3, <2>1, <2>2 DEF m
<1>4. CASE m.kind = "nested" /\ m.fields \in Seq(ConstrainedLeaf) /\ m.fields # <<>>
  <2>1. LeavesOf(m) = m.fields
    BY <1>4 DEF LeavesOf
  <2>2. QED
    BY <1>1, <1>2, <1>4, <2>1 DEF m
<1>5. QED
  BY <1>1, <1>2, <1>3, <1>4, ConstrainedMemberCases DEF m

LEMMA AlignedLeaves ==
  ASSUME NEW msg, AlignedMessage(msg)
  PROVE  /\ Leaves(msg) \in Seq(ConstrainedLeaf) /\ Leaves(msg) \in Seq(AnyLeaf)
         /\ Widths(Leaves(msg)) \in [1 .. Len(Leaves(msg)) -> Nat]
         /\ Chain(Ends(Leaves(msg), Widths(Leaves(msg))), Leaves(msg), Widths(Leaves(msg)))
         /\ \A i \in 1 .. Len(Leaves(msg)) : /\ Leaves(msg)[i] \in ConstrainedLeaf
                                             /\ Widths(Leaves(msg))[i] = Reserve(Leaves(msg)[i])
<1> DEFINE L == Leaves(msg)
<1>1. msg \in Seq(ConstrainedMember)
  BY DEF AlignedMessage
<1>2. L \in Seq(AnyLeaf)
  BY <1>1, LeavesType
<1>3. PICK st : Starts(st, MemberLeaves(msg))
  BY <1>1, LeavesType
<1>4. \A i \in 1 .. Len(L) : L[i] \in ConstrainedLeaf
  <2> TAKE i \in 1 .. Len(L)
  <2>1. PICK k \in 1 .. Len(msg) : \E j \in 1 .. Len(LeavesOf(msg[k])) : i = st[k - 1] + j
    BY <1>1, <1>3, LeafAt
  <2>0. PICK j \in 1 .. Len(LeavesOf(msg[k])) : i = st[k - 1] + j
    BY <2>1
  <2>2. L[i] = LeavesOf(msg[k])[j]
    BY <1>1, <1>3, <2>0, LeafAt
  <2>3. LeavesOf(msg[k]) \in Seq(ConstrainedLeaf)
    BY AlignedMembers
  <2>4. QED
    BY <2>2, <2>3
<1> HIDE DEF L
<1>5. L \in Seq(ConstrainedLeaf)
  <2>1. L = [i \in 1 .. Len(L) |-> L[i]] /\ Len(L) \in Nat
    BY <1>2
  <2>2. QED
    BY <1>4, <2>1
<1>6. \A i \in 1 .. Len(L) : Reserve(L[i]) \in Nat
  BY <1>4, LeafLayoutIs DEF Reserve
<1>7. Widths(L) \in [1 .. Len(L) -> Nat] /\ \A i \in 1 .. Len(L) : Widths(L)[i] = Reserve(L[i])
  BY <1>6 DEF Widths
<1>8. Chain(Ends(L, Widths(L)), L, Widths(L))
  BY <1>2, <1>7, EndsChain
<1>9. QED
  BY <1>2, <1>4, <1>5, <1>7, <1>8 DEF L

LEMMA MemberSegment ==
  ASSUME NEW msg, AlignedMessage(msg), NEW c, Chain(c, Leaves(msg), Widths(Leaves(msg))),
         NEW st, Starts(st, MemberLeaves(msg)), NEW k \in 1 .. Len(msg)
  PROVE  /\ st[k - 1] \in Nat /\ st[k] = st[k - 1] + Len(LeavesOf(msg[k]))
         /\ Segment(c, st[k - 1], LeavesOf(msg[k]))
<1> DEFINE L == Leaves(msg)
           F == LeavesOf(msg[k])
           s == st[k - 1]
<1>0. msg \in Seq(ConstrainedMember)
  BY DEF AlignedMessage
<1>1. s \in Nat /\ st[k] = s + Len(F) /\ st[k] \in 0 .. Len(L)
  <2>1. k \in 0 .. Len(msg)
    OBVIOUS
  <2>2. QED
    BY <1>0, <2>1, LeafAt
<1>2. F \in Seq(ConstrainedLeaf) /\ Len(F) \in Nat /\ Len(L) \in Nat
  BY AlignedMembers, AlignedLeaves
<1>3. \A j \in 1 .. Len(F) : s + j \in 1 .. Len(L) /\ L[s + j] = F[j]
  BY <1>0, LeafAt
<1>4. /\ \A i \in 0 .. Len(L) : c[i] \in Nat
      /\ \A i \in 1 .. Len(L) : c[i] = DataAlign(c[i - 1], FieldAlignment(L[i])) + Reserve(L[i])
  <2>1. \A i \in 1 .. Len(L) : Widths(L)[i] = Reserve(L[i])
    BY DEF Widths
  <2>2. QED
    BY <2>1 DEF Chain, SlotAt
<1> HIDE DEF L, F, s
<1>5. \A j \in 0 .. Len(F) : c[s + j] \in Nat
  <2> TAKE j \in 0 .. Len(F)
  <2>1. s + j \in 0 .. Len(L)
    BY <1>1, <1>2
  <2>2. QED
    BY <1>4, <2>1
<1>6. \A j \in 1 .. Len(F) : c[s + j] = DataAlign(c[s + j - 1], FieldAlignment(F[j])) + Reserve(F[j])
  <2> TAKE j \in 1 .. Len(F)
  <2>1. s + j \in 1 .. Len(L) /\ L[s + j] = F[j]
    BY <1>3
  <2> DEFINE i == s + j
  <2>2. i \in 1 .. Len(L) /\ L[i] = F[j]
    BY <2>1
  <2> HIDE DEF i
  <2>3. c[i] = DataAlign(c[i - 1], FieldAlignment(L[i])) + Reserve(L[i])
    BY <1>4, <2>2
  <2>4. c[i] = DataAlign(c[i - 1], FieldAlignment(F[j])) + Reserve(F[j])
    BY <2>2, <2>3
  <2>5. QED
    <3>1. i - 1 = s + (j - 1)
      BY <1>1 DEF i
    <3>2. QED
      BY <2>4, <3>1 DEF i
<1>7. Segment(c, s, F)
  BY <1>5, <1>6 DEF Segment
<1>8. QED
  BY <1>1, <1>7 DEF s, F

LEMMA MemberPlaced ==
  ASSUME NEW b \in Builders, NEW msg, AlignedMessage(msg), NEW k \in 1 .. Len(msg),
         NEW c, NEW s \in Nat, Segment(c, s, LeavesOf(msg[k])), c[s] = HeaderSize + b.offset,
         NEW r, r = LayoutMember(b, msg[k])
  PROVE  \E entry : /\ r.members = Append(b.members, entry) /\ EntryAt(entry, msg[k], c, s)
                    /\ HeaderSize + r.offset = c[s + Len(LeavesOf(msg[k]))]
<1> DEFINE m == msg[k]
<1>1. /\ m.kind # "strings" /\ WidestFirst(m)
      /\ \/ m \in ConstrainedLeaf /\ m.kind # "nested" /\ LeavesOf(m) = <<m>>
         \/ m.kind = "nested" /\ m.fields \in Seq(ConstrainedLeaf) /\ m.fields # <<>>
            /\ LeavesOf(m) = m.fields
  BY AlignedMembers
<1>2. Segment(c, s, LeavesOf(m)) /\ r = LayoutMember(b, m)
  OBVIOUS
<1> SUFFICES \E entry : /\ r.members = Append(b.members, entry) /\ EntryAt(entry, m, c, s)
                        /\ HeaderSize + r.offset = c[s + Len(LeavesOf(m))]
  OBVIOUS
<1> HIDE DEF m
<1>3. CASE m.kind = "nested"
  <2>1. m.fields \in Seq(ConstrainedLeaf) /\ m.fields # <<>> /\ LeavesOf(m) = m.fields
    BY <1>1, <1>3
  <2>2. Segment(c, s, m.fields)
    BY <1>2, <2>1
  <2>3. \E entry : /\ r.members = Append(b.members, entry) /\ EntryAt(entry, m, c, s)
                   /\ HeaderSize + r.offset = c[s + Len(m.fields)]
    <3>1. WidestFirst(m)
      BY <1>1
    <3>2. r = LayoutMember(b, m)
      BY <1>2
    <3>3. \A z \in Builders : \A w : w.kind = "nested" /\ w.fields \in Seq(ConstrainedLeaf) /\ w.fields # <<>>
             /\ WidestFirst(w) /\ Segment(c, s, w.fields) /\ c[s] = HeaderSize + z.offset
             => \E entry : /\ LayoutMember(z, w).members = Append(z.members, entry) /\ EntryAt(entry, w, c, s)
                           /\ HeaderSize + LayoutMember(z, w).offset = c[s + Len(w.fields)]
      BY NestedMemberPlaced
    <3>4. c[s] = HeaderSize + b.offset
      OBVIOUS
    <3>5. QED
      BY <1>3, <2>1, <2>2, <3>1, <3>2, <3>3, <3>4, Zenon
  <2>4. QED
    BY <2>1, <2>3
<1>4. CASE m.kind # "nested"
  <2>1. m \in ConstrainedLeaf /\ LeavesOf(m) = <<m>> /\ Len(<<m>>) = 1
    BY <1>1, <1>4
  <2>2. \E entry : /\ r.members = Append(b.members, entry) /\ EntryAt(entry, m, c, s)
                   /\ HeaderSize + r.offset = c[s + 1]
    BY <1>2, <1>4, <2>1, LeafMemberPlaced
  <2>3. QED
    BY <2>1, <2>2
<1>5. QED
  BY <1>3, <1>4

\* The first k members are where c has them.
PlacedUpTo(members, msg, c, st, k) ==
  Len(members) = k /\ \A i \in 1 .. k : EntryAt(members[i], msg[i], c, st[i - 1])

LEMMA MessagePlaced ==
  ASSUME NEW msg, AlignedMessage(msg), NEW c, Chain(c, Leaves(msg), Widths(Leaves(msg))),
         NEW st, Starts(st, MemberLeaves(msg))
  PROVE  /\ LayoutOf(msg).size = c[Len(Leaves(msg))]
         /\ PlacedUpTo(LayoutOf(msg).members, msg, c, st, Len(msg))
<1> DEFINE L == Leaves(msg)
           K == Len(msg)
           P(g, k) == HeaderSize + g[k].offset = c[st[k]] /\ PlacedUpTo(g[k].members, msg, c, st, k)
<1>0. msg \in Seq(ConstrainedMember) /\ K \in Nat
  BY DEF AlignedMessage
<1>1. PICK g : LayoutSteps(g, Builders, NewBuilder, msg)
  BY <1>0, LayoutOfMessage
<1>2. /\ g \in [0 .. K -> Builders] /\ g[0] = NewBuilder /\ LayoutOf(msg) = Finalize(g[K])
      /\ \A k \in 1 .. K : g[k] = LayoutMember(g[k - 1], msg[k])
  BY <1>1 DEF LayoutSteps
<1>3. st[0] = 0 /\ st[K] = Len(L) /\ \A k \in 1 .. K : st[k - 1] \in Nat /\ st[k] = st[k - 1] + Len(LeavesOf(msg[k]))
  <2>1. st[0] = 0
    BY DEF Starts
  <2>2. QED
    BY <1>0, <2>1, LeafAt
<1>4. P(g, 0)
  <2>1. g[0].offset = 0 /\ g[0].members = <<>>
    BY <1>2 DEF NewBuilder
  <2>2. c[0] = HeaderSize
    BY DEF Chain
  <2>3. PlacedUpTo(g[0].members, msg, c, st, 0)
    BY <2>1 DEF PlacedUpTo
  <2>4. QED
    BY <1>3, <2>1, <2>2, <2>3 DEF HeaderSize
<1>5. ASSUME NEW k \in 1 .. K, P(g, k - 1) PROVE P(g, k)
  <2> DEFINE b == g[k - 1]
             r == g[k]
             s == st[k - 1]
             m == msg[k]
  <2>1. b \in Builders /\ r = LayoutMember(b, msg[k])
    <3>1. k - 1 \in 0 .. K
      BY <1>0
    <3>2. QED
      BY <1>2, <3>1
  <2>2. s \in Nat /\ Segment(c, s, LeavesOf(msg[k])) /\ st[k] = s + Len(LeavesOf(msg[k]))
    BY MemberSegment
  <2>3. c[s] = HeaderSize + b.offset /\ PlacedUpTo(b.members, msg, c, st, k - 1)
    BY <1>5
  <2> HIDE DEF b, r, s, P
  <2>4. PICK entry : /\ r.members = Append(b.members, entry) /\ EntryAt(entry, msg[k], c, s)
                     /\ HeaderSize + r.offset = c[s + Len(LeavesOf(msg[k]))]
    BY <2>1, <2>2, <2>3, MemberPlaced
  <2>5. b.members \in Seq(PlacedMembers)
    BY <2>1, BuildersFields
  <2>6. entry \in PlacedMembers
    BY <2>4 DEF EntryAt
  <2>7. /\ Len(r.members) = Len(b.members) + 1 /\ r.members[Len(b.members) + 1] = entry
        /\ \A i \in 1 .. Len(b.members) : r.members[i] = b.members[i]
    BY <2>4, <2>5, <2>6, AppendProperties
  <2>8. Len(b.members) = k - 1 /\ \A i \in 1 .. (k - 1) : EntryAt(b.members[i], msg[i], c, st[i - 1])
    BY <2>3 DEF PlacedUpTo
  <2>9. Len(r.members) = k /\ r.members[k] = entry /\ \A i \in 1 .. (k - 1) : r.members[i] = b.members[i]
    <3>1. k \in Nat /\ (k - 1) + 1 = k
      OBVIOUS
    <3>2. QED
      BY <2>7, <2>8, <3>1
  <2>10. ASSUME NEW i \in 1 .. k PROVE EntryAt(r.members[i], msg[i], c, st[i - 1])
    <3>1. CASE i \in 1 .. (k - 1)
      BY <2>8, <2>9, <3>1
    <3>2. CASE i = k
      BY <2>4, <2>9, <3>2 DEF s
    <3>3. QED
      BY <3>1, <3>2
  <2>11. PlacedUpTo(r.members, msg, c, st, k)
    BY <2>9, <2>10 DEF PlacedUpTo
  <2>12. HeaderSize + r.offset = c[st[k]]
    BY <2>2, <2>4
  <2>13. QED
    BY <2>11, <2>12 DEF P, r
<1> HIDE DEF P
<1>6. P(g, K)
  <2> DEFINE W == {k \in Nat : k <= K => P(g, k)}
  <2>1. 0 \in W
    BY <1>4
  <2>2. ASSUME NEW k \in Nat, k \in W PROVE k + 1 \in W
    <3> SUFFICES ASSUME k + 1 <= K PROVE P(g, k + 1)
      OBVIOUS
    <3> DEFINE j == k + 1
    <3>1. j \in 1 .. K /\ j - 1 = k /\ P(g, k)
      BY <1>0, <2>2
    <3> HIDE DEF j
    <3>2. P(g, j)
      BY <1>5, <3>1
    <3>3. QED
      BY <3>2 DEF j
  <2> HIDE DEF W
  <2>3. Nat \subseteq W
    BY <2>1, <2>2, SetInduction
  <2>4. K \in W
    BY <1>0, <2>3
  <2>5. QED
    BY <1>0, <2>4 DEF W
<1>7. LayoutOf(msg).size = g[K].offset + HeaderSize /\ LayoutOf(msg).members = g[K].members
  BY <1>2 DEF Finalize, StructLayout
<1>8. g[K].offset \in Nat
  <2>1. K \in 0 .. K
    BY <1>0
  <2>2. g[K] \in Builders
    BY <1>2, <2>1
  <2>3. QED
    BY <2>2, BuildersFields
<1>9. HeaderSize + g[K].offset = c[Len(L)] /\ PlacedUpTo(g[K].members, msg, c, st, K)
  BY <1>3, <1>6 DEF P
<1>10. QED
  <2>1. g[K].offset + HeaderSize = HeaderSize + g[K].offset
    BY <1>8 DEF HeaderSize
  <2>2. QED
    BY <1>7, <1>9, <2>1

\* Where the view of a field points.
PlaceType == [at : Nat, content : Nat]

LEMMA LeafPlaceIs ==
  ASSUME NEW leaf, NEW base \in Nat
  PROVE  /\ LeafPlace(leaf, base) \in PlaceType /\ LeafPlace(leaf, base).at = base
         /\ LeafPlace(leaf, base).content = IF Prefixed4(leaf) THEN base + PrefixSize ELSE base
BY DEF LeafPlace, PlaceType, PrefixSize

LEMMA MemberPlaces ==
  ASSUME NEW msg, AlignedMessage(msg), NEW c, Chain(c, Leaves(msg), Widths(Leaves(msg))),
         NEW st, Starts(st, MemberLeaves(msg)), NEW k \in 1 .. Len(msg),
         NEW entry, EntryAt(entry, msg[k], c, st[k - 1])
  PROVE  PlacesOf(msg[k], entry, HeaderSize)
           = [j \in 1 .. Len(LeavesOf(msg[k])) |->
                LeafPlace(Leaves(msg)[st[k - 1] + j], SlotAt(Leaves(msg), c, st[k - 1] + j))]
<1> DEFINE L == Leaves(msg)
           m == msg[k]
           F == LeavesOf(m)
           s == st[k - 1]
<1>0. msg \in Seq(ConstrainedMember)
  BY DEF AlignedMessage
<1>1. /\ m.kind # "strings"
      /\ \/ m.kind # "nested" /\ F = <<m>>
         \/ m.kind = "nested" /\ F = m.fields
      /\ Len(F) \in Nat
  BY AlignedMembers
<1>2. s \in Nat /\ \A j \in 1 .. Len(F) : s + j \in 1 .. Len(L) /\ L[s + j] = F[j]
  BY <1>0, LeafAt
<1>3. \A j \in 1 .. Len(F) : SlotAt(L, c, s + j) = DataAlign(c[s + j - 1], FieldAlignment(F[j]))
  <2> TAKE j \in 1 .. Len(F)
  <2>1. (s + j) - 1 = s + (j - 1) /\ L[s + j] = F[j]
    BY <1>2
  <2>2. QED
    BY <2>1 DEF SlotAt
<1> HIDE DEF L, m, F, s
<1>4. CASE m.kind = "nested"
  <2>1. F = m.fields
    BY <1>1, <1>4
  <2>2. \A j \in 1 .. Len(m.fields) :
          HeaderSize + entry.offset + entry.layout.members[j].offset = DataAlign(c[s + j - 1], FieldAlignment(m.fields[j]))
    BY <1>4 DEF EntryAt, m, s
  <2>3. PlacesOf(m, entry, HeaderSize) =
          [j \in 1 .. Len(m.fields) |-> LeafPlace(m.fields[j], HeaderSize + entry.offset + entry.layout.members[j].offset)]
    BY <1>4 DEF PlacesOf
  <2>4. \A j \in 1 .. Len(F) : L[s + j] = F[j]
          /\ HeaderSize + entry.offset + entry.layout.members[j].offset = SlotAt(L, c, s + j)
    BY <1>2, <1>3, <2>1, <2>2
  <2>5. QED
    BY <2>1, <2>3, <2>4 DEF L, m, F, s
<1>5. CASE m.kind # "nested"
  <2>1. F = <<m>> /\ Len(F) = 1 /\ F[1] = m /\ 1 \in 1 .. Len(F)
    BY <1>1, <1>5
  <2>2. HeaderSize + entry.offset = DataAlign(c[s], FieldAlignment(m))
    BY <1>5 DEF EntryAt, m, s
  <2>3. PlacesOf(m, entry, HeaderSize) = <<LeafPlace(m, HeaderSize + entry.offset)>>
    BY <1>1, <1>5 DEF PlacesOf
  <2>4. L[s + 1] = m /\ SlotAt(L, c, s + 1) = DataAlign(c[s], FieldAlignment(m))
    <3>1. s + (1 - 1) = s
      BY <1>2
    <3>2. QED
      BY <1>2, <1>3, <2>1, <3>1
  <2>5. <<LeafPlace(m, HeaderSize + entry.offset)>> = [j \in 1 .. 1 |-> LeafPlace(L[s + j], SlotAt(L, c, s + j))]
    <3>1. LeafPlace(m, HeaderSize + entry.offset) = LeafPlace(L[s + 1], SlotAt(L, c, s + 1))
      BY <2>2, <2>4
    <3>2. \A x : <<x>> = [j \in 1 .. 1 |-> x]
      OBVIOUS
    <3>3. [j \in 1 .. 1 |-> LeafPlace(L[s + j], SlotAt(L, c, s + j))] = [j \in 1 .. 1 |-> LeafPlace(L[s + 1], SlotAt(L, c, s + 1))]
      <4>1. \A j \in 1 .. 1 : j = 1
        OBVIOUS
      <4>2. QED
        BY <4>1
    <3>4. QED
      BY <3>1, <3>2, <3>3
  <2>6. QED
    BY <2>1, <2>3, <2>5 DEF L, m, F, s
<1>6. QED
  BY <1>4, <1>5

\* The places a layout gives the fields of a message.
LEMMA PlacesOfLayout ==
  ASSUME NEW msg, AlignedMessage(msg), NEW c, Chain(c, Leaves(msg), Widths(Leaves(msg))),
         NEW l, \A st : Starts(st, MemberLeaves(msg)) => PlacedUpTo(l.members, msg, c, st, Len(msg))
  PROVE  Places(msg, l) = [i \in 1 .. Len(Leaves(msg)) |-> LeafPlace(Leaves(msg)[i], SlotAt(Leaves(msg), c, i))]
<1> DEFINE L == Leaves(msg)
           K == Len(msg)
           place(i) == LeafPlace(L[i], SlotAt(L, c, i))
           ss == [k \in 1 .. K |-> PlacesOf(msg[k], l.members[k], HeaderSize)]
<1>0. msg \in Seq(ConstrainedMember) /\ K \in Nat
  BY DEF AlignedMessage
<1>1. PICK st : Starts(st, MemberLeaves(msg))
  BY <1>0, LeavesType
<1>2. \A k \in 1 .. K : EntryAt(l.members[k], msg[k], c, st[k - 1])
  BY <1>1 DEF PlacedUpTo
<1>3. /\ Len(L) = st[K] /\ Len(L) \in Nat
      /\ \A k \in 1 .. K : st[k - 1] \in Nat /\ st[k] = st[k - 1] + Len(LeavesOf(msg[k]))
      /\ \A k \in 1 .. K : \A j \in 1 .. Len(LeavesOf(msg[k])) : st[k - 1] + j \in 1 .. Len(L)
      /\ \A i \in 1 .. Len(L) : \E k \in 1 .. K : \E j \in 1 .. Len(LeavesOf(msg[k])) : i = st[k - 1] + j
  <2>1. Len(L) \in Nat
    BY AlignedLeaves
  <2>2. QED
    BY <1>0, <1>1, <2>1, LeafAt
<1>4. \A i \in 1 .. Len(L) : place(i) \in PlaceType
  <2> TAKE i \in 1 .. Len(L)
  <2>1. SlotAt(L, c, i) \in Nat
    BY AlignedLeaves, ChainGrows
  <2>2. QED
    BY <2>1, LeafPlaceIs
<1>5. ASSUME NEW k \in 1 .. K
      PROVE  ss[k] = [j \in 1 .. Len(LeavesOf(msg[k])) |-> place(st[k - 1] + j)]
  <2> DEFINE entry == l.members[k]
  <2>1. ss[k] = PlacesOf(msg[k], entry, HeaderSize)
    OBVIOUS
  <2>2. EntryAt(entry, msg[k], c, st[k - 1])
    BY <1>2
  <2> HIDE DEF entry, ss
  <2>3. PlacesOf(msg[k], entry, HeaderSize)
           = [j \in 1 .. Len(LeavesOf(msg[k])) |->
                LeafPlace(Leaves(msg)[st[k - 1] + j], SlotAt(Leaves(msg), c, st[k - 1] + j))]
    BY <1>1, <2>2, MemberPlaces
  <2>4. QED
    BY <2>1, <2>3
<1>6. \A k \in 1 .. K : Len(LeavesOf(msg[k])) \in Nat
  BY AlignedMembers
<1> HIDE DEF place
<1>7. \A k \in 1 .. K : /\ ss[k] \in Seq(PlaceType) /\ Len(ss[k]) = Len(LeavesOf(msg[k]))
                        /\ \A j \in 1 .. Len(LeavesOf(msg[k])) : ss[k][j] = place(st[k - 1] + j)
  <2> TAKE k \in 1 .. K
  <2> HIDE DEF ss
  <2> DEFINE n == Len(LeavesOf(msg[k]))
  <2>1. n \in Nat /\ ss[k] = [j \in 1 .. n |-> place(st[k - 1] + j)]
    BY <1>5, <1>6
  <2>2. \A j \in 1 .. n : place(st[k - 1] + j) \in PlaceType
    BY <1>3, <1>4
  <2> HIDE DEF n
  <2>3. QED
    BY <2>1, <2>2 DEF n
<1>8. ss \in Seq(Seq(PlaceType)) /\ Len(ss) = K
  <2>1. \A k \in 1 .. K : ss[k] \in Seq(PlaceType)
    BY <1>7
  <2>2. ss = [k \in 1 .. K |-> ss[k]]
    OBVIOUS
  <2> HIDE DEF ss
  <2>3. QED
    BY <1>0, <2>1, <2>2
<1>9. Places(msg, l) = FlattenSeq(ss)
  BY DEF Places
<1> HIDE DEF ss
<1>10. Starts(st, ss)
  <2>1. st \in [0 .. K -> Nat] /\ st[0] = 0
    BY <1>0, <1>1, MemberLeavesType DEF Starts
  <2>2. QED
    BY <1>3, <1>7, <1>8, <2>1 DEF Starts
<1>11. /\ FlattenSeq(ss) \in Seq(PlaceType) /\ Len(FlattenSeq(ss)) = Len(L)
       /\ \A k \in 1 .. K : \A j \in 1 .. Len(ss[k]) : FlattenSeq(ss)[st[k - 1] + j] = ss[k][j]
  BY <1>3, <1>8, <1>10, Flattened
<1>12. \A i \in 1 .. Len(L) : FlattenSeq(ss)[i] = place(i)
  <2> TAKE i \in 1 .. Len(L)
  <2>1. PICK k \in 1 .. K : \E j \in 1 .. Len(LeavesOf(msg[k])) : i = st[k - 1] + j
    BY <1>3
  <2>2. PICK j \in 1 .. Len(LeavesOf(msg[k])) : i = st[k - 1] + j
    BY <2>1
  <2>3. FlattenSeq(ss)[st[k - 1] + j] = ss[k][j] /\ ss[k][j] = place(st[k - 1] + j)
    BY <1>7, <1>11, <2>2
  <2>4. QED
    BY <2>2, <2>3
<1>13. FlattenSeq(ss) = [i \in 1 .. Len(L) |-> FlattenSeq(ss)[i]]
  BY <1>11
<1>14. FlattenSeq(ss) = [i \in 1 .. Len(L) |-> place(i)]
  BY <1>12, <1>13
<1>15. QED
  BY <1>9, <1>14 DEF place

--------------------------------------------------------------------------------
(* Stores and what they spare *)

\* From x to y nothing but lo .. hi - 1 is stored to.
StoresWithin(x, y, lo, hi) ==
  DOMAIN y = DOMAIN x /\ \A o \in DOMAIN x : o < lo \/ o >= hi => y[o] = x[o]

\* A block of n bytes.
BlockOf(x, n) == n \in Nat /\ DOMAIN x = 0 .. (n - 1)

LEMMA NumberSurvives ==
  ASSUME NEW x, NEW y, NEW n, BlockOf(x, n), NEW lo \in Nat, NEW hi \in Nat, StoresWithin(x, y, lo, hi),
         NEW at \in Nat, at + PrefixSize <= lo \/ hi <= at, NEW v, NumberStoredAt(x, at, v)
  PROVE  NumberStoredAt(y, at, v)
<1> SUFFICES ASSUME NEW k \in 0 .. 3 PROVE at + k \in DOMAIN y /\ y[at + k] = NumberCells(v)[k]
  BY DEF NumberStoredAt
<1>1. at + k \in DOMAIN x /\ x[at + k] = NumberCells(v)[k]
  BY DEF NumberStoredAt
<1>2. at + k \in Nat /\ (at + k < lo \/ at + k >= hi)
  BY DEF PrefixSize
<1>3. y[at + k] = x[at + k] /\ DOMAIN y = DOMAIN x
  BY <1>1, <1>2 DEF StoresWithin
<1>4. QED
  BY <1>1, <1>3

LEMMA CellSurvives ==
  ASSUME NEW x, NEW y, NEW n, BlockOf(x, n), NEW lo \in Nat, NEW hi \in Nat, StoresWithin(x, y, lo, hi),
         NEW o \in Nat, o < lo \/ o >= hi
  PROVE  Cell(y, o) = Cell(x, o)
BY DEF Cell, StoresWithin

LEMMA ContentSurvives ==
  ASSUME NEW x, NEW y, NEW n, BlockOf(x, n), NEW lo \in Nat, NEW hi \in Nat, StoresWithin(x, y, lo, hi),
         NEW i, NEW leaf \in AnyLeaf, NEW content \in Nat, content + Bytes(leaf) <= lo \/ hi <= content,
         ContentAt(x, i, leaf, content)
  PROVE  ContentAt(y, i, leaf, content)
<1>1. Bytes(leaf) \in Nat
  BY AnyLeafSizes
<1> SUFFICES ASSUME NEW k \in 0 .. (Bytes(leaf) - 1)
             PROVE  Cell(y, content + k) = DataCells(i, leaf)[k]
  BY DEF ContentAt
<1>2. Cell(x, content + k) = DataCells(i, leaf)[k]
  BY DEF ContentAt
<1>3. content + k \in Nat /\ (content + k < lo \/ content + k >= hi)
  BY <1>1
<1>4. QED
  BY <1>2, <1>3, CellSurvives

LEMMA StoresMeet ==
  ASSUME NEW x, NEW y, NEW z, NEW n, BlockOf(x, n), NEW lo \in Nat, NEW mid \in Nat, NEW hi \in Nat,
         lo <= mid, mid <= hi, StoresWithin(x, y, lo, mid), StoresWithin(y, z, mid, hi)
  PROVE  StoresWithin(x, z, lo, hi)
<1>1. DOMAIN y = DOMAIN x /\ DOMAIN z = DOMAIN x
  BY DEF StoresWithin
<1>2. ASSUME NEW o \in DOMAIN x, o < lo \/ o >= hi PROVE z[o] = x[o]
  <2>1. o \in Int
    BY DEF BlockOf
  <2>2. (o < lo \/ o >= mid) /\ (o < mid \/ o >= hi)
    BY <1>2, <2>1
  <2>3. y[o] = x[o] /\ z[o] = y[o]
    BY <1>1, <2>2 DEF StoresWithin
  <2>4. QED
    BY <2>3
<1>3. QED
  BY <1>1, <1>2 DEF StoresWithin

LEMMA StoresWiden ==
  ASSUME NEW x, NEW y, NEW n, BlockOf(x, n), NEW lo \in Nat, NEW hi \in Nat, NEW p \in Nat, NEW q \in Nat,
         p <= lo, hi <= q, StoresWithin(x, y, lo, hi)
  PROVE  StoresWithin(x, y, p, q)
<1>1. ASSUME NEW o \in DOMAIN x, o < p \/ o >= q PROVE y[o] = x[o]
  <2>1. o \in Int
    BY DEF BlockOf
  <2>2. o < lo \/ o >= hi
    BY <1>1, <2>1
  <2>3. QED
    BY <2>2 DEF StoresWithin
<1>2. QED
  BY <1>1 DEF StoresWithin

LEMMA PutNumberStores ==
  ASSUME NEW x, NEW n, BlockOf(x, n), NEW at \in Nat, NEW v
  PROVE  /\ BlockOf(PutNumber(x, at, v), n)
         /\ StoresWithin(x, PutNumber(x, at, v), at, at + PrefixSize)
         /\ at + PrefixSize <= n => NumberStoredAt(PutNumber(x, at, v), at, v)
<1> DEFINE y == PutNumber(x, at, v)
<1>1. y = [o \in DOMAIN x |-> IF o \in at .. (at + PrefixSize - 1) THEN NumberCells(v)[o - at] ELSE x[o]]
  BY DEF PutNumber, Put
<1>2. DOMAIN x = 0 .. (n - 1) /\ n \in Nat
  BY DEF BlockOf
<1> HIDE DEF y
<1>3. BlockOf(y, n)
  BY <1>1, <1>2 DEF BlockOf
<1>4. StoresWithin(x, y, at, at + PrefixSize)
  <2>1. ASSUME NEW o \in DOMAIN x, o < at \/ o >= at + PrefixSize PROVE y[o] = x[o]
    <3>1. o \in Int /\ o \notin at .. (at + PrefixSize - 1)
      BY <1>2, <2>1 DEF PrefixSize
    <3>2. QED
      BY <1>1, <3>1
  <2>2. QED
    BY <1>1, <2>1 DEF StoresWithin
<1>5. ASSUME at + PrefixSize <= n PROVE NumberStoredAt(y, at, v)
  <2> SUFFICES ASSUME NEW k \in 0 .. 3 PROVE at + k \in DOMAIN y /\ y[at + k] = NumberCells(v)[k]
    BY DEF NumberStoredAt
  <2>1. at + k \in DOMAIN x /\ at + k \in at .. (at + PrefixSize - 1) /\ (at + k) - at = k
    BY <1>2, <1>5 DEF PrefixSize
  <2>2. QED
    BY <1>1, <2>1
<1>6. QED
  BY <1>3, <1>4, <1>5 DEF y

LEMMA ClearStores ==
  ASSUME NEW x, NEW n, BlockOf(x, n), NEW from \in Nat, NEW to \in Nat, from <= to
  PROVE  BlockOf(Clear(x, from, to), n) /\ StoresWithin(x, Clear(x, from, to), from, to)
<1> DEFINE y == Clear(x, from, to)
<1>1. y = [o \in DOMAIN x |-> IF o \in from .. (from + (to - from) - 1) THEN Junk ELSE x[o]]
  BY ClearIs
<1>2. DOMAIN x = 0 .. (n - 1) /\ n \in Nat
  BY DEF BlockOf
<1> HIDE DEF y
<1>3. ASSUME NEW o \in DOMAIN x, o < from \/ o >= to PROVE y[o] = x[o]
  <2>1. o \in Int /\ o \notin from .. (from + (to - from) - 1)
    BY <1>2, <1>3
  <2>2. QED
    BY <1>1, <2>1
<1>4. QED
  BY <1>1, <1>2, <1>3 DEF y, BlockOf, StoresWithin

--------------------------------------------------------------------------------
(* The room of a field *)

\* Fields whose content is right behind their prefix.
PlainLeaf(leaf) == leaf \in ConstrainedLeaf /\ (leaf.kind = "sequence" => leaf.size <= PrefixSize)

LEMMA LeafWidths ==
  ASSUME NEW leaf, PlainLeaf(leaf)
  PROVE  /\ Bytes(leaf) \in Nat /\ UsedWidth(leaf) \in Nat /\ Reserve(leaf) \in Nat
         /\ FieldAlignment(leaf) \in PrimitiveSizes
         /\ Prefixed4(leaf) => /\ FieldAlignment(leaf) = PrefixSize /\ leaf.checked /\ leaf.bound \in Nat
                               /\ Actual(leaf) \in Nat
                               /\ PrefixSize <= Reserve(leaf)
                               /\ (Actual(leaf) <= leaf.bound => UsedWidth(leaf) <= Reserve(leaf))
                               /\ (Actual(leaf) = leaf.bound => UsedWidth(leaf) = Reserve(leaf))
         /\ ~Prefixed4(leaf) => UsedWidth(leaf) = Bytes(leaf) /\ Reserve(leaf) = Bytes(leaf) /\ Bytes(leaf) # 0
         /\ UsedWidth(leaf) = (IF Prefixed4(leaf) THEN PrefixSize ELSE 0) + Bytes(leaf)
                              + (IF leaf.kind = "string" THEN 1 ELSE 0)
<1>0. /\ leaf \in ConstrainedLeaf /\ leaf \in AnyLeaf /\ leaf.kind \in {"primitive", "array", "string", "sequence"}
      /\ leaf.kind = "sequence" => leaf.size <= PrefixSize
  BY ConstrainedLeafFields DEF PlainLeaf
<1>1. Bytes(leaf) \in Nat /\ FieldAlignment(leaf) \in PrimitiveSizes /\ Reserve(leaf) \in Nat
  BY <1>0, AnyLeafSizes, LeafLayoutIs DEF Reserve
<1>2. /\ PrefixSize = 4 /\ PrefixSize \in Nat
      /\ UsedWidth(leaf) = (IF Prefixed4(leaf) THEN PrefixSize ELSE 0) + Bytes(leaf)
                              + (IF leaf.kind = "string" THEN 1 ELSE 0)
  BY DEF PrefixSize, UsedWidth
<1>3. UsedWidth(leaf) \in Nat
  BY <1>1, <1>2
<1>4. CASE leaf.kind = "primitive"
  <2>1. leaf.size \in PrimitiveSizes /\ leaf.size \in Nat /\ leaf.size # 0
    BY <1>0, <1>4, AnyLeafFields DEF PrimitiveSizes
  <2>2. ~Prefixed4(leaf) /\ Bytes(leaf) = leaf.size
    BY <1>4 DEF Prefixed4, Bytes
  <2>3. Reserve(leaf) = leaf.size
    BY <1>4 DEF Reserve, LeafLayout, PrimitiveLayout
  <2>4. QED
    BY <1>1, <1>2, <1>3, <1>4, <2>1, <2>2, <2>3
<1>5. CASE leaf.kind = "array"
  <2>1. leaf.size \in PrimitiveSizes /\ leaf.size \in Nat /\ leaf.size # 0 /\ leaf.count \in Nat /\ leaf.count # 0
    BY <1>0, <1>5, AnyLeafFields DEF PrimitiveSizes
  <2>2. ~Prefixed4(leaf) /\ Bytes(leaf) = leaf.size * leaf.count
    BY <1>5 DEF Prefixed4, Bytes
  <2>3. Reserve(leaf) = leaf.size * leaf.count
    BY <1>5 DEF Reserve, LeafLayout, PrimitiveArrayLayout
  <2>4. Bytes(leaf) # 0
    BY <1>0, <1>5, <2>1, <2>2 DEF PrimitiveSizes
  <2>5. QED
    BY <1>1, <1>2, <1>3, <1>5, <2>2, <2>3, <2>4
<1>6. CASE leaf.kind = "string"
  <2>1. leaf.chars \in Nat /\ leaf.bound \in Nat /\ leaf.checked
    BY <1>0, <1>6 DEF ConstrainedLeaf
  <2>2. Prefixed4(leaf) /\ Bytes(leaf) = leaf.chars /\ Actual(leaf) = leaf.chars /\ FieldAlignment(leaf) = PrefixSize
    BY <1>6 DEF Prefixed4, Bytes, Actual, FieldAlignment
  <2>3. Reserve(leaf) = PrefixSize + leaf.bound * 1 + 1
    BY <1>6 DEF Reserve, LeafLayout, StringLayout
  <2>4. QED
    BY <1>1, <1>2, <1>3, <1>6, <2>1, <2>2, <2>3
<1>7. CASE leaf.kind = "sequence"
  <2>1. leaf.count \in Nat /\ leaf.bound \in Nat /\ leaf.checked /\ leaf.size \in PrimitiveSizes
    BY <1>0, <1>7 DEF ConstrainedLeaf
  <2>2. leaf.size \in {1, 2, 4}
    BY <1>0, <1>2, <1>7, <2>1 DEF PrimitiveSizes
  <2>3. Prefixed4(leaf) /\ Bytes(leaf) = leaf.size * leaf.count /\ Actual(leaf) = leaf.count
        /\ FieldAlignment(leaf) = PrefixSize
    BY <1>7 DEF Prefixed4, Bytes, Actual, FieldAlignment
  <2>4. AlignTo(PrefixSize, leaf.size) = 4
    BY <1>2, <2>2 DEF AlignTo, CalculateAlignment
  <2>5. Reserve(leaf) = 4 + leaf.size * leaf.bound
    BY <1>7, <2>4 DEF Reserve, LeafLayout, PrimitiveSequenceLayout
  <2>6. UsedWidth(leaf) = 4 + leaf.size * leaf.count
    BY <1>1, <1>2, <1>7, <2>3
  <2>7. leaf.count <= leaf.bound => leaf.size * leaf.count <= leaf.size * leaf.bound
    BY <2>1, <2>2
  <2>8. leaf.size * leaf.count \in Nat /\ leaf.size * leaf.bound \in Nat
    BY <2>1, <2>2
  <2>9. leaf.count = leaf.bound => UsedWidth(leaf) = Reserve(leaf)
    BY <2>5, <2>6
  <2>10. leaf.count <= leaf.bound => UsedWidth(leaf) <= Reserve(leaf)
    BY <2>5, <2>6, <2>7, <2>8
  <2>11. PrefixSize <= Reserve(leaf)
    BY <1>2, <2>5, <2>8
  <2>12. QED
    BY <1>1, <1>2, <1>3, <1>7, <2>1, <2>3, <2>9, <2>10, <2>11
<1>8. QED
  BY <1>0, <1>4, <1>5, <1>6, <1>7

LEMMA ChainOrder ==
  ASSUME NEW leaves \in Seq(AnyLeaf), NEW w \in [1 .. Len(leaves) -> Nat], NEW c, Chain(c, leaves, w)
  PROVE  \A i \in 1 .. Len(leaves) :
           /\ SlotAt(leaves, c, i) \in Nat /\ c[i] \in Nat /\ c[Len(leaves)] \in Nat
           /\ c[i] = SlotAt(leaves, c, i) + w[i] /\ c[i] <= c[Len(leaves)]
           /\ \A q \in 1 .. (i - 1) : c[q] <= SlotAt(leaves, c, i) /\ c[q] <= c[i - 1] /\ c[q] \in Nat
<1> DEFINE N == Len(leaves)
<1>1. N \in Nat
  OBVIOUS
<1>2. /\ \A i \in 1 .. N : /\ SlotAt(leaves, c, i) \in Nat /\ c[i - 1] \in Nat /\ c[i] \in Nat
                           /\ c[i - 1] <= SlotAt(leaves, c, i) /\ c[i] = SlotAt(leaves, c, i) + w[i]
      /\ \A i \in 0 .. N : c[i] \in Nat /\ \A j \in 0 .. i : c[j] <= c[i]
  BY ChainGrows
<1> TAKE i \in 1 .. N
<1> HIDE DEF N
<1>3. SlotAt(leaves, c, i) \in Nat /\ c[i - 1] \in Nat /\ c[i] \in Nat
      /\ c[i - 1] <= SlotAt(leaves, c, i) /\ c[i] = SlotAt(leaves, c, i) + w[i]
  BY <1>2
<1>4. c[N] \in Nat /\ c[i] <= c[N]
  <2>1. N \in 0 .. N /\ i \in 0 .. N
    BY <1>1
  <2>2. QED
    BY <1>2, <2>1
<1>5. ASSUME NEW q \in 1 .. (i - 1) PROVE c[q] <= SlotAt(leaves, c, i) /\ c[q] <= c[i - 1] /\ c[q] \in Nat
  <2>1. i - 1 \in 0 .. N /\ q \in 0 .. (i - 1) /\ q \in 0 .. N
    BY <1>1
  <2>2. c[q] <= c[i - 1] /\ c[q] \in Nat
    BY <1>2, <2>1
  <2>3. QED
    BY <1>3, <2>2
<1>6. QED
  BY <1>3, <1>4, <1>5 DEF N

--------------------------------------------------------------------------------
(* construct_message_at(): the prefixes of the bounds *)

\* Messages a layout, the writer and the readers place alike.
PlainMessage(msg) ==
  AlignedMessage(msg) /\ \A i \in 1 .. Len(Leaves(msg)) : PlainLeaf(Leaves(msg)[i])

LEMMA PlainLeaves ==
  ASSUME NEW msg, PlainMessage(msg)
  PROVE  /\ AlignedMessage(msg) /\ msg \in Seq(ConstrainedMember)
         /\ Leaves(msg) \in Seq(AnyLeaf) /\ Len(Leaves(msg)) \in Nat
         /\ Widths(Leaves(msg)) \in [1 .. Len(Leaves(msg)) -> Nat]
         /\ Useds(Leaves(msg)) \in [1 .. Len(Leaves(msg)) -> Nat]
         /\ \A i \in 1 .. Len(Leaves(msg)) : /\ PlainLeaf(Leaves(msg)[i]) /\ Leaves(msg)[i] \in AnyLeaf
                                             /\ Widths(Leaves(msg))[i] = Reserve(Leaves(msg)[i])
                                             /\ Useds(Leaves(msg))[i] = UsedWidth(Leaves(msg)[i])
         /\ Chain(Ends(Leaves(msg), Widths(Leaves(msg))), Leaves(msg), Widths(Leaves(msg)))
         /\ Chain(Ends(Leaves(msg), Useds(Leaves(msg))), Leaves(msg), Useds(Leaves(msg)))
<1> DEFINE L == Leaves(msg)
<1>1. AlignedMessage(msg) /\ \A i \in 1 .. Len(L) : PlainLeaf(L[i])
  BY DEF PlainMessage
<1>2. /\ L \in Seq(AnyLeaf) /\ Widths(L) \in [1 .. Len(L) -> Nat] /\ Chain(Ends(L, Widths(L)), L, Widths(L))
      /\ \A i \in 1 .. Len(L) : Widths(L)[i] = Reserve(L[i])
  BY <1>1, AlignedLeaves
<1>3. msg \in Seq(ConstrainedMember)
  BY <1>1 DEF AlignedMessage
<1> HIDE DEF L
<1>4. \A i \in 1 .. Len(L) : UsedWidth(L[i]) \in Nat
  BY <1>1, LeafWidths
<1>5. Useds(L) \in [1 .. Len(L) -> Nat] /\ \A i \in 1 .. Len(L) : Useds(L)[i] = UsedWidth(L[i])
  BY <1>4 DEF Useds
<1>6. Chain(Ends(L, Useds(L)), L, Useds(L))
  BY <1>2, <1>5, EndsChain
<1>7. Len(L) \in Nat /\ \A i \in 1 .. Len(L) : L[i] \in AnyLeaf
  BY <1>2
<1>8. QED
  BY <1>1, <1>2, <1>3, <1>5, <1>6, <1>7 DEF L

\* The first i fields have the number of their bound where c has them.
NumbersUpTo(mem, L, c, i) ==
  \A q \in 1 .. i : Prefixed4(L[q]) => NumberStoredAt(mem, SlotAt(L, c, q), Number(L[q], L[q].bound))

LEMMA ApplyLeafNumbers ==
  ASSUME NEW msg, PlainMessage(msg), NEW L, L = Leaves(msg), NEW c, Chain(c, L, Widths(L)),
         NEW i \in 1 .. Len(L), NEW x, BlockOf(x, c[Len(L)]), NumbersUpTo(x, L, c, i - 1),
         NEW base \in Nat, NEW e, e.layout = LeafLayout(L[i]), base + e.offset = SlotAt(L, c, i),
         NEW y, y = ApplyMember(x, base, e)
  PROVE  BlockOf(y, c[Len(L)]) /\ NumbersUpTo(y, L, c, i)
<1> DEFINE n == c[Len(L)]
           leaf == L[i]
           at == SlotAt(L, c, i)
           v == Number(leaf, leaf.bound)
<1>1. L \in Seq(AnyLeaf) /\ Len(L) \in Nat /\ Widths(L) \in [1 .. Len(L) -> Nat]
      /\ \A q \in 1 .. Len(L) : PlainLeaf(L[q]) /\ Widths(L)[q] = Reserve(L[q])
  BY PlainLeaves
<1>2. at \in Nat /\ c[i] \in Nat /\ n \in Nat /\ c[i] = at + Reserve(leaf) /\ c[i] <= n
      /\ \A q \in 1 .. (i - 1) : c[q] <= at /\ c[q] \in Nat
  BY <1>1, ChainOrder
<1>3. \A q \in 1 .. Len(L) : SlotAt(L, c, q) \in Nat /\ c[q] = SlotAt(L, c, q) + Reserve(L[q])
  BY <1>1, ChainOrder
<1>4. PlainLeaf(leaf) /\ leaf \in ConstrainedLeaf /\ leaf.kind \in {"primitive", "array", "string", "sequence"}
  BY <1>1, ConstrainedLeafFields DEF PlainLeaf
<1>5. CASE Prefixed4(leaf)
  <2>1. leaf.bound \in Nat /\ PrefixSize <= Reserve(leaf) /\ Reserve(leaf) \in Nat
    BY <1>4, <1>5, LeafWidths
  <2>2. y = PutNumber(x, at, v)
    <3>1. CASE leaf.kind = "string"
      <4>1. e.layout.kind = "string" /\ e.layout.chars = leaf.bound
        BY <3>1 DEF LeafLayout, StringLayout
      <4>2. v = AsUint32(leaf.bound + 1)
        BY <3>1 DEF Number, Length
      <4>3. QED
        BY <4>1, <4>2 DEF ApplyMember
    <3>2. CASE leaf.kind = "sequence"
      <4>1. e.layout.kind = "sequence" /\ e.layout.count = leaf.bound
        BY <3>2 DEF LeafLayout, PrimitiveSequenceLayout
      <4>2. v = AsUint32(leaf.bound)
        BY <3>2 DEF Number, Length
      <4>3. QED
        BY <4>1, <4>2 DEF ApplyMember
    <3>3. QED
      BY <1>4, <1>5, <3>1, <3>2 DEF Prefixed4
  <2> HIDE DEF n, at, v, leaf
  <2>3. at + PrefixSize <= n
    BY <1>2, <2>1 DEF PrefixSize
  <2>4. BlockOf(x, n)
    BY DEF n
  <2>5. BlockOf(y, n) /\ StoresWithin(x, y, at, at + PrefixSize) /\ NumberStoredAt(y, at, v)
    BY <1>2, <2>2, <2>3, <2>4, PutNumberStores
  <2>6. ASSUME NEW q \in 1 .. i, Prefixed4(L[q])
        PROVE  NumberStoredAt(y, SlotAt(L, c, q), Number(L[q], L[q].bound))
    <3>1. CASE q = i
      BY <2>5, <3>1 DEF at, v, leaf
    <3>2. CASE q # i
      <4>1. q \in 1 .. (i - 1) /\ q \in 1 .. Len(L)
        BY <1>1, <3>2
      <4>2. NumberStoredAt(x, SlotAt(L, c, q), Number(L[q], L[q].bound))
        BY <2>6, <4>1 DEF NumbersUpTo
      <4> DEFINE p == SlotAt(L, c, q)
                 u == Number(L[q], L[q].bound)
      <4>3. p \in Nat /\ c[q] = p + Reserve(L[q]) /\ c[q] <= at /\ PrefixSize <= Reserve(L[q]) /\ Reserve(L[q]) \in Nat
        <5>1. PlainLeaf(L[q])
          BY <1>1, <4>1
        <5>2. PrefixSize <= Reserve(L[q]) /\ Reserve(L[q]) \in Nat
          BY <2>6, <5>1, LeafWidths
        <5>3. QED
          BY <1>2, <1>3, <4>1, <5>2
      <4> HIDE DEF p, u
      <4>4. p + PrefixSize <= at /\ at + PrefixSize \in Nat
        BY <1>2, <4>3 DEF PrefixSize
      <4>5. NumberStoredAt(x, p, u)
        BY <4>2 DEF p, u
      <4>6. NumberStoredAt(y, p, u)
        BY <1>2, <2>4, <2>5, <4>3, <4>4, <4>5, NumberSurvives
      <4>7. QED
        BY <4>6 DEF p, u
    <3>3. QED
      BY <3>1, <3>2
  <2>7. QED
    BY <2>5, <2>6 DEF NumbersUpTo, n
<1>6. CASE ~Prefixed4(leaf)
  <2>1. leaf.kind \in {"primitive", "array"}
    BY <1>4, <1>6 DEF Prefixed4
  <2>2. e.layout.kind = leaf.kind
    BY <1>4, LeafLayoutIs
  <2>3. y = x
    BY <2>1, <2>2 DEF ApplyMember
  <2>4. ASSUME NEW q \in 1 .. i, Prefixed4(L[q])
        PROVE  NumberStoredAt(y, SlotAt(L, c, q), Number(L[q], L[q].bound))
    <3>1. q # i
      BY <1>6, <2>4
    <3>2. q \in 1 .. (i - 1)
      BY <1>1, <3>1
    <3>3. QED
      BY <2>3, <2>4, <3>2 DEF NumbersUpTo
  <2>5. QED
    BY <2>3, <2>4 DEF NumbersUpTo
<1>7. QED
  BY <1>5, <1>6

LEMMA ApplyMemberNumbers ==
  ASSUME NEW msg, PlainMessage(msg), NEW L, L = Leaves(msg), NEW c, Chain(c, L, Widths(L)),
         NEW st, Starts(st, MemberLeaves(msg)), NEW k \in 1 .. Len(msg),
         NEW entry, EntryAt(entry, msg[k], c, st[k - 1]),
         NEW D, D = 0 .. (c[Len(L)] - 1), NEW x \in [D -> CellOf], NumbersUpTo(x, L, c, st[k - 1]),
         NEW y, y = Applied(x, entry)
  PROVE  NumbersUpTo(y, L, c, st[k])
<1> DEFINE m == msg[k]
           F == LeavesOf(m)
           s == st[k - 1]
           n == c[Len(L)]
<1>1. AlignedMessage(msg) /\ msg \in Seq(ConstrainedMember) /\ L \in Seq(AnyLeaf) /\ Len(L) \in Nat
      /\ Widths(L) \in [1 .. Len(L) -> Nat]
  BY PlainLeaves
<1>2. /\ \/ m.kind # "nested" /\ m \in ConstrainedLeaf /\ F = <<m>>
         \/ m.kind = "nested" /\ F = m.fields
      /\ Len(F) \in Nat
  BY <1>1, AlignedMembers
<1>3. s \in Nat /\ st[k] = s + Len(F) /\ \A j \in 1 .. Len(F) : s + j \in 1 .. Len(L) /\ L[s + j] = F[j]
  BY <1>1, LeafAt
<1>4. \A j \in 1 .. Len(F) : SlotAt(L, c, s + j) = DataAlign(c[s + j - 1], FieldAlignment(F[j]))
  <2> TAKE j \in 1 .. Len(F)
  <2>1. (s + j) - 1 = s + (j - 1) /\ L[s + j] = F[j]
    BY <1>3
  <2>2. QED
    BY <2>1 DEF SlotAt
<1>5. n \in Nat /\ D \in SUBSET Int
  <2>1. Len(L) \in 0 .. Len(L)
    BY <1>1
  <2>2. n \in Nat
    BY <1>1, <2>1, ChainGrows
  <2>3. QED
    BY <2>2
<1>6. entry \in PlacedMembers /\ entry.offset \in Nat /\ HeaderSize \in Nat /\ HeaderSize + entry.offset \in Nat
  BY StructMembers DEF EntryAt, HeaderSize
<1>7. \A z \in [D -> CellOf] : BlockOf(z, n)
  BY <1>5 DEF BlockOf
<1>8. CASE m.kind # "nested"
  <2>1. F = <<m>> /\ m \in ConstrainedLeaf /\ Len(F) = 1 /\ F[1] = m /\ 1 \in 1 .. Len(F)
    BY <1>2, <1>8
  <2>2. entry.layout = LeafLayout(m) /\ HeaderSize + entry.offset = DataAlign(c[s], FieldAlignment(m))
    BY <1>8 DEF EntryAt
  <2>3. entry.layout.kind # "struct"
    BY <2>1, <2>2, LeafLayoutIs, ConstrainedLeafFields
  <2>4. y = ApplyMember(x, HeaderSize, entry)
    BY <2>3 DEF Applied
  <2> DEFINE i == s + 1
  <2>5. i \in 1 .. Len(L) /\ L[i] = m /\ i - 1 = s /\ st[k] = i
    BY <1>3, <2>1
  <2>6. HeaderSize + entry.offset = SlotAt(L, c, i)
    <3>1. s + (1 - 1) = s
      BY <1>3
    <3>2. QED
      BY <1>4, <2>1, <2>2, <3>1
  <2>7. BlockOf(x, n) /\ NumbersUpTo(x, L, c, i - 1)
    BY <1>7, <2>5
  <2> HIDE DEF i, m, F, s
  <2>8. NumbersUpTo(y, L, c, i)
    BY <1>6, <2>2, <2>4, <2>5, <2>6, <2>7, ApplyLeafNumbers
  <2>9. QED
    BY <2>5, <2>8
<1>9. CASE m.kind = "nested"
  <2> DEFINE K == Len(F)
             T == [D -> CellOf]
             fs == entry.layout.members
  <2>1. F = m.fields
    BY <1>2, <1>9
  <2>2. /\ entry.layout.kind = "struct" /\ fs \in Seq(PlacedLeaves) /\ Len(fs) = K
        /\ \A j \in 1 .. K : /\ fs[j].layout = LeafLayout(F[j])
                             /\ HeaderSize + entry.offset + fs[j].offset = DataAlign(c[s + j - 1], FieldAlignment(F[j]))
    BY <1>9, <2>1 DEF EntryAt
  <2>3. y = FoldLeft(LAMBDA z, f : ApplyMember(z, HeaderSize + entry.offset, f), x, entry.layout.members)
    BY <2>2 DEF Applied
  <2>4. ApplyFieldsStays(T, entry)
    <3> SUFFICES ASSUME NEW j \in 1 .. Len(entry.layout.members), NEW z \in T
                 PROVE  ApplyMember(z, HeaderSize + entry.offset, entry.layout.members[j]) \in T
      BY DEF ApplyFieldsStays
    <3>1. entry.layout.members[j] \in PlacedMembers
      BY <1>6, <2>2, StructMembers
    <3>2. QED
      BY <1>5, <1>6, <3>1, ApplyMemberCells
  <2>5. x \in T
    OBVIOUS
  <2> HIDE DEF T
  <2>6. PICK g : ApplyFieldsSteps(g, T, x, entry)
    BY <2>2, <2>4, <2>5, ApplyFieldsTrace
  <2>7. /\ g[0] = x /\ y = g[K] /\ \A j \in 0 .. K : g[j] \in T
        /\ \A j \in 1 .. K : g[j] = ApplyMember(g[j - 1], HeaderSize + entry.offset, fs[j])
    BY <2>2, <2>3, <2>6 DEF ApplyFieldsSteps
  <2>8. ASSUME NEW j \in Nat, j + 1 <= K, NumbersUpTo(g[j], L, c, s + j)
        PROVE  NumbersUpTo(g[j + 1], L, c, s + (j + 1))
    <3> DEFINE h == j + 1
               i == s + h
               base == HeaderSize + entry.offset
               e == fs[h]
    <3>1. h \in 1 .. K /\ h - 1 = j /\ j \in 0 .. K
      BY <1>2, <2>8
    <3>2. i \in 1 .. Len(L) /\ L[i] = F[h] /\ i - 1 = s + j /\ SlotAt(L, c, i) = DataAlign(c[s + h - 1], FieldAlignment(F[h]))
      <4>1. i \in 1 .. Len(L) /\ L[i] = F[h]
        BY <1>3, <3>1
      <4>2. i - 1 = s + j
        <5>1. \A p, q \in Nat : (p + (q + 1)) - 1 = p + q
          OBVIOUS
        <5>2. s \in Nat /\ j \in Nat
          BY <1>3
        <5> HIDE DEF s
        <5>3. QED
          BY <5>1, <5>2
      <4>3. SlotAt(L, c, i) = DataAlign(c[s + h - 1], FieldAlignment(F[h]))
        BY <1>4, <3>1
      <4>4. QED
        BY <4>1, <4>2, <4>3
    <3>3. e.layout = LeafLayout(L[i]) /\ base + e.offset = SlotAt(L, c, i)
      BY <2>2, <3>1, <3>2
    <3>4. g[h] = ApplyMember(g[j], base, e)
      BY <2>7, <3>1
    <3>5. BlockOf(g[j], n) /\ NumbersUpTo(g[j], L, c, i - 1)
      BY <1>7, <2>7, <2>8, <3>1, <3>2 DEF T
    <3> HIDE DEF h, i, base, e
    <3>6. NumbersUpTo(g[h], L, c, i)
      BY <1>6, <3>2, <3>3, <3>4, <3>5, ApplyLeafNumbers DEF base
    <3>7. QED
      BY <3>6 DEF h, i
  <2>9. NumbersUpTo(g[K], L, c, s + K)
    <3> DEFINE W == {j \in Nat : j <= K => NumbersUpTo(g[j], L, c, s + j)}
    <3>1. 0 \in W
      <4>1. s + 0 = s
        BY <1>3
      <4>2. QED
        BY <2>7, <4>1
    <3>2. ASSUME NEW j \in Nat, j \in W PROVE j + 1 \in W
      <4> SUFFICES ASSUME j + 1 <= K PROVE NumbersUpTo(g[j + 1], L, c, s + (j + 1))
        OBVIOUS
      <4>1. NumbersUpTo(g[j], L, c, s + j)
        BY <1>2, <3>2
      <4>2. QED
        BY <2>8, <4>1
    <3> HIDE DEF W
    <3>3. Nat \subseteq W
      BY <3>1, <3>2, SetInduction
    <3>4. K \in W /\ K <= K /\ K \in Nat
      BY <1>2, <3>3
    <3> HIDE DEF K
    <3>5. QED
      BY <3>4 DEF W
  <2>10. QED
    BY <1>3, <2>7, <2>9
<1>10. QED
  BY <1>8, <1>9

\* Every prefix of a fresh block holds the number of the bound.
LEMMA ApplyNumbers ==
  ASSUME NEW msg, PlainMessage(msg), NEW L, L = Leaves(msg), NEW c, Chain(c, L, Widths(L)),
         NEW l, l = LayoutOf(msg)
  PROVE  /\ l.size = c[Len(L)] /\ BlockOf(Apply(l), l.size)
         /\ NumbersUpTo(Apply(l), L, c, Len(L))
<1> DEFINE K == Len(msg)
           D == 0 .. (l.size - 1)
           T == [D -> CellOf]
           b == [o \in 0 .. (l.size - 1) |-> Junk]
<1>1. AlignedMessage(msg) /\ msg \in Seq(ConstrainedMember) /\ L \in Seq(AnyLeaf) /\ Len(L) \in Nat /\ K \in Nat
  BY PlainLeaves
<1>2. PICK st : Starts(st, MemberLeaves(msg))
  BY <1>1, LeavesType
<1>3. l.size = c[Len(L)] /\ PlacedUpTo(l.members, msg, c, st, K)
  BY <1>1, <1>2, MessagePlaced
<1>4. l.members \in Seq(PlacedMembers) /\ l.size \in Nat
  BY <1>1, LayoutOfMessage
<1>5. Apply(l) \in T /\ BlockOf(Apply(l), l.size)
  <2>1. Apply(l) \in T
    BY <1>4, ApplyCells
  <2>2. QED
    BY <1>4, <2>1 DEF BlockOf
<1>6. b \in T
  BY DEF Junk, CellOf
<1>7. ApplyStays(T, l)
  <2> SUFFICES ASSUME NEW k \in 1 .. Len(l.members), NEW x \in T
               PROVE  Applied(x, l.members[k]) \in T
    BY DEF ApplyStays
  <2>1. l.members[k] \in PlacedMembers /\ D \in SUBSET Int
    BY <1>4
  <2>2. QED
    BY <2>1, AppliedCells
<1> HIDE DEF T
<1>8. PICK g : ApplySteps(g, T, b, l)
  BY <1>4, <1>6, <1>7, ApplyTrace
<1>9. /\ g[0] = b /\ Apply(l) = g[K] /\ \A k \in 0 .. K : g[k] \in T
      /\ \A k \in 1 .. K : g[k] = Applied(g[k - 1], l.members[k])
  BY <1>3, <1>8 DEF ApplySteps, PlacedUpTo
<1>10. st[0] = 0 /\ st[K] = Len(L)
  <2>1. st[0] = 0
    BY <1>2 DEF Starts
  <2>2. QED
    BY <1>1, <1>2, <2>1, LeafAt
<1>11. ASSUME NEW k \in 1 .. K, NumbersUpTo(g[k - 1], L, c, st[k - 1])
       PROVE  NumbersUpTo(g[k], L, c, st[k])
  <2> DEFINE entry == l.members[k]
             x == g[k - 1]
             y == g[k]
  <2>1. EntryAt(entry, msg[k], c, st[k - 1])
    BY <1>3 DEF PlacedUpTo
  <2>2. x \in [D -> CellOf] /\ y = Applied(x, entry)
    <3>1. k - 1 \in 0 .. K
      BY <1>1
    <3>2. QED
      BY <1>9, <3>1 DEF T
  <2>3. D = 0 .. (c[Len(L)] - 1) /\ NumbersUpTo(x, L, c, st[k - 1])
    BY <1>3, <1>11
  <2> HIDE DEF entry, x, y, D
  <2>4. NumbersUpTo(y, L, c, st[k])
    BY <1>2, <2>1, <2>2, <2>3, ApplyMemberNumbers
  <2>5. QED
    BY <2>4 DEF y
<1>12. NumbersUpTo(g[K], L, c, st[K])
  <2> DEFINE W == {k \in Nat : k <= K => NumbersUpTo(g[k], L, c, st[k])}
  <2>1. 0 \in W
    BY <1>10 DEF NumbersUpTo
  <2>2. ASSUME NEW k \in Nat, k \in W PROVE k + 1 \in W
    <3> SUFFICES ASSUME k + 1 <= K PROVE NumbersUpTo(g[k + 1], L, c, st[k + 1])
      OBVIOUS
    <3> DEFINE j == k + 1
    <3>1. j \in 1 .. K /\ j - 1 = k /\ NumbersUpTo(g[k], L, c, st[k])
      BY <1>1, <2>2
    <3> HIDE DEF j
    <3>2. NumbersUpTo(g[j], L, c, st[j])
      BY <1>11, <3>1
    <3>3. QED
      BY <3>2 DEF j
  <2> HIDE DEF W
  <2>3. Nat \subseteq W
    BY <2>1, <2>2, SetInduction
  <2>4. K \in W /\ K <= K /\ K \in Nat
    BY <1>1, <2>3
  <2> HIDE DEF K
  <2>5. QED
    BY <2>4 DEF W
<1>13. QED
  BY <1>3, <1>5, <1>9, <1>10, <1>12

--------------------------------------------------------------------------------
(* What the application assigns *)

LEMMA LeafInSlot ==
  ASSUME NEW leaf, PlainLeaf(leaf), NEW at \in Nat, NEW content, content = LeafPlace(leaf, at).content
  PROVE  /\ content \in Nat /\ at <= content
         /\ Prefixed4(leaf) => content = at + PrefixSize
         /\ ~Prefixed4(leaf) => content = at
         /\ content + Bytes(leaf) \in Nat /\ content + Bytes(leaf) <= at + UsedWidth(leaf)
         /\ (leaf.kind = "string" => content + Bytes(leaf) + 1 = at + UsedWidth(leaf))
         /\ (leaf.kind # "string" => content + Bytes(leaf) = at + UsedWidth(leaf))
<1>1. /\ Bytes(leaf) \in Nat
      /\ UsedWidth(leaf) = (IF Prefixed4(leaf) THEN PrefixSize ELSE 0) + Bytes(leaf)
                              + (IF leaf.kind = "string" THEN 1 ELSE 0)
  BY LeafWidths
<1>2. content = IF Prefixed4(leaf) THEN at + PrefixSize ELSE at
  BY LeafPlaceIs
<1> DEFINE n == Bytes(leaf)
           u == UsedWidth(leaf)
<1> HIDE DEF n, u
<1>3. n \in Nat /\ u = (IF Prefixed4(leaf) THEN PrefixSize ELSE 0) + n + (IF leaf.kind = "string" THEN 1 ELSE 0)
  BY <1>1 DEF n, u
<1>4. /\ content \in Nat /\ at <= content
      /\ Prefixed4(leaf) => content = at + PrefixSize
      /\ ~Prefixed4(leaf) => content = at
  BY <1>2 DEF PrefixSize
<1>5. /\ content + n \in Nat /\ content + n <= at + u
      /\ (leaf.kind = "string" => content + n + 1 = at + u)
      /\ (leaf.kind # "string" => content + n = at + u)
  BY <1>2, <1>3 DEF PrefixSize
<1>6. QED
  BY <1>4, <1>5 DEF n, u

LEMMA FitsSlot ==
  ASSUME NEW leaf, PlainLeaf(leaf), ~Oversized(leaf)
  PROVE  /\ UsedWidth(leaf) <= Reserve(leaf)
         /\ ~Undersized(leaf) => UsedWidth(leaf) = Reserve(leaf) /\ (Prefixed4(leaf) => Actual(leaf) = leaf.bound)
<1>1. CASE Prefixed4(leaf)
  <2>1. /\ leaf.checked /\ leaf.bound \in Nat /\ Actual(leaf) \in Nat
        /\ (Actual(leaf) <= leaf.bound => UsedWidth(leaf) <= Reserve(leaf))
        /\ (Actual(leaf) = leaf.bound => UsedWidth(leaf) = Reserve(leaf))
    BY <1>1, LeafWidths
  <2>2. Actual(leaf) <= leaf.bound
    BY <1>1, <2>1 DEF Oversized
  <2>3. ~Undersized(leaf) => Actual(leaf) = leaf.bound
    BY <1>1, <2>1, <2>2 DEF Undersized
  <2>4. QED
    BY <2>1, <2>2, <2>3
<1>2. CASE ~Prefixed4(leaf)
  <2>1. UsedWidth(leaf) = Bytes(leaf) /\ Reserve(leaf) = Bytes(leaf) /\ Bytes(leaf) \in Nat
    BY <1>2, LeafWidths
  <2>2. QED
    BY <1>2, <2>1
<1>3. QED
  BY <1>1, <1>2

\* The bytes of a field that were stored where they belong.
LEMMA DataStored ==
  ASSUME NEW x, NEW n, BlockOf(x, n), NEW i, NEW leaf \in AnyLeaf, NEW content \in Nat,
         content + Bytes(leaf) <= n, NEW cell,
         \A k \in 0 .. (Bytes(leaf) - 1) : cell[k] = DataCells(i, leaf)[k],
         NEW y, y = [o \in DOMAIN x |-> IF o \in content .. (content + Bytes(leaf) - 1)
                                        THEN cell[o - content] ELSE x[o]]
  PROVE  /\ BlockOf(y, n) /\ StoresWithin(x, y, content, content + Bytes(leaf))
         /\ ContentAt(y, i, leaf, content)
<1>1. Bytes(leaf) \in Nat
  BY AnyLeafSizes
<1>2. DOMAIN x = 0 .. (n - 1) /\ n \in Nat /\ DOMAIN y = DOMAIN x
  BY DEF BlockOf
<1>3. ASSUME NEW o \in DOMAIN x, o < content \/ o >= content + Bytes(leaf) PROVE y[o] = x[o]
  <2>1. o \in Int /\ o \notin content .. (content + Bytes(leaf) - 1)
    BY <1>1, <1>2, <1>3
  <2>2. QED
    BY <2>1
<1>4. ASSUME NEW k \in 0 .. (Bytes(leaf) - 1) PROVE Cell(y, content + k) = DataCells(i, leaf)[k]
  <2> DEFINE o == content + k
  <2>1. o \in DOMAIN x /\ o \in content .. (content + Bytes(leaf) - 1) /\ o - content = k
    BY <1>1, <1>2
  <2> HIDE DEF o
  <2>2. y[o] = DataCells(i, leaf)[k]
    BY <2>1
  <2>3. Cell(y, o) = DataCells(i, leaf)[k]
    BY <1>2, <2>1, <2>2 DEF Cell
  <2>4. QED
    BY <2>3 DEF o
<1>5. QED
  BY <1>2, <1>3, <1>4 DEF BlockOf, StoresWithin, ContentAt

\* The first k fields that fit hold what they were given, where c has them.
ContentsUpTo(mem, L, c, k) ==
  \A q \in 1 .. k : ~Oversized(L[q]) => ContentAt(mem, q, L[q], LeafPlace(L[q], SlotAt(L, c, q)).content)

\* Stores in the room of one field leave what others hold.
LEMMA OtherNumbers ==
  ASSUME NEW msg, PlainMessage(msg), NEW L, L = Leaves(msg), NEW c, Chain(c, L, Widths(L)),
         NEW i \in 1 .. Len(L), NEW x, NEW y, BlockOf(x, c[Len(L)]),
         NEW lo \in Nat, NEW hi \in Nat, StoresWithin(x, y, lo, hi),
         SlotAt(L, c, i) <= lo, hi <= c[i], Prefixed4(L[i]) => SlotAt(L, c, i) + PrefixSize <= lo,
         NumbersUpTo(x, L, c, Len(L))
  PROVE  NumbersUpTo(y, L, c, Len(L))
<1> DEFINE n == c[Len(L)]
<1>1. L \in Seq(AnyLeaf) /\ Len(L) \in Nat /\ Widths(L) \in [1 .. Len(L) -> Nat]
      /\ \A q \in 1 .. Len(L) : PlainLeaf(L[q]) /\ Widths(L)[q] = Reserve(L[q])
  BY PlainLeaves
<1>2. \A q \in 1 .. Len(L) : /\ SlotAt(L, c, q) \in Nat /\ c[q] \in Nat /\ c[q] = SlotAt(L, c, q) + Reserve(L[q])
                             /\ \A j \in 1 .. (q - 1) : c[j] <= SlotAt(L, c, q) /\ c[j] \in Nat
  BY <1>1, ChainOrder
<1> SUFFICES ASSUME NEW q \in 1 .. Len(L), Prefixed4(L[q])
             PROVE  NumberStoredAt(y, SlotAt(L, c, q), Number(L[q], L[q].bound))
  BY DEF NumbersUpTo
<1> DEFINE p == SlotAt(L, c, q)
           u == Number(L[q], L[q].bound)
<1>3. NumberStoredAt(x, p, u)
  BY DEF NumbersUpTo
<1>4. PrefixSize <= Reserve(L[q]) /\ Reserve(L[q]) \in Nat /\ p \in Nat /\ c[q] = p + Reserve(L[q])
  <2>1. PlainLeaf(L[q])
    BY <1>1
  <2>2. QED
    BY <1>2, <2>1, LeafWidths
<1>5. p + PrefixSize <= lo \/ hi <= p
  <2>1. CASE q = i
    BY <2>1
  <2>2. CASE q < i
    <3>1. q \in 1 .. (i - 1)
      BY <1>1, <2>2
    <3>2. c[q] <= SlotAt(L, c, i) /\ SlotAt(L, c, i) \in Nat /\ c[q] \in Nat
      BY <1>2, <3>1
    <3> HIDE DEF p
    <3>3. QED
      BY <1>4, <3>2 DEF PrefixSize
  <2>3. CASE q > i
    <3>1. i \in 1 .. (q - 1)
      BY <1>1, <2>3
    <3>2. c[i] <= p /\ c[i] \in Nat
      BY <1>2, <3>1
    <3> HIDE DEF p
    <3>3. QED
      BY <1>4, <3>2
  <2>4. q \in Int /\ i \in Int
    BY <1>1
  <2>5. QED
    BY <2>1, <2>2, <2>3, <2>4
<1> HIDE DEF p, u
<1>6. NumberStoredAt(y, p, u)
  BY <1>3, <1>4, <1>5, NumberSurvives
<1>7. QED
  BY <1>6 DEF p, u

LEMMA FilledLeaf ==
  ASSUME PlainMessage(message), NEW L, L = Leaves(message), NEW c, Chain(c, L, Widths(L)),
         Places(message, layout) = [q \in 1 .. Len(L) |-> LeafPlace(L[q], SlotAt(L, c, q))],
         NEW i \in 1 .. Len(L), NEW x, BlockOf(x, c[Len(L)]),
         NumbersUpTo(x, L, c, Len(L)), ContentsUpTo(x, L, c, i - 1),
         NEW y, y = Filled(x, i)
  PROVE  BlockOf(y, c[Len(L)]) /\ NumbersUpTo(y, L, c, Len(L)) /\ ContentsUpTo(y, L, c, i)
<1> DEFINE n == c[Len(L)]
           leaf == L[i]
           at == SlotAt(L, c, i)
           content == LeafPlace(leaf, at).content
           end == content + Bytes(leaf)
           data == Put(x, content, Bytes(leaf), LAMBDA k : DataCells(i, leaf)[k])
<1>1. L \in Seq(AnyLeaf) /\ Len(L) \in Nat /\ Widths(L) \in [1 .. Len(L) -> Nat]
      /\ \A q \in 1 .. Len(L) : PlainLeaf(L[q]) /\ L[q] \in AnyLeaf /\ Widths(L)[q] = Reserve(L[q])
  BY PlainLeaves
<1>2. \A q \in 1 .. Len(L) : /\ SlotAt(L, c, q) \in Nat /\ c[q] \in Nat /\ c[q] = SlotAt(L, c, q) + Reserve(L[q])
                             /\ c[q] <= n /\ n \in Nat
                             /\ \A j \in 1 .. (q - 1) : c[j] <= SlotAt(L, c, q) /\ c[j] \in Nat
  BY <1>1, ChainOrder
<1>3. Places(message, layout)[i].content = content
  OBVIOUS
<1>4. CASE Oversized(leaf)
  <2>1. y = x
    BY <1>4 DEF Filled
  <2>2. ASSUME NEW q \in 1 .. i, ~Oversized(L[q])
        PROVE  ContentAt(y, q, L[q], LeafPlace(L[q], SlotAt(L, c, q)).content)
    <3>1. q \in 1 .. (i - 1)
      BY <1>1, <1>4, <2>2
    <3>2. QED
      BY <2>1, <2>2, <3>1 DEF ContentsUpTo
  <2>3. QED
    BY <2>1, <2>2 DEF ContentsUpTo
<1>5. CASE ~Oversized(leaf)
  <2>1. y = IF leaf.kind = "string" THEN Clear(data, end, end + 1) ELSE data
    BY <1>3, <1>5 DEF Filled
  <2>2. /\ content \in Nat /\ at <= content /\ end \in Nat /\ at \in Nat
        /\ (Prefixed4(leaf) => at + PrefixSize <= content)
        /\ end <= at + UsedWidth(leaf)
        /\ (leaf.kind = "string" => end + 1 = at + UsedWidth(leaf))
    <3>1. PlainLeaf(leaf) /\ at \in Nat
      BY <1>1, <1>2
    <3> HIDE DEF leaf, at
    <3>2. QED
      BY <3>1, LeafInSlot DEF PrefixSize
  <2>3. UsedWidth(leaf) <= Reserve(leaf) /\ UsedWidth(leaf) \in Nat /\ Reserve(leaf) \in Nat /\ Bytes(leaf) \in Nat
    <3>1. PlainLeaf(leaf)
      BY <1>1
    <3>2. QED
      BY <1>5, <3>1, FitsSlot, LeafWidths
  <2>4. c[i] = at + Reserve(leaf) /\ c[i] <= n /\ n \in Nat /\ c[i] \in Nat
    BY <1>2
  <2>5. end <= c[i] /\ (leaf.kind = "string" => end + 1 <= c[i]) /\ end <= n
    <3> HIDE DEF end, at, leaf, n
    <3>1. QED
      BY <2>2, <2>3, <2>4
  <2>6. /\ BlockOf(data, n) /\ StoresWithin(x, data, content, end)
        /\ ContentAt(data, i, leaf, content)
    <3> DEFINE cell == [k \in 0 .. (Bytes(leaf) - 1) |-> DataCells(i, leaf)[k]]
               d == [o \in DOMAIN x |-> IF o \in content .. (content + Bytes(leaf) - 1)
                                        THEN cell[o - content] ELSE x[o]]
    <3>1. data = d
      <4>1. data = [o \in DOMAIN x |-> IF o \in content .. (content + Bytes(leaf) - 1)
                                        THEN DataCells(i, leaf)[o - content] ELSE x[o]]
        BY DEF Put
      <4>2. \A o \in DOMAIN x : o \in content .. (content + Bytes(leaf) - 1) =>
              cell[o - content] = DataCells(i, leaf)[o - content]
        <5> TAKE o \in DOMAIN x
        <5> HAVE o \in content .. (content + Bytes(leaf) - 1)
        <5>0. content \in Nat /\ Bytes(leaf) \in Nat
          BY <2>2, <2>3
        <5> HIDE DEF content, leaf
        <5>1. o - content \in 0 .. (Bytes(leaf) - 1)
          BY <5>0
        <5>2. QED
          BY <5>1
      <4> HIDE DEF data, cell, content, leaf
      <4>3. QED
        BY <4>1, <4>2
    <3>2. leaf \in AnyLeaf /\ BlockOf(x, n) /\ \A k \in 0 .. (Bytes(leaf) - 1) : cell[k] = DataCells(i, leaf)[k]
      BY <1>1
    <3>3. content + Bytes(leaf) <= n
      BY <2>5
    <3> HIDE DEF cell, content, leaf, n, data
    <3>4. /\ BlockOf(d, n) /\ StoresWithin(x, d, content, content + Bytes(leaf))
          /\ ContentAt(d, i, leaf, content)
      BY <2>2, <3>2, <3>3, DataStored
    <3>5. QED
      BY <3>1, <3>4
  <2> DEFINE hi == IF leaf.kind = "string" THEN end + 1 ELSE end
  <2>7. BlockOf(y, n) /\ StoresWithin(x, y, content, hi) /\ ContentAt(y, i, leaf, content)
    <3>0. content <= end
      BY <2>2, <2>3
    <3>1. CASE leaf.kind = "string"
      <4>0. y = Clear(data, end, end + 1) /\ hi = end + 1 /\ end + 1 \in Nat /\ end <= end + 1
        BY <2>1, <2>2, <3>1
      <4>1. leaf \in AnyLeaf /\ BlockOf(x, n) /\ content + Bytes(leaf) <= end
        BY <1>1, <2>2
      <4> HIDE DEF end, data, content, leaf, n, hi
      <4>2. BlockOf(y, n) /\ StoresWithin(data, y, end, end + 1)
        BY <2>2, <2>6, <4>0, ClearStores
      <4>3. StoresWithin(x, y, content, end + 1)
        BY <2>2, <2>6, <3>0, <4>0, <4>1, <4>2, StoresMeet
      <4>4. ContentAt(y, i, leaf, content)
        BY <2>2, <2>6, <4>0, <4>1, <4>2, ContentSurvives
      <4>5. QED
        BY <4>0, <4>2, <4>3, <4>4
    <3>2. CASE leaf.kind # "string"
      <4>1. y = data /\ hi = end
        BY <2>1, <3>2
      <4> HIDE DEF data
      <4>2. QED
        BY <2>6, <4>1
    <3>3. QED
      BY <3>1, <3>2
  <2>8. hi \in Nat /\ hi <= c[i]
    BY <2>2, <2>5
  <2> HIDE DEF hi
  <2>9. NumbersUpTo(y, L, c, Len(L))
    BY <2>2, <2>7, <2>8, OtherNumbers
  <2>10. ASSUME NEW q \in 1 .. i, ~Oversized(L[q])
         PROVE  ContentAt(y, q, L[q], LeafPlace(L[q], SlotAt(L, c, q)).content)
    <3>1. CASE q = i
      BY <2>7, <3>1
    <3>2. CASE q # i
      <4> DEFINE f == L[q]
                 p == SlotAt(L, c, q)
                 z == LeafPlace(f, p).content
      <4>1. q \in 1 .. (i - 1) /\ q \in 1 .. Len(L)
        BY <1>1, <3>2
      <4>2. ContentAt(x, q, f, z)
        BY <2>10, <4>1 DEF ContentsUpTo
      <4>3. PlainLeaf(f) /\ f \in AnyLeaf /\ p \in Nat /\ c[q] = p + Reserve(f) /\ c[q] <= at /\ c[q] \in Nat
        BY <1>1, <1>2, <4>1
      <4>4. UsedWidth(f) <= Reserve(f) /\ UsedWidth(f) \in Nat /\ Reserve(f) \in Nat
        BY <2>10, <4>3, FitsSlot, LeafWidths
      <4> HIDE DEF f, p, at
      <4>5. z \in Nat /\ z + Bytes(f) \in Nat /\ z + Bytes(f) <= p + UsedWidth(f)
        BY <4>3, LeafInSlot
      <4> HIDE DEF z, content
      <4>6. z + Bytes(f) <= content
        BY <2>2, <4>3, <4>4, <4>5
      <4>7. ContentAt(y, q, f, z)
        BY <2>2, <2>7, <2>8, <4>2, <4>3, <4>5, <4>6, ContentSurvives
      <4>8. QED
        BY <4>7 DEF f, p, z
    <3>3. QED
      BY <3>1, <3>2
  <2>11. QED
    BY <2>7, <2>9, <2>10 DEF ContentsUpTo
<1>6. QED
  BY <1>4, <1>5

LEMMA FillContents ==
  ASSUME PlainMessage(message), NEW L, L = Leaves(message), NEW c, Chain(c, L, Widths(L)),
         Places(message, layout) = [q \in 1 .. Len(L) |-> LeafPlace(L[q], SlotAt(L, c, q))],
         BlockOf(memory, c[Len(L)]), IsBlock(memory), NumbersUpTo(memory, L, c, Len(L)),
         NEW y, y = FoldLeft(Filled, memory, [i \in 1 .. Len(L) |-> i])
  PROVE  BlockOf(y, c[Len(L)]) /\ NumbersUpTo(y, L, c, Len(L)) /\ ContentsUpTo(y, L, c, Len(L))
<1> DEFINE N == Len(L)
           n == c[N]
           D == DOMAIN memory
           S == {memory[o] : o \in D}
           Q(x, i) == BlockOf(x, n) /\ NumbersUpTo(x, L, c, N) /\ ContentsUpTo(x, L, c, i)
<1>1. N \in Nat
  BY PlainLeaves
<1>2. memory \in [D -> S]
  BY DEF IsBlock
<1> HIDE DEF D, S
<1>3. PICK g, T : FillSteps(g, T, memory, N) /\ \A x \in T : DOMAIN x = D /\ IsBlock(x)
  BY <1>1, <1>2, FillRun
<1>4. g[0] = memory /\ y = g[N] /\ \A k \in 1 .. N : g[k] = Filled(g[k - 1], k)
  BY <1>3 DEF FillSteps
<1>5. Q(g[0], 0)
  BY <1>4 DEF ContentsUpTo
<1>6. ASSUME NEW k \in 1 .. N, Q(g[k - 1], k - 1) PROVE Q(g[k], k)
  <2> DEFINE x == g[k - 1]
             z == g[k]
  <2>1. z = Filled(x, k)
    BY <1>4
  <2>2. BlockOf(x, c[Len(L)]) /\ NumbersUpTo(x, L, c, Len(L)) /\ ContentsUpTo(x, L, c, k - 1)
    BY <1>6
  <2> HIDE DEF x, z
  <2>3. BlockOf(z, c[Len(L)]) /\ NumbersUpTo(z, L, c, Len(L)) /\ ContentsUpTo(z, L, c, k)
    BY <2>1, <2>2, FilledLeaf
  <2>4. QED
    BY <2>3 DEF z
<1> HIDE DEF Q
<1>7. Q(g[N], N)
  <2> DEFINE W == {k \in Nat : k <= N => Q(g[k], k)}
  <2>1. 0 \in W
    BY <1>5
  <2>2. ASSUME NEW k \in Nat, k \in W PROVE k + 1 \in W
    <3> SUFFICES ASSUME k + 1 <= N PROVE Q(g[k + 1], k + 1)
      OBVIOUS
    <3> DEFINE j == k + 1
    <3>1. j \in 1 .. N /\ j - 1 = k /\ Q(g[k], k)
      BY <1>1, <2>2
    <3> HIDE DEF j
    <3>2. Q(g[j], j)
      BY <1>6, <3>1
    <3>3. QED
      BY <3>2 DEF j
  <2> HIDE DEF W
  <2>3. Nat \subseteq W
    BY <2>1, <2>2, SetInduction
  <2>4. N \in W /\ N <= N /\ N \in Nat
    BY <1>1, <2>3
  <2> HIDE DEF N
  <2>5. QED
    BY <2>4 DEF W
<1>8. QED
  BY <1>4, <1>7 DEF Q

--------------------------------------------------------------------------------
(* What the rewrite stores *)

LEMMA ContentBehindPrefix ==
  ASSUME NEW leaf, PlainLeaf(leaf), NEW cursor \in Nat, NEW at, at = DataAlign(cursor, FieldAlignment(leaf))
  PROVE  /\ at \in Nat /\ cursor <= at
         /\ ContentBehind(leaf, at) = LeafPlace(leaf, at).content
         /\ (IF Bytes(leaf) = 0 THEN at + PrefixSize ELSE ContentBehind(leaf, at)) = LeafPlace(leaf, at).content
<1>1. FieldAlignment(leaf) \in PrimitiveSizes /\ (Prefixed4(leaf) => FieldAlignment(leaf) = PrefixSize)
      /\ (~Prefixed4(leaf) => Bytes(leaf) # 0)
  BY LeafWidths
<1>2. at \in Nat /\ cursor <= at
  BY <1>1, DataAlignBounds
<1>3. LeafPlace(leaf, at).content = IF Prefixed4(leaf) THEN at + PrefixSize ELSE at
  BY <1>2, LeafPlaceIs
<1>4. ContentBehind(leaf, at) = LeafPlace(leaf, at).content
  <2>1. CASE leaf.kind = "sequence"
    <3>1. leaf.size \in PrimitiveSizes /\ leaf.size <= PrefixSize /\ Prefixed4(leaf)
      BY <2>1, ConstrainedLeafFields, AnyLeafFields DEF PlainLeaf, Prefixed4
    <3>2. PrefixEnd(cursor) = at + PrefixSize
      BY <1>1, <3>1 DEF PrefixEnd
    <3>3. DataAlign(PrefixEnd(cursor), leaf.size) = PrefixEnd(cursor)
      BY <3>1, PrefixAligns
    <3>4. DataAlign(at + PrefixSize, leaf.size) = at + PrefixSize
      BY <3>2, <3>3
    <3>5. QED
      BY <1>3, <2>1, <3>1, <3>4 DEF ContentBehind
  <2>2. CASE leaf.kind # "sequence"
    BY <2>2 DEF ContentBehind
  <2>3. QED
    BY <2>1, <2>2
<1>5. QED
  BY <1>1, <1>2, <1>3, <1>4

LEMMA RewrittenPrefix ==
  ASSUME NEW leaf, PlainLeaf(leaf), NEW mem, NEW n, BlockOf(mem, n), NEW cursor \in Nat, NEW at \in Nat, cursor <= at,
         at + UsedWidth(leaf) <= n, NEW content, content = LeafPlace(leaf, at).content, NEW v,
         NEW padded, padded = Clear(mem, cursor, at),
         NEW x, x = IF Prefixed4(leaf) THEN Clear(PutNumber(padded, at, v), at + PrefixSize, content) ELSE padded
  PROVE  /\ BlockOf(x, n) /\ StoresWithin(mem, x, cursor, content)
         /\ Prefixed4(leaf) => NumberStoredAt(x, at, v)
<1>1. /\ content \in Nat /\ at <= content /\ (Prefixed4(leaf) => content = at + PrefixSize)
      /\ (~Prefixed4(leaf) => content = at) /\ content + Bytes(leaf) <= at + UsedWidth(leaf)
      /\ Bytes(leaf) \in Nat /\ UsedWidth(leaf) \in Nat
  BY LeafInSlot, LeafWidths
<1>2. BlockOf(padded, n) /\ StoresWithin(mem, padded, cursor, at)
  BY ClearStores
<1>3. CASE Prefixed4(leaf)
  <2> DEFINE y == PutNumber(padded, at, v)
             to == at + PrefixSize
  <2>1. to \in Nat /\ to = content /\ at <= to /\ to <= to /\ to <= n /\ n \in Nat
    BY <1>1, <1>3 DEF PrefixSize, BlockOf
  <2>2. BlockOf(y, n) /\ StoresWithin(padded, y, at, to) /\ NumberStoredAt(y, at, v)
    BY <1>2, <2>1, PutNumberStores
  <2>3. x = Clear(y, to, content)
    BY <1>3
  <2> HIDE DEF y, to
  <2>4. BlockOf(x, n) /\ StoresWithin(y, x, to, to)
    BY <2>1, <2>2, <2>3, ClearStores
  <2>5. StoresWithin(mem, y, cursor, to)
    BY <1>2, <2>1, <2>2, StoresMeet
  <2>6. StoresWithin(mem, x, cursor, to)
    <3>1. cursor <= to
      BY <2>1
    <3>2. QED
      BY <2>1, <2>4, <2>5, <3>1, StoresMeet
  <2>7. NumberStoredAt(x, at, v)
    <3>1. at + PrefixSize <= to
      BY <2>1 DEF to
    <3>2. QED
      BY <2>1, <2>2, <2>4, <3>1, NumberSurvives
  <2>8. QED
    BY <2>1, <2>4, <2>6, <2>7
<1>4. CASE ~Prefixed4(leaf)
  BY <1>1, <1>2, <1>4
<1>5. QED
  BY <1>3, <1>4

\* A field written at the cursor, its content from further behind in the block.
LEMMA RewrittenLeaf ==
  ASSUME NEW leaf, PlainLeaf(leaf), ~Oversized(leaf), NEW i, NEW mem, NEW n, BlockOf(mem, n),
         NEW cursor \in Nat, NEW at, at = DataAlign(cursor, FieldAlignment(leaf)), at + UsedWidth(leaf) <= n,
         NEW content, content = LeafPlace(leaf, at).content, NEW source \in Nat, content <= source,
         ContentAt(mem, i, leaf, source), NEW y, y = Rewritten(mem, cursor, i, leaf, source)
  PROVE  /\ BlockOf(y, n) /\ StoresWithin(mem, y, cursor, at + UsedWidth(leaf))
         /\ Prefixed4(leaf) => NumberStoredAt(y, at, Number(leaf, Actual(leaf)))
         /\ ContentAt(y, i, leaf, content)
<1> DEFINE v        == Number(leaf, Actual(leaf))
           padded   == Clear(mem, cursor, at)
           x        == IF Prefixed4(leaf) THEN Clear(PutNumber(padded, at, v), at + PrefixSize, content) ELSE padded
           from     == IF leaf.kind = "primitive" THEN mem ELSE x
           bytes    == Bytes(leaf)
           copied   == Put(x, content, bytes, LAMBDA k : IF Oversized(leaf) THEN DataCells(i, leaf)[k]
                                                         ELSE Cell(from, source + k))
           end      == content + bytes
           cell     == [k \in 0 .. (bytes - 1) |-> Cell(from, source + k)]
           d        == [o \in DOMAIN x |-> IF o \in content .. (content + bytes - 1)
                                           THEN cell[o - content] ELSE x[o]]
<1>1. /\ at \in Nat /\ cursor <= at
      /\ (IF bytes = 0 THEN at + PrefixSize ELSE ContentBehind(leaf, at)) = content
  BY ContentBehindPrefix
<1>2. /\ content \in Nat /\ at <= content /\ (Prefixed4(leaf) => content = at + PrefixSize)
      /\ end \in Nat /\ end <= at + UsedWidth(leaf)
      /\ (leaf.kind = "string" => end + 1 = at + UsedWidth(leaf))
      /\ (leaf.kind # "string" => end = at + UsedWidth(leaf))
      /\ bytes \in Nat /\ UsedWidth(leaf) \in Nat
  BY <1>1, LeafInSlot, LeafWidths
<1>3. y = IF leaf.kind = "string" THEN Clear(copied, end, end + 1) ELSE copied
  <2> DEFINE z == IF bytes = 0 THEN at + PrefixSize ELSE ContentBehind(leaf, at)
             xx == IF Prefixed4(leaf) THEN Clear(PutNumber(padded, at, v), at + PrefixSize, z) ELSE padded
             ff == IF leaf.kind = "primitive" THEN mem ELSE xx
             cc == Put(xx, z, bytes, LAMBDA k : IF Oversized(leaf) THEN DataCells(i, leaf)[k]
                                                ELSE Cell(ff, source + k))
             ee == z + bytes
  <2>1. Rewritten(mem, cursor, i, leaf, source) = IF leaf.kind = "string" THEN Clear(cc, ee, ee + 1) ELSE cc
    BY DEF Rewritten
  <2>2. z = content
    BY <1>1
  <2> HIDE DEF z
  <2>3. xx = x
    BY <2>2
  <2> HIDE DEF x, xx
  <2>4. ff = from
    BY <2>3
  <2> HIDE DEF from, ff
  <2>5. cc = copied
    BY <2>2, <2>3, <2>4 DEF Put
  <2> HIDE DEF cc, copied
  <2>6. QED
    BY <2>1, <2>2, <2>5
<1> HIDE DEF v, padded
<1>4. /\ BlockOf(x, n) /\ StoresWithin(mem, x, cursor, content)
      /\ Prefixed4(leaf) => NumberStoredAt(x, at, v)
  <2>1. padded = Clear(mem, cursor, at) /\ x = IF Prefixed4(leaf) THEN Clear(PutNumber(padded, at, v), at + PrefixSize, content) ELSE padded
    BY DEF padded
  <2> HIDE DEF x
  <2>2. QED
    BY <1>1, <2>1, RewrittenPrefix
<1>5. leaf \in AnyLeaf
  BY ConstrainedLeafFields DEF PlainLeaf
<1> HIDE DEF x
<1>6. ContentAt(from, i, leaf, source)
  <2>1. ContentAt(x, i, leaf, source)
    BY <1>2, <1>4, <1>5, ContentSurvives
  <2>2. QED
    BY <2>1
<1> HIDE DEF from
<1>7. \A k \in 0 .. (bytes - 1) : cell[k] = DataCells(i, leaf)[k]
  BY <1>6 DEF ContentAt
<1>8. copied = d
  <2>1. copied = [o \in DOMAIN x |-> IF o \in content .. (content + bytes - 1)
                                     THEN Cell(from, source + (o - content)) ELSE x[o]]
    BY DEF Put
  <2>2. \A o \in DOMAIN x : o \in content .. (content + bytes - 1) =>
          cell[o - content] = Cell(from, source + (o - content))
    <3> TAKE o \in DOMAIN x
    <3> HAVE o \in content .. (content + bytes - 1)
    <3>1. o - content \in 0 .. (bytes - 1)
      BY <1>2
    <3> HIDE DEF bytes
    <3>2. QED
      BY <3>1
  <2> HIDE DEF copied, cell, bytes
  <2>3. QED
    BY <2>1, <2>2
<1>9. end <= n
  <2>1. n \in Nat
    BY DEF BlockOf
  <2> HIDE DEF end
  <2>2. QED
    BY <1>1, <1>2, <2>1
<1>10. BlockOf(copied, n) /\ StoresWithin(x, copied, content, end) /\ ContentAt(copied, i, leaf, content)
  <2>1. content + Bytes(leaf) <= n /\ \A k \in 0 .. (Bytes(leaf) - 1) : cell[k] = DataCells(i, leaf)[k]
    BY <1>7, <1>9
  <2>2. d = [o \in DOMAIN x |-> IF o \in content .. (content + Bytes(leaf) - 1) THEN cell[o - content] ELSE x[o]]
    OBVIOUS
  <2> HIDE DEF d, cell, copied
  <2>3. BlockOf(d, n) /\ StoresWithin(x, d, content, content + Bytes(leaf)) /\ ContentAt(d, i, leaf, content)
    BY <1>2, <1>4, <1>5, <2>1, <2>2, DataStored
  <2>4. QED
    BY <1>8, <2>3
<1> HIDE DEF copied
<1>11. cursor <= content /\ content <= end
  BY <1>1, <1>2
<1>12. StoresWithin(mem, copied, cursor, end)
  <2> HIDE DEF end
  <2>1. QED
    BY <1>2, <1>4, <1>10, <1>11, StoresMeet
<1>13. Prefixed4(leaf) => NumberStoredAt(copied, at, v)
  <2> HAVE Prefixed4(leaf)
  <2>1. at + PrefixSize <= content /\ NumberStoredAt(x, at, v)
    BY <1>2, <1>4
  <2> HIDE DEF end
  <2>2. QED
    BY <1>1, <1>2, <1>4, <1>10, <2>1, NumberSurvives
<1>14. CASE leaf.kind = "string"
  <2> DEFINE to == end + 1
  <2>1. y = Clear(copied, end, to) /\ to \in Nat /\ end <= to /\ to = at + UsedWidth(leaf)
        /\ content + Bytes(leaf) <= end /\ cursor <= end
    BY <1>2, <1>3, <1>11, <1>14
  <2> HIDE DEF end, to
  <2>2. BlockOf(y, n) /\ StoresWithin(copied, y, end, to)
    BY <1>2, <1>10, <2>1, ClearStores
  <2>3. StoresWithin(mem, y, cursor, to)
    BY <1>2, <1>12, <2>1, <2>2, StoresMeet
  <2>4. ContentAt(y, i, leaf, content)
    BY <1>2, <1>5, <1>10, <2>1, <2>2, ContentSurvives
  <2>5. Prefixed4(leaf) => NumberStoredAt(y, at, v)
    <3> HAVE Prefixed4(leaf)
    <3>1. at + PrefixSize <= end /\ NumberStoredAt(copied, at, v)
      BY <1>2, <1>11, <1>13
    <3>2. QED
      BY <1>1, <1>2, <1>10, <2>1, <2>2, <3>1, NumberSurvives
  <2>6. QED
    BY <2>1, <2>2, <2>3, <2>4, <2>5 DEF v
<1>15. CASE leaf.kind # "string"
  <2>1. y = copied /\ end = at + UsedWidth(leaf)
    BY <1>2, <1>3, <1>15
  <2> HIDE DEF end
  <2>2. QED
    BY <1>10, <1>12, <1>13, <2>1 DEF v
<1>16. QED
  BY <1>14, <1>15

--------------------------------------------------------------------------------
(* Where the calls of the traversal take the writer *)

LEMMA LeafEndIs ==
  ASSUME NEW leaf, PlainLeaf(leaf), NEW q \in Nat, NEW e, e = DataAlign(q, FieldAlignment(leaf)) + UsedWidth(leaf)
  PROVE  /\ e \in Nat /\ leaf \in AnyLeaf /\ leaf.kind \in {"primitive", "array", "string", "sequence"}
         /\ leaf.kind = "primitive" => leaf.size \in PrimitiveSizes /\ e = DataAlign(q, leaf.size) + leaf.size
         /\ leaf.kind = "array" => /\ leaf.size \in PrimitiveSizes /\ leaf.count \in Nat \ {0}
                                   /\ e = ElementsEnd(q, leaf.size, leaf.count)
                                   /\ Bytes(leaf) = leaf.size * leaf.count
         /\ leaf.kind = "string" => leaf.chars \in Nat /\ e = PrefixEnd(q) + (leaf.chars + 1)
         /\ leaf.kind = "sequence" => /\ leaf.size \in PrimitiveSizes /\ leaf.count \in Nat
                                      /\ e = ElementsEnd(PrefixEnd(q), leaf.size, leaf.count)
                                      /\ PrefixEnd(q) \in Nat /\ PrefixEnd(q) <= e
                                      /\ Bytes(leaf) = leaf.size * leaf.count
<1>1. /\ leaf \in AnyLeaf /\ leaf.kind \in {"primitive", "array", "string", "sequence"}
      /\ leaf.kind = "primitive" => leaf.size \in PrimitiveSizes
      /\ leaf.kind = "array" => leaf.size \in PrimitiveSizes /\ leaf.count \in Nat /\ leaf.count # 0
      /\ leaf.kind = "string" => leaf.chars \in Nat
      /\ leaf.kind = "sequence" => leaf.size \in PrimitiveSizes /\ leaf.count \in Nat /\ leaf.size <= PrefixSize
  BY ConstrainedLeafFields, AnyLeafFields DEF PlainLeaf
<1>2. /\ FieldAlignment(leaf) \in PrimitiveSizes /\ UsedWidth(leaf) \in Nat /\ Bytes(leaf) \in Nat
      /\ UsedWidth(leaf) = (IF Prefixed4(leaf) THEN PrefixSize ELSE 0) + Bytes(leaf)
                              + (IF leaf.kind = "string" THEN 1 ELSE 0)
  BY LeafWidths
<1>3. DataAlign(q, FieldAlignment(leaf)) \in Nat
  BY <1>2, DataAlignBounds
<1>4. e \in Nat
  BY <1>2, <1>3
<1>5. CASE leaf.kind = "primitive"
  <2>1. FieldAlignment(leaf) = leaf.size /\ UsedWidth(leaf) = leaf.size /\ leaf.size \in Nat
    BY <1>1, <1>2, <1>5, SizesArePositive DEF FieldAlignment, Prefixed4, Bytes
  <2>2. QED
    BY <1>1, <1>4, <1>5, <2>1
<1>6. CASE leaf.kind = "array"
  <2>1. /\ FieldAlignment(leaf) = leaf.size /\ UsedWidth(leaf) = leaf.size * leaf.count
        /\ Bytes(leaf) = leaf.size * leaf.count
    BY <1>1, <1>2, <1>6 DEF FieldAlignment, Prefixed4, Bytes
  <2>2. e = ElementsEnd(q, leaf.size, leaf.count)
    BY <1>1, <1>6, <2>1 DEF ElementsEnd
  <2>3. QED
    BY <1>1, <1>4, <1>6, <2>1, <2>2
<1>7. CASE leaf.kind = "string"
  <2>1. FieldAlignment(leaf) = PrefixSize /\ UsedWidth(leaf) = PrefixSize + leaf.chars + 1
    BY <1>1, <1>2, <1>7 DEF FieldAlignment, Prefixed4, Bytes
  <2>2. DataAlign(q, PrefixSize) \in Nat /\ PrefixSize \in Nat
    BY <1>3, <2>1 DEF PrefixSize
  <2>3. e = PrefixEnd(q) + (leaf.chars + 1)
    BY <1>1, <1>7, <2>1, <2>2 DEF PrefixEnd
  <2>4. QED
    BY <1>1, <1>4, <1>7, <2>3
<1>8. CASE leaf.kind = "sequence"
  <2> DEFINE n == leaf.size * leaf.count
  <2>1. FieldAlignment(leaf) = PrefixSize /\ UsedWidth(leaf) = PrefixSize + n /\ Bytes(leaf) = n /\ n \in Nat
    <3>1. Prefixed4(leaf) /\ FieldAlignment(leaf) = PrefixSize
      BY <1>8 DEF FieldAlignment, Prefixed4
    <3>2. Bytes(leaf) = n
      BY <1>8 DEF Bytes
    <3> HIDE DEF n
    <3>3. PrefixSize \in Nat
      BY DEF PrefixSize
    <3>4. QED
      BY <1>2, <1>8, <3>1, <3>2, <3>3
  <2>2. DataAlign(q, PrefixSize) \in Nat /\ PrefixSize \in Nat
    BY <1>3, <2>1 DEF PrefixSize
  <2>3. e = PrefixEnd(q) + n /\ PrefixEnd(q) \in Nat
    <3> HIDE DEF n
    <3>1. QED
      BY <2>1, <2>2 DEF PrefixEnd
  <2>4. DataAlign(PrefixEnd(q), leaf.size) = PrefixEnd(q)
    BY <1>1, <1>8, PrefixAligns
  <2>5. leaf.count = 0 => n = 0
    BY <1>1, <1>8, SizesArePositive
  <2>6. e = ElementsEnd(PrefixEnd(q), leaf.size, leaf.count)
    <3>1. CASE leaf.count = 0
      BY <2>3, <2>5, <3>1 DEF ElementsEnd
    <3>2. CASE leaf.count # 0
      BY <2>3, <2>4, <3>2 DEF ElementsEnd
    <3>3. QED
      BY <3>1, <3>2
  <2>7. PrefixEnd(q) <= e
    <3> HIDE DEF n
    <3>1. QED
      BY <2>1, <2>3
  <2>8. QED
    BY <1>1, <1>4, <1>8, <2>1, <2>3, <2>6, <2>7
<1>9. QED
  BY <1>1, <1>5, <1>6, <1>7, <1>8

\* The writer behind a field that has room.
Advanced(x, y, c, e) == Open(y, c) /\ y.header /\ y.pos = e /\ y.depth = x.depth

LEMMA EmitAdvances ==
  ASSUME NEW leaf, PlainLeaf(leaf), NEW x, NEW c, Open(x, c), c + Bytes(leaf) + 64 <= SizeMax,
         NEW e, e = DataAlign(DataPlace(x), FieldAlignment(leaf)) + UsedWidth(leaf), e <= c
  PROVE  Advanced(x, EmitCall(x, leaf), c, e)
<1> DEFINE q == DataPlace(x)
<1>1. Bytes(leaf) \in Nat /\ c \in Nat /\ x.cap = c /\ Valid(x) /\ x.fixed
  BY LeafWidths, CursorInSpan DEF Open
<1>2. c + 64 <= SizeMax
  BY <1>1, SizeMaxAssumption
<1>3. q \in Nat
  BY <1>2, OpenCursor
<1> DEFINE kind == leaf.kind
<1>4. /\ e \in Nat /\ leaf \in AnyLeaf /\ kind \in {"primitive", "array", "string", "sequence"}
      /\ kind = "primitive" => leaf.size \in PrimitiveSizes /\ e = DataAlign(q, leaf.size) + leaf.size
      /\ kind = "array" => /\ leaf.size \in PrimitiveSizes /\ leaf.count \in Nat \ {0}
                           /\ e = ElementsEnd(q, leaf.size, leaf.count)
                           /\ Bytes(leaf) = leaf.size * leaf.count
      /\ kind = "string" => leaf.chars \in Nat /\ e = PrefixEnd(q) + (leaf.chars + 1)
      /\ kind = "sequence" => /\ leaf.size \in PrimitiveSizes /\ leaf.count \in Nat
                              /\ e = ElementsEnd(PrefixEnd(q), leaf.size, leaf.count)
                              /\ PrefixEnd(q) \in Nat /\ PrefixEnd(q) <= e
                              /\ Bytes(leaf) = leaf.size * leaf.count
  BY <1>3, LeafEndIs
<1>5. CASE kind = "primitive"
  <2> DEFINE y == WritePrimitive(x, leaf.size)
  <2>1. Open(y, c)
    BY <1>2, <1>4, <1>5, PrimitiveFits
  <2>2. ~y.overflow
    BY <2>1 DEF Open
  <2>3. Wrote(x, y, e, x.depth)
    BY <1>1, <1>2, <1>4, <1>5, <2>2, PrimitivePlace
  <2>4. EmitCall(x, leaf) = y
    BY <1>5 DEF EmitCall
  <2> HIDE DEF y
  <2>5. QED
    BY <2>1, <2>3, <2>4 DEF Advanced, Wrote
<1>6. CASE kind = "array"
  <2> DEFINE y == WriteArray(x, leaf.size, leaf.count)
  <2>1. Open(y, c)
    BY <1>2, <1>4, <1>6, ArrayFits
  <2>2. ~y.overflow
    BY <2>1 DEF Open
  <2>3. Wrote(x, y, e, x.depth)
    BY <1>1, <1>2, <1>4, <1>6, <2>2, ArrayPlace
  <2>4. EmitCall(x, leaf) = y
    BY <1>6 DEF EmitCall
  <2> HIDE DEF y
  <2>5. QED
    BY <2>1, <2>3, <2>4 DEF Advanced, Wrote
<1>7. CASE kind = "string"
  <2> DEFINE y == WriteString(x, leaf.chars)
  <2>1. Open(y, c)
    BY <1>2, <1>4, <1>7, StringFits
  <2>2. ~y.overflow
    BY <2>1 DEF Open
  <2>3. Wrote(x, y, e, x.depth)
    BY <1>1, <1>2, <1>4, <1>7, <2>2, StringPlace
  <2>4. EmitCall(x, leaf) = y
    BY <1>7 DEF EmitCall
  <2> HIDE DEF y
  <2>5. QED
    BY <2>1, <2>3, <2>4 DEF Advanced, Wrote
<1>8. CASE kind = "sequence"
  <2> DEFINE y == WriteSequence(x, leaf.size, leaf.count)
  <2>1. Open(y, c)
    BY <1>2, <1>4, <1>8, SequenceFits
  <2>2. ~y.overflow
    BY <2>1 DEF Open
  <2>3. Wrote(x, y, e, x.depth)
    BY <1>1, <1>2, <1>4, <1>8, <2>2, SequencePlace
  <2>4. EmitCall(x, leaf) = y
    BY <1>8 DEF EmitCall
  <2> HIDE DEF y
  <2>5. QED
    BY <2>1, <2>3, <2>4 DEF Advanced, Wrote
<1>9. QED
  BY <1>4, <1>5, <1>6, <1>7, <1>8

\* A skip over n bytes that are there.
LEMMA SkipFits ==
  ASSUME NEW x, NEW c, Open(x, c), NEW a \in PrimitiveSizes, NEW n \in Nat, c + 15 + n <= SizeMax,
         NEW e, e = DataAlign(x.pos, a) + n, e <= c
  PROVE  LET y == SkipAdvance(x, a, n)
         IN Open(y, c) /\ y.pos = e /\ y.header = x.header /\ y.depth = x.depth
<1> DEFINE y == SkipAdvance(x, a, n)
<1>1. Valid(x) /\ x.fixed /\ x.cap = c /\ ~x.overflow /\ c \in Nat /\ x.pos \in Nat
  BY CursorInSpan DEF Open
<1>3. EndOf(x, a, n) = e /\ e \in Nat /\ ~(e > c)
  BY <1>1, DataAlignBounds DEF EndOf
<1>4. Outcome(x, y, e > x.cap, IF e > x.cap THEN x.pos ELSE e, {})
  BY <1>1, <1>3, SkipOutcome
<1>5. ValidAfter(x, y)
  BY <1>1, SkipAdvanceValid
<1> HIDE DEF y
<1>6. QED
  BY <1>1, <1>3, <1>4, <1>5 DEF Outcome, ValidAfter, Open, y

LEMMA SkipAdvances ==
  ASSUME NEW leaf, PlainLeaf(leaf), NEW x, NEW c, Open(x, c), x.header, c + Bytes(leaf) + 64 <= SizeMax,
         NEW e, e = DataAlign(x.pos, FieldAlignment(leaf)) + UsedWidth(leaf), e <= c
  PROVE  Advanced(x, SkipCall(x, leaf), c, e)
<1> DEFINE q == x.pos
<1>1. Bytes(leaf) \in Nat /\ c \in Nat /\ x.cap = c /\ Valid(x) /\ x.fixed /\ q \in Nat /\ ~x.overflow
  BY LeafWidths, CursorInSpan DEF Open
<1>2. c + 64 <= SizeMax
  BY <1>1, SizeMaxAssumption
<1>3. EnsureHeaderWritten(x) = x
  BY <1>1, HeaderFields
<1> DEFINE kind == leaf.kind
<1>4. /\ e \in Nat /\ leaf \in AnyLeaf /\ kind \in {"primitive", "array", "string", "sequence"}
      /\ kind = "primitive" => leaf.size \in PrimitiveSizes /\ e = DataAlign(q, leaf.size) + leaf.size
      /\ kind = "array" => /\ leaf.size \in PrimitiveSizes /\ leaf.count \in Nat \ {0}
                           /\ e = ElementsEnd(q, leaf.size, leaf.count)
                           /\ Bytes(leaf) = leaf.size * leaf.count
      /\ kind = "string" => leaf.chars \in Nat /\ e = PrefixEnd(q) + (leaf.chars + 1)
      /\ kind = "sequence" => /\ leaf.size \in PrimitiveSizes /\ leaf.count \in Nat
                              /\ e = ElementsEnd(PrefixEnd(q), leaf.size, leaf.count)
                              /\ PrefixEnd(q) \in Nat /\ PrefixEnd(q) <= e
                              /\ Bytes(leaf) = leaf.size * leaf.count
  BY <1>1, LeafEndIs
\* Any elements behind the header.
<1>5. ASSUME NEW b, Open(b, c), b.header, NEW s \in PrimitiveSizes, NEW n \in Nat, Bytes(leaf) = s * n,
             e = ElementsEnd(b.pos, s, n)
      PROVE  LET y == SkipArray(b, s, n) IN Open(y, c) /\ y.header /\ y.pos = e /\ y.depth = b.depth
  <2> DEFINE y == SkipArray(b, s, n)
  <2>1. Valid(b) /\ b.fixed /\ b.cap = c /\ ~b.overflow /\ Settled(b)
    BY <1>5 DEF Open, Settled
  <2>2. c + s * n + 64 <= SizeMax
    BY <1>5
  <2>3. Outcome(b, y, SpanFails(b, s, n), SpanEnd(b, s, n), {})
    BY <2>1, <2>2, SpanOutcome
  <2>4. ValidAfter(b, y)
    BY <2>1, SkipArrayValid
  <2>5. n # 0 => EndOf(b, s, s * n) = e
    BY <1>5 DEF EndOf, ElementsEnd
  <2>6. n = 0 => b.pos = e
    BY <1>5 DEF ElementsEnd
  <2>7. ~SpanFails(b, s, n)
    BY <1>1, <1>4, <2>1, <2>5 DEF SpanFails
  <2>8. SpanEnd(b, s, n) = e
    BY <2>5, <2>6, <2>7 DEF SpanEnd
  <2> HIDE DEF y
  <2>9. QED
    BY <1>5, <2>1, <2>3, <2>4, <2>7, <2>8 DEF Outcome, ValidAfter, Open, y
\* Any prefix.
<1>6. ASSUME PrefixEnd(q) <= c
      PROVE  LET p == SkipAdvance(x, PrefixSize, PrefixSize)
             IN Open(p, c) /\ p.header /\ p.pos = PrefixEnd(q) /\ p.depth = x.depth
  <2>1. PrefixSize \in PrimitiveSizes /\ PrefixSize \in Nat /\ PrefixSize = 4
    BY DEF PrefixSize, PrimitiveSizes
  <2>2. PrefixEnd(q) = DataAlign(x.pos, PrefixSize) + PrefixSize
    BY DEF PrefixEnd
  <2>3. c + 15 + PrefixSize <= SizeMax
    BY <1>1, <1>2, <2>1, SizeMaxAssumption
  <2>4. QED
    BY <1>6, <2>1, <2>2, <2>3, SkipFits
<1>7. CASE kind = "primitive"
  <2>1. leaf.size \in Nat /\ Bytes(leaf) = leaf.size
    BY <1>4, <1>7, SizesArePositive DEF Bytes
  <2>2. SkipCall(x, leaf) = SkipAdvance(x, leaf.size, leaf.size)
    BY <1>3, <1>7 DEF SkipCall, Skip
  <2>3. c + 15 + leaf.size <= SizeMax
    BY <1>1, <2>1, SizeMaxAssumption
  <2>4. QED
    BY <1>4, <1>7, <2>1, <2>2, <2>3, SkipFits DEF Advanced
<1>8. CASE kind = "array"
  BY <1>4, <1>5, <1>8 DEF SkipCall, Advanced
<1>9. CASE kind = "string"
  <2> DEFINE p == SkipAdvance(x, PrefixSize, PrefixSize)
             n == leaf.chars + 1
  <2>1. /\ n \in Nat /\ Bytes(leaf) + 1 = n /\ e = PrefixEnd(q) + n /\ PrefixEnd(q) \in Nat /\ PrefixEnd(q) <= c
        /\ c + 15 + n <= SizeMax
    <3>1. leaf.chars \in Nat /\ e = PrefixEnd(q) + (leaf.chars + 1) /\ Bytes(leaf) = leaf.chars
      BY <1>4, <1>9 DEF Bytes
    <3>2. PrefixEnd(q) \in Nat
      BY <1>1, PrefixEndIsNat
    <3>3. QED
      BY <1>1, <3>1, <3>2, SizeMaxAssumption
  <2>2. Open(p, c) /\ p.header /\ p.pos = PrefixEnd(q) /\ p.depth = x.depth
    BY <1>6, <2>1
  <2>3. SkipCall(x, leaf) = SkipAdvance(p, 1, n)
    BY <1>3, <1>9 DEF SkipCall, SkipString
  <2> HIDE DEF p, n
  <2>4. 1 \in PrimitiveSizes /\ DataAlign(p.pos, 1) = p.pos
    BY <2>1, <2>2 DEF PrimitiveSizes, DataAlign, AlignTo, CalculateAlignment, HeaderSize
  <2>5. QED
    BY <2>1, <2>2, <2>3, <2>4, SkipFits DEF Advanced
<1>10. CASE kind = "sequence"
  <2> DEFINE p == SkipAdvance(x, PrefixSize, PrefixSize)
             b == Push(p)
             a == SkipArray(b, leaf.size, leaf.count)
  <2>1. Open(p, c) /\ p.header /\ p.pos = PrefixEnd(q) /\ p.depth = x.depth
    BY <1>1, <1>4, <1>6, <1>10
  <2>2. BeginSkipSequence(x) = b
    BY <1>3, <2>1 DEF BeginSkipSequence, Open
  <2>3. SkipCall(x, leaf) = IF (IF b.overflow THEN b ELSE a).overflow THEN IF b.overflow THEN b ELSE a
                            ELSE Pop(IF b.overflow THEN b ELSE a)
    BY <1>10, <2>2 DEF SkipCall, SkipSequence, EndWrite
  <2> HIDE DEF p
  <2>4. Open(b, c) /\ b.header /\ b.pos = PrefixEnd(q) /\ b.depth = x.depth + 1
    BY <2>1, PushFields DEF Open
  <2> HIDE DEF b
  <2>5. Open(a, c) /\ a.header /\ a.pos = e /\ a.depth = x.depth + 1
    BY <1>4, <1>5, <1>10, <2>4
  <2> HIDE DEF a
  <2>6. SkipCall(x, leaf) = Pop(a)
    BY <2>3, <2>4, <2>5 DEF Open
  <2>7. ValidAfter(a, Pop(a))
    BY <2>5, PushPopValid DEF Open
  <2>8. x.depth \in Nat
    BY <1>1 DEF Valid, WriterType
  <2>9. QED
    BY <2>5, <2>6, <2>7, <2>8, PopFields DEF Advanced, Open, ValidAfter
<1>11. QED
  BY <1>4, <1>7, <1>8, <1>9, <1>10

--------------------------------------------------------------------------------
(* The traversal of a plain message *)

\* Fields from n on are where the loan put them, behind the prefix of their room.
Ahead(mem, L, c, n) ==
  \A i \in n .. Len(L) : ~Oversized(L[i]) => ContentAt(mem, i, L[i], LeafPlace(L[i], SlotAt(L, c, i)).content)

\* Fields before n are where they are sent, prefixes and all.
Behind(mem, L, d, n) ==
  \A i \in 1 .. (n - 1) :
    /\ ~Oversized(L[i])
    /\ Prefixed4(L[i]) => NumberStoredAt(mem, SlotAt(L, d, i), Number(L[i], Actual(L[i])))
    /\ ContentAt(mem, i, L[i], LeafPlace(L[i], SlotAt(L, d, i)).content)

\* No field before n was undersized.
Full(L, n) == \A i \in 1 .. (n - 1) : ~Undersized(L[i])

SlotsUpTo(L, d, n) == [i \in 1 .. (n - 1) |-> SlotAt(L, d, i)]

LEMMA PlainIs ==
  ASSUME PathInv, Plain
  PROVE  PlainMessage(message)
<1> DEFINE L == Leaves(message)
<1>1. message \in Seq(ConstrainedMember)
  BY PathFacts
<1>2. AlignedMessage(message)
  BY <1>1 DEF AlignedMessage, Plain, NoStrings, NestedAligned
<1>3. L \in Seq(ConstrainedLeaf) /\ \A i \in 1 .. Len(L) : L[i] \in ConstrainedLeaf
  BY <1>2, AlignedLeaves
<1>4. ASSUME NEW i \in 1 .. Len(L) PROVE PlainLeaf(L[i])
  <2> HIDE DEF L
  <2>1. L[i] \in Range(L)
    BY <1>3 DEF Range
  <2>2. L[i].kind = "sequence" => L[i].size <= PrefixSize
    BY <2>1 DEF Plain, NoWideSequence, L
  <2>3. QED
    BY <1>3, <2>2 DEF PlainLeaf
<1>5. QED
  BY <1>2, <1>4 DEF PlainMessage

\* Where the loan put everything.
LEMMA LoanPlaces ==
  ASSUME PathInv, Plain, phase # "defining", NEW L, L = Leaves(message),
         NEW c, Chain(c, L, Widths(L))
  PROVE  /\ layout = LayoutOf(message) /\ layout.size = c[Len(L)] /\ BlockOf(memory, c[Len(L)])
         /\ Places(message, layout) = [i \in 1 .. Len(L) |-> LeafPlace(L[i], SlotAt(L, c, i))]
         /\ \A i \in 1 .. Len(L) : c[Len(L)] + Bytes(L[i]) + 64 <= SizeMax
<1>1. PlainMessage(message) /\ AlignedMessage(message)
  BY PlainIs DEF PlainMessage
<1>2. layout = LayoutOf(message) /\ message # <<>> /\ message \in Seq(Members) /\ Len(message) <= MaxMembers
      /\ layout.size \in Nat /\ DOMAIN memory = 0 .. (layout.size - 1)
  BY PathFacts DEF PathInv, TypeOK
<1>3. /\ LayoutOf(message).size = c[Len(L)]
      /\ \A st : Starts(st, MemberLeaves(message)) => PlacedUpTo(LayoutOf(message).members, message, c, st, Len(message))
  <2>1. \E st : Starts(st, MemberLeaves(message))
    <3>1. MemberLeaves(message) \in Seq(Seq(AnyLeaf))
      BY <1>1, MemberLeavesType DEF AlignedMessage
    <3>2. QED
      BY <3>1, StartsExist
  <2>2. \A st : Starts(st, MemberLeaves(message)) =>
           /\ LayoutOf(message).size = c[Len(L)]
           /\ PlacedUpTo(LayoutOf(message).members, message, c, st, Len(message))
    BY <1>1, MessagePlaced
  <2>3. QED
    BY <2>1, <2>2
<1>4. Places(message, layout) = [i \in 1 .. Len(L) |-> LeafPlace(L[i], SlotAt(L, c, i))]
  BY <1>1, <1>2, <1>3, PlacesOfLayout
<1>5. BlockOf(memory, c[Len(L)])
  BY <1>2, <1>3 DEF BlockOf
<1>6. \A i \in 1 .. Len(L) : c[Len(L)] + Bytes(L[i]) + 64 <= SizeMax
  BY <1>2, <1>3, BeforeCompaction
<1>7. QED
  BY <1>2, <1>3, <1>4, <1>5, <1>6

\* Nothing a plain message may be rewritten with exceeds its room.
LEMMA VisitedFits ==
  ASSUME PathInv, Plain, NEW i \in 1 .. Len(Leaves(message)), ~Violates(i)
  PROVE  ~Oversized(Leaves(message)[i])
<1> SUFFICES ASSUME Oversized(Leaves(message)[i]) PROVE FALSE
  OBVIOUS
<1>1. GoesToSerializeFields(i)
  BY DEF Violates
<1>2. message \in Seq(ConstrainedMember) /\ AlignedMessage(message) /\ Len(message) \in Nat
  BY PathFacts, PlainIs DEF PlainMessage
<1>3. PICK k \in 1 .. Len(message) :
        /\ message[k].kind = "nested"
        /\ i \in (Len(Leaves(SubSeq(message, 1, k - 1))) + 1)
                   .. ((Len(Leaves(SubSeq(message, 1, k - 1))) + 1) + Len(message[k].fields) - 1)
  BY <1>1 DEF GoesToSerializeFields
<1>4. PICK st : Starts(st, MemberLeaves(message))
  <2>1. MemberLeaves(message) \in Seq(Seq(AnyLeaf))
    BY <1>2, MemberLeavesType
  <2>2. QED
    BY <2>1, StartsExist
<1>5. k - 1 \in 0 .. Len(message)
  BY <1>2
<1>6. Len(Leaves(SubSeq(message, 1, k - 1))) = st[k - 1]
  BY <1>2, <1>4, <1>5, LeavesOfPrefix
<1>7. /\ st[k - 1] \in Nat
      /\ \A j \in 1 .. Len(LeavesOf(message[k])) : Leaves(message)[st[k - 1] + j] = LeavesOf(message[k])[j]
  BY <1>2, <1>4, LeafAt
<1>8. /\ LeavesOf(message[k]) = message[k].fields /\ message[k].fields \in Seq(ConstrainedLeaf)
      /\ message[k] \in Range(message)
  <2>1. message[k] \in Range(message)
    BY <1>2 DEF Range
  <2>2. message[k].fields \in Seq(ConstrainedLeaf)
    BY <1>2, <1>3, AlignedMembers, ConstrainedLeafFields
  <2>3. QED
    BY <1>3, <2>1, <2>2 DEF LeavesOf
<1> DEFINE f == message[k].fields
           j == i - st[k - 1]
<1>9. j \in 1 .. Len(f) /\ i = st[k - 1] + j
  <2>1. Len(f) \in Nat
    BY <1>8
  <2>2. Len(Leaves(message)) \in Nat
    BY PathFacts
  <2>3. i \in Nat
    BY <2>2
  <2>4. i \in (st[k - 1] + 1) .. ((st[k - 1] + 1) + Len(f) - 1)
    BY <1>3, <1>6
  <2> HIDE DEF f
  <2>5. QED
    BY <1>7, <2>1, <2>3, <2>4
<1> HIDE DEF j
<1>10. Leaves(message)[i] = f[j] /\ f[j] \in Range(f)
  <2>1. LeavesOf(message[k]) = f /\ f \in Seq(ConstrainedLeaf)
    BY <1>8
  <2>2. Leaves(message)[st[k - 1] + j] = f[j]
    BY <1>7, <1>9, <2>1
  <2> HIDE DEF f
  <2>3. f[j] \in Range(f)
    BY <1>9, <2>1 DEF Range
  <2>4. QED
    BY <1>9, <2>2, <2>3
<1>11. QED
  BY <1>3, <1>8, <1>10 DEF Plain, NestedInBounds

--------------------------------------------------------------------------------
\* Up to and with a field that is visited, what is in use lies within the room.
LEMMA SlotsCompared ==
  ASSUME NEW msg, PlainMessage(msg), NEW L, L = Leaves(msg),
         NEW c, Chain(c, L, Widths(L)), NEW d, Chain(d, L, Useds(L)),
         NEW n \in 1 .. Len(L), \A i \in 1 .. n : ~Oversized(L[i])
  PROVE  /\ d[n - 1] \in Nat /\ d[n] \in Nat /\ c[n] \in Nat /\ c[Len(L)] \in Nat
         /\ SlotAt(L, c, n) \in Nat /\ SlotAt(L, d, n) \in Nat
         /\ d[n - 1] <= SlotAt(L, d, n) /\ d[n] = SlotAt(L, d, n) + UsedWidth(L[n])
         /\ SlotAt(L, d, n) <= SlotAt(L, c, n)
         /\ d[n] <= c[n] /\ c[n] <= c[Len(L)]
         /\ (\A i \in 1 .. n : ~Undersized(L[i])) => d[n] = c[n] /\ SlotAt(L, d, n) = SlotAt(L, c, n)
<1> DEFINE w == Widths(L)
           v == Useds(L)
<1>1. /\ L \in Seq(AnyLeaf) /\ w \in [1 .. Len(L) -> Nat] /\ v \in [1 .. Len(L) -> Nat] /\ Len(L) \in Nat
      /\ \A i \in 1 .. Len(L) : PlainLeaf(L[i]) /\ w[i] = Reserve(L[i]) /\ v[i] = UsedWidth(L[i])
  BY PlainLeaves
<1>2. \A i \in 1 .. n : v[i] <= w[i] /\ (~Undersized(L[i]) => v[i] = w[i])
  <2>1. \A i \in 1 .. n : i \in 1 .. Len(L)
    BY <1>1
  <2>2. QED
    BY <1>1, <2>1, FitsSlot
<1> HIDE DEF w, v
<1>3. Chain(c, L, w) /\ Chain(d, L, v)
  BY DEF w, v
<1>4. n \in 0 .. Len(L) /\ n - 1 \in 0 .. n /\ n \in 0 .. n
  BY <1>1
<1>11. L \in Seq(AnyLeaf) /\ w \in [1 .. Len(L) -> Nat] /\ v \in [1 .. Len(L) -> Nat] /\ n \in 0 .. Len(L)
  BY <1>1, <1>4
<1>5. d[n] <= c[n] /\ d[n - 1] <= c[n - 1]
  <2>1. \A i \in 1 .. n : v[i] <= w[i]
    BY <1>2
  <2>2. \A i \in 0 .. n : d[i] <= c[i]
    BY ONLY <1>3, <1>11, <2>1, ChainBelow
  <2>3. QED
    BY <1>4, <2>2
<1>6. /\ SlotAt(L, c, n) \in Nat /\ c[n - 1] \in Nat /\ c[n] \in Nat
      /\ SlotAt(L, d, n) \in Nat /\ d[n - 1] \in Nat /\ d[n] \in Nat
      /\ d[n - 1] <= SlotAt(L, d, n) /\ d[n] = SlotAt(L, d, n) + v[n]
  BY <1>1, <1>3, ChainGrows
<1>7. c[n] <= c[Len(L)] /\ c[Len(L)] \in Nat
  BY <1>1, <1>3, ChainOrder
<1>8. SlotAt(L, d, n) <= SlotAt(L, c, n)
  <2>1. FieldAlignment(L[n]) \in PrimitiveSizes
    BY <1>1, LeafWidths
  <2>2. QED
    BY <1>5, <1>6, <2>1, DataAlignMonotone DEF SlotAt
<1>9. ASSUME \A i \in 1 .. n : ~Undersized(L[i])
      PROVE  d[n] = c[n] /\ SlotAt(L, d, n) = SlotAt(L, c, n)
  <2>1. \A i \in 1 .. n : v[i] = w[i]
    BY <1>2, <1>9
  <2>2. \A i \in 1 .. n : w[i] <= v[i]
    <3>1. \A i \in 1 .. n : w[i] \in Nat
      BY <1>11
    <3>2. QED
      BY <2>1, <3>1
  <2>3. \A i \in 0 .. n : c[i] <= d[i]
    BY ONLY <1>3, <1>11, <2>2, ChainBelow
  <2>4. n - 1 \in 0 .. n /\ n \in 0 .. n
    BY <1>4
  <2>5. c[n] <= d[n] /\ c[n - 1] <= d[n - 1] /\ c[n - 1] \in Nat
    BY <1>6, <2>3, <2>4
  <2>6. d[n] = c[n] /\ d[n - 1] = c[n - 1]
    BY <1>5, <1>6, <2>5
  <2>7. QED
    BY <2>6 DEF SlotAt
<1>10. QED
  BY <1>1, <1>5, <1>6, <1>7, <1>8, <1>9

\* Rewriting field n stores nothing beyond the end of its data.
LEMMA LeafMoves ==
  ASSUME NEW msg, PlainMessage(msg), NEW L, L = Leaves(msg),
         NEW c, Chain(c, L, Widths(L)), NEW d, Chain(d, L, Useds(L)),
         NEW n \in 1 .. Len(L), NEW mem, BlockOf(mem, c[Len(L)]),
         Ahead(mem, L, c, n), Behind(mem, L, d, n), ~Oversized(L[n]),
         NEW y, y = Rewritten(mem, d[n - 1], n, L[n], LeafPlace(L[n], SlotAt(L, c, n)).content)
  PROVE  Ahead(y, L, c, n + 1) /\ Behind(y, L, d, n + 1)
<1> DEFINE leaf == L[n]
           at == SlotAt(L, d, n)
           from == SlotAt(L, c, n)
           N == Len(L)
           source == LeafPlace(leaf, from).content
           content == LeafPlace(leaf, at).content
<1>1. /\ L \in Seq(AnyLeaf) /\ N \in Nat /\ n \in Nat /\ n <= N /\ n # 0
      /\ \A i \in 1 .. N : PlainLeaf(L[i]) /\ L[i] \in AnyLeaf
  BY PlainLeaves
<1>2. \A i \in 1 .. n : ~Oversized(L[i])
  <2>1. \A i \in 1 .. (n - 1) : ~Oversized(L[i])
    BY DEF Behind
  <2>2. QED
    BY <1>1, <2>1
<1>3. /\ d[n - 1] \in Nat /\ d[n] \in Nat /\ c[n] \in Nat /\ c[N] \in Nat /\ from \in Nat /\ at \in Nat
      /\ d[n - 1] <= at /\ d[n] = at + UsedWidth(leaf) /\ at <= from /\ d[n] <= c[n] /\ c[n] <= c[N]
  BY <1>1, <1>2, SlotsCompared
<1>4. PlainLeaf(leaf) /\ at = DataAlign(d[n - 1], FieldAlignment(leaf)) /\ UsedWidth(leaf) \in Nat
  BY <1>1, LeafWidths DEF SlotAt
<1>5. content \in Nat /\ source \in Nat /\ content <= source
  <2>1. content = IF Prefixed4(leaf) THEN at + PrefixSize ELSE at
    BY <1>3, LeafPlaceIs
  <2>2. source = IF Prefixed4(leaf) THEN from + PrefixSize ELSE from
    BY <1>3, LeafPlaceIs
  <2>3. QED
    BY <1>3, <2>1, <2>2 DEF PrefixSize
<1>6. ContentAt(mem, n, leaf, source)
  <2>1. n \in n .. N
    BY <1>1
  <2>2. QED
    BY <2>1 DEF Ahead
<1>7. at + UsedWidth(leaf) <= c[N]
  BY <1>3, <1>4
<1> HIDE DEF leaf, at, from, source, content
<1>8. /\ BlockOf(y, c[N]) /\ StoresWithin(mem, y, d[n - 1], at + UsedWidth(leaf))
      /\ Prefixed4(leaf) => NumberStoredAt(y, at, Number(leaf, Actual(leaf)))
      /\ ContentAt(y, n, leaf, content)
  <2>1. y = Rewritten(mem, d[n - 1], n, leaf, source)
    BY DEF leaf, source, from
  <2>2. ~Oversized(leaf) /\ content = LeafPlace(leaf, at).content
    BY DEF leaf, content
  <2> DEFINE cursor == d[n - 1]
             room == c[N]
  <2>3. BlockOf(mem, room) /\ at + UsedWidth(leaf) <= room /\ y = Rewritten(mem, cursor, n, leaf, source)
    BY <1>7, <2>1 DEF N
  <2>4. cursor \in Nat /\ at = DataAlign(cursor, FieldAlignment(leaf))
    BY <1>3, <1>4
  <2> HIDE DEF cursor, room
  <2>5. /\ BlockOf(y, room) /\ StoresWithin(mem, y, cursor, at + UsedWidth(leaf))
        /\ Prefixed4(leaf) => NumberStoredAt(y, at, Number(leaf, Actual(leaf)))
        /\ ContentAt(y, n, leaf, content)
    BY <1>4, <1>5, <1>6, <2>2, <2>3, <2>4, RewrittenLeaf
  <2>6. QED
    BY <2>5 DEF cursor, room
<1>9. StoresWithin(mem, y, d[n - 1], d[n])
  BY <1>3, <1>8
<1>10. Ahead(y, L, c, n + 1)
  <2> SUFFICES ASSUME NEW i \in (n + 1) .. N, ~Oversized(L[i])
               PROVE  ContentAt(y, i, L[i], LeafPlace(L[i], SlotAt(L, c, i)).content)
    BY DEF Ahead
  <2> DEFINE place == LeafPlace(L[i], SlotAt(L, c, i)).content
  <2>1. i \in n .. N /\ i \in 1 .. N /\ n \in 1 .. (i - 1)
    BY <1>1
  <2>2. Widths(L) \in [1 .. Len(L) -> Nat]
    BY PlainLeaves
  <2>3. SlotAt(L, c, i) \in Nat /\ c[n] <= SlotAt(L, c, i)
    BY <1>1, <2>1, <2>2, ChainOrder
  <2>4. place \in Nat /\ SlotAt(L, c, i) <= place
    BY <1>1, <2>1, <2>3, LeafInSlot
  <2>5. ContentAt(mem, i, L[i], place)
    BY <2>1 DEF Ahead
  <2>6. L[i] \in AnyLeaf
    BY <1>1, <2>1
  <2> HIDE DEF place
  <2>7. d[n] <= place
    BY <1>3, <2>3, <2>4
  <2>8. ContentAt(y, i, L[i], place)
    BY <1>3, <1>9, <2>4, <2>5, <2>6, <2>7, ContentSurvives
  <2>9. QED
    BY <2>8 DEF place
<1>11. Behind(y, L, d, n + 1)
  <2> SUFFICES ASSUME NEW i \in 1 .. n
               PROVE  /\ ~Oversized(L[i])
                      /\ Prefixed4(L[i]) => NumberStoredAt(y, SlotAt(L, d, i), Number(L[i], Actual(L[i])))
                      /\ ContentAt(y, i, L[i], LeafPlace(L[i], SlotAt(L, d, i)).content)
    <3>1. (n + 1) - 1 = n
      BY <1>1
    <3>2. QED
      BY <3>1 DEF Behind
  <2>1. CASE i = n
    BY <1>2, <1>8, <2>1 DEF leaf, at, content
  <2>2. CASE i # n
    <3> DEFINE slot == SlotAt(L, d, i)
               place == LeafPlace(L[i], slot).content
    <3>1. i \in 1 .. (n - 1) /\ i \in 1 .. N /\ n - 1 \in 0 .. N
      BY <1>1, <2>2
    <3>2. Useds(L) \in [1 .. Len(L) -> Nat] /\ Useds(L)[i] = UsedWidth(L[i])
      BY <3>1, PlainLeaves
    <3>3. slot \in Nat /\ d[i] \in Nat /\ d[i] = slot + UsedWidth(L[i]) /\ d[i] <= d[n - 1]
      <4>1. slot \in Nat /\ d[i] \in Nat /\ d[i] = slot + Useds(L)[i]
        BY <1>1, <3>1, <3>2, ChainOrder
      <4>2. d[i] <= d[n - 1]
        BY <1>1, <3>1, <3>2, ChainOrder
      <4>3. QED
        BY <3>2, <4>1, <4>2
    <3>4. PlainLeaf(L[i]) /\ L[i] \in AnyLeaf
      BY <1>1, <3>1
    <3>5. place \in Nat /\ place + Bytes(L[i]) \in Nat /\ place + Bytes(L[i]) <= slot + UsedWidth(L[i])
      BY <3>3, <3>4, LeafInSlot
    <3>6. /\ ~Oversized(L[i])
          /\ Prefixed4(L[i]) => NumberStoredAt(mem, slot, Number(L[i], Actual(L[i])))
          /\ ContentAt(mem, i, L[i], place)
      BY <3>1 DEF Behind
    <3>7. Prefixed4(L[i]) => UsedWidth(L[i]) \in Nat /\ PrefixSize <= UsedWidth(L[i])
      <4>1. /\ Bytes(L[i]) \in Nat
            /\ UsedWidth(L[i]) = (IF Prefixed4(L[i]) THEN PrefixSize ELSE 0) + Bytes(L[i])
                                 + (IF L[i].kind = "string" THEN 1 ELSE 0)
        BY <3>4, LeafWidths
      <4>2. QED
        BY <4>1 DEF PrefixSize
    <3> HIDE DEF slot, place
    <3>8. ContentAt(y, i, L[i], place)
      <4>1. place + Bytes(L[i]) <= d[n - 1]
        BY <1>3, <3>3, <3>5
      <4>2. QED
        BY <1>3, <1>9, <3>4, <3>5, <3>6, <4>1, ContentSurvives
    <3>9. ASSUME Prefixed4(L[i]) PROVE NumberStoredAt(y, slot, Number(L[i], Actual(L[i])))
      <4>1. slot + PrefixSize <= d[n - 1] /\ NumberStoredAt(mem, slot, Number(L[i], Actual(L[i])))
        BY <1>3, <3>3, <3>6, <3>7, <3>9 DEF PrefixSize
      <4>2. QED
        BY <1>3, <1>9, <3>3, <4>1, NumberSurvives
    <3>10. QED
      BY <3>6, <3>8, <3>9 DEF slot, place
  <2>3. QED
    BY <2>1, <2>2
<1>12. QED
  BY <1>10, <1>11

\* A full field behind full ones is where it is sent already.
LEMMA LeafStays ==
  ASSUME NEW msg, PlainMessage(msg), NEW L, L = Leaves(msg),
         NEW c, Chain(c, L, Widths(L)), NEW d, Chain(d, L, Useds(L)),
         NEW n \in 1 .. Len(L), NEW mem, NumbersUpTo(mem, L, c, Len(L)),
         Ahead(mem, L, c, n), Behind(mem, L, d, n), ~Oversized(L[n]), Full(L, n + 1)
  PROVE  Ahead(mem, L, c, n + 1) /\ Behind(mem, L, d, n + 1)
<1>1. Len(L) \in Nat /\ n \in Nat /\ n <= Len(L) /\ n # 0 /\ (n + 1) - 1 = n /\ PlainLeaf(L[n])
  BY PlainLeaves
<1>2. \A i \in 1 .. n : ~Oversized(L[i])
  <2>1. \A i \in 1 .. (n - 1) : ~Oversized(L[i])
    BY DEF Behind
  <2>2. QED
    BY <1>1, <2>1
<1>3. \A i \in 1 .. n : ~Undersized(L[i])
  BY <1>1 DEF Full
<1>4. SlotAt(L, d, n) = SlotAt(L, c, n)
  BY <1>1, <1>2, <1>3, SlotsCompared
<1>5. Prefixed4(L[n]) => NumberStoredAt(mem, SlotAt(L, d, n), Number(L[n], Actual(L[n])))
  <2>1. n \in 1 .. n /\ n \in 1 .. Len(L)
    BY <1>1
  <2>2. Prefixed4(L[n]) => Actual(L[n]) = L[n].bound
    BY <1>1, <1>2, <1>3, <2>1, FitsSlot
  <2>3. Prefixed4(L[n]) => NumberStoredAt(mem, SlotAt(L, c, n), Number(L[n], L[n].bound))
    BY <2>1 DEF NumbersUpTo
  <2>4. QED
    BY <1>4, <2>2, <2>3
<1>6. ContentAt(mem, n, L[n], LeafPlace(L[n], SlotAt(L, d, n)).content)
  <2>1. n \in n .. Len(L)
    BY <1>1
  <2>2. QED
    BY <1>4, <2>1 DEF Ahead
<1>7. Ahead(mem, L, c, n + 1)
  <2>1. \A i \in (n + 1) .. Len(L) : i \in n .. Len(L)
    BY <1>1
  <2>2. QED
    BY <2>1 DEF Ahead
<1>8. Behind(mem, L, d, n + 1)
  <2>1. \A i \in 1 .. n : i = n \/ i \in 1 .. (n - 1)
    BY <1>1
  <2>2. QED
    BY <1>1, <1>2, <1>5, <1>6, <2>1 DEF Behind
<1>9. QED
  BY <1>7, <1>8

--------------------------------------------------------------------------------
(* The invariant of the traversal of a plain message: c is where its fields *)
(* end in the loan, d where they end in what is sent.                       *)

WriterBehind(L, d) ==
  /\ ~HasError(writer.w) /\ writer.w.header /\ writer.w.pos = d[next - 1]
  /\ writer.at = SlotsUpTo(L, d, next)

Traversed(L, c, d) ==
  /\ phase \in {"filled", "compacting"} => Ahead(memory, L, c, next)
  /\ phase \in {"loaned", "filled", "compacting"} /\ emitFrom = 0 => NumbersUpTo(memory, L, c, Len(L))
  /\ phase \in {"compacting", "sent", "received"} =>
       Behind(memory, L, d, next) /\ (emitFrom = 0 => Full(L, next)) /\ WriterBehind(L, d)
  /\ phase \in {"sent", "received"} => next = Len(L) + 1 /\ region = d[Len(L)]

TraversalInv ==
  Plain => Traversed(Leaves(message), Ends(Leaves(message), Widths(Leaves(message))),
                     Ends(Leaves(message), Useds(Leaves(message))))

\* A field more.
LEMMA SlotsGrow ==
  ASSUME NEW L, NEW d, NEW n \in Nat, n # 0, NEW x, x = SlotsUpTo(L, d, n),
         NEW y, y = Append(x, SlotAt(L, d, n))
  PROVE  y = SlotsUpTo(L, d, n + 1)
<1>1. Len(x) = n - 1 /\ DOMAIN x = 1 .. (n - 1) /\ \A i \in 1 .. (n - 1) : x[i] = SlotAt(L, d, i)
  <2>1. n - 1 \in Nat
    OBVIOUS
  <2>2. QED
    BY <2>1 DEF SlotsUpTo
<1>2. /\ DOMAIN y = 1 .. n /\ y[n] = SlotAt(L, d, n) /\ \A i \in 1 .. (n - 1) : y[i] = x[i]
      /\ y = [i \in 1 .. n |-> y[i]]
  <2>1. x \in Seq({x[i] : i \in 1 .. (n - 1)} \cup {SlotAt(L, d, n)})
    <3>1. n - 1 \in Nat
      OBVIOUS
    <3> DEFINE T == {x[i] : i \in 1 .. (n - 1)} \cup {SlotAt(L, d, n)}
    <3>2. x = [i \in 1 .. (n - 1) |-> SlotAt(L, d, i)]
      BY DEF SlotsUpTo
    <3>3. \A i \in 1 .. (n - 1) : x[i] \in T /\ x[i] = SlotAt(L, d, i)
      BY <3>2
    <3> HIDE DEF T
    <3>4. \A i \in 1 .. (n - 1) : SlotAt(L, d, i) \in T
      BY <3>3
    <3>5. x \in [1 .. (n - 1) -> T]
      BY <3>2, <3>4
    <3>6. x \in Seq(T)
      BY <3>1, <3>5
    <3>7. QED
      BY <3>6 DEF T
  <2> DEFINE T == {x[i] : i \in 1 .. (n - 1)} \cup {SlotAt(L, d, n)}
  <2>2. x \in Seq(T) /\ SlotAt(L, d, n) \in T
    BY <2>1
  <2> HIDE DEF T
  <2>3. y \in Seq(T) /\ Len(y) = n /\ y[n] = SlotAt(L, d, n) /\ \A i \in 1 .. (n - 1) : y[i] = x[i]
    BY <1>1, <2>2
  <2>4. DOMAIN y = 1 .. n /\ y \in [1 .. n -> T]
    BY ONLY <2>3, n \in Nat
  <2>5. QED
    BY <2>3, <2>4
<1>3. \A i \in 1 .. n : y[i] = SlotAt(L, d, i)
  <2> TAKE i \in 1 .. n
  <2>1. CASE i = n
    BY <1>2, <2>1
  <2>2. CASE i # n
    BY <1>1, <1>2, <2>2
  <2>3. QED
    BY <2>1, <2>2
<1>4. y = [i \in 1 .. n |-> SlotAt(L, d, i)]
  BY <1>2, <1>3
<1>5. (n + 1) - 1 = n
  OBVIOUS
<1>6. QED
  BY <1>4, <1>5 DEF SlotsUpTo

\* What the record says of a field behind a call that had the room for it.
Ready(leaf, s, c) ==
  /\ PlainLeaf(leaf) /\ Poised(s, c) /\ ~HasError(s.w)
  /\ DataPlace(s.w) <= c /\ c + Bytes(leaf) + 64 <= SizeMax

GoneOn(leaf, s, c, e, t) ==
  /\ Poised(t, c) /\ ~HasError(t.w) /\ t.w.header /\ t.w.pos = e
  /\ t.at = Append(s.at, DataAlign(DataPlace(s.w), FieldAlignment(leaf)))

LEMMA FieldBehind ==
  ASSUME NEW leaf, NEW s, NEW c, Ready(leaf, s, c), NEW e, NEW r, Advanced(s.w, r, c, e)
  PROVE  GoneOn(leaf, s, c, e, After(s, leaf, r))
<1> USE DEF Ready
<1> DEFINE x == s.w
           t == After(s, leaf, r)
           at == DataAlign(DataPlace(s.w), FieldAlignment(leaf))
<1>1. Open(x, c)
  BY DEF Poised, HasError, Open
<1>2. leaf \in AnyLeaf /\ Bytes(leaf) \in Nat /\ (Prefixed4(leaf) => FieldAlignment(leaf) = PrefixSize)
  BY LeafWidths, ConstrainedLeafFields DEF PlainLeaf
<1>3. c + 64 <= SizeMax
  BY <1>1, <1>2, CursorInSpan, SizeMaxAssumption DEF Open
<1>4. DataFrom(x, FieldAlignment(leaf)) = at
  BY <1>1, <1>3, DataFromPlace
<1>5. ValidAfter(x, r)
  BY DEF Advanced, Open, ValidAfter, Poised
<1>6. Poised(t, c) /\ t.w = r
  BY <1>2, <1>5, AfterPoised
<1>7. t.at = Append(s.at, at)
  <2>1. CASE Prefixed4(leaf)
    <3>1. t = Prefixed(s, r, Length(leaf, Actual(leaf))) /\ DataFrom(x, PrefixSize) = at
      BY <1>2, <1>4, <2>1 DEF After
    <3>2. QED
      BY <3>1 DEF Prefixed
  <2>2. CASE ~Prefixed4(leaf)
    <3>1. t = Unprefixed(s, r, FieldAlignment(leaf))
      BY <2>2 DEF After
    <3>2. s \in Serialized
      BY DEF Poised
    <3>3. QED
      BY <1>4, <3>1, <3>2 DEF Unprefixed, Serialized
  <2>3. QED
    BY <2>1, <2>2
<1>8. QED
  BY <1>6, <1>7 DEF Advanced, Open, HasError, GoneOn

\* The writer behind the header, whether it stores the field or skips it.
LEMMA LeafWrites ==
  ASSUME NEW leaf, PlainLeaf(leaf), NEW s, NEW c, Poised(s, c), ~HasError(s.w), s.w.header,
         c + Bytes(leaf) + 64 <= SizeMax,
         NEW at, at = DataAlign(s.w.pos, FieldAlignment(leaf)), at + UsedWidth(leaf) <= c,
         NEW t, t = SkipLeaf(s, leaf) \/ t = EmitLeaf(s, leaf)
  PROVE  ~HasError(t.w) /\ t.w.header /\ t.w.pos = at + UsedWidth(leaf) /\ t.at = Append(s.at, at)
<1> DEFINE x == s.w
           e == at + UsedWidth(leaf)
<1>1. Open(x, c) /\ x.header
  BY DEF Poised, HasError, Open
<1>2. leaf \in AnyLeaf /\ Bytes(leaf) \in Nat
  BY LeafWidths, ConstrainedLeafFields DEF PlainLeaf
<1>3. c + 64 <= SizeMax
  BY <1>1, <1>2, CursorInSpan, SizeMaxAssumption DEF Open
<1>4. x.pos <= c /\ DataPlace(x) = x.pos
  BY <1>1, <1>3, OpenCursor DEF DataPlace
<1>5. SkipLeaf(s, leaf) = After(s, leaf, SkipCall(x, leaf)) /\ EmitLeaf(s, leaf) = After(s, leaf, EmitCall(x, leaf))
  BY <1>2, LeafCalls
<1>12. e <= c /\ e = DataAlign(x.pos, FieldAlignment(leaf)) + UsedWidth(leaf)
       /\ e = DataAlign(DataPlace(x), FieldAlignment(leaf)) + UsedWidth(leaf)
  BY <1>4
<1>6. Advanced(x, SkipCall(x, leaf), c, e)
  <2> HIDE DEF x, e
  <2>1. QED
    BY <1>1, <1>12, SkipAdvances
<1>7. Advanced(x, EmitCall(x, leaf), c, e)
  <2> HIDE DEF x, e
  <2>1. QED
    BY <1>1, <1>12, EmitAdvances
<1>8. PICK r : Advanced(s.w, r, c, e) /\ t = After(s, leaf, r)
  BY <1>5, <1>6, <1>7
<1>9. Ready(leaf, s, c) /\ at = DataAlign(DataPlace(s.w), FieldAlignment(leaf))
  BY <1>4 DEF Ready
<1> HIDE DEF e, x
<1>10. GoneOn(leaf, s, c, e, t)
  BY <1>8, <1>9, FieldBehind
<1>11. QED
  BY <1>9, <1>10 DEF GoneOn, e

\* What every step of a plain message knows.
LEMMA TraversalFacts ==
  ASSUME PathInv, Plain, NEW L, L = Leaves(message), NEW c, Chain(c, L, Widths(L)), NEW d, Chain(d, L, Useds(L))
  PROVE  /\ PlainMessage(message) /\ L \in Seq(AnyLeaf) /\ Len(L) \in Nat
         /\ next \in Nat /\ next # 0 /\ next <= Len(L) + 1
         /\ c[0] = HeaderSize /\ d[0] = HeaderSize
         /\ \A i \in 1 .. Len(L) : PlainLeaf(L[i])
<1>1. PlainMessage(message)
  BY PlainIs
<1>2. L \in Seq(AnyLeaf) /\ Len(L) \in Nat /\ \A i \in 1 .. Len(L) : PlainLeaf(L[i])
  BY <1>1, PlainLeaves
<1>3. next \in 1 .. (Len(L) + 1)
  BY DEF PathInv, TypeOK
<1>4. QED
  BY <1>1, <1>2, <1>3 DEF Chain

LEMMA FillTraversed ==
  ASSUME PathInv, Plain, NEW L, L = Leaves(message), NEW c, Chain(c, L, Widths(L)), NEW d, Chain(d, L, Useds(L)),
         Traversed(L, c, d), Fill
  PROVE  Traversed(L, c, d)'
<1>1. /\ phase = "loaned" /\ phase' = "filled" /\ memory' = FoldLeft(Filled, memory, [i \in 1 .. Len(L) |-> i])
      /\ UNCHANGED <<message, layout, writer, emitFrom, next, region, received>>
  BY DEF Fill
<1>2. PlainMessage(message) /\ next = 1 /\ emitFrom = 0 /\ IsBlock(memory)
  BY <1>1, PlainIs DEF PathInv, Before
<1>3. /\ Places(message, layout) = [i \in 1 .. Len(L) |-> LeafPlace(L[i], SlotAt(L, c, i))]
      /\ BlockOf(memory, c[Len(L)])
  BY <1>1, LoanPlaces
<1>4. NumbersUpTo(memory, L, c, Len(L))
  BY <1>1, <1>2 DEF Traversed
<1> DEFINE y == memory'
<1>5. NumbersUpTo(y, L, c, Len(L)) /\ ContentsUpTo(y, L, c, Len(L))
  <2>1. y = FoldLeft(Filled, memory, [i \in 1 .. Len(L) |-> i])
    BY <1>1
  <2> HIDE DEF y
  <2>2. QED
    BY <1>2, <1>3, <1>4, <2>1, FillContents
<1>6. Ahead(y, L, c, 1)
  BY <1>5 DEF Ahead, ContentsUpTo
<1>7. QED
  BY <1>1, <1>2, <1>5, <1>6 DEF Traversed, NumbersUpTo, Ahead

LEMMA BeginTraversed ==
  ASSUME PathInv, Plain, NEW L, L = Leaves(message), NEW c, Chain(c, L, Widths(L)), NEW d, Chain(d, L, Useds(L)),
         Traversed(L, c, d), CompactMessageInPlace
  PROVE  Traversed(L, c, d)'
<1>1. /\ phase = "filled" /\ phase' = "compacting"
      /\ writer' = [NoWriter EXCEPT !.w = FixedSpanAt(layout.size, HeaderSize)]
      /\ UNCHANGED <<message, layout, memory, emitFrom, next, region, received>>
  BY DEF CompactMessageInPlace
<1>2. next = 1 /\ d[0] = HeaderSize /\ layout.size \in Nat /\ layout.size >= HeaderSize
  BY <1>1, PathFacts DEF PathInv, Before, Chain
<1> DEFINE s == writer'
<1>3. s.w.pos = HeaderSize /\ s.w.header /\ ~s.w.overflow /\ s.at = <<>>
  <2>1. s = [NoWriter EXCEPT !.w = FixedSpanAt(layout.size, HeaderSize)]
    BY <1>1
  <2> HIDE DEF s
  <2>2. QED
    BY <1>2, <2>1, SpanIsPoised
<1>4. SlotsUpTo(L, d, 1) = <<>>
  BY DEF SlotsUpTo
<1>5. WriterBehind(L, d)'
  BY <1>1, <1>2, <1>3, <1>4 DEF WriterBehind, HasError, SlotsUpTo
<1>6. Behind(memory, L, d, next)' /\ Full(L, next)'
  BY <1>1, <1>2 DEF Behind, Full
<1>7. Ahead(memory, L, c, next)' /\ (emitFrom = 0 => NumbersUpTo(memory, L, c, Len(L)))'
  BY <1>1 DEF Traversed, Ahead, NumbersUpTo
<1>8. QED
  BY <1>1, <1>5, <1>6, <1>7 DEF Traversed

LEMMA LeafTraversed ==
  ASSUME PathInv, Plain, NEW L, L = Leaves(message), NEW c, Chain(c, L, Widths(L)), NEW d, Chain(d, L, Useds(L)),
         Traversed(L, c, d), CompactLeaf
  PROVE  Traversed(L, c, d)'
<1> DEFINE n == next
           leaf == L[next]
           source == Places(message, layout)[next].content
           written == EmitLeaf(writer, leaf)
           skipped == SkipLeaf(writer, leaf)
           N == Len(L)
<1>1. /\ phase = "compacting" /\ next <= Len(Leaves(message)) /\ ~Violates(next)
      /\ emitFrom' = IF ~Emit /\ Undersized(leaf) THEN next ELSE emitFrom
      /\ writer' = IF emitFrom' # 0 THEN written ELSE skipped
      /\ memory' = IF emitFrom' # 0 /\ ~HasError(writer'.w)
                   THEN Rewritten(memory, Cursor(writer.w), next, leaf, source) ELSE memory
      /\ next' = next + 1
      /\ UNCHANGED <<phase, message, layout, region, received>>
  BY DEF CompactLeaf
<1>2. /\ PlainMessage(message) /\ N \in Nat /\ n \in Nat /\ n # 0 /\ n \in 1 .. N
      /\ \A i \in 1 .. N : PlainLeaf(L[i])
  BY <1>1, TraversalFacts
<1>3. PlainLeaf(leaf) /\ ~Oversized(leaf)
  BY <1>1, <1>2, VisitedFits
<1>4. /\ Ahead(memory, L, c, n) /\ Behind(memory, L, d, n) /\ (emitFrom = 0 => Full(L, n))
      /\ (emitFrom = 0 => NumbersUpTo(memory, L, c, N))
      /\ ~HasError(writer.w) /\ writer.w.header /\ writer.w.pos = d[n - 1] /\ writer.at = SlotsUpTo(L, d, n)
  BY <1>1 DEF Traversed, WriterBehind
<1>5. \A i \in 1 .. n : ~Oversized(L[i])
  <2>1. \A i \in 1 .. (n - 1) : ~Oversized(L[i])
    BY <1>4 DEF Behind
  <2>2. QED
    BY <1>2, <1>3, <2>1
<1>6. /\ layout.size = c[N] /\ BlockOf(memory, c[N]) /\ c[N] + Bytes(leaf) + 64 <= SizeMax
      /\ source = LeafPlace(L[n], SlotAt(L, c, n)).content
  <2>1. /\ layout.size = c[N] /\ BlockOf(memory, c[N])
        /\ Places(message, layout) = [i \in 1 .. N |-> LeafPlace(L[i], SlotAt(L, c, i))]
        /\ \A i \in 1 .. N : c[N] + Bytes(L[i]) + 64 <= SizeMax
    BY <1>1, LoanPlaces
  <2>2. QED
    BY <1>2, <2>1
<1> DEFINE at == SlotAt(L, d, n)
<1>7. /\ d[n - 1] \in Nat /\ d[n] = at + UsedWidth(leaf) /\ d[n] <= c[N] /\ at = DataAlign(d[n - 1], FieldAlignment(leaf))
      /\ d[n] \in Nat
  <2>1. d[n - 1] \in Nat /\ d[n] \in Nat /\ d[n] = at + UsedWidth(leaf) /\ d[n] <= c[n] /\ c[n] <= c[N]
        /\ c[n] \in Nat /\ c[N] \in Nat
    BY <1>2, <1>5, SlotsCompared
  <2>2. QED
    BY <2>1 DEF SlotAt
<1>8. Poised(writer, layout.size)
  BY <1>1 DEF PathInv, Before
<1>9. writer' = skipped \/ writer' = written
  BY <1>1
<1>10. /\ ~HasError(writer'.w) /\ writer'.w.header /\ writer'.w.pos = d[n] /\ writer'.at = Append(writer.at, at)
  <2> DEFINE room == layout.size
             t == writer'
  <2>1. at + UsedWidth(leaf) <= room /\ at = DataAlign(writer.w.pos, FieldAlignment(leaf))
        /\ room + Bytes(leaf) + 64 <= SizeMax /\ Poised(writer, room)
    BY <1>4, <1>6, <1>7, <1>8
  <2>2. t = SkipLeaf(writer, leaf) \/ t = EmitLeaf(writer, leaf)
    BY <1>9
  <2> HIDE DEF room, t, at, leaf, written, skipped
  <2>3. ~HasError(t.w) /\ t.w.header /\ t.w.pos = at + UsedWidth(leaf) /\ t.at = Append(writer.at, at)
    BY <1>3, <1>4, <2>1, <2>2, LeafWrites
  <2>4. QED
    BY <1>7, <2>3 DEF t
<1>11. Cursor(writer.w) = d[n - 1]
  BY <1>4, <1>8 DEF Poised, Cursor
<1> HIDE DEF written, skipped, source
<1>12. Ahead(memory', L, c, n + 1) /\ Behind(memory', L, d, n + 1)
       /\ (emitFrom' = 0 => Full(L, n + 1) /\ NumbersUpTo(memory', L, c, N))
  <2>1. CASE emitFrom' # 0
    <3> DEFINE y == memory'
    <3>1. y = Rewritten(memory, d[n - 1], n, L[n], LeafPlace(L[n], SlotAt(L, c, n)).content)
      BY <1>1, <1>6, <1>10, <1>11, <2>1
    <3> HIDE DEF y
    <3>2. ~Oversized(L[n]) /\ BlockOf(memory, c[Len(L)]) /\ n \in 1 .. Len(L)
      BY <1>2, <1>3, <1>6
    <3> HIDE DEF n, leaf, N
    <3>3. Ahead(y, L, c, n + 1) /\ Behind(y, L, d, n + 1)
      BY <1>2, <1>4, <3>1, <3>2, LeafMoves
    <3>4. QED
      BY <2>1, <3>3 DEF y
  <2>2. CASE emitFrom' = 0
    <3>1. emitFrom = 0 /\ ~Undersized(leaf) /\ memory' = memory
      BY <1>1, <1>2, <2>2 DEF Emit
    <3>2. Full(L, n + 1)
      <4>1. \A i \in 1 .. ((n + 1) - 1) : i = n \/ i \in 1 .. (n - 1)
        BY <1>2
      <4>2. Full(L, n)
        BY <1>4, <3>1
      <4>3. QED
        BY <3>1, <4>1, <4>2 DEF Full
    <3> DEFINE y == memory
    <3>3. ~Oversized(L[n]) /\ NumbersUpTo(y, L, c, Len(L)) /\ n \in 1 .. Len(L)
          /\ Ahead(y, L, c, n) /\ Behind(y, L, d, n)
      BY <1>2, <1>3, <1>4, <3>1
    <3> HIDE DEF n, leaf, N, y
    <3>4. Ahead(y, L, c, n + 1) /\ Behind(y, L, d, n + 1)
      BY <1>2, <3>2, <3>3, LeafStays
    <3>5. QED
      BY <3>1, <3>2, <3>3, <3>4 DEF y, N
  <2>3. QED
    BY <2>1, <2>2
<1>13. writer'.at = SlotsUpTo(L, d, n + 1)
  <2> HIDE DEF n
  <2>1. QED
    BY <1>2, <1>4, <1>10, SlotsGrow
<1>14. (n + 1) - 1 = n
  BY <1>2
<1>15. WriterBehind(L, d)'
  BY <1>1, <1>10, <1>13, <1>14 DEF WriterBehind, SlotsUpTo
<1>16. QED
  BY <1>1, <1>12, <1>15 DEF Traversed, Ahead, Behind, Full, NumbersUpTo

LEMMA FinishTraversed ==
  ASSUME PathInv, Plain, NEW L, L = Leaves(message), NEW c, Chain(c, L, Widths(L)), NEW d, Chain(d, L, Useds(L)),
         Traversed(L, c, d), FinishCompaction
  PROVE  Traversed(L, c, d)'
<1> DEFINE N == Len(L)
<1>1. /\ phase = "compacting" /\ next > Len(Leaves(message))
      /\ region' = IF ~Emit THEN layout.size
                   ELSE IF HasError(writer.w) THEN 0 ELSE BytesWritten(writer.w)
      /\ phase' = IF Emit /\ HasError(writer.w) THEN "failed" ELSE "sent"
      /\ UNCHANGED <<message, layout, memory, writer, emitFrom, next, received>>
  BY DEF FinishCompaction
<1>2. PlainMessage(message) /\ N \in Nat /\ next = N + 1 /\ next - 1 = N /\ c[0] = d[0]
  BY <1>1, TraversalFacts
<1>3. Behind(memory, L, d, next) /\ (emitFrom = 0 => Full(L, next)) /\ WriterBehind(L, d)
  BY <1>1 DEF Traversed
<1>4. region' = d[N] /\ phase' = "sent"
  <2>1. phase' = "sent"
    BY <1>1, <1>3 DEF WriterBehind
  <2>2. CASE Emit
    BY <1>1, <1>2, <1>3, <2>2 DEF WriterBehind, BytesWritten
  <2>3. CASE ~Emit
    <3>1. region' = c[N]
      BY <1>1, <2>3, LoanPlaces
    <3>2. CASE N = 0
      BY <1>2, <2>1, <3>1, <3>2
    <3>3. CASE N # 0
      <4>1. N \in 1 .. Len(L) /\ \A i \in 1 .. N : ~Oversized(L[i]) /\ ~Undersized(L[i])
        BY <1>2, <1>3, <2>3, <3>3 DEF Behind, Full, Emit
      <4> HIDE DEF N
      <4>2. d[N] = c[N]
        BY <1>2, <4>1, SlotsCompared
      <4>3. QED
        BY <2>1, <3>1, <4>2
    <3>4. QED
      BY <3>2, <3>3
  <2>4. QED
    BY <2>1, <2>2, <2>3
<1>5. /\ Behind(memory, L, d, next)' /\ (emitFrom = 0 => Full(L, next))' /\ WriterBehind(L, d)'
  BY <1>1, <1>3 DEF Behind, Full, WriterBehind, SlotsUpTo
<1>6. QED
  BY <1>1, <1>2, <1>4, <1>5 DEF Traversed

LEMMA TraversalStep ==
  ASSUME PathInv, PathInv', TraversalInv, [Next]_vars
  PROVE  TraversalInv'
<1> SUFFICES ASSUME Plain'
             PROVE  Traversed(Leaves(message), Ends(Leaves(message), Widths(Leaves(message))),
                              Ends(Leaves(message), Useds(Leaves(message))))'
  BY DEF TraversalInv
<1>1. CASE DefineMember
  BY <1>1 DEF DefineMember, Traversed
<1>2. CASE phase = "defining" /\ UNCHANGED vars
  BY <1>2 DEF vars, Traversed
<1>3. CASE ConstructMessageAt
  <2> DEFINE L == Leaves(message)
             c == Ends(L, Widths(L))
             d == Ends(L, Useds(L))
  <2>1. /\ phase' = "loaned" /\ layout' = LayoutOf(message) /\ memory' = Apply(layout')
        /\ UNCHANGED <<message, writer, emitFrom, next, region, received>>
    BY <1>3 DEF ConstructMessageAt
  <2>2. Plain
    BY <2>1 DEF Plain, NoWideSequence, NoStrings, AllChecked, NestedAligned, NestedInBounds
  <2>3. PlainMessage(message)
    BY <2>2, PlainIs
  <2>4. Chain(c, L, Widths(L))
    BY <2>3, PlainLeaves
  <2>5. NumbersUpTo(memory', L, c, Len(L))
    <3> HIDE DEF c
    <3>1. NumbersUpTo(Apply(LayoutOf(message)), L, c, Len(L))
      BY <2>3, <2>4, ApplyNumbers
    <3>2. memory' = Apply(LayoutOf(message))
      BY <2>1
    <3>3. QED
      BY <3>1, <3>2
  <2> HIDE DEF L, c, d
  <2>6. Traversed(L, c, d)'
    BY <2>1, <2>5 DEF Traversed, NumbersUpTo, L, c, d
  <2>7. QED
    BY <2>1, <2>6 DEF L, c, d
<1>4. CASE Fill \/ CompactMessageInPlace \/ RefuseLeaf \/ CompactLeaf \/ FinishCompaction
           \/ CastMessageAt \/ DeserializeMessageFrom \/ (phase # "defining" /\ UNCHANGED vars)
  <2>1. message' = message /\ phase # "defining"
    BY <1>4 DEF Fill, CompactMessageInPlace, RefuseLeaf, CompactLeaf, FinishCompaction,
                CastMessageAt, DeserializeMessageFrom, vars
  <2>2. Plain
    BY <2>1 DEF Plain, NoWideSequence, NoStrings, AllChecked, NestedAligned, NestedInBounds
  <2>3. PICK L : L = Leaves(message)
    OBVIOUS
  <2>4. PICK c : c = Ends(L, Widths(L))
    OBVIOUS
  <2>5. PICK d : d = Ends(L, Useds(L))
    OBVIOUS
  <2>6. Chain(c, L, Widths(L)) /\ Chain(d, L, Useds(L))
    BY <2>2, <2>3, <2>4, <2>5, PlainIs, PlainLeaves
  <2>7. Traversed(L, c, d)
    BY <2>2, <2>3, <2>4, <2>5 DEF TraversalInv
  <2>8. Traversed(L, c, d)'
    <3>1. CASE Fill
      BY <2>2, <2>3, <2>6, <2>7, <3>1, FillTraversed
    <3>2. CASE CompactMessageInPlace
      BY <2>2, <2>3, <2>6, <2>7, <3>2, BeginTraversed
    <3>3. CASE RefuseLeaf
      BY <3>3 DEF RefuseLeaf, Traversed
    <3>4. CASE CompactLeaf
      BY <2>2, <2>3, <2>6, <2>7, <3>4, LeafTraversed
    <3>5. CASE FinishCompaction
      BY <2>2, <2>3, <2>6, <2>7, <3>5, FinishTraversed
    <3>6. CASE CastMessageAt \/ DeserializeMessageFrom
      <4>1. /\ phase = "sent" /\ phase' = "received"
            /\ UNCHANGED <<message, layout, memory, writer, emitFrom, next, region>>
        BY <3>6 DEF CastMessageAt, DeserializeMessageFrom
      <4>2. QED
        BY <2>7, <4>1 DEF Traversed, WriterBehind, Behind, Full, SlotsUpTo
    <3>7. CASE UNCHANGED vars
      BY <2>7, <3>7 DEF vars, Traversed, WriterBehind, Ahead, Behind, Full, SlotsUpTo, NumbersUpTo
    <3>8. QED
      BY <1>4, <3>1, <3>2, <3>3, <3>4, <3>5, <3>6, <3>7
  <2>9. L = Leaves(message)' /\ c = Ends(L, Widths(L)) /\ d = Ends(L, Useds(L))
    BY <2>1, <2>3, <2>4, <2>5
  <2>10. QED
    BY <2>8, <2>9
<1>5. QED
  BY <1>1, <1>2, <1>3, <1>4 DEF Next

TraversedAlong == PathInv /\ TraversalInv

LEMMA TraversedAlways == Spec => []TraversedAlong
<1>1. Init => TraversedAlong
  <2>1. ASSUME Init PROVE TraversalInv
    BY <2>1 DEF Init, TraversalInv, Traversed
  <2>2. QED
    BY <2>1, PathStarts DEF TraversedAlong
<1>2. TraversedAlong /\ [Next]_vars => TraversedAlong'
  BY PathStep, TraversalStep DEF TraversedAlong
<1>3. QED
  BY <1>1, <1>2, PTL DEF Spec

(***************************************************************************)
(* The rewrite moves data towards the front of the block it reads from: no *)
(* store of it destroys a field of a plain message that the traversal has  *)
(* not reached.                                                            *)
(***************************************************************************)
THEOREM RewriteSparesAhead == Spec => []RewriteSparesTheRest
<1>1. TraversedAlong => RewriteSparesTheRest
  <2> SUFFICES ASSUME TraversedAlong, phase \in {"filled", "compacting"}, Plain,
                      NEW i \in LeafIndices, i >= next, ~Oversized(Leaves(message)[i])
               PROVE  ContentAt(memory, i, Leaves(message)[i], Places(message, layout)[i].content)
    BY DEF RewriteSparesTheRest
  <2> DEFINE L == Leaves(message)
             c == Ends(L, Widths(L))
             d == Ends(L, Useds(L))
  <2>1. Chain(c, L, Widths(L)) /\ Len(L) \in Nat
    BY PlainIs, PlainLeaves DEF TraversedAlong
  <2>2. Ahead(memory, L, c, next)
    BY DEF TraversedAlong, TraversalInv, Traversed
  <2>3. Places(message, layout) = [q \in 1 .. Len(L) |-> LeafPlace(L[q], SlotAt(L, c, q))]
    <3> HIDE DEF c
    <3>1. QED
      BY <2>1, LoanPlaces DEF TraversedAlong
  <2>4. next \in Nat /\ i \in 1 .. Len(L) /\ i \in next .. Len(L)
    <3>1. next \in Nat
      BY PathFacts DEF TraversedAlong
    <3>2. QED
      BY <2>1, <3>1 DEF LeafIndices
  <2> HIDE DEF c
  <2>5. QED
    BY <2>2, <2>3, <2>4 DEF Ahead
<1>2. QED
  BY <1>1, TraversedAlways, PTL

--------------------------------------------------------------------------------
(* What serialize_message_into() does with a plain message *)

\* The prefixes of s are those of its first i fields.
WiredUpTo(s, L, d, i) ==
  \A p \in DOMAIN s.wire :
    \E q \in 1 .. i : /\ Prefixed4(L[q]) /\ p = SlotAt(L, d, q)
                      /\ s.wire[p] = Number(L[q], Actual(L[q]))

\* s is the record once the first i fields are written.
WroteUpTo(s, L, d, c, i) ==
  /\ Poised(s, c) /\ ~HasError(s.w) /\ DataPlace(s.w) = d[i]
  /\ s.at = SlotsUpTo(L, d, i + 1) /\ (i # 0 => s.w.header)
  /\ WiredUpTo(s, L, d, i)

\* A span that the fields fit in, and that leaves size_t room for any of them.
Suffices(L, d, c) ==
  c \in Nat /\ d[Len(L)] <= c /\ \A i \in 1 .. Len(L) : c + Bytes(L[i]) + 64 <= SizeMax

Sending(L, d, c) ==
  (\E msg : PlainMessage(msg) /\ L = Leaves(msg)) /\ Chain(d, L, Useds(L)) /\ Suffices(L, d, c)

LEMMA FieldWired ==
  ASSUME NEW L, NEW d, NEW i \in Nat, i # 0, NEW s, s \in Serialized, WiredUpTo(s, L, d, i - 1),
         DataFrom(s.w, FieldAlignment(L[i])) = SlotAt(L, d, i),
         Prefixed4(L[i]) => FieldAlignment(L[i]) = PrefixSize, NEW r, NEW t, t = After(s, L[i], r)
  PROVE  WiredUpTo(t, L, d, i)
<1> DEFINE leaf == L[i]
           at == SlotAt(L, d, i)
           n == Number(leaf, Actual(leaf))
<1>1. ASSUME NEW p \in DOMAIN s.wire
      PROVE  \E q \in 1 .. i : /\ Prefixed4(L[q]) /\ p = SlotAt(L, d, q)
                               /\ s.wire[p] = Number(L[q], Actual(L[q]))
  BY DEF WiredUpTo
<1>2. i \in 1 .. i
  OBVIOUS
<1>3. CASE Prefixed4(leaf)
  <2>1. /\ t = Prefixed(s, r, Length(leaf, Actual(leaf))) /\ DataFrom(s.w, PrefixSize) = at
        /\ n = AsUint32(Length(leaf, Actual(leaf)))
    BY <1>3 DEF After, Number
  <2>2. t.wire = [p \in DOMAIN s.wire \cup {at} |-> IF p = at THEN n ELSE s.wire[p]]
    BY <2>1 DEF Prefixed
  <2>3. ASSUME NEW p \in DOMAIN t.wire
        PROVE  \E q \in 1 .. i : /\ Prefixed4(L[q]) /\ p = SlotAt(L, d, q)
                                 /\ t.wire[p] = Number(L[q], Actual(L[q]))
    <3>1. CASE p = at
      BY <1>2, <1>3, <2>2, <3>1
    <3>2. CASE p # at
      <4>1. p \in DOMAIN s.wire /\ t.wire[p] = s.wire[p]
        BY <2>2, <3>2
      <4>2. QED
        BY <1>1, <4>1
    <3>3. QED
      BY <3>1, <3>2
  <2>4. QED
    BY <2>3 DEF WiredUpTo
<1>4. CASE ~Prefixed4(leaf)
  <2>1. t = Unprefixed(s, r, FieldAlignment(leaf))
    BY <1>4 DEF After
  <2>2. t.wire = s.wire
    BY <2>1 DEF Unprefixed, Serialized
  <2>3. QED
    BY <1>1, <2>2 DEF WiredUpTo
<1>5. QED
  BY <1>3, <1>4

LEMMA FieldWritten ==
  ASSUME NEW L, NEW d, NEW c, Sending(L, d, c), NEW i \in 1 .. Len(L), NEW s, WroteUpTo(s, L, d, c, i - 1)
  PROVE  WroteUpTo(WriteLeaf(s, L[i]), L, d, c, i)
<1> DEFINE leaf == L[i]
           at == SlotAt(L, d, i)
           e == d[i]
<1>0. Chain(d, L, Useds(L)) /\ Suffices(L, d, c)
  BY DEF Sending
<1> PICK msg : PlainMessage(msg) /\ L = Leaves(msg)
  BY DEF Sending
<1>1. /\ PlainLeaf(leaf) /\ leaf \in AnyLeaf /\ L \in Seq(AnyLeaf) /\ Useds(L) \in [1 .. Len(L) -> Nat]
      /\ Useds(L)[i] = UsedWidth(leaf) /\ Len(L) \in Nat /\ leaf.kind # "count"
  <2>1. PlainLeaf(leaf)
    BY PlainLeaves
  <2>2. leaf.kind # "count"
    BY <2>1, ConstrainedLeafFields DEF PlainLeaf
  <2>3. QED
    BY <2>1, <2>2, PlainLeaves
<1>2. i - 1 \in Nat /\ i \in Nat /\ i # 0 /\ (i - 1) + 1 = i
  BY <1>1
<1>3. at \in Nat /\ e \in Nat /\ e = at + UsedWidth(leaf) /\ e <= d[Len(L)] /\ d[Len(L)] \in Nat
  BY <1>0, <1>1, ChainOrder
<1>4. e <= c /\ d[i - 1] \in Nat /\ d[i - 1] <= e /\ e \in Nat
  <2>1. d[i - 1] \in Nat /\ d[i - 1] <= at /\ at <= e
    BY <1>0, <1>1, ChainGrows
  <2>2. QED
    BY <1>0, <1>3, <2>1 DEF Suffices
<1>5. /\ Poised(s, c) /\ ~HasError(s.w) /\ DataPlace(s.w) = d[i - 1]
      /\ s.at = SlotsUpTo(L, d, i) /\ WiredUpTo(s, L, d, i - 1)
  BY <1>2 DEF WroteUpTo
<1>6. at = DataAlign(DataPlace(s.w), FieldAlignment(leaf))
  BY <1>5 DEF SlotAt
<1>7. c \in Nat /\ c + Bytes(leaf) + 64 <= SizeMax
  BY <1>0 DEF Suffices
<1>8. Open(s.w, c)
  BY <1>5 DEF Poised, HasError, Open
<1>9. e = DataAlign(DataPlace(s.w), FieldAlignment(leaf)) + UsedWidth(leaf)
  BY <1>3, <1>6
<1>10. WriteLeaf(s, leaf) = After(s, leaf, EmitCall(s.w, leaf))
  BY <1>1, LeafCalls DEF EmitLeaf
<1> HIDE DEF leaf, e
<1>11. Advanced(s.w, EmitCall(s.w, leaf), c, e)
  BY <1>1, <1>4, <1>7, <1>8, <1>9, EmitAdvances
<1>12. Ready(leaf, s, c)
  BY <1>1, <1>3, <1>4, <1>5, <1>7 DEF Ready
<1>13. GoneOn(leaf, s, c, e, WriteLeaf(s, leaf))
  BY <1>10, <1>11, <1>12, FieldBehind
<1> DEFINE t == WriteLeaf(s, leaf)
<1>14. Poised(t, c) /\ ~HasError(t.w) /\ t.w.header /\ t.w.pos = e /\ t.at = Append(s.at, at)
  BY <1>6, <1>13 DEF GoneOn
<1> HIDE DEF t
<1>15. t.at = SlotsUpTo(L, d, i + 1)
  BY <1>2, <1>5, <1>14, SlotsGrow
<1>16. DataPlace(t.w) = d[i]
  BY <1>14 DEF DataPlace, e
<1>20. WiredUpTo(t, L, d, i)
  <2>1. FieldAlignment(leaf) \in PrimitiveSizes /\ (Prefixed4(leaf) => FieldAlignment(leaf) = PrefixSize)
        /\ Bytes(leaf) \in Nat
    BY <1>1, LeafWidths
  <2>2. c + 64 <= SizeMax
    BY <1>7, <2>1, SizeMaxAssumption
  <2>3. DataFrom(s.w, FieldAlignment(leaf)) = at
    <3>1. DataPlace(s.w) <= c
      BY <1>4, <1>5, <1>7
    <3>2. QED
      BY <1>6, <1>8, <2>2, <3>1, DataFromPlace
  <2>4. t = After(s, leaf, EmitCall(s.w, leaf)) /\ s \in Serialized
    BY <1>5, <1>10 DEF t, Poised
  <2>5. QED
    BY <1>2, <1>5, <2>1, <2>3, <2>4, FieldWired DEF leaf
<1>17. WroteUpTo(t, L, d, c, i)
  BY <1>14, <1>15, <1>16, <1>20 DEF WroteUpTo
<1>18. WroteUpTo(WriteLeaf(s, L[i]), L, d, c, i)
  BY <1>17 DEF t, leaf
<1>19. QED
  BY <1>18

\* A plain member's fields are those the codec knows.
LEMMA PlainMember ==
  ASSUME NEW msg, PlainMessage(msg), NEW L, L = Leaves(msg), NEW st, Starts(st, MemberLeaves(msg)),
         NEW k \in 1 .. Len(msg)
  PROVE  /\ msg[k] \in MemberType /\ st[k - 1] \in Nat /\ st[k] = st[k - 1] + Len(LeavesOf(msg[k]))
         /\ \A j \in 1 .. Len(LeavesOf(msg[k])) : /\ st[k - 1] + j \in 1 .. Len(L)
                                                  /\ L[st[k - 1] + j] = LeavesOf(msg[k])[j]
         /\ \/ msg[k] \in LeafType /\ msg[k].kind \notin {"nested", "nestedSequence", "strings"}
               /\ LeavesOf(msg[k]) = <<msg[k]>> /\ L[st[k]] = msg[k] /\ st[k] \in 1 .. Len(L) /\ st[k] - 1 = st[k - 1]
            \/ msg[k].kind = "nested" /\ msg[k].fields \in Seq(LeafType) /\ LeavesOf(msg[k]) = msg[k].fields
<1> DEFINE m == msg[k]
<1>1. AlignedMessage(msg) /\ msg \in Seq(ConstrainedMember)
  BY PlainLeaves
<1>2. /\ st[k - 1] \in Nat /\ st[k] = st[k - 1] + Len(LeavesOf(m))
      /\ \A j \in 1 .. Len(LeavesOf(m)) : st[k - 1] + j \in 1 .. Len(L) /\ L[st[k - 1] + j] = LeavesOf(m)[j]
  BY <1>1, LeafAt
<1>3. \/ m \in ConstrainedLeaf /\ m.kind # "nested" /\ LeavesOf(m) = <<m>>
      \/ m.kind = "nested" /\ m.fields \in Seq(ConstrainedLeaf) /\ m.fields # <<>> /\ LeavesOf(m) = m.fields
  BY <1>1, AlignedMembers
<1>4. m \in ConstrainedMember
  BY <1>1
<1> HIDE DEF m
<1>5. CASE m \in ConstrainedLeaf /\ m.kind # "nested" /\ LeavesOf(m) = <<m>>
  <2>1. m \in LeafType /\ m.kind \notin {"nested", "nestedSequence", "strings"}
    BY <1>5, ConstrainedLeafFields
  <2>2. m \in MemberType
    BY <2>1 DEF MemberType
  <2>3. Len(LeavesOf(m)) = 1 /\ LeavesOf(m)[1] = m
    BY <1>5
  <2>4. st[k] = st[k - 1] + 1 /\ st[k] - 1 = st[k - 1]
    BY <1>2, <2>3
  <2>5. st[k] \in 1 .. Len(L) /\ L[st[k]] = m
    BY <1>2, <2>3, <2>4
  <2>6. QED
    BY <1>2, <1>5, <2>1, <2>2, <2>4, <2>5 DEF m
<1>6. CASE m.kind = "nested" /\ m.fields \in Seq(ConstrainedLeaf) /\ m.fields # <<>> /\ LeavesOf(m) = m.fields
  <2>1. m.fields \in Seq(LeafType)
    <3>1. \A q \in 1 .. Len(m.fields) : m.fields[q] \in LeafType
      BY <1>6, ConstrainedLeafFields
    <3>2. QED
      BY <1>6, <3>1
  <2>2. m \in [kind : {"nested"}, fields : Seq(LeafType) \ {<<>>}]
    <3>1. m = [kind |-> "nested", fields |-> m.fields]
      BY <1>4, <1>6, ConstrainedLeafFields DEF ConstrainedMember
    <3>2. QED
      BY <1>6, <2>1, <3>1
  <2>3. m \in MemberType
    BY <2>2 DEF MemberType
  <2>4. QED
    BY <1>2, <1>6, <2>1, <2>3 DEF m
<1>7. QED
  BY <1>3, <1>5, <1>6

LEMMA NestedWrittenAlong ==
  ASSUME NEW L, NEW d, NEW c, Sending(L, d, c), NEW a \in Nat, NEW m, m.fields \in Seq(LeafType),
         \A j \in 1 .. Len(m.fields) : a + j \in 1 .. Len(L) /\ L[a + j] = m.fields[j],
         NEW g, NestedSteps(g, Serialized, g[0], m), WroteUpTo(g[0], L, d, c, a)
  PROVE  WroteUpTo(g[Len(m.fields)], L, d, c, a + Len(m.fields))
<1> DEFINE n == Len(m.fields)
           W == {k \in Nat : k <= n => WroteUpTo(g[k], L, d, c, a + k)}
<1>1. n \in Nat /\ a + 0 = a
  OBVIOUS
<1>2. 0 \in W
  BY <1>1
<1>3. ASSUME NEW k \in Nat, k \in W PROVE k + 1 \in W
  <2> SUFFICES ASSUME k + 1 <= n PROVE WroteUpTo(g[k + 1], L, d, c, a + (k + 1))
    OBVIOUS
  <2>1. k + 1 \in 1 .. n /\ (k + 1) - 1 = k /\ (a + (k + 1)) - 1 = a + k /\ k <= n
    BY <1>1
  <2>2. WroteUpTo(g[k], L, d, c, a + k)
    BY <1>3, <2>1
  <2>3. a + (k + 1) \in 1 .. Len(L) /\ L[a + (k + 1)] = m.fields[k + 1]
    BY <2>1
  <2>4. g[k + 1] = WriteLeaf(g[k], m.fields[k + 1])
    BY <2>1 DEF NestedSteps
  <2> DEFINE i == a + (k + 1)
             s == g[k]
  <2>5. WroteUpTo(s, L, d, c, i - 1) /\ i \in 1 .. Len(L)
    BY <2>1, <2>2, <2>3
  <2> HIDE DEF i, s
  <2>6. WroteUpTo(WriteLeaf(s, L[i]), L, d, c, i)
    BY <2>5, FieldWritten
  <2>7. QED
    BY <2>3, <2>4, <2>6 DEF i, s
<1> HIDE DEF W
<1>4. Nat \subseteq W
  BY <1>2, <1>3, SetInduction
<1>5. QED
  BY <1>1, <1>4 DEF W

\* A field that Suffices speaks of is small enough to be written.
LEMMA FieldsAreSmall ==
  ASSUME NEW L, NEW d, NEW c, Sending(L, d, c)
  PROVE  /\ c \in Nat /\ Len(L) \in Nat /\ d[Len(L)] <= c
         /\ \A i \in 1 .. Len(L) : Small(L[i], c) /\ c + 64 <= SizeMax
<1>1. c \in Nat /\ d[Len(L)] <= c /\ \A i \in 1 .. Len(L) : c + Bytes(L[i]) + 64 <= SizeMax
  BY DEF Sending, Suffices
<1> PICK msg : PlainMessage(msg) /\ L = Leaves(msg)
  BY DEF Sending
<1>2. Len(L) \in Nat /\ \A i \in 1 .. Len(L) : PlainLeaf(L[i])
  BY PlainLeaves
<1>3. ASSUME NEW i \in 1 .. Len(L) PROVE Small(L[i], c) /\ c + 64 <= SizeMax
  <2> DEFINE leaf == L[i]
  <2>1. PlainLeaf(leaf) /\ c + Bytes(leaf) + 64 <= SizeMax
    BY <1>1, <1>2
  <2> HIDE DEF leaf
  <2>2. Bytes(leaf) \in Nat
    BY <2>1, LeafWidths
  <2>3. leaf.kind \in {"array", "sequence"} => Bytes(leaf) = leaf.size * leaf.count
    BY DEF Bytes
  <2>4. Small(leaf, c)
    BY <2>1, <2>3 DEF Small
  <2>5. c + 64 <= SizeMax
    BY <1>1, <2>1, <2>2, SizeMaxAssumption
  <2>6. QED
    BY <2>4, <2>5 DEF leaf
<1>4. QED
  BY <1>1, <1>2, <1>3

LEMMA MemberWrittenAlong ==
  ASSUME NEW msg, PlainMessage(msg), NEW L, L = Leaves(msg), NEW st, Starts(st, MemberLeaves(msg)),
         NEW k \in 1 .. Len(msg), NEW d, NEW c, Sending(L, d, c),
         NEW s, WroteUpTo(s, L, d, c, st[k - 1])
  PROVE  WroteUpTo(WriteMember(s, msg[k]), L, d, c, st[k])
<1> DEFINE m == msg[k]
           a == st[k - 1]
           b == st[k]
<1>1. /\ m \in MemberType /\ a \in Nat /\ b = a + Len(LeavesOf(m))
      /\ \A j \in 1 .. Len(LeavesOf(m)) : a + j \in 1 .. Len(L) /\ L[a + j] = LeavesOf(m)[j]
      /\ \/ m \in LeafType /\ m.kind \notin {"nested", "nestedSequence", "strings"}
            /\ L[b] = m /\ b \in 1 .. Len(L) /\ b - 1 = a
         \/ m.kind = "nested" /\ m.fields \in Seq(LeafType) /\ LeavesOf(m) = m.fields
  BY PlainMember
<1>2. /\ c \in Nat /\ Len(L) \in Nat
      /\ \A i \in 1 .. Len(L) : Small(L[i], c) /\ c + 64 <= SizeMax
  BY FieldsAreSmall
<1>3. WroteUpTo(s, L, d, c, a)
  OBVIOUS
<1> HIDE DEF m, a, b
<1>4. CASE /\ m \in LeafType /\ m.kind \notin {"nested", "nestedSequence", "strings"}
           /\ L[b] = m /\ b \in 1 .. Len(L) /\ b - 1 = a
  <2>1. WriteMember(s, m) = WriteLeaf(s, L[b])
    BY <1>4 DEF WriteMember
  <2>2. WroteUpTo(s, L, d, c, b - 1) /\ b \in 1 .. Len(L)
    BY <1>3, <1>4
  <2>3. WroteUpTo(WriteLeaf(s, L[b]), L, d, c, b)
    BY <2>2, FieldWritten
  <2>4. QED
    BY <2>1, <2>3 DEF m, b
<1>5. CASE m.kind = "nested" /\ m.fields \in Seq(LeafType) /\ LeavesOf(m) = m.fields
  <2>1. WriteMember(s, m) = WriteNested(s, m)
    BY <1>5 DEF WriteMember
  <2>2. /\ \A j \in 1 .. Len(m.fields) : a + j \in 1 .. Len(L) /\ L[a + j] = m.fields[j]
        /\ b = a + Len(m.fields)
    BY <1>1, <1>5
  <2>3. s \in Serialized
    BY <1>3 DEF WroteUpTo, Poised
  <2>4. NestedStays(Serialized, m)
    BY <1>5, LeafSerialized DEF NestedStays
  <2>5. PICK g : NestedSteps(g, Serialized, s, m)
    BY <1>5, <2>3, <2>4, NestedTrace
  <2>6. g[0] = s /\ WriteNested(s, m) = g[Len(m.fields)]
    BY <2>5 DEF NestedSteps
  <2>7. NestedSteps(g, Serialized, g[0], m) /\ WroteUpTo(g[0], L, d, c, a) /\ a \in Nat
    BY <1>1, <1>3, <2>5, <2>6
  <2>8. WroteUpTo(g[Len(m.fields)], L, d, c, a + Len(m.fields))
    BY <1>5, <2>2, <2>7, NestedWrittenAlong
  <2>9. QED
    BY <2>1, <2>2, <2>6, <2>8 DEF m, b
<1>6. QED
  BY <1>1, <1>4, <1>5

\* The lengths of the fields fit their prefixes.
Fitting(L) == \A i \in 1 .. Len(L) : Prefixed4(L[i]) => Length(L[i], Actual(L[i])) <= NumberMax

LEMMA PlainLeafFits ==
  ASSUME NEW leaf, PlainLeaf(leaf), Prefixed4(leaf) => Length(leaf, Actual(leaf)) <= NumberMax
  PROVE  LeafFits(leaf)
<1>1. leaf.kind \in {"primitive", "array", "string", "sequence"}
  BY ConstrainedLeafFields DEF PlainLeaf
<1>2. QED
  BY <1>1 DEF LeafFits, Prefixed4, Length, Actual

\* serialize_message_into(), member by member: the first st[k] fields after k members.
WrittenPath(g, st, msg, L, d, c) ==
  /\ msg \in Seq(MemberType) /\ Len(msg) \in Nat /\ c \in Nat /\ c + 64 <= SizeMax
  /\ \A k \in 1 .. Len(msg) : /\ SmallMember(msg[k], c) /\ NoWideEmpty(msg[k])
                              /\ Fitting(L) => PrefixesFit(msg[k])
  /\ MessagePath(g, msg, c) /\ SerializeInto(msg, c) = g[Len(msg)]
  /\ \A k \in 0 .. Len(msg) : WroteUpTo(g[k], L, d, c, st[k]) /\ st[k] \in 0 .. Len(L)
  /\ st[Len(msg)] = Len(L)

LEMMA PathWritten ==
  ASSUME NEW msg, PlainMessage(msg), NEW L, L = Leaves(msg), Len(L) # 0, NEW d, NEW c, Sending(L, d, c)
  PROVE  \E g, st : WrittenPath(g, st, msg, L, d, c)
<1> DEFINE n == Len(msg)
<1>1. /\ msg \in Seq(ConstrainedMember) /\ n \in Nat /\ Len(MemberLeaves(msg)) = n
      /\ MemberLeaves(msg) \in Seq(Seq(AnyLeaf))
  BY PlainLeaves, MemberLeavesType
<1>2. PICK st : Starts(st, MemberLeaves(msg))
  BY <1>1, StartsExist
<1>3. st[0] = 0 /\ st[n] = Len(L) /\ \A k \in 0 .. n : st[k] \in 0 .. Len(L)
  BY <1>1, <1>2, LeafAt DEF Starts
<1>4. /\ c \in Nat /\ Len(L) \in Nat /\ 1 \in 1 .. Len(L)
      /\ \A i \in 1 .. Len(L) : Small(L[i], c)
  BY FieldsAreSmall
<1>5. c + 64 <= SizeMax
  BY <1>4, FieldsAreSmall
<1>0. \A i \in 1 .. Len(L) : ~WideEmpty(L[i])
  <2>1. \A i \in 1 .. Len(L) : PlainLeaf(L[i])
    BY PlainLeaves
  <2>2. ASSUME NEW leaf, PlainLeaf(leaf) PROVE ~WideEmpty(leaf)
    <3>1. SUFFICES ASSUME leaf.kind = "sequence", leaf.size > PrefixSize PROVE FALSE
      BY DEF WideEmpty
    <3>2. leaf.size <= PrefixSize /\ leaf.size \in Nat
      <4>1. leaf.size \in PrimitiveSizes
        BY <2>2, <3>1 DEF PlainLeaf, ConstrainedLeaf
      <4>2. leaf.size <= PrefixSize
        BY <2>2, <3>1 DEF PlainLeaf
      <4>3. QED
        BY <4>1, <4>2 DEF PrimitiveSizes
    <3>3. QED
      BY <3>1, <3>2 DEF PrefixSize
  <2>3. QED
    BY <2>1, <2>2
<1>18. ASSUME Fitting(L) PROVE \A i \in 1 .. Len(L) : LeafFits(L[i])
  <2> TAKE i \in 1 .. Len(L)
  <2>1. PlainLeaf(L[i])
    BY PlainLeaves
  <2>2. Prefixed4(L[i]) => Length(L[i], Actual(L[i])) <= NumberMax
    BY <1>18 DEF Fitting
  <2>3. QED
    BY <2>1, <2>2, PlainLeafFits
<1>6. ASSUME NEW k \in 1 .. n
      PROVE  /\ msg[k] \in MemberType /\ SmallMember(msg[k], c) /\ NoWideEmpty(msg[k])
             /\ Fitting(L) => PrefixesFit(msg[k])
  <2> DEFINE m == msg[k]
             a == st[k - 1]
             b == st[k]
  <2>1. /\ m \in MemberType /\ a \in Nat
        /\ \A j \in 1 .. Len(LeavesOf(m)) : a + j \in 1 .. Len(L) /\ L[a + j] = LeavesOf(m)[j]
        /\ \/ m.kind \notin {"nested", "nestedSequence", "strings"} /\ L[b] = m /\ b \in 1 .. Len(L)
           \/ m.kind = "nested" /\ LeavesOf(m) = m.fields
    <3>1. /\ msg[k] \in MemberType /\ st[k - 1] \in Nat
          /\ \A j \in 1 .. Len(LeavesOf(msg[k])) : /\ st[k - 1] + j \in 1 .. Len(L)
                                                   /\ L[st[k - 1] + j] = LeavesOf(msg[k])[j]
      BY <1>2, PlainMember
    <3>2. \/ msg[k].kind \notin {"nested", "nestedSequence", "strings"} /\ L[st[k]] = msg[k] /\ st[k] \in 1 .. Len(L)
          \/ msg[k].kind = "nested" /\ LeavesOf(msg[k]) = msg[k].fields
      BY <1>2, PlainMember
    <3>3. QED
      BY <3>1, <3>2
  <2> HIDE DEF m, a, b
  <2>2. CASE m.kind \notin {"nested", "nestedSequence", "strings"} /\ L[b] = m /\ b \in 1 .. Len(L)
    <3>1. SmallMember(m, c)
      BY <1>4, <2>1, <2>2 DEF SmallMember
    <3>2. NoWideEmpty(m)
      BY <1>0, <2>2 DEF NoWideEmpty, Fields, IsNested
    <3>3. Fitting(L) => PrefixesFit(m)
      BY <1>18, <2>2 DEF PrefixesFit, Fields, IsNested
    <3>4. QED
      BY <2>1, <3>1, <3>2, <3>3 DEF m
  <2>3. CASE m.kind = "nested" /\ LeavesOf(m) = m.fields
    <3>1. SmallFields(m, c)
      BY <1>4, <2>1, <2>3 DEF SmallFields
    <3>2. SmallMember(m, c)
      BY <2>3, <3>1 DEF SmallMember, IsNested
    <3>3. NoWideEmpty(m) /\ (Fitting(L) => PrefixesFit(m))
      <4>1. Fields(m) = Range(m.fields)
        BY <2>3 DEF Fields, IsNested
      <4>2. ASSUME NEW f \in Range(m.fields) PROVE ~WideEmpty(f) /\ (Fitting(L) => LeafFits(f))
        <5>1. PICK j \in DOMAIN m.fields : f = m.fields[j]
          BY DEF Range
        <5>2. m.fields \in Seq(LeafType)
          BY <2>1, <2>3, MemberFields DEF IsNested
        <5>3. j \in 1 .. Len(m.fields)
          BY <5>2
        <5>4. f = L[a + j] /\ a + j \in 1 .. Len(L)
          BY <2>1, <2>3, <5>1, <5>3
        <5>5. QED
          BY <1>0, <1>18, <5>4
      <4>3. QED
        BY <2>3, <4>1, <4>2 DEF NoWideEmpty, PrefixesFit
    <3>4. QED
      BY <2>1, <3>2, <3>3 DEF m
  <2>4. QED
    BY <2>1, <2>2, <2>3
<1>7. msg \in Seq(MemberType)
  <2>1. \A k \in 1 .. Len(msg) : msg[k] \in MemberType
    BY <1>6
  <2>2. msg \in Seq(ConstrainedMember)
    BY <1>1
  <2>3. QED
    BY <2>1, <2>2
<1>8. PICK g : MessagePath(g, msg, c)
  BY <1>4, <1>5, <1>6, <1>7, MessageWalk
<1>9. /\ g[0] = [w |-> FixedSpan(c), at |-> <<>>, wire |-> <<>>] /\ SerializeInto(msg, c) = g[n]
      /\ \A k \in 1 .. n : g[k] = WriteMember(g[k - 1], msg[k])
  BY <1>8 DEF MessagePath
<1>15. WiredUpTo(g[0], L, d, 0)
  BY <1>9 DEF WiredUpTo
<1>10. WroteUpTo(g[0], L, d, c, 0)
  <2>1. Poised(g[0], c)
    BY <1>1, <1>8 DEF MessagePath
  <2>2. g[0].w = FixedSpan(c) /\ g[0].at = <<>>
    BY <1>9
  <2>3. ~HasError(g[0].w) /\ ~g[0].w.header
    BY <2>2 DEF FixedSpan, Growing, HasError
  <2>4. d[0] = HeaderSize
    BY DEF Sending, Chain
  <2>5. SlotsUpTo(L, d, 0 + 1) = <<>>
    BY DEF SlotsUpTo
  <2>6. QED
    BY <1>15, <2>1, <2>2, <2>3, <2>4, <2>5 DEF WroteUpTo, DataPlace
<1> DEFINE W == {k \in Nat : k <= n => WroteUpTo(g[k], L, d, c, st[k])}
<1>11. 0 \in W
  BY <1>3, <1>10
<1>12. ASSUME NEW k \in Nat, k \in W PROVE k + 1 \in W
  <2> SUFFICES ASSUME k + 1 <= n PROVE WroteUpTo(g[k + 1], L, d, c, st[k + 1])
    OBVIOUS
  <2> DEFINE j == k + 1
  <2>1. j \in 1 .. n /\ j - 1 = k /\ k <= n
    BY <1>1
  <2>2. WroteUpTo(g[j - 1], L, d, c, st[j - 1]) /\ g[j] = WriteMember(g[j - 1], msg[j])
    BY <1>9, <1>12, <2>1
  <2> HIDE DEF j
  <2> DEFINE s == g[j - 1]
  <2>3. WroteUpTo(s, L, d, c, st[j - 1])
    BY <2>2
  <2> HIDE DEF s
  <2>4. WroteUpTo(WriteMember(s, msg[j]), L, d, c, st[j])
    BY <1>2, <2>1, <2>3, MemberWrittenAlong
  <2>5. QED
    BY <2>2, <2>4 DEF s, j
<1> HIDE DEF W
<1>13. Nat \subseteq W
  BY <1>11, <1>12, SetInduction
<1>14. \A k \in 0 .. n : WroteUpTo(g[k], L, d, c, st[k])
  BY <1>1, <1>13 DEF W
<1> HIDE DEF n
<1>16. WrittenPath(g, st, msg, L, d, c)
  BY <1>1, <1>3, <1>4, <1>5, <1>6, <1>7, <1>8, <1>9, <1>14 DEF WrittenPath, n
<1>17. QED
  BY <1>16

\* serialize_message_into() puts every field of a plain message where d says.
LEMMA MessageWrittenAlong ==
  ASSUME NEW msg, PlainMessage(msg), NEW L, L = Leaves(msg), Len(L) # 0, NEW d, NEW c, Sending(L, d, c)
  PROVE  WroteUpTo(SerializeInto(msg, c), L, d, c, Len(L))
<1>1. PICK g, st : WrittenPath(g, st, msg, L, d, c)
  BY PathWritten
<1>2. Len(msg) \in 0 .. Len(msg)
  BY <1>1 DEF WrittenPath
<1>3. QED
  BY <1>1, <1>2 DEF WrittenPath

LEMMA SomeLeaf ==
  ASSUME NEW msg, PlainMessage(msg), msg # <<>>
  PROVE  Len(Leaves(msg)) \in Nat /\ Len(Leaves(msg)) # 0
<1>1. /\ AlignedMessage(msg) /\ msg \in Seq(ConstrainedMember) /\ Len(Leaves(msg)) \in Nat
      /\ MemberLeaves(msg) \in Seq(Seq(AnyLeaf))
  BY PlainLeaves, MemberLeavesType
<1>2. Len(msg) \in Nat /\ Len(msg) # 0 /\ 1 \in 1 .. Len(msg)
  BY <1>1
<1>3. PICK st : Starts(st, MemberLeaves(msg))
  BY <1>1, StartsExist
<1> DEFINE m == msg[1]
<1>4. /\ LeavesOf(m) \in Seq(ConstrainedLeaf)
      /\ LeavesOf(m) = <<m>> \/ (m.fields # <<>> /\ LeavesOf(m) = m.fields)
  BY <1>1, <1>2, AlignedMembers
<1>5. st[1 - 1] \in Nat /\ st[1] = st[1 - 1] + Len(LeavesOf(m)) /\ st[1] \in 0 .. Len(Leaves(msg))
  BY <1>1, <1>2, <1>3, LeafAt
<1> HIDE DEF m
<1>6. Len(LeavesOf(m)) \in Nat /\ Len(LeavesOf(m)) # 0
  <2>1. LeavesOf(m) # <<>>
    BY <1>4
  <2>2. QED
    BY <1>4, <2>1
<1>7. QED
  BY <1>1, <1>5, <1>6

\* What both ends of a sent message know.
LEMMA SentFacts ==
  ASSUME TraversedAlong, phase \in {"sent", "received"}, Plain,
         NEW L, L = Leaves(message), NEW c, c = Ends(L, Widths(L)), NEW d, d = Ends(L, Useds(L))
  PROVE  /\ PlainMessage(message) /\ message # <<>> /\ Len(L) \in Nat /\ Len(L) # 0
         /\ Chain(c, L, Widths(L)) /\ Chain(d, L, Useds(L))
         /\ layout.size = c[Len(L)] /\ c[Len(L)] \in Nat /\ Sending(L, d, layout.size)
         /\ region = d[Len(L)] /\ region \in Nat /\ region <= layout.size
         /\ Behind(memory, L, d, Len(L) + 1) /\ (emitFrom = 0 => Full(L, Len(L) + 1))
         /\ ~HasError(writer.w) /\ writer.at = SlotsUpTo(L, d, Len(L) + 1)
<1> DEFINE N == Len(L)
<1>1. /\ PathInv /\ PlainMessage(message) /\ message # <<>> /\ phase # "defining"
  BY PlainIs DEF TraversedAlong, PathInv
<1>2. N \in Nat /\ N # 0
  BY <1>1, SomeLeaf
<1>3. Chain(c, L, Widths(L)) /\ Chain(d, L, Useds(L))
  BY <1>1, PlainLeaves
<1>4. Traversed(L, c, d)
  BY DEF TraversedAlong, TraversalInv
<1> HIDE DEF N
<1>5. /\ next = N + 1 /\ region = d[N] /\ Behind(memory, L, d, N + 1) /\ (emitFrom = 0 => Full(L, N + 1))
      /\ ~HasError(writer.w) /\ writer.at = SlotsUpTo(L, d, N + 1)
  BY <1>4 DEF Traversed, WriterBehind, N
<1>6. /\ layout.size = c[N] /\ \A i \in 1 .. N : c[N] + Bytes(L[i]) + 64 <= SizeMax
  BY <1>1, <1>3, LoanPlaces DEF N
<1>7. N \in 1 .. N /\ \A i \in 1 .. N : ~Oversized(L[i])
  BY <1>2, <1>5 DEF Behind
<1>8. c[N] \in Nat /\ d[N] \in Nat /\ d[N] <= c[N]
  BY <1>1, <1>3, <1>7, SlotsCompared DEF N
<1>9. Suffices(L, d, c[N])
  BY <1>6, <1>8 DEF Suffices, N
<1>10. Sending(L, d, layout.size)
  BY <1>1, <1>3, <1>6, <1>9 DEF Sending
<1>11. QED
  BY <1>1, <1>2, <1>3, <1>5, <1>6, <1>8, <1>10 DEF N

(***************************************************************************)
(* Compaction ends where serialize_message_into() would have, every field  *)
(* at the same offset, whether a plain message was released as it was or   *)
(* rewritten from some field on.                                           *)
(***************************************************************************)
THEOREM CompactionIsSerialization == Spec => []CompactsAsSerialized
<1>1. TraversedAlong => CompactsAsSerialized
  <2> SUFFICES ASSUME TraversedAlong, phase \in {"sent", "received"}, Plain
               PROVE  SentLike(SerializeInto(message, layout.size))
    BY DEF CompactsAsSerialized
  <2> DEFINE L == Leaves(message)
             c == Ends(L, Widths(L))
             d == Ends(L, Useds(L))
             n == layout.size
             s == SerializeInto(message, n)
  <2>1. /\ PlainMessage(message) /\ Len(L) \in Nat /\ Len(L) # 0 /\ Sending(L, d, n)
        /\ region = d[Len(L)] /\ writer.at = SlotsUpTo(L, d, Len(L) + 1)
    <3> HIDE DEF L, c, d
    <3>1. QED
      BY SentFacts DEF L, c, d
  <2> HIDE DEF d, n
  <2>2. WroteUpTo(s, L, d, n, Len(L))
    BY <2>1, MessageWrittenAlong
  <2> HIDE DEF s
  <2>3. /\ Poised(s, n) /\ ~HasError(s.w) /\ s.w.header /\ s.w.pos = region
        /\ s.at = writer.at
    BY <2>1, <2>2 DEF WroteUpTo, DataPlace
  <2>4. DataSize(s.w) = region
    BY <2>3 DEF Poised, DataSize, Cursor
  <2>5. QED
    BY <2>3, <2>4 DEF SentLike, s, n
<1>2. QED
  BY <1>1, TraversedAlways, PTL

--------------------------------------------------------------------------------
(* What the cells of the block hold *)

Typed(x) == \A o \in DOMAIN x : x[o] \in CellOf

LEMMA JunkTyped == Junk \in CellOf
BY DEF Junk, CellOf

LEMMA LoadTyped ==
  ASSUME NEW x, Typed(x), NEW o
  PROVE  Cell(x, o) \in CellOf
BY JunkTyped DEF Typed, Cell

LEMMA DataTyped ==
  ASSUME NEW i \in Nat, NEW leaf, NEW k \in 0 .. (Bytes(leaf) - 1), Bytes(leaf) \in Nat
  PROVE  DataCells(i, leaf)[k] \in CellOf
BY DEF DataCells, CellOf

\* y is x with n cells stored from `at` on.
StoresCells(x, y, at, n, cell) ==
  /\ DOMAIN x \subseteq Int /\ at \in Int /\ n \in Nat /\ DOMAIN y = DOMAIN x
  /\ \A o \in DOMAIN x : y[o] = IF o \in at .. (at + n - 1) THEN cell[o - at] ELSE x[o]
  /\ \A k \in 0 .. (n - 1) : cell[k] \in CellOf

LEMMA StoredTyped ==
  ASSUME NEW x, Typed(x), NEW at, NEW n, NEW cell, NEW y, StoresCells(x, y, at, n, cell)
  PROVE  Typed(y) /\ DOMAIN y = DOMAIN x
<1> USE DEF StoresCells
<1>1. ASSUME NEW o \in DOMAIN x PROVE y[o] \in CellOf
  <2>1. CASE o \in at .. (at + n - 1)
    <3>1. o \in Int /\ o - at \in 0 .. (n - 1)
      BY <2>1
    <3>2. y[o] = cell[o - at]
      BY <2>1
    <3>3. QED
      BY <3>1, <3>2
  <2>2. CASE o \notin at .. (at + n - 1)
    BY <2>2 DEF Typed
  <2>3. QED
    BY <2>1, <2>2
<1>2. DOMAIN y = DOMAIN x
  OBVIOUS
<1>3. QED
  BY <1>1, <1>2 DEF Typed

LEMMA ClearTyped ==
  ASSUME NEW x, Typed(x), NEW from, NEW to
  PROVE  Typed(Clear(x, from, to)) /\ DOMAIN Clear(x, from, to) = DOMAIN x
BY JunkTyped, ClearIs DEF Typed

LEMMA PutNumberTyped ==
  ASSUME NEW x, Typed(x), DOMAIN x \subseteq Int, NEW at \in Int, NEW v \in Nat
  PROVE  Typed(PutNumber(x, at, v)) /\ DOMAIN PutNumber(x, at, v) = DOMAIN x
<1> DEFINE cell == NumberCells(v)
           y == PutNumber(x, at, v)
<1>1. \A k \in 0 .. 3 : cell[k] \in CellOf
  BY DEF NumberCells, CellOf
<1>2. y = [o \in DOMAIN x |-> IF o \in at .. (at + PrefixSize - 1) THEN cell[o - at] ELSE x[o]]
  BY DEF PutNumber, Put
<1>3. PrefixSize \in Nat /\ \A k \in 0 .. (PrefixSize - 1) : cell[k] \in CellOf
  BY <1>1 DEF PrefixSize
<1> HIDE DEF cell, y
<1>4. StoresCells(x, y, at, PrefixSize, cell)
  BY <1>2, <1>3 DEF StoresCells
<1>6. Typed(y) /\ DOMAIN y = DOMAIN x
  BY <1>4, StoredTyped DEF StoresCells
<1>7. QED
  BY <1>6 DEF y

LEMMA NumbersAreNat ==
  ASSUME NEW leaf, PlainLeaf(leaf)
  PROVE  Prefixed4(leaf) => Number(leaf, Actual(leaf)) \in Nat
<1> HAVE Prefixed4(leaf)
<1>1. Actual(leaf) \in Nat
  BY LeafWidths
<1>2. Length(leaf, Actual(leaf)) \in Nat
  BY <1>1 DEF Length
<1>3. QED
  BY <1>2, LengthsStored DEF Number

LEMMA NumberIsLength ==
  ASSUME NEW leaf, PlainLeaf(leaf), Prefixed4(leaf), Length(leaf, Actual(leaf)) <= NumberMax
  PROVE  Number(leaf, Actual(leaf)) = Length(leaf, Actual(leaf))
<1>1. Actual(leaf) \in Nat
  BY LeafWidths
<1>2. Length(leaf, Actual(leaf)) \in Nat
  BY <1>1 DEF Length
<1>3. QED
  BY <1>2, LengthsStored DEF Number

\* A field the application assigns.
LEMMA FilledTyped ==
  ASSUME PlainMessage(message), NEW L, L = Leaves(message), NEW c, Chain(c, L, Widths(L)),
         Places(message, layout) = [q \in 1 .. Len(L) |-> LeafPlace(L[q], SlotAt(L, c, q))],
         NEW i \in 1 .. Len(L), NEW D \in SUBSET Int, NEW x \in [D -> CellOf]
  PROVE  Filled(x, i) \in [D -> CellOf]
<1> DEFINE leaf == L[i]
           at == SlotAt(L, c, i)
           content == LeafPlace(leaf, at).content
           n == Bytes(leaf)
           end == content + n
           cell == [k \in 0 .. (n - 1) |-> DataCells(i, leaf)[k]]
           data == Put(x, content, n, LAMBDA k : DataCells(i, leaf)[k])
           closed == Clear(data, end, end + 1)
<1>1. L \in Seq(AnyLeaf) /\ Len(L) \in Nat /\ Widths(L) \in [1 .. Len(L) -> Nat] /\ PlainLeaf(leaf)
  BY PlainLeaves
<1>2. at \in Nat
  BY <1>1, ChainOrder
<1>3. content \in Int /\ n \in Nat /\ i \in Nat
  <2> HIDE DEF at, leaf
  <2>1. QED
    BY <1>1, <1>2, LeafInSlot, LeafWidths
<1>4. Filled(x, i) = IF Oversized(leaf) THEN x ELSE IF leaf.kind = "string" THEN closed ELSE data
  <2>1. Places(message, layout)[i].content = content
    OBVIOUS
  <2>2. QED
    BY <2>1 DEF Filled
<1> HIDE DEF at, leaf
<1>5. \A k \in 0 .. (n - 1) : cell[k] \in CellOf
  BY <1>3, DataTyped
<1>6. data = [o \in D |-> IF o \in content .. (content + n - 1) THEN cell[o - content] ELSE x[o]]
  <2>1. data = [o \in D |-> IF o \in content .. (content + n - 1) THEN DataCells(i, leaf)[o - content] ELSE x[o]]
    BY DEF Put
  <2>2. \A o \in D : o \in content .. (content + n - 1) => cell[o - content] = DataCells(i, leaf)[o - content]
    <3> TAKE o \in D
    <3> HAVE o \in content .. (content + n - 1)
    <3>1. o - content \in 0 .. (n - 1)
      BY <1>3
    <3> HIDE DEF n
    <3>2. QED
      BY <3>1
  <2> HIDE DEF data, cell, content, n
  <2>3. QED
    BY <2>1, <2>2
<1>7. Typed(x) /\ DOMAIN x = D
  BY DEF Typed
<1> HIDE DEF cell, content, n, data
<1>8. Typed(data) /\ DOMAIN data = D
  <2>1. StoresCells(x, data, content, n, cell)
    BY <1>3, <1>5, <1>6, <1>7 DEF StoresCells
  <2>2. QED
    BY <1>7, <2>1, StoredTyped
<1>9. data \in [D -> CellOf]
  BY <1>6, <1>8 DEF Typed
<1>10. closed \in [D -> CellOf]
  <2> DEFINE to == end + 1
  <2> HIDE DEF end, to
  <2>1. Clear(data, end, to) \in [D -> CellOf]
    BY <1>8, <1>9, ClearIs, JunkTyped
  <2>2. QED
    BY <2>1 DEF to
<1> HIDE DEF closed
<1>11. QED
  BY <1>4, <1>9, <1>10

LEMMA FillTyped ==
  ASSUME PlainMessage(message), NEW L, L = Leaves(message), NEW c, Chain(c, L, Widths(L)),
         Places(message, layout) = [q \in 1 .. Len(L) |-> LeafPlace(L[q], SlotAt(L, c, q))],
         NEW D \in SUBSET Int, memory \in [D -> CellOf],
         NEW y, y = FoldLeft(Filled, memory, [i \in 1 .. Len(L) |-> i])
  PROVE  y \in [D -> CellOf]
<1> DEFINE T == [D -> CellOf]
           N == Len(L)
<1>1. N \in Nat
  BY PlainLeaves
<1>2. FillStays(T, N)
  <2> SUFFICES ASSUME NEW i \in 1 .. N, NEW x \in T PROVE Filled(x, i) \in T
    BY DEF FillStays
  <2>1. QED
    BY FilledTyped
<1>3. memory \in T
  OBVIOUS
<1> HIDE DEF T, N
<1>4. PICK g : FillSteps(g, T, memory, N)
  BY <1>1, <1>2, <1>3, FillTrace
<1>5. N \in 0 .. N
  BY <1>1
<1>6. y \in T
  BY <1>4, <1>5 DEF FillSteps, N
<1>7. QED
  BY <1>6 DEF T

\* A field the compaction writes.
LEMMA RewrittenTyped ==
  ASSUME NEW leaf, PlainLeaf(leaf), ~Oversized(leaf), NEW i, NEW mem, Typed(mem), DOMAIN mem \subseteq Int,
         NEW cursor \in Nat, NEW source, NEW y, y = Rewritten(mem, cursor, i, leaf, source)
  PROVE  y \in [DOMAIN mem -> CellOf]
<1> DEFINE at       == DataAlign(cursor, FieldAlignment(leaf))
           content  == LeafPlace(leaf, at).content
           v        == Number(leaf, Actual(leaf))
           padded   == Clear(mem, cursor, at)
           numbered == PutNumber(padded, at, v)
           cleared  == Clear(numbered, at + PrefixSize, content)
           x        == IF Prefixed4(leaf) THEN cleared ELSE padded
           from     == IF leaf.kind = "primitive" THEN mem ELSE x
           bytes    == Bytes(leaf)
           copied   == Put(x, content, bytes, LAMBDA k : IF Oversized(leaf) THEN DataCells(i, leaf)[k]
                                                         ELSE Cell(from, source + k))
           end      == content + bytes
           cell     == [k \in 0 .. (bytes - 1) |-> Cell(from, source + k)]
<1>1. /\ at \in Nat
      /\ (IF bytes = 0 THEN at + PrefixSize ELSE ContentBehind(leaf, at)) = content
  BY ContentBehindPrefix
<1>2. content \in Int /\ bytes \in Nat /\ at \in Int
  BY <1>1, LeafInSlot, LeafWidths
<1>3. y = IF leaf.kind = "string" THEN Clear(copied, end, end + 1) ELSE copied
  <2> DEFINE z == IF bytes = 0 THEN at + PrefixSize ELSE ContentBehind(leaf, at)
             xx == IF Prefixed4(leaf) THEN Clear(PutNumber(padded, at, v), at + PrefixSize, z) ELSE padded
             ff == IF leaf.kind = "primitive" THEN mem ELSE xx
             cc == Put(xx, z, bytes, LAMBDA k : IF Oversized(leaf) THEN DataCells(i, leaf)[k]
                                                ELSE Cell(ff, source + k))
             ee == z + bytes
  <2>1. Rewritten(mem, cursor, i, leaf, source) = IF leaf.kind = "string" THEN Clear(cc, ee, ee + 1) ELSE cc
    BY DEF Rewritten
  <2>2. z = content
    BY <1>1
  <2> HIDE DEF z
  <2>3. xx = x
    BY <2>2
  <2> HIDE DEF x, xx
  <2>4. ff = from
    BY <2>3
  <2> HIDE DEF from, ff
  <2>5. cc = copied
    BY <2>2, <2>3, <2>4 DEF Put
  <2> HIDE DEF cc, copied
  <2>6. QED
    BY <2>1, <2>2, <2>5
<1>4. Typed(padded) /\ DOMAIN padded = DOMAIN mem
  BY ClearTyped
<1>5. Prefixed4(leaf) => v \in Nat
  BY NumbersAreNat
<1> HIDE DEF padded, v, at
<1>6. Prefixed4(leaf) => Typed(numbered) /\ DOMAIN numbered = DOMAIN mem
  BY <1>2, <1>4, <1>5, PutNumberTyped
<1> HIDE DEF numbered
<1>7. Prefixed4(leaf) => Typed(cleared) /\ DOMAIN cleared = DOMAIN mem
  BY <1>6, ClearTyped
<1> HIDE DEF cleared
<1>8. Typed(x) /\ DOMAIN x = DOMAIN mem
  BY <1>4, <1>7
<1> HIDE DEF x
<1>9. Typed(from)
  BY <1>8
<1> HIDE DEF from
<1>10. \A k \in 0 .. (bytes - 1) : cell[k] \in CellOf
  BY <1>9, LoadTyped
<1>11. copied = [o \in DOMAIN x |-> IF o \in content .. (content + bytes - 1) THEN cell[o - content] ELSE x[o]]
  <2>1. copied = [o \in DOMAIN x |-> IF o \in content .. (content + bytes - 1)
                                     THEN Cell(from, source + (o - content)) ELSE x[o]]
    BY DEF Put
  <2>2. \A o \in DOMAIN x : o \in content .. (content + bytes - 1) =>
          cell[o - content] = Cell(from, source + (o - content))
    <3> TAKE o \in DOMAIN x
    <3> HAVE o \in content .. (content + bytes - 1)
    <3>1. o \in Int
      BY <1>8
    <3>2. o - content \in 0 .. (bytes - 1)
      BY <1>2, <3>1
    <3> HIDE DEF bytes
    <3>3. QED
      BY <3>2
  <2> HIDE DEF copied, cell, bytes
  <2>3. QED
    BY <2>1, <2>2
<1> HIDE DEF content, bytes, cell, copied
<1>12. Typed(copied) /\ DOMAIN copied = DOMAIN x
  <2>1. StoresCells(x, copied, content, bytes, cell)
    BY <1>2, <1>8, <1>10, <1>11 DEF StoresCells
  <2>2. QED
    BY <1>8, <2>1, StoredTyped
<1>13. copied \in [DOMAIN mem -> CellOf]
  BY <1>8, <1>11, <1>12 DEF Typed
<1>14. Clear(copied, end, end + 1) \in [DOMAIN mem -> CellOf]
  BY <1>8, <1>12, <1>13, ClearTyped, ClearIs, JunkTyped
<1> HIDE DEF end
<1>15. QED
  BY <1>3, <1>13, <1>14

\* Once there is a block, it holds cells.
CellsInv == phase # "defining" /\ Plain => Typed(memory)

LEMMA ConstructTyped ==
  ASSUME PathInv, ConstructMessageAt
  PROVE  Typed(memory')
<1>1. /\ phase = "defining" /\ layout' = LayoutOf(message) /\ memory' = Apply(layout')
      /\ message \in Seq(Members) /\ Len(message) <= MaxMembers
  BY DEF ConstructMessageAt, PathInv, TypeOK
<1>2. message \in Seq(ConstrainedMember)
  BY PathFacts
<1>3. LayoutOf(message).size \in Nat /\ LayoutOf(message).members \in Seq(PlacedMembers)
  BY <1>2, LayoutOfMessage
<1>4. Apply(LayoutOf(message)) \in [0 .. (LayoutOf(message).size - 1) -> CellOf]
  BY <1>3, ApplyCells
<1>5. QED
  BY <1>1, <1>4 DEF Typed

LEMMA FillKeepsTyped ==
  ASSUME PathInv, Plain, Typed(memory), Fill
  PROVE  Typed(memory')
<1> DEFINE L == Leaves(message)
           c == Ends(L, Widths(L))
           D == 0 .. (layout.size - 1)
<1>1. phase = "loaned" /\ memory' = FoldLeft(Filled, memory, [i \in 1 .. Len(L) |-> i])
  BY DEF Fill
<1>2. PlainMessage(message) /\ IsBlock(memory) /\ DOMAIN memory = D
  BY <1>1, PlainIs DEF PathInv, TypeOK
<1>3. Chain(c, L, Widths(L))
  BY <1>2, PlainLeaves
<1> HIDE DEF c
<1>4. Places(message, layout) = [i \in 1 .. Len(L) |-> LeafPlace(L[i], SlotAt(L, c, i))]
  BY <1>1, <1>3, LoanPlaces
<1>5. D \in SUBSET Int /\ memory \in [D -> CellOf]
  <2>1. D \in SUBSET Int
    BY PathFacts
  <2> HIDE DEF D
  <2>2. QED
    BY <1>2, <2>1 DEF IsBlock, Typed
<1> DEFINE y == FoldLeft(Filled, memory, [i \in 1 .. Len(L) |-> i])
<1>6. y \in [D -> CellOf]
  <2>1. y = FoldLeft(Filled, memory, [i \in 1 .. Len(L) |-> i])
    OBVIOUS
  <2> HIDE DEF y, D
  <2>2. QED
    BY <1>2, <1>3, <1>4, <1>5, <2>1, FillTyped
<1> HIDE DEF D, L
<1>7. QED
  BY <1>1, <1>6 DEF Typed

LEMMA CompactKeepsTyped ==
  ASSUME TraversedAlong, Plain, Typed(memory), CompactLeaf
  PROVE  Typed(memory')
<1> DEFINE L == Leaves(message)
           leaf == L[next]
           source == Places(message, layout)[next].content
           c == Ends(L, Widths(L))
           d == Ends(L, Useds(L))
<1>1. /\ phase = "compacting" /\ next <= Len(L) /\ ~Violates(next)
      /\ memory' = IF emitFrom' # 0 /\ ~HasError(writer'.w)
                   THEN Rewritten(memory, Cursor(writer.w), next, leaf, source) ELSE memory
  BY DEF CompactLeaf
<1>2. PathInv /\ PlainMessage(message)
  BY PlainIs DEF TraversedAlong
<1>3. Chain(c, L, Widths(L)) /\ Chain(d, L, Useds(L))
  BY <1>2, PlainLeaves
<1>4. next \in 1 .. Len(L) /\ PlainLeaf(leaf) /\ DOMAIN memory \subseteq Int
  <2>1. next \in Nat /\ next # 0 /\ Len(L) \in Nat /\ \A i \in 1 .. Len(L) : PlainLeaf(L[i])
    <3> HIDE DEF c, d, L
    <3>1. QED
      BY <1>2, <1>3, TraversalFacts DEF L
  <2>2. DOMAIN memory = 0 .. (layout.size - 1) /\ layout.size \in Nat
    BY <1>2, PathFacts DEF PathInv, TypeOK
  <2>3. QED
    BY <1>1, <2>1, <2>2
<1>5. ~Oversized(leaf)
  BY <1>1, <1>2, <1>4, VisitedFits
<1>6. Cursor(writer.w) \in Nat
  <2>1. phase \notin Before
    BY <1>1 DEF Before
  <2>2. Poised(writer, layout.size)
    BY <1>2, <2>1 DEF PathInv
  <2>3. writer.w.pos \in Nat /\ writer.w.fixed
    BY <2>2, ReadyPlace DEF Poised
  <2>4. QED
    BY <2>3 DEF Cursor
<1> DEFINE y == Rewritten(memory, Cursor(writer.w), next, leaf, source)
           at == Cursor(writer.w)
<1>7. y \in [DOMAIN memory -> CellOf]
  <2>1. at \in Nat /\ y = Rewritten(memory, at, next, leaf, source)
    BY <1>6
  <2> HIDE DEF y, at, leaf, source
  <2>2. QED
    BY <1>4, <1>5, <2>1, RewrittenTyped
<1>8. Typed(y)
  BY <1>7 DEF Typed
<1> HIDE DEF y
<1>9. memory' = y \/ memory' = memory
  BY <1>1 DEF y
<1>10. QED
  BY <1>8, <1>9

LEMMA CellsStep ==
  ASSUME TraversedAlong, CellsInv, [Next]_vars
  PROVE  CellsInv'
<1> SUFFICES ASSUME phase' # "defining", Plain' PROVE Typed(memory')
  BY DEF CellsInv, Typed
<1>0. PathInv
  BY DEF TraversedAlong
<1>1. CASE DefineMember
  BY <1>1 DEF DefineMember
<1>2. CASE ConstructMessageAt
  BY <1>0, <1>2, ConstructTyped
<1>3. CASE Fill \/ CompactMessageInPlace \/ RefuseLeaf \/ CompactLeaf \/ FinishCompaction
           \/ CastMessageAt \/ DeserializeMessageFrom \/ UNCHANGED vars
  <2>1. message' = message /\ phase # "defining"
    BY <1>3 DEF Fill, CompactMessageInPlace, RefuseLeaf, CompactLeaf, FinishCompaction,
                CastMessageAt, DeserializeMessageFrom, vars
  <2>2. Plain
    BY <2>1 DEF Plain, NoWideSequence, NoStrings, AllChecked, NestedAligned, NestedInBounds
  <2>3. Typed(memory)
    BY <2>1, <2>2 DEF CellsInv
  <2>4. CASE Fill
    BY <1>0, <2>2, <2>3, <2>4, FillKeepsTyped
  <2>5. CASE CompactLeaf
    BY <2>2, <2>3, <2>5, CompactKeepsTyped
  <2>6. CASE CompactMessageInPlace \/ RefuseLeaf \/ FinishCompaction
             \/ CastMessageAt \/ DeserializeMessageFrom \/ UNCHANGED vars
    <3>1. memory' = memory
      BY <2>6 DEF CompactMessageInPlace, RefuseLeaf, FinishCompaction, CastMessageAt,
                  DeserializeMessageFrom, vars
    <3>2. QED
      BY <2>3, <3>1
  <2>7. QED
    BY <1>3, <2>4, <2>5, <2>6
<1>4. QED
  BY <1>1, <1>2, <1>3 DEF Next

--------------------------------------------------------------------------------
(* The prefixes of the bytes that are sent *)

LEMMA WireIsTyped ==
  ASSUME NEW mem, Typed(mem), DOMAIN mem \subseteq Int, NEW size
  PROVE  WireOf(mem, size) \in Wires
<1> DEFINE starts == {o \in DOMAIN mem :
                        o + 3 < size /\ mem[o].what = "number" /\ NumberStoredAt(mem, o, mem[o].of)}
<1>1. starts \in SUBSET Int /\ \A o \in starts : mem[o].of \in Nat
  BY DEF Typed, CellOf
<1>2. WireOf(mem, size) = [o \in starts |-> mem[o].of]
  BY DEF WireOf
<1> HIDE DEF starts
<1>3. WireOf(mem, size) \in [starts -> Nat]
  BY <1>1, <1>2
<1>4. QED
  BY <1>1, <1>3 DEF Wires

LEMMA WireHolds ==
  ASSUME NEW mem, DOMAIN mem \subseteq Int, NEW size \in Nat, NEW at \in Nat, NEW v,
         NumberStoredAt(mem, at, v), at + PrefixSize <= size
  PROVE  at \in DOMAIN WireOf(mem, size) /\ WireOf(mem, size)[at] = v
<1> DEFINE starts == {o \in DOMAIN mem :
                        o + 3 < size /\ mem[o].what = "number" /\ NumberStoredAt(mem, o, mem[o].of)}
<1>1. at \in DOMAIN mem /\ mem[at] = NumberCells(v)[0]
  <2>1. 0 \in 0 .. 3 /\ at + 0 = at
    OBVIOUS
  <2>2. at + 0 \in DOMAIN mem /\ mem[at + 0] = NumberCells(v)[0]
    BY <2>1 DEF NumberStoredAt
  <2>3. QED
    BY <2>1, <2>2
<1>2. NumberCells(v)[0] = [what |-> "number", of |-> v, byte |-> 0]
  BY DEF NumberCells
<1>3. mem[at].what = "number" /\ mem[at].of = v
  BY <1>1, <1>2
<1>4. at + 3 < size
  BY DEF PrefixSize
<1>5. at \in starts
  BY <1>1, <1>3, <1>4
<1>6. WireOf(mem, size) = [o \in starts |-> mem[o].of]
  BY DEF WireOf
<1> HIDE DEF starts
<1>7. QED
  BY <1>3, <1>5, <1>6

\* The prefixes of a plain message that is sent.
Carries(wire, L, d) ==
  /\ wire \in Wires /\ Fitting(L)
  /\ \A q \in 1 .. Len(L) :
       Prefixed4(L[q]) => /\ SlotAt(L, d, q) \in DOMAIN wire
                          /\ wire[SlotAt(L, d, q)] = Number(L[q], Actual(L[q]))

\* Where the fields of a plain message are, and that they end within what is sent.
SlotsWithin(L, d, N) ==
  /\ N \in Nat /\ d[0] = HeaderSize /\ d[Len(L)] = N
  /\ \A q \in 1 .. Len(L) :
       /\ PlainLeaf(L[q]) /\ d[q - 1] \in Nat /\ d[q] \in Nat /\ SlotAt(L, d, q) \in Nat
       /\ SlotAt(L, d, q) = DataAlign(d[q - 1], FieldAlignment(L[q]))
       /\ d[q] = SlotAt(L, d, q) + UsedWidth(L[q]) /\ d[q] <= N

LEMMA SentSlots ==
  ASSUME NEW msg, PlainMessage(msg), NEW L, L = Leaves(msg), NEW d, Chain(d, L, Useds(L)), Len(L) # 0
  PROVE  SlotsWithin(L, d, d[Len(L)])
<1>1. /\ L \in Seq(AnyLeaf) /\ Len(L) \in Nat /\ Useds(L) \in [1 .. Len(L) -> Nat]
      /\ \A q \in 1 .. Len(L) : PlainLeaf(L[q]) /\ Useds(L)[q] = UsedWidth(L[q])
  BY PlainLeaves
<1>2. \A q \in 1 .. Len(L) : /\ SlotAt(L, d, q) \in Nat /\ d[q] \in Nat /\ d[Len(L)] \in Nat
                             /\ d[q] = SlotAt(L, d, q) + Useds(L)[q] /\ d[q] <= d[Len(L)]
  BY <1>1, ChainOrder
<1>3. d[0] = HeaderSize /\ \A q \in 0 .. Len(L) : d[q] \in Nat
  BY DEF Chain
<1>4. \A q \in 1 .. Len(L) : q - 1 \in 0 .. Len(L)
  BY <1>1
<1>5. Len(L) \in 1 .. Len(L)
  BY <1>1
<1>6. QED
  BY <1>1, <1>2, <1>3, <1>4, <1>5 DEF SlotsWithin, SlotAt

LEMMA SentCarries ==
  ASSUME NEW L, NEW d, NEW N, SlotsWithin(L, d, N), NEW mem, Typed(mem), DOMAIN mem \subseteq Int,
         Behind(mem, L, d, Len(L) + 1), Len(L) \in Nat, Fitting(L)
  PROVE  Carries(WireOf(mem, N), L, d)
<1>1. WireOf(mem, N) \in Wires
  BY WireIsTyped
<1>2. ASSUME NEW q \in 1 .. Len(L), Prefixed4(L[q])
      PROVE  /\ SlotAt(L, d, q) \in DOMAIN WireOf(mem, N)
             /\ WireOf(mem, N)[SlotAt(L, d, q)] = Number(L[q], Actual(L[q]))
  <2> DEFINE at == SlotAt(L, d, q)
             v == Number(L[q], Actual(L[q]))
             leaf == L[q]
  <2>1. NumberStoredAt(mem, at, v)
    <3>1. q \in 1 .. ((Len(L) + 1) - 1)
      OBVIOUS
    <3>2. QED
      BY <1>2, <3>1 DEF Behind
  <2>2. PlainLeaf(leaf) /\ Prefixed4(leaf) /\ at \in Nat /\ d[q] = at + UsedWidth(leaf) /\ d[q] <= N /\ N \in Nat
        /\ d[q] \in Nat
    BY <1>2 DEF SlotsWithin
  <2> HIDE DEF at, v, leaf
  <2>3. UsedWidth(leaf) \in Nat /\ PrefixSize <= UsedWidth(leaf)
    <3>1. UsedWidth(leaf) \in Nat /\ Bytes(leaf) \in Nat
          /\ UsedWidth(leaf) = PrefixSize + Bytes(leaf) + (IF leaf.kind = "string" THEN 1 ELSE 0)
      BY <2>2, LeafWidths
    <3>2. QED
      BY <3>1 DEF PrefixSize
  <2>4. at + PrefixSize <= N
    BY <2>2, <2>3 DEF PrefixSize
  <2>5. at \in DOMAIN WireOf(mem, N) /\ WireOf(mem, N)[at] = v
    BY <2>1, <2>2, <2>4, WireHolds
  <2>6. QED
    BY <2>5 DEF at, v
<1>3. QED
  BY <1>1, <1>2 DEF Carries

--------------------------------------------------------------------------------
(* deserialize_message_from() *)

\* What was serialized, with the prefixes that are in the block.
Carried(msg, c, wire) == [SerializeInto(msg, c) EXCEPT !.wire = wire]

LEMMA CarriedSent ==
  ASSUME NEW L, NEW d, NEW msg, NEW c, NEW g, NEW st, WrittenPath(g, st, msg, L, d, c),
         NEW wire, Carries(wire, L, d), Len(L) # 0,
         NEW f, f = Carried(msg, c, wire), NEW k \in 0 .. Len(msg)
  PROVE  Sent(g[k], f, c) /\ f.wire = wire /\ f.w = SerializeInto(msg, c).w
<1> DEFINE s == SerializeInto(msg, c)
           t == g[k]
           n == Len(msg)
<1>1. /\ s = g[n] /\ n \in Nat /\ n \in 0 .. n /\ st[n] = Len(L)
      /\ WrittenTo(t, s, c) /\ Poised(t, c) /\ Poised(s, c)
      /\ WroteUpTo(t, L, d, c, st[k]) /\ st[k] \in 0 .. Len(L)
      /\ WroteUpTo(s, L, d, c, Len(L))
  BY DEF WrittenPath, MessagePath
<1> HIDE DEF s, t, n
<1>2. s \in Serialized /\ wire \in Wires
  BY <1>1 DEF Poised, Carries
<1>3. f \in Serialized /\ f.wire = wire /\ f.w = s.w
  BY <1>2 DEF Carried, Serialized, s
<1>4. Poised(f, c) /\ ~f.w.overflow
  BY <1>1, <1>3 DEF Poised, WroteUpTo, HasError
<1>5. /\ ~t.w.overflow /\ (t.w.header => f.w.header) /\ DataPlace(t.w) <= DataPlace(f.w)
  BY <1>1, <1>3, <1>4 DEF WrittenTo, Onward
<1>6. ASSUME NEW p \in DOMAIN t.wire
      PROVE  p \in DOMAIN f.wire /\ f.wire[p] = t.wire[p]
  <2>1. PICK q \in 1 .. st[k] : /\ Prefixed4(L[q]) /\ p = SlotAt(L, d, q)
                                /\ t.wire[p] = Number(L[q], Actual(L[q]))
    BY <1>1, <1>6 DEF WroteUpTo, WiredUpTo
  <2>2. q \in 1 .. Len(L)
    BY <1>1
  <2>3. QED
    BY <1>3, <2>1, <2>2 DEF Carries
<1>7. QED
  BY <1>3, <1>4, <1>5, <1>6 DEF Sent, Onward, t, s

\* A plain message whose prefixes are all in the bytes sent is read field by field.
LEMMA CopyFinds ==
  ASSUME NEW msg, PlainMessage(msg), NEW L, L = Leaves(msg), Len(L) # 0, NEW d, NEW c, Sending(L, d, c),
         NEW wire, Carries(wire, L, d), NEW noise \in Nat, d[Len(L)] \in Nat,
         NEW r, r = DeserializeFrom(msg, wire, d[Len(L)], noise)
  PROVE  r.ok /\ r.at = SlotsUpTo(L, d, Len(L) + 1)
<1> DEFINE N == d[Len(L)]
           s == SerializeInto(msg, c)
           f == Carried(msg, c, wire)
<1>1. PICK g, st : WrittenPath(g, st, msg, L, d, c)
  BY PathWritten
<1>2. /\ msg \in Seq(MemberType) /\ c \in Nat /\ c + 64 <= SizeMax
      /\ \A k \in 1 .. Len(msg) : SmallMember(msg[k], c) /\ ReadsBack(msg[k])
      /\ MessagePath(g, msg, c) /\ Len(msg) \in 0 .. Len(msg)
      /\ WroteUpTo(s, L, d, c, Len(L))
  BY <1>1 DEF WrittenPath, ReadsBack, Carries
<1>3. \A k \in 0 .. Len(msg) : Sent(g[k], f, c) /\ f.wire = wire /\ f.w = s.w
  <2> HIDE DEF f, s
  <2>1. f = Carried(msg, c, wire)
    BY DEF f
  <2>2. QED
    BY <1>1, <2>1, CarriedSent DEF s
<1>4. f.wire = wire /\ f.w = s.w
  BY <1>2, <1>3
<1>5. DataPlace(s.w) = N /\ s.at = SlotsUpTo(L, d, Len(L) + 1)
  BY <1>2 DEF WroteUpTo
<1>6. N \in Nat /\ \A k \in 1 .. Len(msg) : IsNested(msg[k]) => DataPlace(f.w) <= N
  BY <1>4, <1>5
<1> HIDE DEF f, N
<1>7. Along(SerializeInto(msg, c), DeserializeFrom(msg, f.wire, N, noise), N)
  BY <1>2, <1>3, <1>6, PathAlong
<1>8. Along(s, r, N)
  BY <1>4, <1>7 DEF N, s
<1> HIDE DEF s
<1>9. InStep(s, r)
  BY <1>5, <1>6, <1>8 DEF Along
<1>10. QED
  BY <1>5, <1>9 DEF InStep

--------------------------------------------------------------------------------
(* The parser, call by call *)

\* Parsers of `size` bytes whose builder is in T, and one whose last call went well.
Parsers(T, size) == [b : T, pos : Int, size : {size}, ok : BOOLEAN]

ParserOf(b, pos, size) == [b |-> b, pos |-> pos, size |-> size, ok |-> TRUE]

LEMMA ParserIs ==
  ASSUME NEW T, NEW size, NEW p \in Parsers(T, size)
  PROVE  p.b \in T /\ p.pos \in Int /\ p.size = size /\ Refused(p) \in Parsers(T, size)
<1>1. p.b \in T /\ p.pos \in Int /\ p.size = size
  BY DEF Parsers
<1>2. [p EXCEPT !.ok = FALSE] \in Parsers(T, size)
  BY DEF Parsers
<1>3. QED
  BY <1>1, <1>2 DEF Refused

LEMMA ParserMoves ==
  ASSUME NEW T, NEW size, NEW p \in Parsers(T, size), NEW at \in Int, NEW q, q = [p EXCEPT !.pos = at]
  PROVE  q \in Parsers(T, size) /\ q.b = p.b /\ q.pos = at
BY DEF Parsers

LEMMA ParserAccepts ==
  ASSUME NEW T, NEW size, NEW p \in Parsers(T, size), NEW c \in T, NEW at \in Int
  PROVE  Accepted(p, c, at) = ParserOf(c, at, size) /\ Accepted(p, c, at) \in Parsers(T, size)
<1>1. p = [b |-> p.b, pos |-> p.pos, size |-> size, ok |-> p.ok]
  BY DEF Parsers
<1>2. [p EXCEPT !.b = c, !.pos = at, !.ok = TRUE] = [b |-> c, pos |-> at, size |-> size, ok |-> TRUE]
  <2> DEFINE x == [p EXCEPT !.b = c]
             y == [x EXCEPT !.pos = at]
             z == [y EXCEPT !.ok = TRUE]
  <2>1. [p EXCEPT !.b = c, !.pos = at, !.ok = TRUE] = z
    OBVIOUS
  <2>2. x = [b |-> c, pos |-> p.pos, size |-> size, ok |-> p.ok]
    BY <1>1
  <2> HIDE DEF x
  <2>3. y = [b |-> c, pos |-> at, size |-> size, ok |-> p.ok]
    BY <2>2
  <2> HIDE DEF y
  <2>4. z = [b |-> c, pos |-> at, size |-> size, ok |-> TRUE]
    <3>1. y \in [b : {c}, pos : {at}, size : {size}, ok : BOOLEAN]
      BY <2>3 DEF Parsers
    <3>2. z \in [b : {c}, pos : {at}, size : {size}, ok : {TRUE}]
      BY <3>1
    <3> HIDE DEF z
    <3>3. QED
      BY <3>2
  <2> HIDE DEF z
  <2>5. QED
    BY <2>1, <2>4
<1>3. Accepted(p, c, at) = ParserOf(c, at, size)
  BY <1>2 DEF ParserOf, Accepted
<1>4. ParserOf(c, at, size) \in Parsers(T, size)
  BY DEF ParserOf, Parsers
<1>5. QED
  BY <1>3, <1>4

LEMMA DataAlignIsInt ==
  ASSUME NEW p \in Int, NEW a \in PrimitiveSizes
  PROVE  DataAlign(p, a) \in Int
<1>1. AlignTo(p - HeaderSize, a) \in Int
  BY AlignToBounds DEF HeaderSize
<1>2. QED
  BY <1>1 DEF DataAlign, HeaderSize

LEMMA ParserAligns ==
  ASSUME NEW T, NEW size, NEW p \in Parsers(T, size), NEW a \in PrimitiveSizes,
         NEW q, q = AlignReadOffset(p, a)
  PROVE  /\ q \in Parsers(T, size) /\ q.b = p.b /\ q.pos = DataAlign(p.pos, a)
         /\ DataAlign(p.pos, a) \in Int
<1>1. p.pos \in Int
  BY ParserIs
<1>2. DataAlign(p.pos, a) \in Int
  BY <1>1, DataAlignIsInt
<1>3. q = [p EXCEPT !.pos = DataAlign(p.pos, a)]
  BY DEF AlignReadOffset
<1>4. QED
  BY <1>2, <1>3, ParserMoves

LEMMA ParserHas ==
  ASSUME NEW T, NEW size \in Nat, NEW p \in Parsers(T, size), NEW n \in Nat
  PROVE  Available(p, n) <=> (IF p.pos >= size THEN n = 0 ELSE p.pos + n <= size)
<1>1. p.pos \in Int /\ p.size = size
  BY ParserIs
<1>2. QED
  BY <1>1 DEF Available, BytesRemaining

--------------------------------------------------------------------------------
(* Fields in the sizes they really have *)

\* The field whose bound is the size it has.
Exact(m) == IF Prefixed4(m) THEN [m EXCEPT !.bound = Actual(m)] ELSE m

LEMMA ExactIs ==
  ASSUME NEW m, PlainLeaf(m), NEW e, e = Exact(m)
  PROVE  /\ PlainLeaf(e) /\ e \in ConstrainedLeaf /\ e.kind = m.kind
         /\ Prefixed4(e) = Prefixed4(m) /\ FieldAlignment(e) = FieldAlignment(m)
         /\ Reserve(e) = UsedWidth(m)
         /\ m.kind \in {"primitive", "array"} => e = m
         /\ m.kind = "string" => e.bound = m.chars
         /\ m.kind = "sequence" => e.bound = m.count /\ e.size = m.size
         /\ \A at : LeafPlace(e, at) = LeafPlace(m, at)
<1>1. m \in ConstrainedLeaf /\ (m.kind = "sequence" => m.size <= PrefixSize)
  BY DEF PlainLeaf
<1>2. m.kind \in {"primitive", "array", "string", "sequence"}
  BY <1>1, ConstrainedLeafFields
<1>3. CASE m.kind \in {"primitive", "array"}
  <2>1. e = m /\ ~Prefixed4(m)
    BY <1>3 DEF Exact, Prefixed4
  <2>2. Reserve(m) = UsedWidth(m)
    BY <2>1, LeafWidths
  <2>3. QED
    BY <1>1, <1>3, <2>1, <2>2
<1>4. CASE m.kind = "string"
  <2>1. m \in [kind : {"string"}, chars : Nat, bound : Nat, checked : {TRUE}]
    BY <1>1, <1>4 DEF ConstrainedLeaf
  <2>2. e = [kind |-> "string", chars |-> m.chars, bound |-> m.chars, checked |-> TRUE]
    BY <1>4, <2>1 DEF Exact, Prefixed4, Actual
  <2>3. /\ e \in ConstrainedLeaf /\ e.kind = "string" /\ e.bound = m.chars /\ e.chars = m.chars
    <3>1. m.chars \in Nat
      BY <2>1
    <3>2. e.kind = "string" /\ e.bound = m.chars /\ e.chars = m.chars
      BY <2>2
    <3>3. e \in [kind : {"string"}, chars : Nat, bound : Nat, checked : {TRUE}]
      BY <2>2, <3>1
    <3>4. QED
      BY <3>2, <3>3 DEF ConstrainedLeaf
  <2>4. PlainLeaf(e) /\ Prefixed4(e) /\ Prefixed4(m) /\ Actual(e) = e.bound /\ Bytes(e) = Bytes(m)
    BY <1>4, <2>3 DEF PlainLeaf, Prefixed4, Actual, Bytes
  <2>5. UsedWidth(e) = Reserve(e)
    BY <2>4, LeafWidths
  <2>6. UsedWidth(e) = UsedWidth(m)
    BY <1>4, <2>3, <2>4 DEF UsedWidth
  <2>7. FieldAlignment(e) = FieldAlignment(m) /\ \A at : LeafPlace(e, at) = LeafPlace(m, at)
    BY <2>4 DEF FieldAlignment, LeafPlace
  <2>8. QED
    BY <1>4, <2>3, <2>4, <2>5, <2>6, <2>7
<1>5. CASE m.kind = "sequence"
  <2>1. m \in [kind : {"sequence"}, size : PrimitiveSizes, count : Nat, bound : Nat, checked : {TRUE}]
    BY <1>1, <1>5 DEF ConstrainedLeaf
  <2>2. e = [kind |-> "sequence", size |-> m.size, count |-> m.count, bound |-> m.count, checked |-> TRUE]
    BY <1>5, <2>1 DEF Exact, Prefixed4, Actual
  <2>3. /\ e \in ConstrainedLeaf /\ e.kind = "sequence" /\ e.bound = m.count /\ e.size = m.size /\ e.count = m.count
    <3>1. m.size \in PrimitiveSizes /\ m.count \in Nat
      BY <2>1
    <3>2. e.kind = "sequence" /\ e.bound = m.count /\ e.size = m.size /\ e.count = m.count
      BY <2>2
    <3>3. e \in [kind : {"sequence"}, size : PrimitiveSizes, count : Nat, bound : Nat, checked : {TRUE}]
      BY <2>2, <3>1
    <3>4. QED
      BY <3>2, <3>3 DEF ConstrainedLeaf
  <2>4. PlainLeaf(e) /\ Prefixed4(e) /\ Prefixed4(m) /\ Actual(e) = e.bound /\ Bytes(e) = Bytes(m)
    BY <1>1, <1>5, <2>3 DEF PlainLeaf, Prefixed4, Actual, Bytes
  <2>5. UsedWidth(e) = Reserve(e)
    BY <2>4, LeafWidths
  <2>6. UsedWidth(e) = UsedWidth(m)
    BY <1>5, <2>3, <2>4 DEF UsedWidth
  <2>7. FieldAlignment(e) = FieldAlignment(m) /\ \A at : LeafPlace(e, at) = LeafPlace(m, at)
    BY <2>4 DEF FieldAlignment, LeafPlace
  <2>8. QED
    BY <1>5, <2>3, <2>4, <2>5, <2>6, <2>7
<1>6. QED
  BY <1>2, <1>3, <1>4, <1>5

--------------------------------------------------------------------------------
(* What the parser makes of a field *)

\* Builders closed under the fields of a type.
ClosedUnderLeaves(T) == \A b \in T : \A m \in ConstrainedLeaf : LayoutLeaf(b, m) \in T

\* The parser behind a prefix, and what it holds.
LEMMA ParserAtPrefix ==
  ASSUME NEW T, NEW size, NEW p \in Parsers(T, size), NEW wire \in Wires, NEW noise \in Nat,
         NEW a, a = AlignReadOffset(p, PrefixSize), NEW c, c = [a EXCEPT !.pos = @ + PrefixSize],
         NEW n, n = NumberAt(wire, noise, a.pos)
  PROVE  /\ a \in Parsers(T, size) /\ a.pos = DataAlign(p.pos, PrefixSize) /\ a.b = p.b
         /\ c \in Parsers(T, size) /\ c.pos = a.pos + PrefixSize /\ c.b = p.b
         /\ c.pos \in Int /\ a.pos \in Int /\ n \in Nat /\ p.b \in T
<1>1. PrefixSize \in PrimitiveSizes /\ PrefixSize \in Nat
  BY DEF PrefixSize, PrimitiveSizes
<1>2. /\ a \in Parsers(T, size) /\ a.b = p.b /\ a.pos = DataAlign(p.pos, PrefixSize) /\ a.pos \in Int
  BY <1>1, ParserAligns
<1>3. c = [a EXCEPT !.pos = a.pos + PrefixSize] /\ a.pos + PrefixSize \in Int
  BY <1>1, <1>2
<1>4. c \in Parsers(T, size) /\ c.b = a.b /\ c.pos = a.pos + PrefixSize
  BY <1>2, <1>3, ParserMoves
<1>5. n \in Nat
  BY DEF NumberAt, Wires
<1>6. p.b \in T
  BY ParserIs
<1>7. QED
  BY <1>2, <1>3, <1>4, <1>5, <1>6

LEMMA ParsedLeafTyped ==
  ASSUME NEW T, ClosedUnderLeaves(T), NEW size, NEW p \in Parsers(T, size),
         NEW m \in ConstrainedLeaf, NEW wire \in Wires, NEW noise \in Nat
  PROVE  ParseLeaf(p, m, wire, noise) \in Parsers(T, size)
<1>1. p.b \in T /\ p.pos \in Int
  BY ParserIs
<1>2. m.kind \in {"primitive", "array", "string", "sequence"} /\ m \in AnyLeaf
  BY ConstrainedLeafFields
<1>3. \A q \in Int, s \in PrimitiveSizes : DataAlign(q, s) \in Int
  BY DataAlignIsInt
<1>4. \A l \in ConstrainedLeaf : LayoutLeaf(p.b, l) \in T
  BY <1>1 DEF ClosedUnderLeaves
<1>5. CASE m.kind = "primitive"
  <2>1. m.size \in PrimitiveSizes /\ m.size \in Nat
    BY <1>2, <1>5, AnyLeafFields DEF PrimitiveSizes
  <2> DEFINE q == AlignReadOffset(p, m.size)
  <2>2. q \in Parsers(T, size) /\ q.b = p.b /\ q.pos \in Int
    BY <2>1, ParserAligns
  <2>3. Allocate(p.b, PrimitiveLayout(m.size)) = LayoutLeaf(p.b, m)
    BY <1>5 DEF LayoutLeaf
  <2>4. /\ ParseLeaf(p, m, wire, noise) = ParsePrimitive(p, m.size)
    BY <1>5 DEF ParseLeaf
  <2>5. \/ ParsePrimitive(p, m.size) = Refused(q)
        \/ ParsePrimitive(p, m.size) = Accepted(q, LayoutLeaf(p.b, m), q.pos + m.size)
    BY <2>2, <2>3 DEF ParsePrimitive
  <2> HIDE DEF q
  <2>6. Refused(q) \in Parsers(T, size)
    BY <2>2, ParserIs
  <2>7. q.pos + m.size \in Int /\ LayoutLeaf(p.b, m) \in T
    BY <1>4, <2>1, <2>2
  <2>8. Accepted(q, LayoutLeaf(p.b, m), q.pos + m.size) \in Parsers(T, size)
    BY <2>2, <2>7, ParserAccepts
  <2>9. QED
    BY <2>4, <2>5, <2>6, <2>8
<1>6. CASE m.kind = "array"
  <2>1. m.size \in PrimitiveSizes /\ m.size \in Nat /\ m.count \in Nat
    BY <1>2, <1>6, AnyLeafFields DEF PrimitiveSizes
  <2> DEFINE end == DataAlign(p.pos, m.size) + m.size * m.count
  <2>2. end \in Int
    BY <1>1, <1>3, <2>1
  <2>3. AllocateInOneShot(p.b, PrimitiveArrayLayout(m.size, m.count)) = LayoutLeaf(p.b, m)
    BY <1>6 DEF LayoutLeaf
  <2>4. ParseLeaf(p, m, wire, noise) = Accepted(p, LayoutLeaf(p.b, m), end)
    BY <1>6, <2>3 DEF ParseLeaf, ParsePrimitiveArray
  <2> HIDE DEF end
  <2>5. LayoutLeaf(p.b, m) \in T
    BY <1>4
  <2>6. QED
    BY <2>2, <2>4, <2>5, ParserAccepts
<1> DEFINE a == AlignReadOffset(p, PrefixSize)
           n == NumberAt(wire, noise, a.pos)
           c == [a EXCEPT !.pos = @ + PrefixSize]
<1>7. /\ a \in Parsers(T, size) /\ c \in Parsers(T, size)
      /\ c.b = p.b /\ c.pos \in Int /\ n \in Nat
  BY ParserAtPrefix
<1>8. Refused(a) \in Parsers(T, size) /\ Refused(c) \in Parsers(T, size)
  <2> HIDE DEF a, c
  <2>1. QED
    BY <1>7, ParserIs
<1>9. CASE m.kind = "string"
  <2> DEFINE f == [kind |-> "string", chars |-> 0, bound |-> n - 1, checked |-> TRUE]
             to == Accepted(c, Allocate(c.b, StringLayout(n \div 1 - 1, 1)), c.pos + n)
  <2>1. ParseLeaf(p, m, wire, noise) = ParseString(p, 1, wire, noise)
    BY <1>9 DEF ParseLeaf
  <2>2. \/ ParseString(p, 1, wire, noise) = Refused(a)
        \/ ParseString(p, 1, wire, noise) = Refused(c)
        \/ ~(n < 1) /\ ParseString(p, 1, wire, noise) = to
    BY DEF ParseString
  <2> HIDE DEF a, c, n
  <2>3. ASSUME ~(n < 1)
        PROVE  to \in Parsers(T, size)
    <3>1. n - 1 \in Nat /\ n \div 1 - 1 = n - 1 /\ c.pos + n \in Int
      BY <1>7, <2>3
    <3>2. f \in [kind : {"string"}, chars : Nat, bound : Nat, checked : {TRUE}]
      BY <3>1
    <3>3. f \in ConstrainedLeaf /\ f.kind = "string" /\ f.bound = n - 1
      BY <3>2 DEF ConstrainedLeaf
    <3> HIDE DEF f
    <3>4. LayoutLeaf(p.b, f) = Allocate(p.b, StringLayout(n - 1, 1))
      BY <3>3 DEF LayoutLeaf
    <3>5. LayoutLeaf(p.b, f) \in T
      BY <1>4, <3>3
    <3>6. to = Accepted(c, LayoutLeaf(p.b, f), c.pos + n)
      BY <1>7, <3>1, <3>4
    <3> HIDE DEF to
    <3>7. QED
      BY <1>7, <3>1, <3>5, <3>6, ParserAccepts
  <2> HIDE DEF to
  <2>4. QED
    BY <1>8, <2>1, <2>2, <2>3
<1>10. CASE m.kind = "sequence"
  <2>1. m.size \in PrimitiveSizes /\ m.size \in Nat
    BY <1>2, <1>10, AnyLeafFields DEF PrimitiveSizes
  <2> DEFINE f == [kind |-> "sequence", size |-> m.size, count |-> 0, bound |-> n, checked |-> TRUE]
             end == DataAlign(c.pos, m.size) + m.size * n
             to == Accepted(c, AllocateInOneShot(c.b, PrimitiveSequenceLayout(m.size, n)), end)
  <2>2. ParseLeaf(p, m, wire, noise) = ParsePrimitiveSequence(p, m.size, 0, wire, noise)
    BY <1>10 DEF ParseLeaf
  <2>3. \/ ParsePrimitiveSequence(p, m.size, 0, wire, noise) = Refused(a)
        \/ ParsePrimitiveSequence(p, m.size, 0, wire, noise) = to
    BY DEF ParsePrimitiveSequence
  <2> HIDE DEF a, c, n
  <2>4. f \in [kind : {"sequence"}, size : PrimitiveSizes, count : Nat, bound : Nat, checked : {TRUE}]
    BY <1>7, <2>1
  <2>5. f \in ConstrainedLeaf /\ f.kind = "sequence" /\ f.bound = n /\ f.size = m.size
    BY <2>4 DEF ConstrainedLeaf
  <2> HIDE DEF f
  <2>6. LayoutLeaf(p.b, f) = AllocateInOneShot(p.b, PrimitiveSequenceLayout(m.size, n))
    BY <2>5 DEF LayoutLeaf
  <2>7. LayoutLeaf(p.b, f) \in T /\ end \in Int
    BY <1>3, <1>4, <1>7, <2>1, <2>5
  <2>8. to = Accepted(c, LayoutLeaf(p.b, f), end)
    BY <1>7, <2>6
  <2> HIDE DEF to, end
  <2>9. to \in Parsers(T, size)
    BY <1>7, <2>7, <2>8, ParserAccepts
  <2>10. QED
    BY <1>8, <2>2, <2>3, <2>9
<1>11. QED
  BY <1>2, <1>5, <1>6, <1>9, <1>10

\* A plain field whose bytes are there, and whose prefix holds its size.
ComesNext(m, wire, cursor, at, e, size) ==
  /\ PlainLeaf(m) /\ wire \in Wires /\ size \in Nat
  /\ cursor \in Nat /\ at = DataAlign(cursor, FieldAlignment(m)) /\ at \in Nat
  /\ e = at + UsedWidth(m) /\ e <= size
  /\ Prefixed4(m) => /\ at \in DOMAIN wire /\ wire[at] = Number(m, Actual(m))
                     /\ Length(m, Actual(m)) <= NumberMax

\* A parser in front of such a field, whose builder is in a closed set.
ParsesNext(T, size, p, m, wire, at, e, noise) ==
  /\ ClosedUnderLeaves(T) /\ p \in Parsers(T, size) /\ noise \in Nat
  /\ ComesNext(m, wire, p.pos, at, e, size)

LEMMA ParsedExactly ==
  ASSUME NEW T, NEW size, NEW p, NEW m, NEW wire, NEW at, NEW e, NEW noise,
         ParsesNext(T, size, p, m, wire, at, e, noise)
  PROVE  /\ ParseLeaf(p, m, wire, noise) = ParserOf(LayoutLeaf(p.b, Exact(m)), e, size)
         /\ LayoutLeaf(p.b, Exact(m)) \in T /\ e \in Nat
<1>0. ClosedUnderLeaves(T) /\ p \in Parsers(T, size) /\ noise \in Nat
  BY DEF ParsesNext
<1>1. /\ PlainLeaf(m) /\ wire \in Wires /\ size \in Nat
      /\ p.pos \in Nat /\ at = DataAlign(p.pos, FieldAlignment(m)) /\ at \in Nat
      /\ e = at + UsedWidth(m) /\ e <= size
      /\ (Prefixed4(m) => at \in DOMAIN wire /\ wire[at] = Number(m, Actual(m)))
      /\ (Prefixed4(m) => Length(m, Actual(m)) <= NumberMax)
  BY DEF ParsesNext, ComesNext
<1>2. p.b \in T /\ p.size = size
  BY <1>0, ParserIs
<1> DEFINE x == Exact(m)
<1>3. /\ x \in ConstrainedLeaf /\ x.kind = m.kind
      /\ (m.kind \in {"primitive", "array"} => x = m)
      /\ (m.kind = "string" => x.bound = m.chars)
      /\ (m.kind = "sequence" => x.bound = m.count /\ x.size = m.size)
  BY <1>1, ExactIs
<1> HIDE DEF x
<1>4. /\ e \in Nat /\ m.kind \in {"primitive", "array", "string", "sequence"}
      /\ m.kind = "primitive" => m.size \in PrimitiveSizes /\ e = DataAlign(p.pos, m.size) + m.size
      /\ m.kind = "array" => /\ m.size \in PrimitiveSizes /\ m.count \in Nat \ {0}
                             /\ e = ElementsEnd(p.pos, m.size, m.count)
      /\ m.kind = "string" => m.chars \in Nat /\ e = PrefixEnd(p.pos) + (m.chars + 1)
      /\ m.kind = "sequence" => /\ m.size \in PrimitiveSizes /\ m.count \in Nat
                                /\ e = ElementsEnd(PrefixEnd(p.pos), m.size, m.count)
                                /\ PrefixEnd(p.pos) \in Nat /\ PrefixEnd(p.pos) <= e
  BY <1>1, LeafEndIs
<1>5. LayoutLeaf(p.b, x) \in T
  BY <1>0, <1>2, <1>3 DEF ClosedUnderLeaves
<1>6. CASE m.kind = "primitive"
  <2> DEFINE q == AlignReadOffset(p, m.size)
  <2>1. q \in Parsers(T, size) /\ q.b = p.b /\ q.pos = DataAlign(p.pos, m.size) /\ q.pos \in Int
    BY <1>0, <1>4, <1>6, ParserAligns
  <2>2. m.size \in Nat
    BY <1>4, <1>6 DEF PrimitiveSizes
  <2>3. q.pos + m.size = e /\ m.size # 0
    BY <1>4, <1>6, <2>1 DEF PrimitiveSizes
  <2>4. Available(q, m.size)
    BY <1>0, <1>1, <2>1, <2>2, <2>3, ParserHas
  <2>5. Allocate(p.b, PrimitiveLayout(m.size)) = LayoutLeaf(p.b, x)
    BY <1>3, <1>6 DEF LayoutLeaf
  <2>6. ParseLeaf(p, m, wire, noise) = ParsePrimitive(p, m.size)
    BY <1>6 DEF ParseLeaf
  <2>7. ParsePrimitive(p, m.size) = Accepted(q, LayoutLeaf(p.b, x), e)
    BY <2>1, <2>3, <2>4, <2>5 DEF ParsePrimitive
  <2> HIDE DEF q
  <2>8. Accepted(q, LayoutLeaf(p.b, x), e) = ParserOf(LayoutLeaf(p.b, x), e, size)
    BY <1>0, <1>4, <1>5, <2>1, ParserAccepts
  <2>9. QED
    BY <1>4, <1>5, <2>6, <2>7, <2>8 DEF x
<1>7. CASE m.kind = "array"
  <2>1. AllocateInOneShot(p.b, PrimitiveArrayLayout(m.size, m.count)) = LayoutLeaf(p.b, x)
    BY <1>3, <1>7 DEF LayoutLeaf
  <2>2. e = DataAlign(p.pos, m.size) + m.size * m.count
    BY <1>4, <1>7 DEF ElementsEnd
  <2>3. ParseLeaf(p, m, wire, noise) = Accepted(p, LayoutLeaf(p.b, x), e)
    BY <1>7, <2>1, <2>2 DEF ParseLeaf, ParsePrimitiveArray
  <2>4. Accepted(p, LayoutLeaf(p.b, x), e) = ParserOf(LayoutLeaf(p.b, x), e, size)
    BY <1>0, <1>4, <1>5, ParserAccepts
  <2>5. QED
    BY <1>4, <1>5, <2>3, <2>4 DEF x
<1> DEFINE a == AlignReadOffset(p, PrefixSize)
           n == NumberAt(wire, noise, a.pos)
           c == [a EXCEPT !.pos = @ + PrefixSize]
<1>8. /\ a \in Parsers(T, size) /\ a.pos = DataAlign(p.pos, PrefixSize)
      /\ c \in Parsers(T, size) /\ c.pos = a.pos + PrefixSize /\ c.b = p.b
      /\ c.pos \in Int /\ a.pos \in Int /\ n \in Nat
  BY <1>0, <1>1, ParserAtPrefix
<1>9. ASSUME m.kind \in {"string", "sequence"}
      PROVE  /\ a.pos = at /\ n = Length(m, Actual(m)) /\ c.pos = PrefixEnd(p.pos)
             /\ Prefixed4(m)
  <2>1. Prefixed4(m) /\ FieldAlignment(m) = PrefixSize
    BY <1>9 DEF Prefixed4, FieldAlignment
  <2>2. a.pos = at
    BY <1>1, <1>8, <2>1
  <2>3. n = Length(m, Actual(m))
    <3>1. n = Number(m, Actual(m))
      BY <1>1, <2>1, <2>2 DEF NumberAt
    <3>2. QED
      BY <1>1, <2>1, <3>1, NumberIsLength
  <2>4. c.pos = PrefixEnd(p.pos)
    BY <1>8 DEF PrefixEnd
  <2>5. QED
    BY <2>1, <2>2, <2>3, <2>4
<1>10. ASSUME c.pos <= e
       PROVE  Available(a, PrefixSize)
  <2> HIDE DEF a, c
  <2>1. PrefixSize \in Nat /\ PrefixSize # 0
    BY DEF PrefixSize
  <2>2. QED
    BY <1>0, <1>1, <1>4, <1>8, <1>10, <2>1, ParserHas
<1>11. CASE m.kind = "string"
  <2> DEFINE to == Accepted(c, Allocate(c.b, StringLayout(n \div 1 - 1, 1)), c.pos + n)
  <2>1. ParseLeaf(p, m, wire, noise) = ParseString(p, 1, wire, noise)
    BY <1>11 DEF ParseLeaf
  <2>2. Available(a, PrefixSize) /\ ~(n < 1) /\ Available(c, n) /\ n % 1 = 0 => ParseString(p, 1, wire, noise) = to
    BY DEF ParseString
  <2> HIDE DEF a, c, n
  <2>3. n = m.chars + 1 /\ m.chars \in Nat
    BY <1>4, <1>9, <1>11 DEF Length, Actual
  <2>4. c.pos + n = e /\ c.pos <= e /\ ~(n < 1) /\ n % 1 = 0 /\ n \div 1 - 1 = m.chars
    BY <1>4, <1>8, <1>9, <1>11, <2>3
  <2>5. Available(c, n)
    BY <1>0, <1>1, <1>8, <2>3, <2>4, ParserHas
  <2>6. LayoutLeaf(p.b, x) = Allocate(p.b, StringLayout(m.chars, 1))
    BY <1>3, <1>11 DEF LayoutLeaf
  <2>7. to = Accepted(c, LayoutLeaf(p.b, x), e)
    BY <1>8, <2>4, <2>6
  <2> HIDE DEF to
  <2>8. Accepted(c, LayoutLeaf(p.b, x), e) = ParserOf(LayoutLeaf(p.b, x), e, size)
    BY <1>0, <1>4, <1>5, <1>8, ParserAccepts
  <2>9. QED
    BY <1>4, <1>5, <1>10, <2>1, <2>2, <2>4, <2>5, <2>7, <2>8 DEF x
<1>12. CASE m.kind = "sequence"
  <2> DEFINE end == DataAlign(c.pos, m.size) + m.size * n
             to == Accepted(c, AllocateInOneShot(c.b, PrimitiveSequenceLayout(m.size, n)), end)
  <2>1. ParseLeaf(p, m, wire, noise) = ParsePrimitiveSequence(p, m.size, 0, wire, noise)
    BY <1>12 DEF ParseLeaf
  <2>2. Available(a, PrefixSize) => ParsePrimitiveSequence(p, m.size, 0, wire, noise) = to
    BY DEF ParsePrimitiveSequence
  <2> HIDE DEF a, c, n
  <2>3. n = m.count
    BY <1>4, <1>9, <1>12 DEF Length, Actual
  <2>4. c.pos <= e /\ end = e
    <3>1. c.pos = PrefixEnd(p.pos) /\ c.pos <= e
      BY <1>4, <1>9, <1>12
    <3>2. e = DataAlign(PrefixEnd(p.pos), m.size) + m.size * m.count
      <4>1. m.size \in PrimitiveSizes /\ m.size <= PrefixSize /\ PrefixEnd(p.pos) \in Nat
        BY <1>1, <1>4, <1>12 DEF PlainLeaf
      <4>2. DataAlign(PrefixEnd(p.pos), m.size) = PrefixEnd(p.pos)
        BY <1>1, <4>1, PrefixAligns
      <4>3. m.size \in Nat /\ m.size * 0 = 0
        BY <4>1, SizesArePositive
      <4>4. m.count = 0 => e = PrefixEnd(p.pos) + m.size * m.count
        BY <1>4, <1>12, <4>1, <4>3 DEF ElementsEnd
      <4>5. m.count # 0 => e = DataAlign(PrefixEnd(p.pos), m.size) + m.size * m.count
        BY <1>4, <1>12 DEF ElementsEnd
      <4>6. QED
        BY <4>2, <4>4, <4>5
    <3>3. QED
      BY <2>3, <3>1, <3>2
  <2>5. LayoutLeaf(p.b, x) = AllocateInOneShot(p.b, PrimitiveSequenceLayout(m.size, n))
    BY <1>3, <1>12, <2>3 DEF LayoutLeaf
  <2>6. to = Accepted(c, LayoutLeaf(p.b, x), e)
    BY <1>8, <2>4, <2>5
  <2> HIDE DEF to, end
  <2>7. Accepted(c, LayoutLeaf(p.b, x), e) = ParserOf(LayoutLeaf(p.b, x), e, size)
    BY <1>0, <1>4, <1>5, <1>8, ParserAccepts
  <2>8. QED
    BY <1>4, <1>5, <1>10, <2>1, <2>2, <2>4, <2>6, <2>7 DEF x
<1>13. QED
  BY <1>4, <1>6, <1>7, <1>11, <1>12

--------------------------------------------------------------------------------
(* The parser over the fields of a nested message, and over a message *)

ParseFieldsStays(T, m, wire, noise) ==
  \A k \in 1 .. Len(m.fields) : \A x \in T : ParseLeaf(x, m.fields[k], wire, noise) \in T

ParseFieldsSteps(g, T, b, m, wire, noise) ==
  /\ g \in [0 .. Len(m.fields) -> T]
  /\ g[0] = b /\ FoldLeft(LAMBDA x, f : ParseLeaf(x, f, wire, noise), b, m.fields) = g[Len(m.fields)]
  /\ \A k \in 1 .. Len(m.fields) : g[k] = ParseLeaf(g[k - 1], m.fields[k], wire, noise)

LEMMA ParseFieldsTrace ==
  ASSUME NEW T, NEW b \in T, NEW m, NEW S, m.fields \in Seq(S), NEW wire, NEW noise,
         ParseFieldsStays(T, m, wire, noise)
  PROVE  \E g : ParseFieldsSteps(g, T, b, m, wire, noise)
<1> DEFINE n == Len(m.fields)
           seq == m.fields
           F(x, k) == ParseLeaf(x, m.fields[k], wire, noise)
           step == [k \in 1 .. n |-> [x \in T |-> F(x, k)]]
           body(f) == [s \in SUBSET DOMAIN seq |->
                        IF s = {} THEN b ELSE F(f[s \ {Max(s)}], Max(s))]
           it == CHOOSE f : f = body(f)
<1>0. n \in Nat /\ DOMAIN seq = 1 .. n
  OBVIOUS
<1>1. FoldLeft(LAMBDA x, f : ParseLeaf(x, f, wire, noise), b, m.fields) = it[DOMAIN seq]
  BY <1>0 DEF FoldLeft, MapThenFoldSet
<1>2. step \in [1 .. n -> [T -> T]] /\ \A k \in 1 .. n : \A x \in T : step[k][x] = F(x, k)
  BY DEF ParseFieldsStays
<1> HIDE DEF F, step, seq, n
<1>3. \E f : f = body(f)
  <2>1. PICK f : FoldsBy(f, n, T, b, step)
    BY <1>0, <1>2, FoldExists
  <2>2. \A s \in SUBSET (1 .. n) :
          s # {} => step[Max(s)][f[s \ {Max(s)}]] = F(f[s \ {Max(s)}], Max(s))
    BY <1>2, <2>1 DEF FoldsBy
  <2>3. f = body(f)
    BY <1>0, <2>1, <2>2 DEF FoldsBy
  <2> HIDE DEF body
  <2>4. QED
    BY <2>3
<1>4. it = body(it)
  BY <1>3
<1> HIDE DEF it
<1>5. it[{}] = b /\ \A s \in SUBSET (1 .. n) : s # {} => it[s] = F(it[s \ {Max(s)}], Max(s))
  BY <1>0, <1>4
<1>6. StepsBy(it, n, T, b, step)
  BY <1>2, <1>5 DEF StepsBy
<1>7. PICK g : TraceOf(g, it, n, T, b, step)
  BY <1>0, <1>2, <1>6, FoldTrace
<1>8. \A k \in 1 .. n : g[k] = F(g[k - 1], k)
  <2> TAKE k \in 1 .. n
  <2>1. k - 1 \in 0 .. n
    BY <1>0
  <2>2. QED
    BY <1>2, <1>7, <2>1 DEF TraceOf
<1>9. g[0] = b /\ g[n] = it[DOMAIN seq]
  BY <1>0, <1>7 DEF TraceOf
<1>10. ParseFieldsSteps(g, T, b, m, wire, noise)
  BY <1>1, <1>7, <1>8, <1>9 DEF F, n, TraceOf, ParseFieldsSteps
<1>11. QED
  BY <1>10

ParseStays(T, msg, wire, noise) ==
  \A k \in 1 .. Len(msg) : \A x \in T : ParseMember(x, msg[k], wire, noise) \in T

ParseSteps(g, T, size, msg, wire, noise) ==
  /\ g \in [0 .. Len(msg) -> T]
  /\ g[0] = NewParser(size) /\ ParsedLayout(msg, wire, size, noise) = Finalize(g[Len(msg)].b)
  /\ \A k \in 1 .. Len(msg) : g[k] = ParseMember(g[k - 1], msg[k], wire, noise)

LEMMA ParseTrace ==
  ASSUME NEW T, NEW size, NEW b \in T, b = NewParser(size), NEW msg, NEW S, msg \in Seq(S),
         NEW wire, NEW noise, ParseStays(T, msg, wire, noise)
  PROVE  \E g : ParseSteps(g, T, size, msg, wire, noise)
<1> DEFINE n == Len(msg)
           seq == msg
           F(x, k) == ParseMember(x, msg[k], wire, noise)
           step == [k \in 1 .. n |-> [x \in T |-> F(x, k)]]
           body(f) == [s \in SUBSET DOMAIN seq |->
                        IF s = {} THEN b ELSE F(f[s \ {Max(s)}], Max(s))]
           it == CHOOSE f : f = body(f)
<1>0. n \in Nat /\ DOMAIN seq = 1 .. n
  OBVIOUS
<1>1. ParsedLayout(msg, wire, size, noise) = Finalize(it[DOMAIN seq].b)
  BY <1>0 DEF ParsedLayout, FoldLeft, MapThenFoldSet
<1>2. step \in [1 .. n -> [T -> T]] /\ \A k \in 1 .. n : \A x \in T : step[k][x] = F(x, k)
  BY DEF ParseStays
<1> HIDE DEF F, step, seq, n
<1>3. \E f : f = body(f)
  <2>1. PICK f : FoldsBy(f, n, T, b, step)
    BY <1>0, <1>2, FoldExists
  <2>2. \A s \in SUBSET (1 .. n) :
          s # {} => step[Max(s)][f[s \ {Max(s)}]] = F(f[s \ {Max(s)}], Max(s))
    BY <1>2, <2>1 DEF FoldsBy
  <2>3. f = body(f)
    BY <1>0, <2>1, <2>2 DEF FoldsBy
  <2> HIDE DEF body
  <2>4. QED
    BY <2>3
<1>4. it = body(it)
  BY <1>3
<1> HIDE DEF it
<1>5. it[{}] = b /\ \A s \in SUBSET (1 .. n) : s # {} => it[s] = F(it[s \ {Max(s)}], Max(s))
  BY <1>0, <1>4
<1>6. StepsBy(it, n, T, b, step)
  BY <1>2, <1>5 DEF StepsBy
<1>7. PICK g : TraceOf(g, it, n, T, b, step)
  BY <1>0, <1>2, <1>6, FoldTrace
<1>8. \A k \in 1 .. n : g[k] = F(g[k - 1], k)
  <2> TAKE k \in 1 .. n
  <2>1. k - 1 \in 0 .. n
    BY <1>0
  <2>2. QED
    BY <1>2, <1>7, <2>1 DEF TraceOf
<1>9. g[0] = b /\ g[n] = it[DOMAIN seq]
  BY <1>0, <1>7 DEF TraceOf
<1>10. ParseSteps(g, T, size, msg, wire, noise)
  BY <1>1, <1>7, <1>8, <1>9 DEF F, n, TraceOf, ParseSteps
<1>11. QED
  BY <1>10

LEMMA OpenedClosed == ClosedUnderLeaves(OpenedBuilders)
<1> SUFFICES ASSUME NEW x \in OpenedBuilders, NEW m \in ConstrainedLeaf
             PROVE  LayoutLeaf(x, m) \in OpenedBuilders
  BY DEF ClosedUnderLeaves
<1>1. PICK o \in Nat, y \in PrimitiveSizes, ms \in Seq(PlacedMembers), start \in Nat, n \in Structs :
        x = BuilderOf(o, y, ms, <<StructContext(start, n)>>)
  BY DEF OpenedBuilders
<1>2. QED
  BY <1>1, LayoutLeafInStruct

LEMMA BuildersClosed == ClosedUnderLeaves(Builders)
<1> SUFFICES ASSUME NEW x \in Builders, NEW m \in ConstrainedLeaf
             PROVE  LayoutLeaf(x, m) \in Builders
  BY DEF ClosedUnderLeaves
<1> DEFINE e == Extended(x, LeafLayout(m))
<1> HIDE DEF e
<1>1. e = Extended(x, LeafLayout(m))
  BY DEF e
<1>2. QED
  BY <1>1, LayoutLeafOnTop

LEMMA ParsersWiden ==
  ASSUME NEW T, NEW U, T \subseteq U, NEW size
  PROVE  Parsers(T, size) \subseteq Parsers(U, size)
BY DEF Parsers

\* What a call that was accepted leaves, whatever the builder it came with.
LEMMA ParserChanges ==
  ASSUME NEW T, NEW U, NEW size, NEW p \in Parsers(T, size), NEW c \in U, NEW at \in Int
  PROVE  /\ Accepted(p, c, at) = ParserOf(c, at, size)
         /\ ParserOf(c, at, size) \in Parsers(U, size)
         /\ ParserOf(c, at, size).b = c /\ ParserOf(c, at, size).pos = at
<1>1. p \in Parsers(T \cup U, size)
  <2>1. T \subseteq T \cup U
    OBVIOUS
  <2>2. QED
    BY <2>1, ParsersWiden
<1>2. c \in T \cup U
  OBVIOUS
<1>3. Accepted(p, c, at) = ParserOf(c, at, size)
  BY <1>1, <1>2, ParserAccepts
<1>4. ParserOf(c, at, size) \in Parsers(U, size)
  BY DEF ParserOf, Parsers
<1>5. ParserOf(c, at, size).b = c /\ ParserOf(c, at, size).pos = at
  BY DEF ParserOf
<1>6. QED
  BY <1>3, <1>4, <1>5

--------------------------------------------------------------------------------
(* What the parser makes of a member *)

LEMMA FieldsParsedTyped ==
  ASSUME NEW size, NEW p \in Parsers(OpenedBuilders, size), NEW m, m.fields \in Seq(ConstrainedLeaf),
         NEW wire \in Wires, NEW noise \in Nat
  PROVE  /\ \E g : ParseFieldsSteps(g, Parsers(OpenedBuilders, size), p, m, wire, noise)
         /\ FoldLeft(LAMBDA x, f : ParseLeaf(x, f, wire, noise), p, m.fields) \in Parsers(OpenedBuilders, size)
<1> DEFINE T == Parsers(OpenedBuilders, size)
           n == Len(m.fields)
<1>1. ParseFieldsStays(T, m, wire, noise)
  <2> SUFFICES ASSUME NEW k \in 1 .. Len(m.fields), NEW x \in T
               PROVE  ParseLeaf(x, m.fields[k], wire, noise) \in T
    BY DEF ParseFieldsStays
  <2>1. m.fields[k] \in ConstrainedLeaf
    OBVIOUS
  <2>2. QED
    BY <2>1, OpenedClosed, ParsedLeafTyped
<1>2. p \in T
  OBVIOUS
<1> HIDE DEF T
<1>3. PICK g : ParseFieldsSteps(g, T, p, m, wire, noise)
  BY <1>1, <1>2, ParseFieldsTrace
<1>4. n \in Nat /\ n \in 0 .. n
  OBVIOUS
<1>5. FoldLeft(LAMBDA x, f : ParseLeaf(x, f, wire, noise), p, m.fields) = g[n] /\ g[n] \in T
  BY <1>3, <1>4 DEF ParseFieldsSteps
<1>6. QED
  BY <1>3, <1>5 DEF T

LEMMA MemberParsedTyped ==
  ASSUME NEW size, NEW p \in Parsers(Builders, size), NEW m, NEW wire \in Wires, NEW noise \in Nat,
         \/ m \in ConstrainedLeaf /\ m.kind \in {"primitive", "array", "string", "sequence"}
         \/ m.kind = "nested" /\ m.fields \in Seq(ConstrainedLeaf)
  PROVE  ParseMember(p, m, wire, noise) \in Parsers(Builders, size)
<1>1. CASE m \in ConstrainedLeaf /\ m.kind \in {"primitive", "array", "string", "sequence"}
  <2>1. ParseMember(p, m, wire, noise) = ParseLeaf(p, m, wire, noise)
    BY <1>1 DEF ParseMember
  <2>2. QED
    BY <1>1, <2>1, BuildersClosed, ParsedLeafTyped
<1>2. CASE m.kind = "nested" /\ m.fields \in Seq(ConstrainedLeaf)
  <2> DEFINE q == BeginParseStruct(p)
             f == FoldLeft(LAMBDA x, y : ParseLeaf(x, y, wire, noise), q, m.fields)
  <2>1. ParseMember(p, m, wire, noise) = EndParseStruct(f)
    BY <1>2 DEF ParseMember
  <2>2. p.b \in Builders /\ p.pos \in Int
    BY ParserIs
  <2>3. BeginStruct(p.b) \in OpenedBuilders
    BY <2>2, BeginStructIs
  <2>4. q \in Parsers(OpenedBuilders, size)
    BY <2>2, <2>3, ParserChanges DEF BeginParseStruct
  <2> HIDE DEF q
  <2>5. f \in Parsers(OpenedBuilders, size)
    BY <1>2, <2>4, FieldsParsedTyped
  <2> HIDE DEF f
  <2>6. f.b \in OpenedBuilders /\ f.pos \in Int
    BY <2>5, ParserIs
  <2>7. EndStruct(f.b) \in Builders
    <3>1. PICK o \in Nat, y \in PrimitiveSizes, ms \in Seq(PlacedMembers), start \in Nat, n \in Structs :
            f.b = BuilderOf(o, y, ms, <<StructContext(start, n)>>)
      BY <2>6 DEF OpenedBuilders
    <3> DEFINE at == AlignTo(o, n.maxAlign)
               z == f.b
    <3>2. z = BuilderOf(o, y, ms, <<StructContext(start, n)>>)
      BY <3>1
    <3> HIDE DEF z
    <3>3. EndStruct(z) \in Builders
      BY <3>2, EndStructIs
    <3>4. QED
      BY <3>3 DEF z
  <2>8. EndParseStruct(f) \in Parsers(Builders, size)
    BY <2>5, <2>6, <2>7, ParserChanges DEF EndParseStruct
  <2>9. QED
    BY <2>1, <2>8
<1>3. QED
  BY <1>1, <1>2

\* A member whose bounds are the sizes its fields have.
ExactMember(m) ==
  IF m.kind = "nested"
  THEN [kind |-> "nested", fields |-> [j \in 1 .. Len(m.fields) |-> Exact(m.fields[j])]]
  ELSE Exact(m)

\* Fields that begin behind d[s] have arrived, one behind the other.
FieldsArrived(fields, d, s, wire, size) ==
  \A j \in 1 .. Len(fields) :
    \E at : ComesNext(fields[j], wire, d[s + j - 1], at, d[s + j], size)

LEMMA ExactNested ==
  ASSUME NEW m, m.kind = "nested", m.fields \in Seq(ConstrainedLeaf),
         \A j \in 1 .. Len(m.fields) : PlainLeaf(m.fields[j]), NEW x, x = ExactMember(m)
  PROVE  /\ x.kind = "nested" /\ x.fields \in Seq(ConstrainedLeaf) /\ Len(x.fields) = Len(m.fields)
         /\ \A j \in 1 .. Len(m.fields) : x.fields[j] = Exact(m.fields[j])
<1> DEFINE n == Len(m.fields)
           fs == [j \in 1 .. n |-> Exact(m.fields[j])]
<1>1. n \in Nat
  OBVIOUS
<1>2. \A j \in 1 .. n : Exact(m.fields[j]) \in ConstrainedLeaf
  BY ExactIs
<1>3. fs \in Seq(ConstrainedLeaf) /\ Len(fs) = n /\ \A j \in 1 .. n : fs[j] = Exact(m.fields[j])
  <2> HIDE DEF n
  <2>1. fs \in [1 .. n -> ConstrainedLeaf]
    BY <1>2
  <2>2. QED
    BY <1>1, <2>1
<1>4. x = [kind |-> "nested", fields |-> fs]
  BY DEF ExactMember
<1> HIDE DEF fs
<1>5. x.kind = "nested" /\ x.fields = fs
  BY <1>4
<1>6. QED
  BY <1>3, <1>5

LEMMA NestedParsed ==
  ASSUME NEW size, NEW p \in Parsers(Builders, size), NEW m, m.kind = "nested", m.fields \in Seq(ConstrainedLeaf),
         NEW wire \in Wires, NEW noise \in Nat, NEW d, NEW s \in Nat, p.pos = d[s],
         FieldsArrived(m.fields, d, s, wire, size), NEW x, x = ExactMember(m)
  PROVE  /\ ParseMember(p, m, wire, noise) = ParserOf(LayoutMember(p.b, x), d[s + Len(m.fields)], size)
         /\ LayoutMember(p.b, x) \in Builders
<1> DEFINE n == Len(m.fields)
           N == size
           b0 == BeginStruct(p.b)
           q == BeginParseStruct(p)
           T == Parsers(OpenedBuilders, size)
<1>1. n \in Nat /\ p.b \in Builders /\ p.pos \in Int /\ p.pos = d[s + 0]
  <2>1. p.b \in Builders /\ p.pos \in Int
    BY ParserIs
  <2>2. QED
    BY <2>1
<1>2. ASSUME NEW j \in 1 .. n
      PROVE  /\ m.fields[j] \in ConstrainedLeaf /\ PlainLeaf(m.fields[j])
             /\ \E at : ComesNext(m.fields[j], wire, d[s + j - 1], at, d[s + j], size)
  BY DEF FieldsArrived, ComesNext
<1>3. /\ x.kind = "nested" /\ x.fields \in Seq(ConstrainedLeaf) /\ Len(x.fields) = n
      /\ \A j \in 1 .. n : x.fields[j] = Exact(m.fields[j])
  BY <1>2, ExactNested
<1>4. b0 \in OpenedBuilders
  BY <1>1, BeginStructIs
<1>5. q = ParserOf(b0, d[s + 0], size) /\ q \in T
  BY <1>1, <1>4, ParserChanges DEF BeginParseStruct
<1> HIDE DEF b0, q, n
<1>6. PICK h : LayoutFieldsSteps(h, OpenedBuilders, b0, x)
  <2>1. LayoutFieldsStays(OpenedBuilders, x)
    <3> SUFFICES ASSUME NEW k \in 1 .. Len(x.fields), NEW y \in OpenedBuilders
                 PROVE  LayoutLeaf(y, x.fields[k]) \in OpenedBuilders
      BY DEF LayoutFieldsStays
    <3>1. x.fields[k] \in ConstrainedLeaf
      BY <1>3
    <3>2. QED
      BY <3>1, OpenedClosed DEF ClosedUnderLeaves
  <2>2. QED
    BY <1>3, <1>4, <2>1, LayoutFieldsTrace
<1>7. PICK g : ParseFieldsSteps(g, T, q, m, wire, noise)
  BY <1>5, FieldsParsedTyped
<1>8. /\ h[0] = b0 /\ FoldLeft(LayoutLeaf, b0, x.fields) = h[n] /\ \A k \in 0 .. n : h[k] \in OpenedBuilders
      /\ \A k \in 1 .. n : h[k] = LayoutLeaf(h[k - 1], x.fields[k])
  BY <1>3, <1>6 DEF LayoutFieldsSteps
<1>9. /\ g[0] = q /\ FoldLeft(LAMBDA y, f : ParseLeaf(y, f, wire, noise), q, m.fields) = g[n]
      /\ \A k \in 0 .. n : g[k] \in T
      /\ \A k \in 1 .. n : g[k] = ParseLeaf(g[k - 1], m.fields[k], wire, noise)
  BY <1>7 DEF ParseFieldsSteps, n
<1> DEFINE R(k) == g[k] = ParserOf(h[k], d[s + k], size) /\ d[s + k] \in Int
<1>10. R(0)
  BY <1>1, <1>5, <1>8, <1>9
<1>11. ASSUME NEW k \in Nat, k + 1 <= n, R(k) PROVE R(k + 1)
  <2> DEFINE j == k + 1
             y == g[k]
  <2>1. j \in 1 .. n /\ j - 1 = k /\ s + j - 1 = s + k /\ k \in 0 .. n
    BY <1>1, <1>11
  <2>2. g[j] = ParseLeaf(y, m.fields[j], wire, noise) /\ h[j] = LayoutLeaf(h[k], Exact(m.fields[j]))
    <3> HIDE DEF j
    <3>1. g[j] = ParseLeaf(g[j - 1], m.fields[j], wire, noise) /\ h[j] = LayoutLeaf(h[j - 1], x.fields[j])
      BY <1>8, <1>9, <2>1
    <3>2. QED
      BY <1>3, <2>1, <3>1
  <2>3. y \in T /\ y = ParserOf(h[k], d[s + k], size)
    BY <1>9, <1>11, <2>1
  <2>4. y.b = h[k] /\ y.pos = d[s + k]
    BY <2>3 DEF ParserOf
  <2> HIDE DEF j, y
  <2>5. PICK at : ComesNext(m.fields[j], wire, d[s + k], at, d[s + j], size)
    <3>1. \E at : ComesNext(m.fields[j], wire, d[s + j - 1], at, d[s + j], size)
      BY <1>2, <2>1
    <3>2. QED
      BY <2>1, <3>1
  <2>6. ComesNext(m.fields[j], wire, y.pos, at, d[s + j], size)
    BY <2>4, <2>5
  <2>7. /\ ParseLeaf(y, m.fields[j], wire, noise) = ParserOf(LayoutLeaf(y.b, Exact(m.fields[j])), d[s + j], size)
        /\ d[s + j] \in Nat
    <3> DEFINE f == m.fields[j]
               e == d[s + j]
    <3>1. ComesNext(f, wire, y.pos, at, e, size) /\ y \in Parsers(OpenedBuilders, size)
      BY <2>3, <2>6
    <3> HIDE DEF f, e, T
    <3>2. ParsesNext(OpenedBuilders, size, y, f, wire, at, e, noise)
      BY <3>1, OpenedClosed DEF ParsesNext
    <3>4. ParseLeaf(y, f, wire, noise) = ParserOf(LayoutLeaf(y.b, Exact(f)), e, size) /\ e \in Nat
      BY <3>2, ParsedExactly
    <3>3. QED
      BY <3>4 DEF f, e
  <2>8. g[j] = ParserOf(h[j], d[s + j], size) /\ d[s + j] \in Int
    <3>1. LayoutLeaf(y.b, Exact(m.fields[j])) = h[j]
      BY <2>2, <2>4
    <3>2. g[j] = ParserOf(h[j], d[s + j], size)
      BY <2>2, <2>7, <3>1
    <3>3. d[s + j] \in Int
      BY <2>7
    <3>4. QED
      BY <3>2, <3>3
  <2>9. QED
    BY <2>8 DEF j
<1> DEFINE W == {k \in Nat : k <= n => R(k)}
<1>12. 0 \in W
  BY <1>10
<1>13. ASSUME NEW k \in Nat, k \in W PROVE k + 1 \in W
  <2> SUFFICES ASSUME k + 1 <= n PROVE R(k + 1)
    OBVIOUS
  <2>1. k <= n
    BY <1>1
  <2>2. R(k)
    BY <1>13, <2>1
  <2> HIDE DEF R
  <2>3. QED
    BY <1>11, <2>2
<1> HIDE DEF W
<1>14. Nat \subseteq W
  BY <1>12, <1>13, SetInduction
<1>15. R(n)
  <2>1. n \in W /\ n <= n
    BY <1>1, <1>14
  <2>2. QED
    BY <1>1, <2>1 DEF W
<1>16. LayoutMember(p.b, x) = EndStruct(h[n])
  BY <1>3, <1>8 DEF LayoutMember, b0
<1>17. ParseMember(p, m, wire, noise) = EndParseStruct(g[n])
  BY <1>9 DEF ParseMember, q
<1>18. LayoutMember(p.b, x) \in Builders
  BY <1>1, <1>3, LayoutNestedIsBuilder
<1>19. g[n] \in T /\ g[n].b = h[n] /\ g[n].pos = d[s + n]
  <2>1. n \in 0 .. n
    BY <1>1
  <2>2. g[n] \in T
    BY <1>9, <2>1
  <2>3. g[n] = ParserOf(h[n], d[s + n], size)
    BY <1>15
  <2>4. QED
    BY <2>2, <2>3 DEF ParserOf
<1>20. EndParseStruct(g[n]) = ParserOf(EndStruct(h[n]), d[s + n], size)
  <2>1. EndStruct(h[n]) \in Builders /\ d[s + n] \in Int
    BY <1>15, <1>16, <1>18
  <2>2. EndParseStruct(g[n]) = Accepted(g[n], EndStruct(h[n]), d[s + n])
    BY <1>19 DEF EndParseStruct
  <2> DEFINE y == g[n]
             c == EndStruct(h[n])
             e == d[s + n]
  <2>3. y \in Parsers(OpenedBuilders, size) /\ c \in Builders /\ e \in Int
    BY <1>19, <2>1
  <2> HIDE DEF y, c, e, T
  <2>4. Accepted(y, c, e) = ParserOf(c, e, size)
    BY <2>3, ParserChanges
  <2>5. QED
    BY <2>2, <2>4 DEF y, c, e
<1>21. QED
  BY <1>16, <1>17, <1>18, <1>20 DEF n

--------------------------------------------------------------------------------
(* A message whose bounds are the sizes its fields have *)

Exacted(msg) == [k \in 1 .. Len(msg) |-> ExactMember(msg[k])]

LEMMA ExactMembers ==
  ASSUME NEW msg, PlainMessage(msg), NEW k \in 1 .. Len(msg), NEW m, m = msg[k], NEW x, x = ExactMember(m)
  PROVE  /\ x \in ConstrainedMember /\ x.kind = m.kind /\ x.kind # "strings" /\ WidestFirst(x)
         /\ Len(LeavesOf(x)) = Len(LeavesOf(m)) /\ Len(LeavesOf(m)) \in Nat
         /\ \A j \in 1 .. Len(LeavesOf(m)) : /\ LeavesOf(x)[j] = Exact(LeavesOf(m)[j])
                                             /\ PlainLeaf(LeavesOf(m)[j])
         /\ \/ m \in ConstrainedLeaf /\ m.kind \in {"primitive", "array", "string", "sequence"}
               /\ PlainLeaf(m) /\ x = Exact(m) /\ LeavesOf(m) = <<m>>
            \/ /\ m.kind = "nested" /\ m.fields \in Seq(ConstrainedLeaf) /\ LeavesOf(m) = m.fields
               /\ x.fields \in Seq(ConstrainedLeaf) /\ Len(x.fields) = Len(m.fields)
               /\ \A j \in 1 .. Len(m.fields) : x.fields[j] = Exact(m.fields[j])
<1>1. AlignedMessage(msg) /\ msg \in Seq(ConstrainedMember) /\ \A i \in 1 .. Len(Leaves(msg)) : PlainLeaf(Leaves(msg)[i])
  BY PlainLeaves
<1>2. /\ m \in ConstrainedMember /\ m.kind # "strings" /\ WidestFirst(m)
      /\ \/ m \in ConstrainedLeaf /\ m.kind # "nested" /\ LeavesOf(m) = <<m>>
         \/ m.kind = "nested" /\ m.fields \in Seq(ConstrainedLeaf) /\ m.fields # <<>> /\ LeavesOf(m) = m.fields
      /\ LeavesOf(m) \in Seq(ConstrainedLeaf)
  BY <1>1, AlignedMembers
<1>3. \A j \in 1 .. Len(LeavesOf(m)) : PlainLeaf(LeavesOf(m)[j])
  <2>1. PICK st : Starts(st, MemberLeaves(msg))
    BY <1>1, LeavesType
  <2>2. \A j \in 1 .. Len(LeavesOf(m)) : /\ st[k - 1] + j \in 1 .. Len(Leaves(msg))
                                         /\ Leaves(msg)[st[k - 1] + j] = LeavesOf(m)[j]
    BY <1>1, <2>1, LeafAt
  <2>3. QED
    BY <1>1, <2>2
<1>4. CASE m \in ConstrainedLeaf /\ m.kind # "nested" /\ LeavesOf(m) = <<m>>
  <2>1. PlainLeaf(m) /\ m.kind \in {"primitive", "array", "string", "sequence"}
    <3>1. 1 \in 1 .. Len(LeavesOf(m)) /\ LeavesOf(m)[1] = m
      BY <1>4
    <3>2. QED
      BY <1>3, <1>4, <3>1, ConstrainedLeafFields
  <2>2. x = Exact(m)
    BY <1>4 DEF ExactMember
  <2>3. x \in ConstrainedLeaf /\ x.kind = m.kind
    BY <2>1, <2>2, ExactIs
  <2>4. x \in ConstrainedMember /\ WidestFirst(x)
    BY <1>4, <2>3 DEF ConstrainedMember, WidestFirst
  <2>5. LeavesOf(x) = <<x>>
    BY <2>1, <2>3 DEF LeavesOf
  <2>6. QED
    BY <1>2, <1>3, <1>4, <2>1, <2>2, <2>3, <2>4, <2>5
<1>5. CASE m.kind = "nested" /\ m.fields \in Seq(ConstrainedLeaf) /\ m.fields # <<>> /\ LeavesOf(m) = m.fields
  <2>1. \A j \in 1 .. Len(m.fields) : PlainLeaf(m.fields[j])
    BY <1>3, <1>5
  <2>2. /\ x.kind = "nested" /\ x.fields \in Seq(ConstrainedLeaf) /\ Len(x.fields) = Len(m.fields)
        /\ \A j \in 1 .. Len(m.fields) : x.fields[j] = Exact(m.fields[j])
    BY <1>5, <2>1, ExactNested
  <2>3. LeavesOf(x) = x.fields
    BY <2>2 DEF LeavesOf
  <2>4. x.fields # <<>> /\ Len(m.fields) \in Nat /\ 1 \in 1 .. Len(m.fields)
    BY <1>5, <2>2
  <2>5. x \in ConstrainedMember
    <3>1. x = [kind |-> "nested", fields |-> x.fields]
      BY <1>5 DEF ExactMember
    <3>2. x \in [kind : {"nested"}, fields : Seq(ConstrainedLeaf) \ {<<>>}]
      BY <2>2, <2>4, <3>1
    <3>3. QED
      BY <3>2 DEF ConstrainedMember
  <2>6. WidestFirst(x)
    <3>1. SUFFICES ASSUME NEW f \in Range(x.fields)
                   PROVE  f.kind \in {"primitive", "string"} /\ FieldAlignment(f) <= FieldAlignment(x.fields[1])
      BY DEF WidestFirst
    <3>2. PICK j \in DOMAIN x.fields : f = x.fields[j]
      BY DEF Range
    <3>3. j \in 1 .. Len(m.fields)
      BY <2>2, <3>2
    <3>4. m.fields[j] \in Range(m.fields)
      BY <1>5, <3>3 DEF Range
    <3>5. m.fields[j].kind \in {"primitive", "string"} /\ FieldAlignment(m.fields[j]) <= FieldAlignment(m.fields[1])
      BY <1>2, <1>5, <3>4 DEF WidestFirst
    <3> DEFINE u == m.fields[j]
               v == m.fields[1]
    <3>6. PlainLeaf(u) /\ PlainLeaf(v) /\ f = Exact(u) /\ x.fields[1] = Exact(v)
      BY <2>1, <2>2, <2>4, <3>2, <3>3
    <3> HIDE DEF u, v
    <3>7. f.kind = u.kind /\ FieldAlignment(f) = FieldAlignment(u) /\ FieldAlignment(x.fields[1]) = FieldAlignment(v)
      BY <3>6, ExactIs
    <3>8. QED
      BY <3>5, <3>7 DEF u, v
  <2>7. QED
    BY <1>2, <1>3, <1>5, <2>2, <2>3, <2>4, <2>5, <2>6
<1>6. QED
  BY <1>2, <1>4, <1>5

LEMMA ExactedMessage ==
  ASSUME NEW msg, PlainMessage(msg), NEW x, x = Exacted(msg)
  PROVE  /\ AlignedMessage(x) /\ x \in Seq(ConstrainedMember) /\ Len(x) = Len(msg)
         /\ \A k \in 1 .. Len(msg) : x[k] = ExactMember(msg[k])
         /\ \A st : Starts(st, MemberLeaves(x)) <=> Starts(st, MemberLeaves(msg))
<1> DEFINE n == Len(msg)
<1>1. msg \in Seq(ConstrainedMember) /\ n \in Nat
  BY PlainLeaves
<1>2. x = [k \in 1 .. n |-> ExactMember(msg[k])]
  BY DEF Exacted
<1>3. \A k \in 1 .. n : ExactMember(msg[k]) \in ConstrainedMember
  BY ExactMembers
<1> HIDE DEF n
<1>4. x \in Seq(ConstrainedMember) /\ Len(x) = n /\ \A k \in 1 .. n : x[k] = ExactMember(msg[k])
  <2>1. x \in [1 .. n -> ConstrainedMember]
    BY <1>2, <1>3
  <2>2. QED
    BY <1>1, <1>2, <2>1
<1>5. AlignedMessage(x)
  <2>1. ASSUME NEW m \in Range(x) PROVE m.kind # "strings" /\ WidestFirst(m)
    <3>1. PICK k \in DOMAIN x : m = x[k]
      BY DEF Range
    <3>2. k \in 1 .. n /\ m = ExactMember(msg[k])
      BY <1>4, <3>1
    <3>3. QED
      BY <3>2, ExactMembers DEF n
  <2>2. QED
    BY <1>4, <2>1 DEF AlignedMessage
<1>6. /\ Len(MemberLeaves(x)) = n /\ Len(MemberLeaves(msg)) = n
      /\ \A k \in 1 .. n : Len(MemberLeaves(x)[k]) = Len(MemberLeaves(msg)[k])
  <2>1. /\ Len(MemberLeaves(x)) = Len(x) /\ \A k \in 1 .. Len(x) : MemberLeaves(x)[k] = LeavesOf(x[k])
    BY <1>4, MemberLeavesType
  <2>2. /\ Len(MemberLeaves(msg)) = n /\ \A k \in 1 .. n : MemberLeaves(msg)[k] = LeavesOf(msg[k])
    BY <1>1, MemberLeavesType DEF n
  <2>3. \A k \in 1 .. n : Len(LeavesOf(ExactMember(msg[k]))) = Len(LeavesOf(msg[k]))
    BY ExactMembers DEF n
  <2>4. QED
    BY <1>4, <2>1, <2>2, <2>3
<1>7. ASSUME NEW st PROVE Starts(st, MemberLeaves(x)) <=> Starts(st, MemberLeaves(msg))
  BY <1>6 DEF Starts
<1>8. QED
  BY <1>4, <1>5, <1>7 DEF n

LEMMA ExactedLeaves ==
  ASSUME NEW msg, PlainMessage(msg), NEW L, L = Leaves(msg), NEW M, M = Leaves(Exacted(msg))
  PROVE  Len(M) = Len(L) /\ Len(L) \in Nat /\ \A i \in 1 .. Len(L) : M[i] = Exact(L[i]) /\ PlainLeaf(L[i])
<1> DEFINE x == Exacted(msg)
<1>1. /\ x \in Seq(ConstrainedMember) /\ Len(x) = Len(msg)
      /\ \A k \in 1 .. Len(msg) : x[k] = ExactMember(msg[k])
      /\ \A st : Starts(st, MemberLeaves(x)) <=> Starts(st, MemberLeaves(msg))
  BY ExactedMessage
<1>2. msg \in Seq(ConstrainedMember) /\ Len(L) \in Nat /\ \A i \in 1 .. Len(L) : PlainLeaf(L[i])
  BY PlainLeaves
<1> HIDE DEF x
<1>3. PICK st : Starts(st, MemberLeaves(msg))
  BY <1>2, LeavesType
<1>4. Starts(st, MemberLeaves(x))
  BY <1>1, <1>3
<1>5. Len(M) = st[Len(msg)] /\ Len(L) = st[Len(msg)]
  BY <1>1, <1>2, <1>3, <1>4, LeafAt DEF x
<1>6. ASSUME NEW i \in 1 .. Len(L) PROVE M[i] = Exact(L[i])
  <2>1. PICK k \in 1 .. Len(msg) : \E j \in 1 .. Len(LeavesOf(msg[k])) : i = st[k - 1] + j
    BY <1>2, <1>3, LeafAt
  <2>2. PICK j \in 1 .. Len(LeavesOf(msg[k])) : i = st[k - 1] + j
    BY <2>1
  <2>3. L[i] = LeavesOf(msg[k])[j]
    <3>1. Leaves(msg)[st[k - 1] + j] = LeavesOf(msg[k])[j]
      BY <1>2, <1>3, LeafAt
    <3>2. QED
      BY <2>2, <3>1
  <2>4. /\ Len(LeavesOf(ExactMember(msg[k]))) = Len(LeavesOf(msg[k]))
        /\ LeavesOf(ExactMember(msg[k]))[j] = Exact(LeavesOf(msg[k])[j])
    BY ExactMembers
  <2>5. M[i] = LeavesOf(x[k])[j]
    <3>1. k \in 1 .. Len(x) /\ x[k] = ExactMember(msg[k])
      BY <1>1
    <3>2. j \in 1 .. Len(LeavesOf(x[k]))
      BY <2>4, <3>1
    <3>3. Leaves(x)[st[k - 1] + j] = LeavesOf(x[k])[j]
      BY <1>1, <1>4, <3>1, <3>2, LeafAt
    <3>4. QED
      BY <2>2, <3>3 DEF x
  <2>6. QED
    BY <1>1, <2>3, <2>4, <2>5
<1>7. QED
  BY <1>2, <1>5, <1>6

\* The ends of the fields as sent are those of the exact message as laid out.
LEMMA ExactedChain ==
  ASSUME NEW msg, PlainMessage(msg), NEW L, L = Leaves(msg), NEW M, M = Leaves(Exacted(msg)),
         NEW d, Chain(d, L, Useds(L))
  PROVE  Chain(d, M, Widths(M)) /\ \A i \in 1 .. Len(L) : SlotAt(M, d, i) = SlotAt(L, d, i)
<1>1. Len(M) = Len(L) /\ Len(L) \in Nat /\ \A i \in 1 .. Len(L) : M[i] = Exact(L[i]) /\ PlainLeaf(L[i])
  BY ExactedLeaves
<1>2. ASSUME NEW i \in 1 .. Len(L)
      PROVE  SlotAt(M, d, i) = SlotAt(L, d, i) /\ Widths(M)[i] = Useds(L)[i]
  <2> DEFINE u == L[i]
             v == M[i]
  <2>1. PlainLeaf(u) /\ v = Exact(u)
    BY <1>1
  <2>2. Widths(M)[i] = Reserve(v) /\ Useds(L)[i] = UsedWidth(u)
    BY <1>1 DEF Widths, Useds
  <2>3. SlotAt(M, d, i) = DataAlign(d[i - 1], FieldAlignment(v)) /\ SlotAt(L, d, i) = DataAlign(d[i - 1], FieldAlignment(u))
    BY DEF SlotAt
  <2> HIDE DEF u, v
  <2>4. Reserve(v) = UsedWidth(u) /\ FieldAlignment(v) = FieldAlignment(u)
    BY <2>1, ExactIs
  <2>5. QED
    BY <2>2, <2>3, <2>4
<1>3. /\ d \in [0 .. Len(L) -> Nat] /\ d[0] = HeaderSize
      /\ \A i \in 1 .. Len(L) : d[i] = SlotAt(L, d, i) + Useds(L)[i]
  BY DEF Chain
<1>4. \A i \in 1 .. Len(M) : d[i] = SlotAt(M, d, i) + Widths(M)[i]
  BY <1>1, <1>2, <1>3
<1>5. Chain(d, M, Widths(M))
  BY <1>1, <1>3, <1>4 DEF Chain
<1>6. QED
  BY <1>2, <1>5

\* A layout of the exact message describes the message.
LEMMA ExactedDescribes ==
  ASSUME NEW msg, PlainMessage(msg), NEW d, NEW st, NEW l,
         PlacedUpTo(l.members, Exacted(msg), d, st, Len(Exacted(msg)))
  PROVE  Describes(msg, l)
<1> DEFINE x == Exacted(msg)
<1>1. Len(x) = Len(msg) /\ \A k \in 1 .. Len(msg) : x[k] = ExactMember(msg[k])
  BY ExactedMessage
<1> HIDE DEF x
<1>2. Len(l.members) = Len(msg) /\ \A k \in 1 .. Len(msg) : EntryAt(l.members[k], x[k], d, st[k - 1])
  BY <1>1 DEF PlacedUpTo, x
<1>3. ASSUME NEW k \in 1 .. Len(msg)
      PROVE  /\ l.members[k].layout.kind = (IF msg[k].kind = "nested" THEN "struct" ELSE msg[k].kind)
             /\ msg[k].kind = "nested" => Len(l.members[k].layout.members) = Len(msg[k].fields)
             /\ msg[k].kind # "strings"
  <2> DEFINE m == msg[k]
             y == ExactMember(m)
             e == l.members[k]
  <2>1. /\ y.kind = m.kind /\ y.kind # "strings"
        /\ \/ m \in ConstrainedLeaf /\ m.kind \in {"primitive", "array", "string", "sequence"}
              /\ PlainLeaf(m) /\ y = Exact(m)
           \/ m.kind = "nested" /\ Len(y.fields) = Len(m.fields)
    BY ExactMembers
  <2>2. EntryAt(e, y, d, st[k - 1])
    BY <1>1, <1>2
  <2> HIDE DEF m, y, e
  <2>3. CASE m.kind = "nested" /\ Len(y.fields) = Len(m.fields)
    <3>1. e.layout.kind = "struct" /\ Len(e.layout.members) = Len(y.fields)
      BY <2>1, <2>2, <2>3 DEF EntryAt
    <3>2. QED
      BY <2>3, <3>1 DEF m, e
  <2>4. CASE m \in ConstrainedLeaf /\ m.kind \in {"primitive", "array", "string", "sequence"}
             /\ PlainLeaf(m) /\ y = Exact(m)
    <3>1. e.layout = LeafLayout(y)
      BY <2>1, <2>2, <2>4 DEF EntryAt
    <3>2. y \in ConstrainedLeaf
      BY <2>4, ExactIs
    <3>3. e.layout.kind = m.kind
      BY <2>1, <3>1, <3>2, LeafLayoutIs
    <3>4. QED
      BY <2>4, <3>3 DEF m, e
  <2>5. QED
    BY <2>1, <2>3, <2>4
<1>4. QED
  BY <1>2, <1>3 DEF Describes

\* It places what it describes alike whatever the bounds.
LEMMA ExactedPlaces ==
  ASSUME NEW msg, PlainMessage(msg), NEW l
  PROVE  Places(msg, l) = Places(Exacted(msg), l)
<1> DEFINE x == Exacted(msg)
<1>1. Len(x) = Len(msg) /\ \A k \in 1 .. Len(msg) : x[k] = ExactMember(msg[k])
  BY ExactedMessage
<1> HIDE DEF x
<1>2. ASSUME NEW k \in 1 .. Len(msg), NEW member, NEW base
      PROVE  PlacesOf(msg[k], member, base) = PlacesOf(x[k], member, base)
  <2> DEFINE m == msg[k]
             y == x[k]
             at == base + member.offset
  <2>1. y = ExactMember(m)
    BY <1>1
  <2>2. /\ y.kind = m.kind /\ y.kind # "strings"
        /\ \/ m \in ConstrainedLeaf /\ m.kind \in {"primitive", "array", "string", "sequence"}
              /\ PlainLeaf(m) /\ y = Exact(m) /\ LeavesOf(m) = <<m>>
           \/ /\ m.kind = "nested" /\ m.fields \in Seq(ConstrainedLeaf) /\ LeavesOf(m) = m.fields
              /\ Len(y.fields) = Len(m.fields)
              /\ \A j \in 1 .. Len(m.fields) : y.fields[j] = Exact(m.fields[j])
    BY <2>1, ExactMembers
  <2>3. \A j \in 1 .. Len(LeavesOf(m)) : PlainLeaf(LeavesOf(m)[j])
    BY ExactMembers
  <2> HIDE DEF m, y, at
  <2>4. CASE m.kind \in {"primitive", "array", "string", "sequence"} /\ PlainLeaf(m) /\ y = Exact(m)
    <3>1. LeafPlace(y, at) = LeafPlace(m, at)
      BY <2>4, ExactIs
    <3>2. PlacesOf(m, member, base) = <<LeafPlace(m, at)>>
      BY <2>4 DEF PlacesOf, at
    <3>3. PlacesOf(y, member, base) = <<LeafPlace(y, at)>>
      BY <2>2, <2>4 DEF PlacesOf, at
    <3>4. QED
      BY <3>1, <3>2, <3>3 DEF m, y
  <2>5. CASE /\ m.kind = "nested" /\ m.fields \in Seq(ConstrainedLeaf) /\ LeavesOf(m) = m.fields
             /\ Len(y.fields) = Len(m.fields)
             /\ \A j \in 1 .. Len(m.fields) : y.fields[j] = Exact(m.fields[j])
    <3> DEFINE n == Len(m.fields)
               off(j) == at + member.layout.members[j].offset
    <3>1. ASSUME NEW j \in 1 .. n PROVE LeafPlace(y.fields[j], off(j)) = LeafPlace(m.fields[j], off(j))
      <4>1. PlainLeaf(m.fields[j]) /\ y.fields[j] = Exact(m.fields[j])
        BY <2>3, <2>5
      <4> HIDE DEF off
      <4>2. QED
        BY <4>1, ExactIs
    <3>2. PlacesOf(m, member, base) = [j \in 1 .. n |-> LeafPlace(m.fields[j], off(j))]
      BY <2>5 DEF PlacesOf, at
    <3>3. PlacesOf(y, member, base) = [j \in 1 .. n |-> LeafPlace(y.fields[j], off(j))]
      BY <2>2, <2>5 DEF PlacesOf, at
    <3> HIDE DEF n, off
    <3>4. QED
      BY <3>1, <3>2, <3>3 DEF m, y
  <2>6. QED
    BY <2>2, <2>4, <2>5
<1>3. Places(msg, l) = FlattenSeq([i \in 1 .. Len(msg) |-> PlacesOf(msg[i], l.members[i], HeaderSize)])
  BY DEF Places
<1>4. Places(x, l) = FlattenSeq([i \in 1 .. Len(msg) |-> PlacesOf(x[i], l.members[i], HeaderSize)])
  BY <1>1 DEF Places
<1>5. [i \in 1 .. Len(msg) |-> PlacesOf(msg[i], l.members[i], HeaderSize)]
        = [i \in 1 .. Len(msg) |-> PlacesOf(x[i], l.members[i], HeaderSize)]
  BY <1>2
<1>6. QED
  BY <1>3, <1>4, <1>5 DEF x

--------------------------------------------------------------------------------
(* What the parser makes of a message *)

LEMMA SentArrives ==
  ASSUME NEW L, NEW d, NEW N, SlotsWithin(L, d, N), NEW wire, Carries(wire, L, d), NEW i \in 1 .. Len(L)
  PROVE  ComesNext(L[i], wire, d[i - 1], SlotAt(L, d, i), d[i], N)
BY DEF SlotsWithin, Carries, ComesNext, Fitting

LEMMA MemberParsed ==
  ASSUME NEW msg, PlainMessage(msg), NEW L, L = Leaves(msg), NEW d, NEW N, SlotsWithin(L, d, N),
         NEW wire, Carries(wire, L, d), NEW noise \in Nat, NEW st, Starts(st, MemberLeaves(msg)),
         NEW k \in 1 .. Len(msg), NEW p \in Parsers(Builders, N), p.pos = d[st[k - 1]],
         NEW x, x = ExactMember(msg[k])
  PROVE  /\ ParseMember(p, msg[k], wire, noise) = ParserOf(LayoutMember(p.b, x), d[st[k]], N)
         /\ LayoutMember(p.b, x) \in Builders
<1> DEFINE m == msg[k]
           s == st[k - 1]
<1>1. /\ \/ m \in ConstrainedLeaf /\ m.kind \in {"primitive", "array", "string", "sequence"}
            /\ PlainLeaf(m) /\ x = Exact(m) /\ LeavesOf(m) = <<m>>
         \/ m.kind = "nested" /\ m.fields \in Seq(ConstrainedLeaf) /\ LeavesOf(m) = m.fields
  BY ExactMembers
<1>2. msg \in Seq(ConstrainedMember)
  BY PlainLeaves
<1>3. /\ s \in Nat /\ st[k] = s + Len(LeavesOf(m))
      /\ \A j \in 1 .. Len(LeavesOf(m)) : s + j \in 1 .. Len(L) /\ L[s + j] = LeavesOf(m)[j]
  BY <1>2, LeafAt
<1>4. wire \in Wires
  BY DEF Carries
<1>5. p.b \in Builders
  BY ParserIs
<1>6. ASSUME NEW j \in 1 .. Len(LeavesOf(m))
      PROVE  \E at : ComesNext(LeavesOf(m)[j], wire, d[s + j - 1], at, d[s + j], N)
  <2> DEFINE i == s + j
  <2>1. i \in 1 .. Len(L) /\ L[i] = LeavesOf(m)[j]
    BY <1>3
  <2> HIDE DEF i
  <2>2. ComesNext(L[i], wire, d[i - 1], SlotAt(L, d, i), d[i], N)
    BY <2>1, SentArrives
  <2>3. i - 1 = s + j - 1 /\ i = s + j
    BY <1>3 DEF i
  <2>4. ComesNext(LeavesOf(m)[j], wire, d[s + j - 1], SlotAt(L, d, i), d[s + j], N)
    BY <2>1, <2>2, <2>3
  <2>5. QED
    BY <2>4
<1> HIDE DEF m, s
<1>7. CASE m \in ConstrainedLeaf /\ m.kind \in {"primitive", "array", "string", "sequence"}
           /\ PlainLeaf(m) /\ x = Exact(m) /\ LeavesOf(m) = <<m>>
  <2>1. 1 \in 1 .. Len(LeavesOf(m)) /\ LeavesOf(m)[1] = m /\ Len(LeavesOf(m)) = 1 /\ s + 1 - 1 = s
    BY <1>3, <1>7
  <2>2. PICK at : ComesNext(m, wire, d[s], at, d[s + 1], N)
    <3>1. \E at : ComesNext(LeavesOf(m)[1], wire, d[s + 1 - 1], at, d[s + 1], N)
      BY <1>6, <2>1
    <3>2. QED
      BY <2>1, <3>1
  <2> DEFINE e == d[s + 1]
  <2>3. ComesNext(m, wire, p.pos, at, e, N)
    BY <2>2 DEF s
  <2> HIDE DEF e
  <2>4. ParsesNext(Builders, N, p, m, wire, at, e, noise)
    BY <2>3, BuildersClosed DEF ParsesNext
  <2>5. /\ ParseLeaf(p, m, wire, noise) = ParserOf(LayoutLeaf(p.b, Exact(m)), e, N)
        /\ LayoutLeaf(p.b, Exact(m)) \in Builders
    BY <2>4, ParsedExactly
  <2>6. ParseMember(p, m, wire, noise) = ParseLeaf(p, m, wire, noise)
    BY <1>7 DEF ParseMember
  <2>7. x.kind \in {"primitive", "array", "string", "sequence"}
    BY <1>7, ExactIs
  <2>8. LayoutMember(p.b, x) = LayoutLeaf(p.b, x)
    BY <2>7 DEF LayoutMember
  <2>9. e = d[st[k]]
    BY <1>3, <2>1 DEF e
  <2>10. QED
    BY <1>7, <2>5, <2>6, <2>8, <2>9 DEF m
<1>8. CASE m.kind = "nested" /\ m.fields \in Seq(ConstrainedLeaf) /\ LeavesOf(m) = m.fields
  <2>1. FieldsArrived(m.fields, d, s, wire, N)
    BY <1>6, <1>8 DEF FieldsArrived
  <2>2. p.pos = d[s] /\ x = ExactMember(m)
    BY DEF s, m
  <2>3. /\ ParseMember(p, m, wire, noise) = ParserOf(LayoutMember(p.b, x), d[s + Len(m.fields)], N)
        /\ LayoutMember(p.b, x) \in Builders
    BY <1>3, <1>4, <1>8, <2>1, <2>2, NestedParsed
  <2>4. d[s + Len(m.fields)] = d[st[k]]
    BY <1>3, <1>8
  <2>5. QED
    BY <2>3, <2>4 DEF m
<1>9. QED
  BY <1>1, <1>7, <1>8 DEF m

LEMMA MessageParseRuns ==
  ASSUME NEW msg, PlainMessage(msg), NEW N, NEW wire \in Wires, NEW noise \in Nat
  PROVE  /\ \E g : ParseSteps(g, Parsers(Builders, N), N, msg, wire, noise)
         /\ NewParser(N) = ParserOf(NewBuilder, HeaderSize, N) /\ NewBuilder \in Builders
<1> DEFINE T == Parsers(Builders, N)
<1>1. msg \in Seq(ConstrainedMember)
  BY PlainLeaves
<1>2. NewBuilder \in Builders
  BY DEF NewBuilder, Builders, PrimitiveSizes
<1>3. NewParser(N) = ParserOf(NewBuilder, HeaderSize, N)
  BY DEF NewParser, ParserOf
<1>4. NewParser(N) \in T
  <2>1. HeaderSize \in Int
    BY DEF HeaderSize
  <2>2. QED
    BY <1>2, <1>3, <2>1 DEF ParserOf, Parsers
<1>5. ParseStays(T, msg, wire, noise)
  <2> SUFFICES ASSUME NEW k \in 1 .. Len(msg), NEW p \in T
               PROVE  ParseMember(p, msg[k], wire, noise) \in T
    BY DEF ParseStays
  <2>1. \/ msg[k] \in ConstrainedLeaf /\ msg[k].kind \in {"primitive", "array", "string", "sequence"}
        \/ msg[k].kind = "nested" /\ msg[k].fields \in Seq(ConstrainedLeaf)
    BY ExactMembers
  <2>2. QED
    BY <2>1, MemberParsedTyped
<1> HIDE DEF T
<1>6. \E g : ParseSteps(g, T, N, msg, wire, noise)
  BY <1>1, <1>4, <1>5, ParseTrace
<1>7. QED
  BY <1>2, <1>3, <1>6 DEF T

LEMMA MessageParsed ==
  ASSUME NEW msg, PlainMessage(msg), NEW L, L = Leaves(msg), NEW d, NEW N, SlotsWithin(L, d, N),
         NEW wire, Carries(wire, L, d), NEW noise \in Nat
  PROVE  ParsedLayout(msg, wire, N, noise) = LayoutOf(Exacted(msg))
<1> DEFINE n == Len(msg)
           x == Exacted(msg)
<1>1. n \in Nat /\ x \in Seq(ConstrainedMember) /\ Len(x) = n /\ \A k \in 1 .. n : x[k] = ExactMember(msg[k])
  BY ExactedMessage, PlainLeaves
<1>2. wire \in Wires /\ d[0] = HeaderSize
  BY DEF Carries, SlotsWithin
<1>3. PICK st : Starts(st, MemberLeaves(msg))
  BY PlainLeaves, LeavesType
<1>4. st[0] = 0
  BY <1>3 DEF Starts
<1> HIDE DEF x
<1>5. PICK g : ParseSteps(g, Parsers(Builders, N), N, msg, wire, noise)
  BY <1>2, MessageParseRuns
<1>6. PICK h : LayoutSteps(h, Builders, NewBuilder, x)
  BY <1>1, LayoutOfMessage
<1>7. /\ g[0] = ParserOf(NewBuilder, HeaderSize, N) /\ ParsedLayout(msg, wire, N, noise) = Finalize(g[n].b)
      /\ \A k \in 0 .. n : g[k] \in Parsers(Builders, N)
      /\ \A k \in 1 .. n : g[k] = ParseMember(g[k - 1], msg[k], wire, noise)
  BY <1>2, <1>5, MessageParseRuns DEF ParseSteps
<1>8. /\ h[0] = NewBuilder /\ LayoutOf(x) = Finalize(h[n])
      /\ \A k \in 1 .. n : h[k] = LayoutMember(h[k - 1], x[k])
  BY <1>1, <1>6 DEF LayoutSteps
<1> HIDE DEF n
<1> DEFINE W == {k \in Nat : k <= n => g[k] = ParserOf(h[k], d[st[k]], N)}
<1>9. 0 \in W
  BY <1>2, <1>4, <1>7, <1>8
<1>10. ASSUME NEW k \in Nat, k \in W PROVE k + 1 \in W
  <2> SUFFICES ASSUME k + 1 <= n PROVE g[k + 1] = ParserOf(h[k + 1], d[st[k + 1]], N)
    OBVIOUS
  <2> DEFINE j == k + 1
             p == g[k]
             y == ExactMember(msg[j])
  <2>1. j \in 1 .. n /\ j - 1 = k /\ k <= n /\ k \in 0 .. n
    BY <1>1
  <2> HIDE DEF j
  <2>2. g[j] = ParseMember(p, msg[j], wire, noise) /\ h[j] = LayoutMember(h[k], y)
    <3>1. g[j] = ParseMember(g[j - 1], msg[j], wire, noise)
      BY <1>7, <2>1
    <3>2. h[j] = LayoutMember(h[j - 1], x[j]) /\ x[j] = y
      BY <1>1, <1>8, <2>1
    <3>3. QED
      BY <2>1, <3>1, <3>2
  <2>3. p \in Parsers(Builders, N) /\ p = ParserOf(h[k], d[st[k]], N)
    BY <1>7, <1>10, <2>1
  <2>4. p.b = h[k] /\ p.pos = d[st[k]]
    BY <2>3 DEF ParserOf
  <2> HIDE DEF p, y
  <2>5. p.pos = d[st[j - 1]] /\ j \in 1 .. Len(msg)
    BY <2>1, <2>4 DEF n
  <2>6. ParseMember(p, msg[j], wire, noise) = ParserOf(LayoutMember(p.b, y), d[st[j]], N)
    BY <1>3, <2>3, <2>5, MemberParsed DEF y
  <2>7. g[j] = ParserOf(h[j], d[st[j]], N)
    BY <2>2, <2>4, <2>6
  <2>8. QED
    BY <2>7 DEF j
<1> HIDE DEF W
<1>11. Nat \subseteq W
  BY <1>9, <1>10, SetInduction
<1>12. g[n] = ParserOf(h[n], d[st[n]], N)
  <2>1. n \in W /\ n <= n
    BY <1>1, <1>11
  <2>2. QED
    BY <2>1 DEF W
<1>13. g[n].b = h[n]
  BY <1>12 DEF ParserOf
<1>14. QED
  BY <1>7, <1>8, <1>13 DEF x

--------------------------------------------------------------------------------
(* What a receiver finds *)

\* Where every field that was sent begins, and its content.
SentPlaces(L, d) == [i \in 1 .. Len(L) |-> LeafPlace(L[i], SlotAt(L, d, i))]

\* The layout of a message whose bounds are its sizes ends with its last field,
\* and its view finds every field where it was sent.
LEMMA ExactedLayout ==
  ASSUME NEW msg, PlainMessage(msg), NEW L, L = Leaves(msg), NEW d, Chain(d, L, Useds(L)),
         NEW l, l = LayoutOf(Exacted(msg))
  PROVE  l.size = d[Len(L)] /\ Describes(msg, l) /\ Places(msg, l) = SentPlaces(L, d)
<1> DEFINE x == Exacted(msg)
           M == Leaves(x)
<1>1. AlignedMessage(x) /\ x \in Seq(ConstrainedMember)
  BY ExactedMessage
<1>2. Len(M) = Len(L) /\ Len(L) \in Nat /\ \A i \in 1 .. Len(L) : M[i] = Exact(L[i]) /\ PlainLeaf(L[i])
  BY ExactedLeaves
<1>3. Chain(d, M, Widths(M)) /\ \A i \in 1 .. Len(L) : SlotAt(M, d, i) = SlotAt(L, d, i)
  BY ExactedChain
<1> HIDE DEF x
<1>4. \A st : Starts(st, MemberLeaves(x)) => l.size = d[Len(M)] /\ PlacedUpTo(l.members, x, d, st, Len(x))
  BY <1>1, <1>3, MessagePlaced DEF x
<1>5. PICK st : Starts(st, MemberLeaves(x))
  BY <1>1, LeavesType
<1>6. l.size = d[Len(L)] /\ PlacedUpTo(l.members, x, d, st, Len(x))
  BY <1>2, <1>4, <1>5
<1>7. Describes(msg, l)
  BY <1>6, ExactedDescribes DEF x
<1>8. Places(x, l) = [i \in 1 .. Len(M) |-> LeafPlace(M[i], SlotAt(M, d, i))]
  BY <1>1, <1>3, <1>4, PlacesOfLayout
<1>9. \A i \in 1 .. Len(L) : LeafPlace(M[i], SlotAt(M, d, i)) = LeafPlace(L[i], SlotAt(L, d, i))
  <2> TAKE i \in 1 .. Len(L)
  <2>1. M[i] = Exact(L[i]) /\ PlainLeaf(L[i]) /\ SlotAt(M, d, i) = SlotAt(L, d, i)
    BY <1>2, <1>3
  <2>2. \A at : LeafPlace(M[i], at) = LeafPlace(L[i], at)
    BY <2>1, ExactIs
  <2>3. QED
    BY <2>1, <2>2
<1> HIDE DEF M
<1>10. Places(x, l) = SentPlaces(L, d)
  BY <1>2, <1>8, <1>9 DEF SentPlaces
<1>11. Places(msg, l) = Places(x, l)
  BY ExactedPlaces DEF x
<1>12. QED
  BY <1>6, <1>7, <1>10, <1>11

\* A region that was sent, as its receivers need it.
Arrives(L, d, noise) ==
  /\ PlainMessage(message) /\ L = Leaves(message) /\ Len(L) # 0 /\ Len(L) \in Nat
  /\ Chain(d, L, Useds(L)) /\ SlotsWithin(L, d, region) /\ region = d[Len(L)] /\ region \in Nat
  /\ Sending(L, d, layout.size) /\ Carries(WireOf(memory, region), L, d) /\ noise \in Nat

LEMMA MessageFits ==
  ASSUME PathInv
  PROVE  Fitting(Leaves(message))
<1>1. message \in Seq(ConstrainedMember) /\ message \in Seq(Members)
  BY PathFacts DEF PathInv, TypeOK
<1>2. PICK st : Starts(st, MemberLeaves(message))
  BY <1>1, LeavesType
<1> SUFFICES ASSUME NEW i \in 1 .. Len(Leaves(message)), Prefixed4(Leaves(message)[i])
             PROVE  Length(Leaves(message)[i], Actual(Leaves(message)[i])) <= NumberMax
  BY DEF Fitting
<1>3. PICK k \in 1 .. Len(message) : \E j \in 1 .. Len(LeavesOf(message[k])) :
        Leaves(message)[i] = LeavesOf(message[k])[j]
  <2>1. PICK k \in 1 .. Len(message) : \E j \in 1 .. Len(LeavesOf(message[k])) : i = st[k - 1] + j
    BY <1>1, <1>2, LeafAt
  <2>2. PICK j \in 1 .. Len(LeavesOf(message[k])) : i = st[k - 1] + j
    BY <2>1
  <2>3. Leaves(message)[i] = LeavesOf(message[k])[j]
    BY <1>1, <1>2, <2>2, LeafAt
  <2>4. QED
    BY <2>3
<1>4. message[k] \in Members /\ message[k] \in ConstrainedMember
  BY <1>1
<1> DEFINE m == message[k]
           leaf == Leaves(message)[i]
<1>5. m \in Members /\ m \in ConstrainedMember /\ \E j \in 1 .. Len(LeavesOf(m)) : leaf = LeavesOf(m)[j]
  BY <1>3, <1>4
<1>6. Prefixed4(leaf)
  OBVIOUS
<1> HIDE DEF m, leaf
<1>7. LeavesOf(m) \in Seq(AnyLeaf)
  BY <1>5, LeavesOfMember
<1>8. leaf \in Range(LeavesOf(m))
  BY <1>5, <1>7 DEF Range
<1>9. Length(leaf, Actual(leaf)) <= NumberMax
  BY <1>5, <1>6, <1>8, LengthAssumption
<1>10. QED
  BY <1>9 DEF leaf

LEMMA SentArrive ==
  ASSUME TraversedAlong, CellsInv, phase = "sent", Plain,
         NEW L, L = Leaves(message), NEW d, d = Ends(L, Useds(L)), NEW noise \in Noise
  PROVE  Arrives(L, d, noise)
<1> DEFINE c == Ends(L, Widths(L))
<1>1. /\ PlainMessage(message) /\ Len(L) \in Nat /\ Len(L) # 0 /\ Chain(d, L, Useds(L))
      /\ Sending(L, d, layout.size) /\ region = d[Len(L)] /\ region \in Nat
      /\ Behind(memory, L, d, Len(L) + 1)
  <2> HIDE DEF c
  <2>1. QED
    BY SentFacts DEF c
<1>2. Typed(memory) /\ DOMAIN memory \subseteq Int /\ noise \in Nat
  <2>1. Typed(memory)
    BY DEF CellsInv
  <2>2. DOMAIN memory = 0 .. (layout.size - 1)
    BY DEF TraversedAlong, PathInv, TypeOK
  <2>3. QED
    BY <2>1, <2>2, PathAssumption
<1>3. SlotsWithin(L, d, region)
  BY <1>1, SentSlots
<1>4. Carries(WireOf(memory, region), L, d)
  <2>1. Fitting(L)
    BY MessageFits DEF TraversedAlong
  <2>2. QED
    BY <1>1, <1>2, <1>3, <2>1, SentCarries
<1>5. QED
  BY <1>1, <1>2, <1>3, <1>4 DEF Arrives

LEMMA ReceiptIs ==
  ASSUME NEW by, NEW ok, ok, NEW p, NEW r, r = [by |-> by, ok |-> ok, places |-> IF ok THEN p ELSE <<>>]
  PROVE  r.ok /\ r.places = p
<1>1. r.ok = ok /\ r.places = IF ok THEN p ELSE <<>>
  OBVIOUS
<1>2. r.places = p
  BY <1>1
<1>3. QED
  BY <1>1, <1>2, Zenon

LEMMA CastFinds ==
  ASSUME NEW L, NEW d, NEW noise, Arrives(L, d, noise),
         NEW r, r = Cast(ParsedLayout(message, WireOf(memory, region), region, noise))
  PROVE  r.ok /\ r.places = SentPlaces(L, d)
<1> DEFINE l == LayoutOf(Exacted(message))
           wire == WireOf(memory, region)
<1>1. /\ PlainMessage(message) /\ L = Leaves(message) /\ Chain(d, L, Useds(L)) /\ SlotsWithin(L, d, region)
      /\ region = d[Len(L)] /\ region \in Nat /\ Carries(wire, L, d) /\ noise \in Nat
  BY DEF Arrives
<1> HIDE DEF wire
<1>2. ParsedLayout(message, wire, region, noise) = l
  BY <1>1, MessageParsed
<1> HIDE DEF l
<1>3. l.size = region /\ Describes(message, l) /\ Places(message, l) = SentPlaces(L, d)
  BY <1>1, ExactedLayout DEF l
<1>4. r = Cast(l)
  BY <1>2 DEF wire
<1> DEFINE ok == region >= l.size /\ Describes(message, l)
<1>5. ok
  BY <1>1, <1>3
<1>6. r = [by |-> "cast", ok |-> ok, places |-> IF ok THEN Places(message, l) ELSE <<>>]
  BY <1>4 DEF Cast
<1> HIDE DEF ok
<1>7. r.ok /\ r.places = Places(message, l)
  BY <1>5, <1>6, ReceiptIs
<1>8. QED
  BY <1>3, <1>7

LEMMA CopyFindsToo ==
  ASSUME NEW L, NEW d, NEW noise, Arrives(L, d, noise),
         NEW r, r = Copied(DeserializeFrom(message, WireOf(memory, region), region, noise))
  PROVE  r.ok /\ r.places = SentPlaces(L, d)
<1> DEFINE wire == WireOf(memory, region)
           a == DeserializeFrom(message, wire, region, noise)
           N == Len(L)
<1>1. /\ PlainMessage(message) /\ L = Leaves(message) /\ Len(L) # 0 /\ N \in Nat
      /\ SlotsWithin(L, d, region) /\ Sending(L, d, layout.size)
      /\ region = d[Len(L)] /\ region \in Nat /\ Carries(wire, L, d) /\ noise \in Nat
  BY DEF Arrives
<1> HIDE DEF wire
<1>2. a = DeserializeFrom(message, wire, d[Len(L)], noise)
  BY <1>1
<1> HIDE DEF a
<1>3. a.ok /\ a.at = SlotsUpTo(L, d, N + 1)
  BY <1>1, <1>2, CopyFinds
<1>4. N + 1 - 1 = N
  BY <1>1
<1>5. a.at = [i \in 1 .. N |-> SlotAt(L, d, i)]
  BY <1>3, <1>4 DEF SlotsUpTo
<1>6. r = Copied(a)
  BY DEF a, wire
<1>7. \A i \in 1 .. N : CopiedLeaf(i, a.at[i]) = LeafPlace(L[i], SlotAt(L, d, i))
  <2> TAKE i \in 1 .. N
  <2> DEFINE at == SlotAt(L, d, i)
  <2>1. PlainLeaf(L[i]) /\ d[i - 1] \in Nat /\ at = DataAlign(d[i - 1], FieldAlignment(L[i]))
    BY <1>1 DEF SlotsWithin
  <2>2. a.at[i] = at
    BY <1>5
  <2> HIDE DEF at
  <2>3. ContentBehind(L[i], at) = LeafPlace(L[i], at).content
    BY <2>1, ContentBehindPrefix
  <2>4. CopiedLeaf(i, at) = [at |-> at, content |-> LeafPlace(L[i], at).content]
    BY <1>1, <2>3 DEF CopiedLeaf
  <2>5. QED
    BY <2>2, <2>4 DEF LeafPlace, at
<1>8. Len(a.at) = N
  BY <1>1, <1>5
<1> DEFINE ok == a.ok /\ Len(a.at) = Len(Leaves(message))
           p == [i \in 1 .. Len(a.at) |-> CopiedLeaf(i, a.at[i])]
<1>9. ok
  BY <1>1, <1>3, <1>8
<1>10. r = [by |-> "copy", ok |-> ok, places |-> IF ok THEN p ELSE <<>>]
  BY <1>6 DEF Copied
<1> HIDE DEF ok
<1>11. p = SentPlaces(L, d)
  BY <1>7, <1>8 DEF SentPlaces
<1> HIDE DEF p
<1>12. QED
  BY <1>9, <1>10, <1>11, ReceiptIs

\* A plain message was received whole, every field where it was sent.
ReceivedInv ==
  received.by # "none" =>
    /\ phase = "received"
    /\ Plain => /\ received.ok
                /\ received.places = SentPlaces(Leaves(message), Ends(Leaves(message), Useds(Leaves(message))))

LEMMA ReceivedStep ==
  ASSUME TraversedAlong, CellsInv, ReceivedInv, [Next]_vars
  PROVE  ReceivedInv'
<1> DEFINE L == Leaves(message)
           d == Ends(L, Useds(L))
<1>1. CASE DefineMember \/ ConstructMessageAt \/ Fill \/ CompactMessageInPlace \/ RefuseLeaf
           \/ CompactLeaf \/ FinishCompaction
  <2>1. received' = received /\ phase # "received"
    BY <1>1 DEF DefineMember, ConstructMessageAt, Fill, CompactMessageInPlace, RefuseLeaf,
                CompactLeaf, FinishCompaction
  <2>2. received'.by = "none"
    BY <2>1 DEF ReceivedInv
  <2>3. QED
    BY <2>2 DEF ReceivedInv
<1>2. CASE UNCHANGED vars
  <2>1. UNCHANGED <<phase, message, received>>
    BY <1>2 DEF vars
  <2>2. Plain' <=> Plain
    BY <2>1 DEF Plain, NoWideSequence, NoStrings, AllChecked, NestedAligned, NestedInBounds
  <2>3. QED
    BY <2>1, <2>2 DEF ReceivedInv
<1>3. ASSUME CastMessageAt \/ DeserializeMessageFrom
      PROVE  ReceivedInv'
  <2>1. /\ phase = "sent" /\ phase' = "received" /\ message' = message
        /\ \E noise \in Noise :
             \/ received' = Cast(ParsedLayout(message, WireOf(memory, region), region, noise))
             \/ received' = Copied(DeserializeFrom(message, WireOf(memory, region), region, noise))
    BY <1>3 DEF CastMessageAt, DeserializeMessageFrom
  <2>2. PICK noise \in Noise :
          \/ received' = Cast(ParsedLayout(message, WireOf(memory, region), region, noise))
          \/ received' = Copied(DeserializeFrom(message, WireOf(memory, region), region, noise))
    BY <2>1
  <2>3. Plain' <=> Plain
    BY <2>1 DEF Plain, NoWideSequence, NoStrings, AllChecked, NestedAligned, NestedInBounds
  <2>4. ASSUME Plain PROVE received'.ok /\ received'.places = SentPlaces(L, d)
    <3> HIDE DEF d
    <3>1. Arrives(L, d, noise)
      BY <2>1, <2>4, SentArrive DEF d
    <3>2. QED
      BY <2>2, <3>1, CastFinds, CopyFindsToo
  <2>5. Leaves(message)' = L /\ Ends(Leaves(message), Useds(Leaves(message)))' = d
    BY <2>1
  <2>6. QED
    BY <2>1, <2>3, <2>4, <2>5 DEF ReceivedInv
<1>4. QED
  BY <1>1, <1>2, <1>3 DEF Next

DeliveredAlong == TraversedAlong /\ CellsInv /\ ReceivedInv

LEMMA DeliveredAlways == Spec => []DeliveredAlong
<1>1. Init => TraversedAlong
  <2>1. ASSUME Init PROVE TraversalInv
    BY <2>1 DEF Init, TraversalInv, Traversed
  <2>2. QED
    BY <2>1, PathStarts DEF TraversedAlong
<1>2. Init => CellsInv /\ ReceivedInv
  BY DEF Init, CellsInv, ReceivedInv, NotReceived
<1>3. DeliveredAlong /\ [Next]_vars => DeliveredAlong'
  <2> SUFFICES ASSUME DeliveredAlong, [Next]_vars PROVE DeliveredAlong'
    OBVIOUS
  <2>1. TraversedAlong /\ CellsInv /\ ReceivedInv
    BY DEF DeliveredAlong
  <2>2. TraversedAlong'
    BY <2>1, PathStep, TraversalStep DEF TraversedAlong
  <2>3. CellsInv'
    BY <2>1, CellsStep
  <2>4. ReceivedInv'
    BY <2>1, ReceivedStep
  <2>5. QED
    BY <2>2, <2>3, <2>4 DEF DeliveredAlong
<1>4. Init => DeliveredAlong
  BY <1>1, <1>2 DEF DeliveredAlong
<1>5. QED
  BY <1>3, <1>4, PTL DEF Spec

LEMMA WhatWasSentIsFound ==
  ASSUME DeliveredAlong, received.by # "none", Plain
  PROVE  Delivered
<1> DEFINE L == Leaves(message)
           c == Ends(L, Widths(L))
           d == Ends(L, Useds(L))
           N == Len(L)
<1>1. TraversedAlong /\ phase = "received" /\ received.ok /\ received.places = SentPlaces(L, d)
  BY DEF DeliveredAlong, ReceivedInv
<1>2. /\ PlainMessage(message) /\ N \in Nat /\ N # 0 /\ Chain(d, L, Useds(L))
      /\ region = d[N] /\ Behind(memory, L, d, N + 1)
  <2> HIDE DEF L, c, d
  <2>1. QED
    BY <1>1, SentFacts DEF L, c, d, N
<1> HIDE DEF c, d, N
<1>3. SlotsWithin(L, d, region)
  BY <1>2, SentSlots DEF N
<1>4. ASSUME NEW i \in LeafIndices
      PROVE  LET leaf == Leaves(message)[i]
                 p    == received.places[i]
             IN /\ Prefixed4(leaf) => NumberStoredAt(memory, p.at, Length(leaf, Actual(leaf)))
                /\ ContentAt(memory, i, leaf, p.content)
                /\ p.content + Bytes(leaf) <= region
  <2> DEFINE at == SlotAt(L, d, i)
             p == LeafPlace(L[i], at)
  <2>1. i \in 1 .. N /\ i \in 1 .. (N + 1 - 1) /\ i \in 1 .. Len(L)
    BY <1>2 DEF LeafIndices, N
  <2>2. received.places[i] = p
    BY <1>1, <2>1 DEF SentPlaces, N
  <2>3. p.at = at
    BY DEF LeafPlace
  <2>4. /\ Prefixed4(L[i]) => NumberStoredAt(memory, at, Length(L[i], Actual(L[i])))
        /\ ContentAt(memory, i, L[i], p.content)
    <3>1. /\ Prefixed4(L[i]) => NumberStoredAt(memory, at, Number(L[i], Actual(L[i])))
          /\ ContentAt(memory, i, L[i], p.content) /\ PlainLeaf(L[i])
      BY <1>2, <1>3, <2>1 DEF Behind, SlotsWithin
    <3>2. Prefixed4(L[i]) => Length(L[i], Actual(L[i])) <= NumberMax
      <4>1. Fitting(L)
        BY <1>1, MessageFits DEF TraversedAlong
      <4>2. QED
        BY <2>1, <4>1 DEF Fitting
    <3>3. QED
      BY <3>1, <3>2, NumberIsLength
  <2>5. /\ PlainLeaf(L[i]) /\ at \in Nat /\ d[i] \in Nat /\ region \in Nat
        /\ d[i] = at + UsedWidth(L[i]) /\ d[i] <= region
    BY <1>3, <2>1 DEF SlotsWithin
  <2> HIDE DEF at
  <2>6. /\ p.content + Bytes(L[i]) \in Nat /\ p.content + Bytes(L[i]) <= at + UsedWidth(L[i])
    BY <2>5, LeafInSlot
  <2>7. p.content + Bytes(L[i]) <= region
    BY <2>5, <2>6
  <2> HIDE DEF p
  <2>8. QED
    BY <2>2, <2>3, <2>4, <2>7
<1>5. QED
  BY <1>1, <1>4 DEF Delivered

(***************************************************************************)
(* What the application wrote into a loaned message of a plain type, its   *)
(* lengths fitting 32-bit prefixes (LengthAssumption) and its bounds of    *)
(* any size, is what a receiver finds, field for field, whichever were     *)
(* undersized and wherever the block was rewritten from: a receiver that   *)
(* casts the region and one that copies out of it alike.                   *)
(***************************************************************************)
THEOREM ZeroCopyDelivers == Spec => []Delivers
<1>1. DeliveredAlong => Delivers
  BY WhatWasSentIsFound DEF Delivers
<1>2. QED
  BY <1>1, DeliveredAlways, PTL
================================================================================
