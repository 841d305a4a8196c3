----------------------------- MODULE CodecOpsProofs ----------------------------
(***************************************************************************)
(* What the operators guarantee that writer, reader and generated code are *)
(* modelled with, whoever uses them: the alignment arithmetic; the calls   *)
(* of a writer, valid whatever is asked of them, and of a reader; the      *)
(* folds over the members of a message; and writer and reader of the same  *)
(* message, field by field.                                                *)
(***************************************************************************)
EXTENDS GeneratedCodec, SequenceTheorems, WellFoundedInduction, TLAPS

--------------------------------------------------------------------------------
(* Alignment: what the arithmetic guarantees. *)

(***************************************************************************)
(* Aligning never moves back, moves by less than the alignment and lands   *)
(* on a multiple of it (endianness.hpp, calculate_alignment).              *)
(***************************************************************************)
LEMMA AlignToBounds ==
  ASSUME NEW p \in Int, NEW a \in PrimitiveSizes
  PROVE  /\ AlignTo(p, a) \in Int
         /\ p <= AlignTo(p, a)
         /\ AlignTo(p, a) < p + a
         /\ AlignTo(p, a) % a = 0
<1> USE DEF AlignTo, CalculateAlignment
<1>1. CASE a = 1
  BY <1>1, SMT
<1>2. CASE a = 2
  BY <1>2, SMT
<1>3. CASE a = 4
  BY <1>3, SMT
<1>4. CASE a = 8
  BY <1>4, SMT
<1>5. CASE a = 16
  BY <1>5, SMT
<1>6. QED
  BY <1>1, <1>2, <1>3, <1>4, <1>5 DEF PrimitiveSizes

(***************************************************************************)
(* The same for positions in a buffer, aligned relative to the data start: *)
(* at most 15 bytes of padding (XCdrWriter::align_and_reserve).            *)
(***************************************************************************)
LEMMA DataAlignBounds ==
  ASSUME NEW p \in Nat, NEW a \in PrimitiveSizes
  PROVE  /\ DataAlign(p, a) \in Nat
         /\ p <= DataAlign(p, a)
         /\ DataAlign(p, a) <= p + 15
<1>1. a \in 1 .. 16
  BY DEF PrimitiveSizes
<1>2. p - HeaderSize \in Int
  BY DEF HeaderSize
<1>3. /\ AlignTo(p - HeaderSize, a) \in Int
      /\ p - HeaderSize <= AlignTo(p - HeaderSize, a)
      /\ AlignTo(p - HeaderSize, a) < p - HeaderSize + a
  BY <1>2, AlignToBounds
<1>4. QED
  BY <1>1, <1>3 DEF DataAlign, HeaderSize

(***************************************************************************)
(* Behind an aligned datum and k more of its size nothing is to be padded: *)
(* elements of a sequence follow each other without gaps.                  *)
(***************************************************************************)
LEMMA ProductStep ==
  ASSUME NEW a \in PrimitiveSizes, NEW k \in Nat
  PROVE  a * k \in Nat /\ a * (k + 1) = a * k + a /\ a * 0 = 0
<1>1. a \in {1, 2, 4, 8, 16}
  BY DEF PrimitiveSizes
<1>2. QED
  BY <1>1

LEMMA AlignedStays ==
  ASSUME NEW p \in Nat, NEW a \in PrimitiveSizes, NEW k \in Nat
  PROVE  DataAlign(DataAlign(p, a) + a * k, a) = DataAlign(p, a) + a * k
<1> DEFINE x == AlignTo(p - HeaderSize, a)
           y == x + a * k
<1>1. x \in Int /\ x % a = 0
  BY AlignToBounds DEF HeaderSize
<1>2. a * k \in Nat
  BY ProductStep
<1> HIDE DEF x
<1>3. y \in Int /\ y % a = 0
  <2>1. CASE a = 1
    BY <1>1, <2>1, SMT
  <2>2. CASE a = 2
    BY <1>1, <2>2, SMT
  <2>3. CASE a = 4
    BY <1>1, <2>3, SMT
  <2>4. CASE a = 8
    BY <1>1, <2>4, SMT
  <2>5. CASE a = 16
    BY <1>1, <2>5, SMT
  <2>6. QED
    BY <2>1, <2>2, <2>3, <2>4, <2>5 DEF PrimitiveSizes
<1> HIDE DEF y
<1>4. AlignTo(y, a) = y
  <2>1. a \in 1 .. 16
    BY DEF PrimitiveSizes
  <2>2. a - 0 = a /\ a % a = 0
    BY <2>1
  <2>3. QED
    BY <1>3, <2>2 DEF AlignTo, CalculateAlignment
<1>5. DataAlign(p, a) = HeaderSize + x /\ DataAlign(p, a) + a * k = HeaderSize + y
  BY <1>1, <1>2 DEF DataAlign, HeaderSize, x, y
<1>6. (HeaderSize + y) - HeaderSize = y
  BY <1>3 DEF HeaderSize
<1>7. QED
  BY <1>4, <1>5, <1>6 DEF DataAlign

(***************************************************************************)
(* Induction over the elements of a sequence, as a fact about a set.       *)
(***************************************************************************)
LEMMA SetInduction ==
  ASSUME NEW S, 0 \in S, \A n \in Nat : n \in S => n + 1 \in S
  PROVE  Nat \subseteq S
<1> DEFINE R == OpToRel(<, Nat)
           T == {n \in Nat : n \notin S}
<1>1. IsWellFoundedOn(R, Nat)
  BY NatLessThanWellFounded
<1>2. ASSUME NEW x \in Nat, NEW y \in Nat, x < y PROVE <<x, y>> \in R
  BY <1>2 DEF OpToRel
<1> HIDE DEF R
<1>3. SUFFICES ASSUME T # {} PROVE FALSE
  OBVIOUS
<1>4. T \subseteq Nat
  OBVIOUS
<1> HIDE DEF T
<1>5. PICK x \in T : \A y \in T : ~(<<y, x>> \in R)
  BY <1>1, <1>3, <1>4, WFMin
<1>6. x \in Nat /\ x \notin S
  BY DEF T
<1>7. x # 0 /\ x - 1 \in Nat /\ x - 1 < x /\ (x - 1) + 1 = x
  BY <1>6
<1>8. x - 1 \in S
  <2>1. <<x - 1, x>> \in R
    BY <1>2, <1>6, <1>7
  <2>2. x - 1 \notin T
    BY <1>5, <2>1
  <2>3. QED
    BY <1>7, <2>2 DEF T
<1>9. QED
  BY <1>6, <1>7, <1>8

--------------------------------------------------------------------------------
(***************************************************************************)
(* What each operation on a writer or reader record keeps: a valid writer  *)
(* stays valid, in its mode and over its span; where there is room for all *)
(* of a field a writer over a span gets to its end, and so does a reader   *)
(* of a buffer that has the bytes it asks for.                             *)
(***************************************************************************)

(***************************************************************************)
(* A writer record in one of the states the operations keep it in: within  *)
(* its span if it has one, the position of the other mode unused.          *)
(***************************************************************************)
InSpan(x) == x.fixed => x.pos <= x.cap /\ \A b \in x.stored : b < x.cap

ModeFields(x) == IF x.fixed THEN x.size = 0 ELSE x.pos = 0

Valid(x) == x \in WriterType /\ ModeFields(x) /\ InSpan(x)

\* y is x after some operation: valid, same mode, same span.
ValidAfter(x, y) == Valid(y) /\ y.fixed = x.fixed /\ y.cap = x.cap

--------------------------------------------------------------------------------
LEMMA SizesArePositive ==
  ASSUME NEW s \in PrimitiveSizes PROVE s \in Nat \ {0}
BY DEF PrimitiveSizes

\* size_t sums stay natural numbers, and are the sums when they fit.
LEMMA PlusIsNat ==
  ASSUME NEW x \in Nat, NEW y \in Nat
  PROVE  /\ Plus(x, y) \in Nat
         /\ x + y <= SizeMax => Plus(x, y) = x + y
BY SizeMaxAssumption DEF Plus

LEMMA ProductIsNat ==
  ASSUME NEW s \in PrimitiveSizes, NEW n \in Nat
  PROVE  s * n \in Nat
<1>1. s \in {1, 2, 4, 8, 16}
  BY DEF PrimitiveSizes
<1>2. QED
  BY <1>1

LEMMA CursorIsNat ==
  ASSUME NEW x, Valid(x) PROVE Cursor(x) \in Nat
BY DEF Valid, WriterType, Cursor

\* Moving the cursor changes it and nothing else.
LEMMA MoveToFields ==
  ASSUME NEW x \in WriterType, NEW c \in Nat
  PROVE  LET y == MoveTo(x, c)
         IN /\ y \in WriterType
            /\ Cursor(y) = c
            /\ y.fixed = x.fixed /\ y.cap = x.cap /\ y.overflow = x.overflow
            /\ y.header = x.header /\ y.depth = x.depth /\ y.stored = x.stored
            /\ x.fixed => y.pos = c /\ y.size = x.size
            /\ ~x.fixed => y.size = c /\ y.pos = x.pos
<1>1. CASE x.fixed
  BY <1>1 DEF WriterType, MoveTo, Cursor
<1>2. CASE ~x.fixed
  BY <1>2 DEF WriterType, MoveTo, Cursor
<1>3. QED
  BY <1>1, <1>2

\* Recording a store changes the stored offsets and nothing else.
LEMMA StoresFields ==
  ASSUME NEW x \in WriterType, NEW S \in SUBSET Nat
  PROVE  LET y == [x EXCEPT !.stored = S]
         IN /\ y \in WriterType
            /\ Cursor(y) = Cursor(x)
            /\ y.fixed = x.fixed /\ y.cap = x.cap /\ y.overflow = x.overflow
            /\ y.header = x.header /\ y.depth = x.depth /\ y.stored = S
            /\ y.size = x.size /\ y.pos = x.pos
BY DEF WriterType, Cursor

\* Failing moves and stores nothing.
LEMMA FailValid ==
  ASSUME NEW x, Valid(x)
  PROVE  /\ ValidAfter(x, Fail(x))
         /\ Cursor(Fail(x)) = Cursor(x)
         /\ Fail(x).overflow
BY DEF Fail, ValidAfter, Valid, InSpan, ModeFields, WriterType, Cursor

--------------------------------------------------------------------------------
(* Construction *)

LEMMA GrowingValid ==
  Growing \in WriterType /\ Valid(Growing) /\ Growing.size = 0 /\ ~Growing.fixed
BY DEF Growing, WriterType, Valid, ModeFields, InSpan

LEMMA SpanValid ==
  ASSUME NEW c \in Nat, NEW o \in Nat
  PROVE  /\ Valid(FixedSpan(c)) /\ FixedSpan(c).fixed /\ FixedSpan(c).cap = c
         /\ Valid(FixedSpanAt(c, o)) /\ FixedSpanAt(c, o).fixed /\ FixedSpanAt(c, o).cap = c
<1> DEFINE f == FixedSpan(c)
           g == FixedSpanAt(c, o)
           p == IF o > c THEN 0 ELSE o
<1>1. /\ f \in WriterType
      /\ f.fixed /\ f.cap = c /\ f.pos = 0 /\ f.size = 0 /\ f.stored = {}
  BY DEF FixedSpan, Growing, WriterType
<1>2. p \in Nat /\ p <= c /\ (o > c) \in BOOLEAN
  OBVIOUS
<1>3. g = [f EXCEPT !.header = TRUE, !.overflow = o > c, !.pos = p]
  BY DEF FixedSpanAt
<1> HIDE DEF f, g, p
<1>4. /\ g \in WriterType
      /\ g.fixed /\ g.cap = c /\ g.size = 0 /\ g.stored = {} /\ g.pos <= c
  BY <1>1, <1>2, <1>3 DEF WriterType
<1>5. QED
  BY <1>1, <1>4 DEF Valid, ModeFields, InSpan, f, g

--------------------------------------------------------------------------------
(* The private steps *)

\* The cursor moves by at most the header.
LEMMA EnsureHeaderValid ==
  ASSUME NEW x, Valid(x)
  PROVE  /\ ValidAfter(x, EnsureHeaderWritten(x))
         /\ Cursor(EnsureHeaderWritten(x)) <= Cursor(x) + HeaderSize
<1> USE DEF HeaderSize, ValidAfter
<1>1. CASE x.overflow \/ x.header
  BY <1>1, CursorIsNat DEF EnsureHeaderWritten
<1>2. CASE ~(x.overflow \/ x.header) /\ Fits(x, HeaderSize)
  <2> DEFINE m == MoveTo(x, HeaderSize)
             z == [m EXCEPT !.stored = @ \cup Offsets(Cursor(m) - HeaderSize, HeaderSize)]
             y == EnsureHeaderWritten(x)
  <2>1. x \in WriterType
    BY DEF Valid
  <2>2. /\ m \in WriterType /\ Cursor(m) = 4
        /\ m.fixed = x.fixed /\ m.cap = x.cap /\ m.overflow = x.overflow
        /\ m.stored = x.stored
        /\ x.fixed => m.pos = 4 /\ m.size = x.size
        /\ ~x.fixed => m.size = 4 /\ m.pos = x.pos
    <3> HIDE DEF m
    <3>1. QED
      BY <2>1, MoveToFields DEF m
  <2>3. y = [z EXCEPT !.header = TRUE]
    BY <1>2 DEF EnsureHeaderWritten, StoreLast
  <2> HIDE DEF m
  <2>4. /\ y \in WriterType /\ Cursor(y) = 4
        /\ y.fixed = x.fixed /\ y.cap = x.cap /\ y.overflow = x.overflow
        /\ y.stored = x.stored \cup (0 .. 3) /\ y.size = m.size /\ y.pos = m.pos
    <3>1. Offsets(Cursor(m) - HeaderSize, HeaderSize) = 0 .. 3
      BY <2>2 DEF Offsets
    <3>2. /\ z \in WriterType /\ Cursor(z) = 4
          /\ z.fixed = x.fixed /\ z.cap = x.cap /\ z.overflow = x.overflow
          /\ z.stored = x.stored \cup (0 .. 3) /\ z.size = m.size /\ z.pos = m.pos
      <4>1. z = [m EXCEPT !.stored = x.stored \cup (0 .. 3)]
        BY <2>2, <3>1
      <4>2. x.stored \cup (0 .. 3) \in SUBSET Nat
        BY <2>1 DEF WriterType
      <4> HIDE DEF z
      <4>3. QED
        BY <2>2, <4>1, <4>2 DEF WriterType, Cursor
    <3> HIDE DEF y, z
    <3>3. QED
      BY <2>3, <3>2 DEF WriterType, Cursor
  <2> HIDE DEF y
  <2>5. Valid(y)
    BY <1>2, <2>1, <2>2, <2>4 DEF Valid, InSpan, ModeFields, WriterType, Fits
  <2>6. QED
    BY <2>4, <2>5, CursorIsNat DEF y
<1>3. CASE ~(x.overflow \/ x.header) /\ ~Fits(x, HeaderSize)
  <2>1. EnsureHeaderWritten(x) = [Fail(x) EXCEPT !.header = TRUE]
    BY <1>3 DEF EnsureHeaderWritten
  <2>2. x.fixed
    BY <1>3 DEF Fits
  <2> DEFINE y == EnsureHeaderWritten(x)
  <2> HIDE DEF y
  <2>3. /\ y \in WriterType
        /\ y.fixed = x.fixed /\ y.cap = x.cap /\ y.pos = x.pos /\ y.size = x.size
        /\ y.stored = x.stored
    BY <2>1 DEF Valid, WriterType, Fail, y
  <2>4. Valid(y)
    BY <2>2, <2>3 DEF Valid, InSpan, ModeFields
  <2>5. QED
    BY <2>2, <2>3, <2>4, CursorIsNat DEF Cursor, y
<1>4. QED
  BY <1>1, <1>2, <1>3

\* The cursor moves by at most the padding and the n bytes reserved.
LEMMA ReserveAndStoreValid ==
  ASSUME NEW x, Valid(x), NEW a \in PrimitiveSizes, NEW n \in Nat,
         Cursor(x) + 15 + n <= SizeMax
  PROVE  /\ ValidAfter(x, ReserveAndStore(x, a, n))
         /\ Cursor(ReserveAndStore(x, a, n)) <= Cursor(x) + 15 + n
<1> DEFINE c == Cursor(x)
           aligned == DataAlign(c, a)
           end == Plus(aligned, n)
<1>1. c \in Nat /\ x \in WriterType
  BY CursorIsNat DEF Valid
<1>2. aligned \in Nat /\ c <= aligned /\ aligned <= c + 15
  BY <1>1, DataAlignBounds
<1>3. end = aligned + n
  BY <1>1, <1>2, PlusIsNat, SizeMaxAssumption
<1> USE DEF ValidAfter
<1>4. CASE x.overflow
  BY <1>1, <1>4 DEF ReserveAndStore, AlignAndReserve
<1>5. CASE ~x.overflow /\ ~Fits(x, end)
  <2> DEFINE f == Fail(x)
  <2>1. AlignAndReserve(x, a, n) = f
    BY <1>5 DEF AlignAndReserve
  <2>2. /\ Valid(f) /\ f.fixed = x.fixed /\ f.cap = x.cap
        /\ Cursor(f) = c /\ f.overflow
    BY FailValid
  <2> HIDE DEF f
  <2>3. ReserveAndStore(x, a, n) = f
    BY <2>1, <2>2 DEF ReserveAndStore
  <2> HIDE DEF c
  <2>4. QED
    BY <1>1, <2>2, <2>3 DEF c
<1>6. CASE ~x.overflow /\ Fits(x, end)
  <2> DEFINE m == MoveTo(x, end)
             gap == c .. ((IF x.fixed THEN aligned ELSE end) - 1)
             r == [m EXCEPT !.stored = @ \cup gap]
             y == ReserveAndStore(x, a, n)
  <2>1. /\ m \in WriterType /\ Cursor(m) = end
        /\ m.fixed = x.fixed /\ m.cap = x.cap /\ m.overflow = x.overflow
        /\ m.stored = x.stored
        /\ x.fixed => m.pos = end /\ m.size = x.size
        /\ ~x.fixed => m.size = end /\ m.pos = x.pos
    <3>1. end \in Nat
      BY <1>2, <1>3
    <3> HIDE DEF end
    <3>2. QED
      BY <1>1, <3>1, MoveToFields
  <2>2. AlignAndReserve(x, a, n) = r
    BY <1>6 DEF AlignAndReserve
  <2> HIDE DEF m
  <2>3. gap \in SUBSET Nat /\ Offsets(end - n, n) \in SUBSET Nat
    BY <1>1, <1>2, <1>3 DEF Offsets
  <2>4. /\ r \in WriterType /\ Cursor(r) = end /\ ~r.overflow
        /\ r.fixed = x.fixed /\ r.cap = x.cap
        /\ r.stored = x.stored \cup gap /\ r.size = m.size /\ r.pos = m.pos
    BY <1>6, <2>1, <2>3 DEF WriterType, Cursor
  <2> HIDE DEF r, gap
  <2>5. y = [r EXCEPT !.stored = @ \cup Offsets(end - n, n)]
    BY <2>2, <2>4 DEF ReserveAndStore, StoreLast
  <2>6. /\ y \in WriterType /\ Cursor(y) = end /\ ~y.overflow
        /\ y.fixed = x.fixed /\ y.cap = x.cap
        /\ y.stored = (x.stored \cup gap) \cup Offsets(end - n, n)
        /\ y.size = m.size /\ y.pos = m.pos
    BY <2>3, <2>4, <2>5 DEF WriterType, Cursor
  <2> HIDE DEF y
  <2>7. ModeFields(y)
    BY <2>1, <2>6 DEF Valid, ModeFields
  <2>8. InSpan(y)
    BY <1>1, <1>2, <1>3, <1>6, <2>1, <2>6
       DEF Valid, InSpan, WriterType, Fits, Offsets, gap
  <2>9. QED
    BY <1>1, <1>2, <1>3, <2>6, <2>7, <2>8 DEF Valid, y
<1>7. QED
  BY <1>4, <1>5, <1>6

\* A skip stays in the span even when its sum wraps.
LEMMA SkipAdvanceValid ==
  ASSUME NEW x, Valid(x), NEW a \in PrimitiveSizes, NEW n \in Nat
  PROVE  ValidAfter(x, SkipAdvance(x, a, n))
<1> DEFINE c == Cursor(x)
           end == Plus(DataAlign(c, a), n)
<1>1. c \in Nat /\ end \in Nat
  BY CursorIsNat, DataAlignBounds, PlusIsNat
<1> USE DEF ValidAfter
<1>2. CASE x.overflow
  BY <1>2 DEF SkipAdvance
<1>3. CASE ~x.overflow /\ ~Fits(x, end)
  BY <1>1, <1>3 DEF SkipAdvance, Valid, InSpan, ModeFields, WriterType, Fail, Fits
<1>4. CASE ~x.overflow /\ Fits(x, end)
  <2> DEFINE m == MoveTo(x, end)
             kept == IF x.fixed THEN x.stored
                     ELSE {o \in x.stored : o < end} \cup (c .. (end - 1))
             y == SkipAdvance(x, a, n)
  <2>1. x \in WriterType
    BY DEF Valid
  <2>2. /\ m \in WriterType
        /\ m.fixed = x.fixed /\ m.cap = x.cap /\ m.overflow = x.overflow
        /\ m.stored = x.stored
        /\ x.fixed => m.pos = end /\ m.size = x.size
        /\ ~x.fixed => m.size = end /\ m.pos = x.pos
    <3> HIDE DEF end
    <3>1. QED
      BY <1>1, <2>1, MoveToFields
  <2>3. y = IF x.fixed THEN m ELSE [m EXCEPT !.stored = kept]
    BY <1>4, <2>2 DEF SkipAdvance, Resize
  <2> HIDE DEF m
  <2>4. kept \in SUBSET Nat
    BY <1>1, <2>1 DEF WriterType
  <2>5. /\ y \in WriterType
        /\ y.fixed = x.fixed /\ y.cap = x.cap /\ y.overflow = x.overflow
        /\ y.stored = kept /\ y.size = m.size /\ y.pos = m.pos
    <3>1. CASE x.fixed
      BY <2>2, <2>3, <3>1
    <3>2. CASE ~x.fixed
      <4> HIDE DEF kept
      <4>1. QED
        BY <2>2, <2>3, <2>4, <3>2 DEF WriterType
    <3>3. QED
      BY <3>1, <3>2
  <2> HIDE DEF y
  <2>6. ModeFields(y) /\ InSpan(y)
    BY <1>1, <1>4, <2>1, <2>2, <2>5 DEF Valid, InSpan, ModeFields, Fits, WriterType
  <2>7. QED
    BY <2>5, <2>6 DEF Valid, y
<1>5. QED
  BY <1>2, <1>3, <1>4

\* Storing n bytes that fit, right behind the cursor.
LEMMA AppendValid ==
  ASSUME NEW x, Valid(x), NEW n \in Nat, Fits(x, Cursor(x) + n)
  PROVE  /\ ValidAfter(x, StoreLast(MoveTo(x, Cursor(x) + n), n))
         /\ StoreLast(MoveTo(x, Cursor(x) + n), n).overflow = x.overflow
<1> DEFINE c == Cursor(x)
           m == MoveTo(x, c + n)
           y == StoreLast(m, n)
<1>1. x \in WriterType /\ c \in Nat /\ c + n \in Nat
  BY CursorIsNat DEF Valid
<1>2. /\ m \in WriterType /\ Cursor(m) = c + n
      /\ m.fixed = x.fixed /\ m.cap = x.cap /\ m.overflow = x.overflow
      /\ m.stored = x.stored
      /\ x.fixed => m.pos = c + n /\ m.size = x.size
      /\ ~x.fixed => m.size = c + n /\ m.pos = x.pos
  <2> HIDE DEF c
  <2>1. QED
    BY <1>1, MoveToFields
<1> HIDE DEF m
<1>3. Offsets(Cursor(m) - n, n) = c .. (c + n - 1)
  BY <1>1, <1>2 DEF Offsets
<1>4. y = [m EXCEPT !.stored = x.stored \cup (c .. (c + n - 1))]
  BY <1>2, <1>3 DEF StoreLast
<1> HIDE DEF y, c
<1>5. /\ y \in WriterType
      /\ y.fixed = x.fixed /\ y.cap = x.cap /\ y.overflow = x.overflow
      /\ y.stored = x.stored \cup (c .. (c + n - 1))
      /\ y.size = m.size /\ y.pos = m.pos
  BY <1>1, <1>2, <1>4 DEF WriterType
<1>6. ModeFields(y) /\ InSpan(y)
  BY <1>1, <1>2, <1>5 DEF Valid, ModeFields, InSpan, Fits, WriterType, c
<1>7. QED
  BY <1>5, <1>6 DEF Valid, ValidAfter, y, m, c

LEMMA PushPopValid ==
  ASSUME NEW x, Valid(x)
  PROVE  ValidAfter(x, Push(x)) /\ ValidAfter(x, Pop(x))
<1>1. ValidAfter(x, Push(x))
  BY DEF Push, ValidAfter, Valid, InSpan, ModeFields, WriterType
<1>2. CASE x.depth = 0
  BY <1>1, <1>2 DEF Pop, ValidAfter
<1>3. CASE x.depth # 0
  <2>1. Pop(x) = [x EXCEPT !.depth = @ - 1]
    BY <1>3 DEF Pop
  <2>2. x.depth - 1 \in Nat
    BY <1>3 DEF Valid, WriterType
  <2>3. QED
    BY <1>1, <2>1, <2>2 DEF ValidAfter, Valid, InSpan, ModeFields, WriterType
<1>4. QED
  BY <1>2, <1>3

LEMMA ValidAfterTransitive ==
  ASSUME NEW x, NEW y, NEW z, ValidAfter(x, y), ValidAfter(y, z)
  PROVE  ValidAfter(x, z)
BY DEF ValidAfter

--------------------------------------------------------------------------------
(* The public operations *)

\* The header and a length prefix, the start of every string and sequence.
LEMMA PrefixValid ==
  ASSUME NEW x, Valid(x), Cursor(x) + 64 <= SizeMax
  PROVE  LET p == ReserveAndStore(EnsureHeaderWritten(x), PrefixSize, PrefixSize)
         IN ValidAfter(x, p) /\ Cursor(p) <= Cursor(x) + 23
<1> DEFINE h == EnsureHeaderWritten(x)
           p == ReserveAndStore(h, PrefixSize, PrefixSize)
<1>1. ValidAfter(x, h) /\ Cursor(h) <= Cursor(x) + 4
  BY EnsureHeaderValid DEF HeaderSize
<1>2. Cursor(x) \in Nat /\ Cursor(h) \in Nat
  BY <1>1, CursorIsNat DEF ValidAfter
<1> HIDE DEF h
<1>3. ValidAfter(h, p) /\ Cursor(p) <= Cursor(h) + 19
  BY <1>1, <1>2, SizeMaxAssumption, ReserveAndStoreValid
     DEF ValidAfter, PrefixSize, PrimitiveSizes
<1>4. Cursor(p) \in Nat
  BY <1>3, CursorIsNat DEF ValidAfter
<1>5. QED
  BY <1>1, <1>2, <1>3, <1>4, ValidAfterTransitive DEF h

LEMMA WritePrimitiveValid ==
  ASSUME NEW x, Valid(x), NEW s \in PrimitiveSizes, Cursor(x) + 64 <= SizeMax
  PROVE  ValidAfter(x, WritePrimitive(x, s))
<1> DEFINE h == EnsureHeaderWritten(x)
<1>1. ValidAfter(x, h) /\ Cursor(h) <= Cursor(x) + 4
  BY EnsureHeaderValid DEF HeaderSize
<1>2. Cursor(x) \in Nat /\ Cursor(h) \in Nat /\ s \in 1 .. 16
  BY <1>1, CursorIsNat DEF ValidAfter, PrimitiveSizes
<1> HIDE DEF h
<1>3. ValidAfter(h, ReserveAndStore(h, s, s))
  BY <1>1, <1>2, SizeMaxAssumption, ReserveAndStoreValid DEF ValidAfter
<1>4. QED
  BY <1>1, <1>3, ValidAfterTransitive DEF WritePrimitive, h

LEMMA WriteStringValid ==
  ASSUME NEW x, Valid(x), NEW n \in Nat, Cursor(x) + 64 <= SizeMax
  PROVE  ValidAfter(x, WriteString(x, n))
<1> DEFINE p == ReserveAndStore(EnsureHeaderWritten(x), PrefixSize, PrefixSize)
           end == Cursor(p) + n + 1
<1>1. ValidAfter(x, p) /\ Cursor(p) \in Nat
  BY PrefixValid, CursorIsNat DEF ValidAfter
<1>2. Cursor(p) + (n + 1) = end /\ n + 1 \in Nat
  BY <1>1
<1>3. WriteString(x, n) = IF p.overflow THEN p
                          ELSE IF ~Fits(p, end) THEN Fail(p)
                          ELSE StoreLast(MoveTo(p, end), n + 1)
  BY DEF WriteString
<1> HIDE DEF p, end
<1>4. CASE p.overflow
  BY <1>1, <1>3, <1>4
<1>5. CASE ~p.overflow /\ ~Fits(p, end)
  <2>1. ValidAfter(p, Fail(p))
    BY <1>1, <1>5, FailValid DEF Fits, ValidAfter
  <2>2. QED
    BY <1>1, <1>3, <1>5, <2>1, ValidAfterTransitive
<1>6. CASE ~p.overflow /\ Fits(p, end)
  <2>1. ValidAfter(p, StoreLast(MoveTo(p, end), n + 1))
    BY <1>1, <1>2, <1>6, AppendValid DEF ValidAfter
  <2>2. QED
    BY <1>1, <1>3, <1>6, <2>1, ValidAfterTransitive
<1>7. QED
  BY <1>4, <1>5, <1>6

\* The units counted fit, and never are more than there are.
LEMMA UnitsThatFitBounds ==
  ASSUME NEW x, Valid(x), NEW n \in Nat
  PROVE  /\ UnitsThatFit(x, n) \in Nat
         /\ Fits(x, Cursor(x) + 2 * UnitsThatFit(x, n))
<1>1. CASE Fits(x, Cursor(x) + 2 * n)
  BY <1>1 DEF UnitsThatFit, Fits
<1>2. CASE ~Fits(x, Cursor(x) + 2 * n)
  <2> DEFINE room == x.cap - Cursor(x)
  <2>1. x.fixed /\ room \in Nat
    BY <1>2 DEF Fits, Valid, InSpan, WriterType, Cursor
  <2>2. UnitsThatFit(x, n) = room \div 2
    BY <1>2 DEF UnitsThatFit
  <2>3. Cursor(x) \in Nat /\ x.cap \in Nat /\ x.cap = Cursor(x) + room
    BY <2>1, CursorIsNat DEF Valid, WriterType
  <2> HIDE DEF room
  <2>4. QED
    BY <2>1, <2>2, <2>3 DEF Fits
<1>3. QED
  BY <1>1, <1>2

LEMMA WriteWStringValid ==
  ASSUME NEW x, Valid(x), NEW n \in Nat, Cursor(x) + 64 <= SizeMax
  PROVE  ValidAfter(x, WriteWString(x, n))
<1> DEFINE p == ReserveAndStore(EnsureHeaderWritten(x), PrefixSize, PrefixSize)
           k == UnitsThatFit(p, n + 1)
           q == StoreLast(MoveTo(p, Cursor(p) + 2 * k), 2 * k)
           y == [q EXCEPT !.overflow = k < n + 1]
<1>1. ValidAfter(x, p) /\ Cursor(p) \in Nat
  BY PrefixValid, CursorIsNat DEF ValidAfter
<1>2. WriteWString(x, n) = IF p.overflow THEN p ELSE y
  BY DEF WriteWString
<1> HIDE DEF p
<1>3. /\ k \in Nat
      /\ Fits(p, Cursor(p) + 2 * k)
  BY <1>1, UnitsThatFitBounds DEF ValidAfter
<1> HIDE DEF k
<1>4. ValidAfter(p, q)
  BY <1>1, <1>3, AppendValid DEF ValidAfter
<1> HIDE DEF q
<1>5. ValidAfter(q, y)
  <2>1. (k < n + 1) \in BOOLEAN
    BY <1>3
  <2>2. QED
    BY <1>4, <2>1 DEF ValidAfter, Valid, InSpan, ModeFields, WriterType
<1> HIDE DEF y
<1>6. QED
  BY <1>1, <1>2, <1>4, <1>5, ValidAfterTransitive

LEMMA BeginValid ==
  ASSUME NEW x, Valid(x), Cursor(x) + 64 <= SizeMax
  PROVE  /\ ValidAfter(x, BeginWriteArray(x))
         /\ Cursor(BeginWriteArray(x)) <= Cursor(x) + 23
         /\ ValidAfter(x, BeginWriteStruct(x))
         /\ ValidAfter(x, BeginWriteSequence(x))
         /\ Cursor(BeginWriteSequence(x)) <= Cursor(x) + 23
<1> DEFINE h == EnsureHeaderWritten(x)
           p == ReserveAndStore(h, PrefixSize, PrefixSize)
<1>1. ValidAfter(x, h) /\ Cursor(h) <= Cursor(x) + 4
  BY EnsureHeaderValid DEF HeaderSize
<1>2. ValidAfter(x, p) /\ Cursor(p) <= Cursor(x) + 23
  BY PrefixValid
<1>3. ValidAfter(h, Push(h)) /\ ValidAfter(p, Push(p))
  BY <1>1, <1>2, PushPopValid DEF ValidAfter
<1>4. Cursor(Push(h)) = Cursor(h) /\ Cursor(Push(p)) = Cursor(p)
  BY <1>1, <1>2 DEF Push, Cursor, ValidAfter, Valid, WriterType
<1>5. BeginWriteSequence(x) = IF p.overflow THEN p ELSE Push(p)
  BY DEF BeginWriteSequence
<1>6. BeginWriteArray(x) = Push(h) /\ BeginWriteStruct(x) = Push(h)
  BY DEF BeginWriteArray, BeginWriteStruct
<1>7. Cursor(x) \in Nat /\ Cursor(h) \in Nat
  BY <1>1, CursorIsNat DEF ValidAfter
<1> HIDE DEF h, p
<1>8. QED
  BY <1>1, <1>2, <1>3, <1>4, <1>5, <1>6, <1>7, ValidAfterTransitive

LEMMA WritePodSpanValid ==
  ASSUME NEW x, Valid(x), NEW s \in PrimitiveSizes, NEW n \in Nat,
         Cursor(x) + s * n + 40 <= SizeMax
  PROVE  ValidAfter(x, WritePodSpan(x, s, n))
<1> DEFINE h == EnsureHeaderWritten(x)
           b == s * n
           r == ReserveAndStore(h, s, b)
<1>1. ValidAfter(x, h) /\ Cursor(h) <= Cursor(x) + 4
  BY EnsureHeaderValid DEF HeaderSize
<1>2. Cursor(x) \in Nat /\ Cursor(h) \in Nat /\ b \in Nat
  BY <1>1, CursorIsNat, ProductIsNat DEF ValidAfter
<1>3. WritePodSpan(x, s, n) = IF n = 0 THEN x ELSE r
  BY DEF WritePodSpan
<1>4. Cursor(x) + b + 40 <= SizeMax
  OBVIOUS
<1> HIDE DEF h, b
<1>5. ValidAfter(h, r)
  BY <1>1, <1>2, <1>4, SizeMaxAssumption, ReserveAndStoreValid DEF ValidAfter
<1> HIDE DEF r
<1>6. ValidAfter(x, x) 
  BY DEF ValidAfter
<1>7. QED
  BY <1>1, <1>3, <1>5, <1>6, ValidAfterTransitive

LEMMA WriteArraySequenceValid ==
  ASSUME NEW x, Valid(x), NEW s \in PrimitiveSizes, NEW n \in Nat,
         Cursor(x) + s * n + 64 <= SizeMax
  PROVE  ValidAfter(x, WriteArray(x, s, n)) /\ ValidAfter(x, WriteSequence(x, s, n))
<1> DEFINE a == BeginWriteArray(x)
           q == BeginWriteSequence(x)
<1>1. Cursor(x) \in Nat /\ s * n \in Nat
  BY CursorIsNat, ProductIsNat
<1>2. Cursor(x) + 64 <= SizeMax
  BY <1>1, SizeMaxAssumption
<1>3. /\ ValidAfter(x, a) /\ Cursor(a) <= Cursor(x) + 23
      /\ ValidAfter(x, q) /\ Cursor(q) <= Cursor(x) + 23
  BY <1>2, BeginValid
<1>4. Cursor(a) \in Nat /\ Cursor(q) \in Nat
  BY <1>3, CursorIsNat DEF ValidAfter
<1>5. Cursor(a) + s * n + 40 <= SizeMax /\ Cursor(q) + s * n + 40 <= SizeMax
  BY <1>1, <1>3, <1>4, SizeMaxAssumption
<1> HIDE DEF a, q
<1>6. ValidAfter(a, WritePodSpan(a, s, n)) /\ ValidAfter(q, WritePodSpan(q, s, n))
  BY <1>3, <1>5, WritePodSpanValid DEF ValidAfter
<1>7. /\ ValidAfter(WritePodSpan(a, s, n), WriteArray(x, s, n))
      /\ ValidAfter(WritePodSpan(q, s, n), WriteSequence(x, s, n))
  BY <1>6, PushPopValid DEF WriteArray, WriteSequence, EndWrite, ValidAfter, a, q
<1>8. QED
  BY <1>3, <1>6, <1>7, ValidAfterTransitive

\* Skips need no room: a sum that wraps still has to pass the check.
LEMMA SkipValid ==
  ASSUME NEW x, Valid(x), NEW s \in PrimitiveSizes, NEW n \in Nat
  PROVE  /\ ValidAfter(x, Skip(x, s))
         /\ ValidAfter(x, SkipString(x, n))
         /\ ValidAfter(x, BeginSkipSequence(x))
<1> DEFINE h == EnsureHeaderWritten(x)
           p == SkipAdvance(h, PrefixSize, PrefixSize)
<1>1. ValidAfter(x, h)
  BY EnsureHeaderValid
<1>2. /\ PrefixSize \in PrimitiveSizes /\ PrefixSize \in Nat /\ 1 \in PrimitiveSizes
      /\ s \in Nat /\ n + 1 \in Nat
  BY SizesArePositive DEF PrefixSize, PrimitiveSizes
<1>3. /\ Skip(x, s) = SkipAdvance(h, s, s)
      /\ SkipString(x, n) = SkipAdvance(p, 1, n + 1)
      /\ BeginSkipSequence(x) = IF p.overflow THEN p ELSE Push(p)
  BY DEF Skip, SkipString, BeginSkipSequence
<1> HIDE DEF h
<1>4. ValidAfter(h, p) /\ ValidAfter(h, SkipAdvance(h, s, s))
  BY <1>1, <1>2, SkipAdvanceValid DEF ValidAfter
<1> HIDE DEF p
<1>5. ValidAfter(p, SkipAdvance(p, 1, n + 1)) /\ ValidAfter(p, Push(p))
  BY <1>2, <1>4, SkipAdvanceValid, PushPopValid DEF ValidAfter
<1>6. QED
  BY <1>1, <1>3, <1>4, <1>5, ValidAfterTransitive

LEMMA SkipWStringValid ==
  ASSUME NEW x, Valid(x), NEW n \in Nat
  PROVE  ValidAfter(x, SkipWString(x, n))
<1> DEFINE h == EnsureHeaderWritten(x)
           p == SkipAdvance(h, PrefixSize, PrefixSize)
           k == UnitsThatFit(p, n + 1)
           c == Cursor(p) + 2 * k
           m == MoveTo(p, c)
           zeroed == IF p.fixed THEN {} ELSE Offsets(Cursor(p), 2 * k)
           q == [m EXCEPT !.stored = @ \cup zeroed]
           y == [m EXCEPT !.overflow = k < n + 1, !.stored = @ \cup zeroed]
<1>1. ValidAfter(x, h)
  BY EnsureHeaderValid
<1>2. SkipWString(x, n) = IF p.overflow THEN p ELSE y
  BY DEF SkipWString
<1>3. PrefixSize \in PrimitiveSizes /\ PrefixSize \in Nat
  BY DEF PrefixSize, PrimitiveSizes
<1> HIDE DEF h
<1>4. ValidAfter(h, p)
  BY <1>1, <1>3, SkipAdvanceValid DEF ValidAfter
<1>5. ValidAfter(x, p) /\ Cursor(p) \in Nat /\ p \in WriterType
  BY <1>1, <1>4, ValidAfterTransitive, CursorIsNat DEF ValidAfter, Valid
<1> HIDE DEF p
<1>6. k \in Nat /\ Fits(p, c)
  BY <1>5, UnitsThatFitBounds DEF ValidAfter
<1> HIDE DEF k
<1>7. c \in Nat /\ zeroed \in SUBSET Nat
  BY <1>5, <1>6 DEF Offsets
<1> HIDE DEF c
<1>8. /\ m \in WriterType
      /\ m.fixed = p.fixed /\ m.cap = p.cap /\ m.overflow = p.overflow
      /\ m.stored = p.stored
      /\ p.fixed => m.pos = c /\ m.size = p.size
      /\ ~p.fixed => m.size = c /\ m.pos = p.pos
  BY <1>5, <1>7, MoveToFields
<1> HIDE DEF m
<1>9. CASE ~p.overflow
  <2>1. (k < n + 1) \in BOOLEAN
    BY <1>6
  <2>2. /\ y \in WriterType
        /\ y.fixed = p.fixed /\ y.cap = p.cap
        /\ y.stored = p.stored \cup zeroed /\ y.size = m.size /\ y.pos = m.pos
    BY <1>7, <1>8, <2>1 DEF WriterType
  <2> HIDE DEF y
  <2>3. ModeFields(y) /\ InSpan(y)
    BY <1>5, <1>6, <1>8, <2>2 DEF ValidAfter, Valid, ModeFields, InSpan, Fits, WriterType
  <2>4. ValidAfter(p, y)
    BY <2>2, <2>3 DEF ValidAfter, Valid
  <2>5. QED
    BY <1>2, <1>5, <1>9, <2>4, ValidAfterTransitive
<1>10. QED
  BY <1>2, <1>5, <1>9

LEMMA SkipArrayValid ==
  ASSUME NEW x, Valid(x), NEW s \in PrimitiveSizes, NEW n \in Nat
  PROVE  ValidAfter(x, SkipArray(x, s, n))
<1> DEFINE h == EnsureHeaderWritten(x)
           a == SkipAdvance(h, s, s * n)
<1>1. ValidAfter(x, h)
  BY EnsureHeaderValid
<1>2. SkipArray(x, s, n) = IF h.overflow \/ n = 0 THEN h
                           ELSE IF n > SizeMax \div s THEN Fail(h) ELSE a
  BY DEF SkipArray
<1> HIDE DEF h
<1>3. ValidAfter(h, a)
  BY <1>1, ProductIsNat, SkipAdvanceValid DEF ValidAfter
<1>4. CASE n > SizeMax \div s
  <2>1. ValidAfter(h, Fail(h))
    BY <1>1, FailValid DEF ValidAfter
  <2>2. QED
    BY <1>1, <1>2, <1>4, <2>1, ValidAfterTransitive
<1> HIDE DEF a
<1>5. CASE ~(n > SizeMax \div s)
  BY <1>1, <1>2, <1>3, <1>5, ValidAfterTransitive
<1>6. QED
  BY <1>4, <1>5

LEMMA SkipSequenceValid ==
  ASSUME NEW x, Valid(x), NEW s \in PrimitiveSizes, NEW n \in Nat
  PROVE  ValidAfter(x, SkipSequence(x, s, n))
<1> DEFINE b == BeginSkipSequence(x)
           a == IF b.overflow THEN b ELSE SkipArray(b, s, n)
<1>1. ValidAfter(x, b)
  BY SkipValid
<1>2. SkipSequence(x, s, n) = IF a.overflow THEN a ELSE EndWrite(a)
  BY DEF SkipSequence
<1> HIDE DEF b
<1>3. ValidAfter(b, SkipArray(b, s, n)) /\ ValidAfter(b, b)
  BY <1>1, SkipArrayValid DEF ValidAfter
<1>4. ValidAfter(b, a)
  BY <1>3
<1> HIDE DEF a
<1>5. ValidAfter(a, EndWrite(a))
  BY <1>4, PushPopValid DEF ValidAfter, EndWrite
<1>6. QED
  BY <1>1, <1>2, <1>4, <1>5, ValidAfterTransitive

LEMMA ResetValid ==
  ASSUME NEW x, Valid(x)
  PROVE  ValidAfter(x, Reset(x)) /\ Reset(x).size = 0
<1> DEFINE y == Reset(x)
<1>1. /\ y \in WriterType
      /\ y.fixed = x.fixed /\ y.cap = x.cap
      /\ y.size = 0 /\ y.pos = 0 /\ y.stored = {}
  BY DEF Reset, Valid, WriterType
<1> HIDE DEF y
<1>2. ModeFields(y) /\ InSpan(y)
  BY <1>1 DEF ModeFields, InSpan, Valid, WriterType
<1>3. QED
  BY <1>1, <1>2 DEF ValidAfter, Valid, y

--------------------------------------------------------------------------------
(* Steps and calls over a span, field by field *)

LEMMA CursorInSpan ==
  ASSUME NEW f, Valid(f), f.fixed
  PROVE  Cursor(f) = f.pos /\ f.pos \in Nat /\ f.cap \in Nat /\ f.pos <= f.cap
BY DEF Valid, InSpan, WriterType, Cursor

LEMMA HeaderFields ==
  ASSUME NEW x, Valid(x), x.fixed
  PROVE  LET y == EnsureHeaderWritten(x)
         IN /\ x.overflow \/ x.header => y = x
            /\ ~x.overflow /\ ~x.header /\ HeaderSize <= x.cap =>
                 /\ y.pos = HeaderSize /\ ~y.overflow /\ y.header
                 /\ y.depth = x.depth /\ y.stored = x.stored \cup Offsets(0, HeaderSize)
            /\ ~x.overflow /\ ~x.header /\ ~(HeaderSize <= x.cap) =>
                 /\ y.pos = x.pos /\ y.overflow /\ y.header
                 /\ y.stored = x.stored
<1> DEFINE y == EnsureHeaderWritten(x)
<1>1. x \in WriterType
  BY DEF Valid
<1>2. CASE x.overflow \/ x.header
  BY <1>2 DEF EnsureHeaderWritten
<1>3. CASE ~x.overflow /\ ~x.header /\ HeaderSize <= x.cap
  <2>1. y = [[x EXCEPT !.pos = HeaderSize, !.stored = @ \cup Offsets(0, HeaderSize)]
               EXCEPT !.header = TRUE]
    BY <1>1, <1>3
       DEF EnsureHeaderWritten, Fits, StoreLast, MoveTo, Cursor, WriterType, HeaderSize
  <2> HIDE DEF y
  <2>2. QED
    BY <1>1, <1>3, <2>1 DEF WriterType, y
<1>4. CASE ~x.overflow /\ ~x.header /\ ~(HeaderSize <= x.cap)
  <2>1. y = [[x EXCEPT !.overflow = TRUE] EXCEPT !.header = TRUE]
    BY <1>4 DEF EnsureHeaderWritten, Fits, Fail
  <2> HIDE DEF y
  <2>2. QED
    BY <1>1, <1>4, <2>1 DEF WriterType, y
<1>5. QED
  BY <1>2, <1>3, <1>4

(***************************************************************************)
(* What a step makes of a writer over a span: nothing behind an error,     *)
(* else it fails or not, moves to a position and stores some bytes.        *)
(***************************************************************************)
Outcome(x, y, fails, to, bytes) ==
  /\ x.overflow => y = x
  /\ ~x.overflow =>
       /\ y.overflow = fails /\ y.pos = to
       /\ y.header = x.header /\ y.depth = x.depth
       /\ y.stored = x.stored \cup bytes

\* Where an aligned field of n bytes ends.
EndOf(x, a, n) == DataAlign(x.pos, a) + n

LEMMA ReserveOutcome ==
  ASSUME NEW x, Valid(x), x.fixed, NEW a \in PrimitiveSizes, NEW n \in Nat,
         x.cap + 15 + n <= SizeMax
  PROVE  LET e == EndOf(x, a, n)
         IN Outcome(x, ReserveAndStore(x, a, n), e > x.cap,
                    IF e > x.cap THEN x.pos ELSE e,
                    IF e > x.cap THEN {}
                    ELSE (x.pos .. (e - n - 1)) \cup Offsets(e - n, n))
<1> DEFINE d == DataAlign(x.pos, a)
           e == EndOf(x, a, n)
           y == ReserveAndStore(x, a, n)
<1>1. x \in WriterType /\ Cursor(x) = x.pos /\ x.pos \in Nat /\ x.cap \in Nat /\ x.pos <= x.cap
  BY CursorInSpan DEF Valid
<1>2. d \in Nat /\ x.pos <= d /\ d <= x.pos + 15
  BY <1>1, DataAlignBounds
<1>3. e = d + n /\ e \in Nat
  BY <1>2 DEF EndOf
<1> HIDE DEF d, e
<1>4. Plus(d, n) = e
  <2>1. d + n <= SizeMax
    BY <1>1, <1>2, SizeMaxAssumption
  <2>2. QED
    BY <1>2, <1>3, <2>1, PlusIsNat
<1>5. Fits(x, e) <=> ~(e > x.cap)
  BY <1>1, <1>3 DEF Fits
<1>6. CASE x.overflow
  <2>1. y = x
    BY <1>6 DEF ReserveAndStore, AlignAndReserve
  <2>2. QED
    BY <1>6, <2>1 DEF Outcome
<1>7. CASE ~x.overflow /\ e > x.cap
  <2>1. AlignAndReserve(x, a, n) = Fail(x)
    BY <1>1, <1>4, <1>5, <1>7 DEF AlignAndReserve, d
  <2>2. Fail(x) = [x EXCEPT !.overflow = TRUE]
    BY DEF Fail
  <2>3. y = [x EXCEPT !.overflow = TRUE]
    BY <1>1, <2>1, <2>2 DEF ReserveAndStore, WriterType
  <2> HIDE DEF y
  <2>4. /\ y.overflow = TRUE /\ y.pos = x.pos /\ y.header = x.header
        /\ y.depth = x.depth /\ y.stored = x.stored
    BY <1>1, <2>3 DEF WriterType
  <2>5. QED
    BY <1>7, <2>4 DEF Outcome, y, e
<1>8. CASE ~x.overflow /\ ~(e > x.cap)
  <2> DEFINE pad == x.pos .. (d - 1)
             r == [[x EXCEPT !.pos = e] EXCEPT !.stored = @ \cup pad]
  <2>0. pad \in SUBSET Nat
    BY <1>1, <1>2
  <2>1. AlignAndReserve(x, a, n) = r
    BY <1>1, <1>4, <1>5, <1>8 DEF AlignAndReserve, MoveTo, d
  <2> HIDE DEF pad
  <2>2. /\ r \in WriterType /\ r.pos = e /\ r.fixed /\ ~r.overflow
        /\ r.header = x.header /\ r.depth = x.depth /\ r.stored = x.stored \cup pad
    BY <1>1, <1>3, <1>8, <2>0 DEF WriterType
  <2> HIDE DEF r
  <2>3. y = [r EXCEPT !.stored = @ \cup Offsets(e - n, n)]
    BY <2>1, <2>2 DEF ReserveAndStore, StoreLast, Cursor
  <2> HIDE DEF y
  <2>4. /\ y.overflow = FALSE /\ y.pos = e /\ y.header = x.header
        /\ y.depth = x.depth /\ y.stored = (x.stored \cup pad) \cup Offsets(e - n, n)
    BY <1>8, <2>2, <2>3 DEF WriterType
  <2>5. d = e - n /\ (e > x.cap) = FALSE
    BY <1>2, <1>3, <1>8
  <2>6. y.stored = x.stored \cup ((x.pos .. (e - n - 1)) \cup Offsets(e - n, n))
    BY <2>4, <2>5 DEF pad
  <2>7. QED
    BY <1>8, <2>4, <2>5, <2>6 DEF Outcome, y, e
<1>9. QED
  BY <1>6, <1>7, <1>8

LEMMA SkipOutcome ==
  ASSUME NEW x, Valid(x), x.fixed, NEW a \in PrimitiveSizes, NEW n \in Nat,
         x.cap + 15 + n <= SizeMax
  PROVE  LET e == EndOf(x, a, n)
         IN Outcome(x, SkipAdvance(x, a, n), e > x.cap,
                    IF e > x.cap THEN x.pos ELSE e, {})
<1> DEFINE d == DataAlign(x.pos, a)
           e == EndOf(x, a, n)
           y == SkipAdvance(x, a, n)
<1>1. x \in WriterType /\ Cursor(x) = x.pos /\ x.pos \in Nat /\ x.cap \in Nat /\ x.pos <= x.cap
  BY CursorInSpan DEF Valid
<1>2. d \in Nat /\ x.pos <= d /\ d <= x.pos + 15
  BY <1>1, DataAlignBounds
<1>3. e = d + n /\ e \in Nat
  BY <1>2 DEF EndOf
<1> HIDE DEF d, e
<1>4. Plus(d, n) = e
  <2>1. d + n <= SizeMax
    BY <1>1, <1>2, SizeMaxAssumption
  <2>2. QED
    BY <1>2, <1>3, <2>1, PlusIsNat
<1>5. Fits(x, e) <=> ~(e > x.cap)
  BY <1>1, <1>3 DEF Fits
<1>6. CASE x.overflow
  BY <1>6 DEF Outcome, SkipAdvance
<1>7. CASE ~x.overflow /\ e > x.cap
  <2>1. y = [x EXCEPT !.overflow = TRUE]
    BY <1>1, <1>4, <1>5, <1>7 DEF SkipAdvance, Fail, d
  <2> HIDE DEF y
  <2>2. /\ y.overflow = TRUE /\ y.pos = x.pos /\ y.header = x.header
        /\ y.depth = x.depth /\ y.stored = x.stored
    BY <1>1, <2>1 DEF WriterType
  <2>3. QED
    BY <1>7, <2>2 DEF Outcome, y, e
<1>8. CASE ~x.overflow /\ ~(e > x.cap)
  <2>1. y = [[x EXCEPT !.pos = e] EXCEPT !.stored = @ \cup {}]
    BY <1>1, <1>4, <1>5, <1>8 DEF SkipAdvance, MoveTo, d
  <2> HIDE DEF y
  <2>2. /\ y.overflow = FALSE /\ y.pos = e /\ y.header = x.header
        /\ y.depth = x.depth /\ y.stored = x.stored
    BY <1>1, <1>8, <2>1 DEF WriterType
  <2>3. (e > x.cap) = FALSE /\ x.stored = x.stored \cup {}
    BY <1>8
  <2>4. QED
    BY <1>8, <2>2, <2>3 DEF Outcome, y, e
<1>9. QED
  BY <1>6, <1>7, <1>8

\* A write of n bytes right behind the cursor, unless there was an error.
AppendBytes(x, n) ==
  IF x.overflow THEN x
  ELSE IF ~Fits(x, Cursor(x) + n) THEN Fail(x)
  ELSE StoreLast(MoveTo(x, Cursor(x) + n), n)

LEMMA AppendOutcome ==
  ASSUME NEW x, Valid(x), x.fixed, NEW n \in Nat
  PROVE  LET e == x.pos + n
         IN /\ ValidAfter(x, AppendBytes(x, n))
            /\ Outcome(x, AppendBytes(x, n), e > x.cap,
                       IF e > x.cap THEN x.pos ELSE e,
                       IF e > x.cap THEN {} ELSE Offsets(e - n, n))
<1> DEFINE e == x.pos + n
           y == AppendBytes(x, n)
<1>1. x \in WriterType /\ Cursor(x) = x.pos /\ x.pos \in Nat /\ x.cap \in Nat /\ e \in Nat
  BY CursorInSpan DEF Valid
<1>2. Fits(x, e) <=> ~(e > x.cap)
  BY <1>1 DEF Fits
<1>3. y = IF x.overflow THEN x
          ELSE IF e > x.cap THEN Fail(x) ELSE StoreLast(MoveTo(x, e), n)
  BY <1>1, <1>2 DEF AppendBytes
<1>4. ValidAfter(x, y)
  BY <1>1, FailValid, AppendValid DEF ValidAfter, AppendBytes
<1> HIDE DEF e, y
<1>5. CASE x.overflow
  BY <1>3, <1>4, <1>5 DEF Outcome, e, y
<1>6. CASE ~x.overflow /\ e > x.cap
  <2>1. y = [x EXCEPT !.overflow = TRUE]
    BY <1>3, <1>6 DEF Fail
  <2>2. /\ y.overflow = TRUE /\ y.pos = x.pos /\ y.header = x.header
        /\ y.depth = x.depth /\ y.stored = x.stored
    BY <1>1, <2>1 DEF WriterType
  <2>3. QED
    BY <1>4, <1>6, <2>2 DEF Outcome, e, y
<1>7. CASE ~x.overflow /\ ~(e > x.cap)
  <2> DEFINE r == [x EXCEPT !.pos = e]
  <2>1. r \in WriterType /\ r.pos = e /\ r.fixed
        /\ r.overflow = x.overflow /\ r.header = x.header
        /\ r.depth = x.depth /\ r.stored = x.stored
    BY <1>1 DEF WriterType, e
  <2>2. y = StoreLast(r, n)
    BY <1>3, <1>7 DEF MoveTo
  <2> HIDE DEF r
  <2>3. y = [r EXCEPT !.stored = @ \cup Offsets(e - n, n)]
    BY <2>1, <2>2 DEF StoreLast, Cursor
  <2>4. /\ y.overflow = x.overflow /\ y.pos = e /\ y.header = x.header
        /\ y.depth = x.depth /\ y.stored = x.stored \cup Offsets(e - n, n)
    BY <2>1, <2>3 DEF WriterType
  <2>5. (e > x.cap) = FALSE /\ x.overflow = FALSE
    BY <1>1, <1>7 DEF WriterType
  <2>6. QED
    BY <1>4, <1>7, <2>4, <2>5 DEF Outcome, e, y
<1>8. QED
  BY <1>5, <1>6, <1>7

(***************************************************************************)
(* Wide strings: the units that fit are counted from the cursor and the    *)
(* span alone, so a skip gives up at the unit a write does.                *)
(***************************************************************************)
Units(x, n) ==
  IF x.overflow THEN x
  ELSE [StoreLast(MoveTo(x, Cursor(x) + 2 * UnitsThatFit(x, n)), 2 * UnitsThatFit(x, n))
          EXCEPT !.overflow = UnitsThatFit(x, n) < n]

SkippedUnits(x, n) ==
  IF x.overflow THEN x
  ELSE [MoveTo(x, Cursor(x) + 2 * UnitsThatFit(x, n))
          EXCEPT !.overflow = UnitsThatFit(x, n) < n,
                 !.stored = @ \cup IF x.fixed THEN {}
                                   ELSE Offsets(Cursor(x), 2 * UnitsThatFit(x, n))]

LEMMA UnitsOutcome ==
  ASSUME NEW x, Valid(x), x.fixed, NEW n \in Nat
  PROVE  LET k == UnitsThatFit(x, n)
         IN /\ Outcome(x, Units(x, n), k < n, x.pos + 2 * k, Offsets(x.pos, 2 * k))
            /\ Outcome(x, SkippedUnits(x, n), k < n, x.pos + 2 * k, {})
<1> DEFINE k == UnitsThatFit(x, n)
           e == x.pos + 2 * k
           r == [x EXCEPT !.pos = e]
           st == StoreLast(r, 2 * k)
           y == Units(x, n)
           z == SkippedUnits(x, n)
<1>1. x \in WriterType /\ Cursor(x) = x.pos /\ x.pos \in Nat
  BY CursorInSpan DEF Valid
<1>2. k \in Nat
  BY UnitsThatFitBounds
<1> HIDE DEF k
<1>3. CASE x.overflow
  BY <1>3 DEF Outcome, Units, SkippedUnits
<1>4. CASE ~x.overflow
  <2>1. e \in Nat /\ e - 2 * k = x.pos /\ (k < n) \in BOOLEAN
    BY <1>1, <1>2
  <2>2. y = [st EXCEPT !.overflow = k < n]
    BY <1>1, <1>4 DEF Units, MoveTo, k
  <2>3. z = [[[x EXCEPT !.pos = e] EXCEPT !.overflow = k < n] EXCEPT !.stored = @ \cup {}]
    BY <1>1, <1>4 DEF SkippedUnits, MoveTo, k
  <2> HIDE DEF e, z, y
  <2>4. /\ r \in WriterType /\ r.pos = e /\ r.fixed /\ r.header = x.header
        /\ r.depth = x.depth /\ r.stored = x.stored
    BY <1>1, <2>1 DEF WriterType
  <2>5. st = [r EXCEPT !.stored = @ \cup Offsets(x.pos, 2 * k)]
    BY <2>1, <2>4 DEF StoreLast, Cursor
  <2>6. Offsets(x.pos, 2 * k) \in SUBSET Nat
    BY <1>1, <1>2 DEF Offsets
  <2> HIDE DEF r, st
  <2>7. /\ st \in WriterType /\ st.pos = e /\ st.header = x.header
        /\ st.depth = x.depth /\ st.stored = x.stored \cup Offsets(x.pos, 2 * k)
    BY <2>4, <2>5, <2>6 DEF WriterType
  <2>8. /\ y.overflow = (k < n) /\ y.pos = e /\ y.header = x.header
        /\ y.depth = x.depth /\ y.stored = x.stored \cup Offsets(x.pos, 2 * k)
    BY <2>2, <2>7 DEF WriterType
  <2>9. /\ z.overflow = (k < n) /\ z.pos = e /\ z.header = x.header
        /\ z.depth = x.depth /\ z.stored = x.stored \cup {}
    BY <1>1, <2>3 DEF WriterType
  <2>10. QED
    BY <1>4, <2>8, <2>9 DEF Outcome, k, e, y, z
<1>5. QED
  BY <1>3, <1>4

\* The header is no longer due.
Settled(x) == x.overflow \/ x.header

LEMMA HeaderSettles ==
  ASSUME NEW x, Valid(x), x.fixed
  PROVE  /\ Settled(EnsureHeaderWritten(x))
         /\ Settled(x) => EnsureHeaderWritten(x) = x
BY HeaderFields DEF Settled

LEMMA OutcomeSettled ==
  ASSUME NEW x, NEW y, NEW fails, NEW to, NEW bytes,
         Settled(x), Outcome(x, y, fails, to, bytes)
  PROVE  Settled(y)
BY DEF Settled, Outcome

LEMMA PushFields ==
  ASSUME NEW x, Valid(x), x.fixed
  PROVE  /\ Valid(Push(x)) /\ Push(x).fixed /\ Push(x).cap = x.cap
         /\ Push(x).pos = x.pos /\ Push(x).overflow = x.overflow
         /\ Push(x).header = x.header /\ Push(x).stored = x.stored
         /\ Push(x).depth = x.depth + 1
         /\ Pop(Push(x)) = x
<1>1. x \in WriterType
  BY DEF Valid
<1>2. Valid(Push(x))
  BY PushPopValid DEF ValidAfter
<1>3. /\ Push(x).fixed = x.fixed /\ Push(x).cap = x.cap
      /\ Push(x).pos = x.pos /\ Push(x).overflow = x.overflow
      /\ Push(x).header = x.header /\ Push(x).stored = x.stored
      /\ Push(x).depth = x.depth + 1 /\ Push(x).size = x.size
  BY <1>1 DEF Push, WriterType
<1>4. Pop(Push(x)) = x
  <2>1. x.depth \in Nat /\ x.depth + 1 # 0 /\ (x.depth + 1) - 1 = x.depth
    BY <1>1 DEF WriterType
  <2>2. Pop(Push(x)) = [Push(x) EXCEPT !.depth = @ - 1]
    BY <1>3, <2>1 DEF Pop
  <2>3. Pop(Push(x)) = [[x EXCEPT !.depth = @ + 1] EXCEPT !.depth = @ - 1]
    BY <2>2 DEF Push
  <2>4. QED
    BY <1>1, <2>1, <2>3 DEF WriterType
<1>5. QED
  BY <1>2, <1>3, <1>4

\* A pop takes a context away, if there is one, and changes nothing else.
LEMMA PopFields ==
  ASSUME NEW x, Valid(x)
  PROVE  /\ Pop(x).pos = x.pos /\ Pop(x).overflow = x.overflow
         /\ Pop(x).header = x.header /\ Pop(x).stored = x.stored
         /\ Pop(x).depth = IF x.depth = 0 THEN 0 ELSE x.depth - 1
<1>1. x \in WriterType
  BY DEF Valid
<1>2. CASE x.depth = 0
  BY <1>1, <1>2 DEF Pop, WriterType
<1>3. CASE x.depth # 0
  <2>1. Pop(x) = [x EXCEPT !.depth = x.depth - 1]
    BY <1>3 DEF Pop
  <2>2. QED
    BY <1>1, <1>3, <2>1 DEF WriterType
<1>4. QED
  BY <1>2, <1>3

\* A context opened for a step and closed after it leaves the outcome alone.
LEMMA BracketedOutcome ==
  ASSUME NEW x, Valid(x), x.fixed, NEW y, Valid(y), NEW fails, NEW to, NEW bytes,
         Outcome(Push(x), y, fails, to, bytes)
  PROVE  Outcome(x, Pop(y), fails, to, bytes)
<1>1. /\ Push(x).overflow = x.overflow /\ Push(x).header = x.header
      /\ Push(x).depth = x.depth + 1 /\ Push(x).stored = x.stored
      /\ Pop(Push(x)) = x
  BY PushFields
<1>2. CASE x.overflow
  BY <1>1, <1>2 DEF Outcome
<1>3. CASE ~x.overflow
  <2>1. /\ y.overflow = fails /\ y.pos = to /\ y.header = x.header
        /\ y.depth = x.depth + 1 /\ y.stored = x.stored \cup bytes
    BY <1>1, <1>3 DEF Outcome
  <2>2. x.depth \in Nat
    BY DEF Valid, WriterType
  <2>3. Pop(y).depth = x.depth
    BY <2>1, <2>2, PopFields
  <2>4. QED
    BY <1>3, <2>1, <2>3, PopFields DEF Outcome
<1>4. QED
  BY <1>2, <1>3

\* The guard against a product above SIZE_MAX lets pass what fits in memory.
LEMMA ProductGuard ==
  ASSUME NEW s \in PrimitiveSizes, NEW n \in Nat, s * n <= SizeMax
  PROVE  ~(n > SizeMax \div s)
<1>1. s \in {1, 2, 4, 8, 16}
  BY DEF PrimitiveSizes
<1>2. QED
  BY <1>1, SizeMaxAssumption

\* Elements in bulk: one outcome for a write and a skip, none for no elements.
SpanFails(x, s, n) == n # 0 /\ EndOf(x, s, s * n) > x.cap

SpanEnd(x, s, n) ==
  IF n = 0 \/ SpanFails(x, s, n) THEN x.pos ELSE EndOf(x, s, s * n)

SpanBytes(x, s, n) ==
  IF n = 0 \/ SpanFails(x, s, n) THEN {}
  ELSE (x.pos .. (EndOf(x, s, s * n) - s * n - 1)) \cup Offsets(EndOf(x, s, s * n) - s * n, s * n)

LEMMA SpanOutcome ==
  ASSUME NEW x, Valid(x), x.fixed, Settled(x), NEW s \in PrimitiveSizes, NEW n \in Nat,
         x.cap + s * n + 64 <= SizeMax
  PROVE  /\ Outcome(x, WritePodSpan(x, s, n), SpanFails(x, s, n), SpanEnd(x, s, n), SpanBytes(x, s, n))
         /\ Outcome(x, SkipArray(x, s, n), SpanFails(x, s, n), SpanEnd(x, s, n), {})
<1>1. EnsureHeaderWritten(x) = x
  BY HeaderSettles
<1>2. x \in WriterType
  BY DEF Valid
<1>3. CASE n = 0
  <2>1. WritePodSpan(x, s, n) = x /\ SkipArray(x, s, n) = x
    BY <1>1, <1>3 DEF WritePodSpan, SkipArray
  <2>2. SpanFails(x, s, n) = FALSE /\ SpanEnd(x, s, n) = x.pos /\ SpanBytes(x, s, n) = {}
    BY <1>3 DEF SpanFails, SpanEnd, SpanBytes
  <2>3. ~x.overflow => x.overflow = FALSE
    BY <1>2 DEF WriterType
  <2>4. QED
    BY <2>1, <2>2, <2>3 DEF Outcome
<1>4. CASE n # 0
  <2> DEFINE b == s * n
             e == EndOf(x, s, b)
  <2>1. b \in Nat /\ x.cap \in Nat
    BY <1>2, ProductIsNat DEF WriterType
  <2>2. x.cap + b + 64 <= SizeMax
    OBVIOUS
  <2>3. ~(n > SizeMax \div s)
    <3>1. s * n <= SizeMax
      <4> HIDE DEF b
      <4>1. b <= SizeMax
        BY <2>1, <2>2, SizeMaxAssumption
      <4>2. QED
        BY <4>1 DEF b
    <3>2. QED
      BY <3>1, ProductGuard
  <2>4. WritePodSpan(x, s, n) = ReserveAndStore(x, s, b)
    BY <1>1, <1>4 DEF WritePodSpan
  <2>5. SkipArray(x, s, n) = IF x.overflow THEN x ELSE SkipAdvance(x, s, b)
    BY <1>1, <1>4, <2>3 DEF SkipArray
  <2>6. /\ SpanFails(x, s, n) = (e > x.cap)
        /\ SpanEnd(x, s, n) = IF e > x.cap THEN x.pos ELSE e
        /\ SpanBytes(x, s, n) = IF e > x.cap THEN {}
                               ELSE (x.pos .. (e - b - 1)) \cup Offsets(e - b, b)
    BY <1>4 DEF SpanFails, SpanEnd, SpanBytes
  <2> HIDE DEF b, e
  <2>7. x.cap + 15 + b <= SizeMax
    BY <2>1, <2>2, SizeMaxAssumption
  <2>8. /\ Outcome(x, ReserveAndStore(x, s, b), e > x.cap,
                   IF e > x.cap THEN x.pos ELSE e,
                   IF e > x.cap THEN {} ELSE (x.pos .. (e - b - 1)) \cup Offsets(e - b, b))
        /\ Outcome(x, SkipAdvance(x, s, b), e > x.cap,
                   IF e > x.cap THEN x.pos ELSE e, {})
    BY <2>1, <2>7, ReserveOutcome, SkipOutcome DEF e
  <2>9. SkipAdvance(x, s, b) = SkipArray(x, s, n)
    BY <2>5 DEF SkipAdvance
  <2>10. QED
    BY <2>4, <2>6, <2>8, <2>9
<1>5. QED
  BY <1>3, <1>4

\* With the prefix settled so is the header.
LEMMA PrefixSettles ==
  ASSUME NEW x, Valid(x), x.fixed, x.cap + 64 <= SizeMax
  PROVE  Settled(ReserveAndStore(EnsureHeaderWritten(x), PrefixSize, PrefixSize))
<1> DEFINE h == EnsureHeaderWritten(x)
<1>1. ValidAfter(x, h) /\ Settled(h)
  BY EnsureHeaderValid, HeaderSettles
<1> HIDE DEF h
<1>2. Valid(h) /\ h.fixed /\ h.cap = x.cap /\ x.cap \in Nat
  BY <1>1 DEF ValidAfter, Valid, WriterType
<1>3. h.cap + 15 + PrefixSize <= SizeMax /\ PrefixSize \in PrimitiveSizes /\ PrefixSize \in Nat
  BY <1>2, SizeMaxAssumption DEF PrefixSize, PrimitiveSizes
<1> DEFINE e == EndOf(h, PrefixSize, PrefixSize)
           y == ReserveAndStore(h, PrefixSize, PrefixSize)
           to == IF e > h.cap THEN h.pos ELSE e
           bytes == IF e > h.cap THEN {}
                    ELSE (h.pos .. (e - PrefixSize - 1)) \cup Offsets(e - PrefixSize, PrefixSize)
<1>4. Outcome(h, y, e > h.cap, to, bytes)
  BY <1>2, <1>3, ReserveOutcome
<1> HIDE DEF e, y, to, bytes
<1>5. Settled(y)
  BY <1>1, <1>4, OutcomeSettled
<1>6. QED
  BY <1>5 DEF y, h

--------------------------------------------------------------------------------
(* The calls of a reader that has the bytes it asks for *)

ReaderType ==
  [size : Nat, pos : Nat, depth : Nat, native : BOOLEAN, ok : BOOLEAN, got : Nat]

\* y is the reader r once it has got to p with d contexts open.
Reached(r, y, p, d) ==
  /\ y \in ReaderType /\ y.ok /\ y.pos = p /\ y.depth = d
  /\ y.size = r.size /\ y.native = r.native

LEMMA ReachedTransitive ==
  ASSUME NEW r, NEW y, NEW z, NEW p, NEW q, NEW d, NEW e,
         Reached(r, y, p, d), Reached(y, z, q, e)
  PROVE  Reached(r, z, q, e)
BY DEF Reached

LEMMA AlignReaches ==
  ASSUME NEW r \in ReaderType, r.ok, NEW a \in PrimitiveSizes, DataAlign(r.pos, a) <= r.size
  PROVE  Reached(r, AlignPosition(r, a), DataAlign(r.pos, a), r.depth)
<1>1. DataAlign(r.pos, a) \in Nat
  BY DataAlignBounds DEF ReaderType
<1> DEFINE p == DataAlign(r.pos, a)
<1>2. ~(p > r.size)
  BY <1>1 DEF ReaderType
<1>3. AlignPosition(r, a) = [r EXCEPT !.pos = p]
  BY <1>2 DEF AlignPosition
<1> HIDE DEF p
<1>4. [r EXCEPT !.pos = p] \in ReaderType
  BY <1>1 DEF ReaderType, p
<1>5. QED
  BY <1>3, <1>4 DEF Reached, ReaderType, p

LEMMA TakeReaches ==
  ASSUME NEW r \in ReaderType, r.ok, NEW n \in Nat, r.pos + n <= r.size
  PROVE  Reached(r, Take(r, n), r.pos + n, r.depth)
<1>1. r.pos + n \in Nat /\ ~(r.pos + n > r.size)
  BY DEF ReaderType
<1>2. Take(r, n) = [r EXCEPT !.pos = r.pos + n]
  BY <1>1 DEF Take
<1>3. QED
  BY <1>1, <1>2 DEF Reached, ReaderType

LEMMA AlignedTakeReaches ==
  ASSUME NEW r \in ReaderType, r.ok, NEW a \in PrimitiveSizes, NEW n \in Nat,
         DataAlign(r.pos, a) + n <= r.size
  PROVE  Reached(r, Take(AlignPosition(r, a), n), DataAlign(r.pos, a) + n, r.depth)
<1> DEFINE y == AlignPosition(r, a)
           p == DataAlign(r.pos, a)
<1>1. p \in Nat /\ r.size \in Nat
  BY DataAlignBounds DEF ReaderType
<1>2. p <= r.size
  BY <1>1
<1>3. Reached(r, y, p, r.depth)
  BY <1>2, AlignReaches
<1> HIDE DEF y, p
<1>4. /\ y \in ReaderType /\ y.ok /\ y.pos + n <= y.size
      /\ y.pos = p /\ y.depth = r.depth /\ y.size = r.size /\ y.native = r.native
  BY <1>3 DEF Reached, p
<1>5. Reached(y, Take(y, n), p + n, r.depth)
  BY <1>4, TakeReaches
<1>6. QED
  BY <1>3, <1>5, ReachedTransitive DEF y, p

LEMMA PushReadReaches ==
  ASSUME NEW r \in ReaderType, r.ok
  PROVE  Reached(r, PushRead(r), r.pos, r.depth + 1)
BY DEF Reached, ReaderType, PushRead

LEMMA EndReadReaches ==
  ASSUME NEW r \in ReaderType, r.ok, r.depth # 0
  PROVE  Reached(r, EndRead(r), r.pos, r.depth - 1)
<1>1. r.depth - 1 \in Nat
  BY DEF ReaderType
<1>2. EndRead(r) = [r EXCEPT !.depth = r.depth - 1]
  BY DEF EndRead
<1>3. QED
  BY <1>1, <1>2 DEF Reached, ReaderType

\* The wire that holds m where a reader at p looks for a prefix.
WireAt(p, m) == [o \in {DataAlign(p, PrefixSize)} |-> m]

\* Where that prefix ends.
PrefixEnd(p) == DataAlign(p, PrefixSize) + PrefixSize

LEMMA PrefixEndIsNat ==
  ASSUME NEW p \in Nat PROVE DataAlign(p, PrefixSize) \in Nat /\ PrefixEnd(p) \in Nat
<1>1. PrefixSize \in PrimitiveSizes /\ PrefixSize \in Nat
  BY DEF PrefixSize, PrimitiveSizes
<1>2. QED
  BY <1>1, DataAlignBounds DEF PrefixEnd

\* A prefix that was stored where the reader looks for it.
LEMMA PrefixReaches ==
  ASSUME NEW r \in ReaderType, r.ok, NEW m \in Nat, NEW noise, PrefixEnd(r.pos) <= r.size
  PROVE  /\ Reached(r, ReadPrefix(r, WireAt(r.pos, m), noise), PrefixEnd(r.pos), r.depth)
         /\ ReadPrefix(r, WireAt(r.pos, m), noise).got = m
<1> DEFINE at == DataAlign(r.pos, PrefixSize)
           w == WireAt(r.pos, m)
           a == AlignPosition(r, PrefixSize)
           t == Take(a, PrefixSize)
           y == ReadPrefix(r, w, noise)
<1>1. PrefixSize \in PrimitiveSizes /\ PrefixSize \in Nat
  BY DEF PrefixSize, PrimitiveSizes
<1>2. Reached(r, t, PrefixEnd(r.pos), r.depth)
  BY <1>1, AlignedTakeReaches DEF PrefixEnd
<1>3. a.pos = at
  <2>1. at \in Nat /\ at <= r.size
    BY <1>1, DataAlignBounds DEF ReaderType, PrefixEnd
  <2>2. QED
    BY <1>1, <2>1, AlignReaches DEF Reached
<1>4. NumberAt(w, noise, a.pos) = m
  BY <1>3 DEF NumberAt, WireAt
<1> HIDE DEF at, w, a, t
<1>5. y = [t EXCEPT !.got = m]
  BY <1>2, <1>4 DEF ReadPrefix, Reached, a, t
<1> HIDE DEF y
<1>6. Reached(r, y, PrefixEnd(r.pos), r.depth) /\ y.got = m
  BY <1>2, <1>5 DEF Reached, ReaderType
<1>7. QED
  BY <1>6 DEF y, w

\* A view is refused to a reader of foreign bytes, a copy is not.
LEMMA BulkReaches ==
  ASSUME NEW r \in ReaderType, r.ok, r.depth # 0, NEW s \in PrimitiveSizes, NEW n \in Nat,
         DataAlign(r.pos, s) + s * n <= r.size
  PROVE  /\ Reached(r, CopyBulk(r, s, n), DataAlign(r.pos, s) + s * n, r.depth - 1)
         /\ IF r.native THEN ReadBulk(r, s, n) = CopyBulk(r, s, n)
            ELSE ReadBulk(r, s, n) = [r EXCEPT !.ok = FALSE]
<1> DEFINE t == Take(AlignPosition(r, s), s * n)
           p == DataAlign(r.pos, s) + s * n
<1>1. s * n \in Nat
  BY ProductIsNat
<1>2. Reached(r, t, p, r.depth)
  BY <1>1, AlignedTakeReaches
<1>3. CopyBulk(r, s, n) = EndRead(t)
  BY DEF CopyBulk
<1>4. IF r.native THEN ReadBulk(r, s, n) = EndRead(t)
      ELSE ReadBulk(r, s, n) = [r EXCEPT !.ok = FALSE]
  BY DEF ReadBulk, Refuse
<1> HIDE DEF t, p
<1>5. t \in ReaderType /\ t.ok /\ t.depth # 0 /\ t.depth = r.depth /\ t.pos = p
  BY <1>2 DEF Reached
<1>6. Reached(t, EndRead(t), p, r.depth - 1)
  BY <1>5, EndReadReaches
<1>7. Reached(r, EndRead(t), p, r.depth - 1)
  BY <1>2, <1>6, ReachedTransitive
<1>8. QED
  BY <1>3, <1>4, <1>7 DEF p

\* g is the readers that ReadEach goes through, one element at a time.
ReadsOneByOne(g, r, s, n) ==
  g = [k \in 0 .. n |-> IF k = 0 THEN r ELSE ReadPrimitive(g[k - 1], s)]

LEMMA OneByOneExists ==
  ASSUME NEW r, NEW s, NEW n \in Nat
  PROVE  \E g : ReadsOneByOne(g, r, s, n)
<1> DEFINE S == {m \in Nat : \E g : ReadsOneByOne(g, r, s, m)}
<1>1. 0 \in S
  <2>1. ReadsOneByOne([k \in 0 .. 0 |-> r], r, s, 0)
    BY DEF ReadsOneByOne
  <2>2. QED
    BY <2>1
<1>2. ASSUME NEW m \in Nat, m \in S PROVE m + 1 \in S
  <2>1. PICK g : ReadsOneByOne(g, r, s, m)
    BY <1>2
  <2> DEFINE h == [k \in 0 .. m + 1 |-> IF k = m + 1 THEN ReadPrimitive(g[m], s) ELSE g[k]]
  <2>2. ASSUME NEW k \in 0 .. m + 1
        PROVE  h[k] = IF k = 0 THEN r ELSE ReadPrimitive(h[k - 1], s)
    <3>1. CASE k = 0
      BY <2>1, <3>1 DEF ReadsOneByOne
    <3>2. CASE k = m + 1
      <4>1. h[k] = ReadPrimitive(g[m], s) /\ h[k - 1] = g[m]
        BY <3>2
      <4>2. QED
        BY <3>2, <4>1
    <3>3. CASE k # 0 /\ k # m + 1
      <4>1. h[k] = g[k] /\ h[k - 1] = g[k - 1] /\ k \in 0 .. m
        BY <3>3
      <4>2. g[k] = ReadPrimitive(g[k - 1], s)
        BY <2>1, <3>3, <4>1 DEF ReadsOneByOne
      <4>3. QED
        BY <3>3, <4>1, <4>2
    <3>4. QED
      BY <3>1, <3>2, <3>3
  <2>3. ReadsOneByOne(h, r, s, m + 1)
    BY <2>2 DEF ReadsOneByOne
  <2> HIDE DEF h
  <2>4. QED
    BY <2>3
<1> HIDE DEF S
<1>3. n \in S
  BY <1>1, <1>2, SetInduction
<1>4. QED
  BY <1>3 DEF S

LEMMA ReadEachIsOneByOne ==
  ASSUME NEW r, NEW s, NEW n \in Nat
  PROVE  \E g : ReadsOneByOne(g, r, s, n) /\ ReadEach(r, s, n) = EndRead(g[n])
<1> DEFINE after == CHOOSE g : g = [k \in 0 .. n |-> IF k = 0 THEN r ELSE ReadPrimitive(g[k - 1], s)]
<1>1. ReadsOneByOne(after, r, s, n)
  BY OneByOneExists DEF ReadsOneByOne
<1>2. ReadEach(r, s, n) = EndRead(after[n])
  BY DEF ReadEach
<1> HIDE DEF after
<1>3. QED
  BY <1>1, <1>2

\* Where n elements that are due at p end; none leave no padding behind.
ElementsEnd(p, s, n) == IF n = 0 THEN p ELSE DataAlign(p, s) + s * n

LEMMA EachReaches ==
  ASSUME NEW r \in ReaderType, r.ok, r.depth # 0, NEW s \in PrimitiveSizes, NEW n \in Nat,
         ElementsEnd(r.pos, s, n) <= r.size
  PROVE  Reached(r, ReadEach(r, s, n), ElementsEnd(r.pos, s, n), r.depth - 1)
<1>1. PICK g : ReadsOneByOne(g, r, s, n) /\ ReadEach(r, s, n) = EndRead(g[n])
  BY ReadEachIsOneByOne
<1> DEFINE S == {k \in Nat : k <= n => Reached(r, g[k], ElementsEnd(r.pos, s, k), r.depth)}
<1>2. 0 \in S
  <2>1. g[0] = r
    BY <1>1 DEF ReadsOneByOne
  <2>2. Reached(r, r, r.pos, r.depth)
    BY DEF Reached
  <2>3. QED
    BY <2>1, <2>2 DEF ElementsEnd
<1>3. ASSUME NEW k \in Nat, k \in S PROVE k + 1 \in S
  <2> SUFFICES ASSUME k + 1 <= n
               PROVE  Reached(r, g[k + 1], ElementsEnd(r.pos, s, k + 1), r.depth)
    OBVIOUS
  <2>1. k + 1 \in 0 .. n /\ k + 1 # 0 /\ (k + 1) - 1 = k /\ k <= n
    OBVIOUS
  <2>2. g[k + 1] = ReadPrimitive(g[k], s)
    BY <1>1, <2>1 DEF ReadsOneByOne
  <2>3. Reached(r, g[k], ElementsEnd(r.pos, s, k), r.depth)
    BY <1>3, <2>1
  <2> DEFINE a == DataAlign(r.pos, s)
             y == g[k]
  <2>4. a \in Nat /\ r.pos \in Nat /\ r.size \in Nat /\ s \in Nat
    BY DataAlignBounds, SizesArePositive DEF ReaderType
  <2>5. /\ s * k \in Nat /\ s * (k + 1) = s * k + s /\ s * 0 = 0
        /\ s * n \in Nat /\ s * (k + 1) <= s * n
    <3>1. s \in {1, 2, 4, 8, 16}
      BY DEF PrimitiveSizes
    <3>2. s * (k + 1) <= s * n
      BY <3>1
    <3>3. QED
      BY <3>2, ProductStep, ProductIsNat
  <2>6. ElementsEnd(r.pos, s, k + 1) = a + s * (k + 1) /\ ElementsEnd(r.pos, s, n) = a + s * n
    BY <2>1 DEF ElementsEnd
  <2>7. DataAlign(y.pos, s) = a + s * k
    <3>1. CASE k = 0
      <4>1. y.pos = r.pos /\ s * k = 0
        BY <2>3, <2>5, <3>1 DEF ElementsEnd, Reached
      <4>2. QED
        BY <2>4, <4>1
    <3>2. CASE k # 0
      <4>1. y.pos = a + s * k
        BY <2>3, <3>2 DEF ElementsEnd, Reached
      <4>2. DataAlign(DataAlign(r.pos, s) + s * k, s) = DataAlign(r.pos, s) + s * k
        BY <2>4, AlignedStays
      <4>3. QED
        BY <4>1, <4>2
    <3>3. QED
      BY <3>1, <3>2
  <2> HIDE DEF a, y
  <2>8. /\ y \in ReaderType /\ y.ok /\ y.size = r.size /\ y.depth = r.depth
        /\ DataAlign(y.pos, s) + s <= y.size
        /\ DataAlign(y.pos, s) + s = ElementsEnd(r.pos, s, k + 1)
    <3>1. /\ y \in ReaderType /\ y.ok /\ y.size = r.size /\ y.depth = r.depth
      BY <2>3 DEF Reached, y
    <3>2. (a + s * k) + s = a + s * (k + 1)
      <4> DEFINE b == s * k
                 c == s * (k + 1)
      <4>1. b \in Nat /\ c = b + s
        BY <2>5
      <4> HIDE DEF b, c
      <4>2. (a + b) + s = a + c
        BY <2>4, <4>1
      <4>3. QED
        BY <4>2 DEF b, c
    <3>3. a + s * (k + 1) <= r.size
      <4> DEFINE b == s * n
                 c == s * (k + 1)
      <4>1. b \in Nat /\ c \in Nat /\ c <= b /\ a + b <= r.size
        BY <2>4, <2>5, <2>6, ProductIsNat
      <4> HIDE DEF b, c
      <4>2. a + c <= r.size
        BY <2>4, <4>1
      <4>3. QED
        BY <4>2 DEF c
    <3>4. QED
      BY <2>6, <2>7, <3>1, <3>2, <3>3
  <2>9. Reached(y, ReadPrimitive(y, s), ElementsEnd(r.pos, s, k + 1), r.depth)
    <3>1. Reached(y, Take(AlignPosition(y, s), s), DataAlign(y.pos, s) + s, y.depth)
      BY <2>4, <2>8, AlignedTakeReaches
    <3>2. QED
      BY <2>8, <3>1 DEF ReadPrimitive
  <2>10. QED
    BY <2>2, <2>3, <2>9, ReachedTransitive DEF y
<1> HIDE DEF S
<1>4. n \in S
  BY <1>2, <1>3, SetInduction
<1>5. Reached(r, g[n], ElementsEnd(r.pos, s, n), r.depth)
  BY <1>4 DEF S
<1> DEFINE y == g[n]
<1> HIDE DEF y
<1>6. y \in ReaderType /\ y.ok /\ y.depth # 0 /\ y.depth = r.depth /\ y.pos = ElementsEnd(r.pos, s, n)
  BY <1>5 DEF Reached, y
<1>7. Reached(y, EndRead(y), ElementsEnd(r.pos, s, n), r.depth - 1)
  BY <1>6, EndReadReaches
<1>8. QED
  BY <1>1, <1>5, <1>7, ReachedTransitive DEF y

--------------------------------------------------------------------------------
(* Where the writer of a span gets to when there is room for all of a field *)

\* Where the data goes on: behind the header that is still to be written.
DataPlace(x) == IF x.header THEN x.pos ELSE HeaderSize

\* A call that met no error on x has moved it to p and opened or closed contexts.
Wrote(x, y, p, d) == ~x.overflow /\ y.header /\ y.pos = p /\ y.depth = d

LEMMA HeaderPlace ==
  ASSUME NEW x, Valid(x), x.fixed, ~EnsureHeaderWritten(x).overflow
  PROVE  /\ Wrote(x, EnsureHeaderWritten(x), DataPlace(x), x.depth)
         /\ ValidAfter(x, EnsureHeaderWritten(x))
<1> DEFINE g == EnsureHeaderWritten(x)
<1>1. ValidAfter(x, g)
  BY EnsureHeaderValid
<1>2. CASE x.overflow \/ x.header
  BY <1>1, <1>2, HeaderFields DEF Wrote, DataPlace
<1>3. CASE ~x.overflow /\ ~x.header /\ HeaderSize <= x.cap
  BY <1>1, <1>3, HeaderFields DEF Wrote, DataPlace
<1>4. CASE ~x.overflow /\ ~x.header /\ ~(HeaderSize <= x.cap)
  BY <1>4, HeaderFields
<1>5. QED
  BY <1>2, <1>3, <1>4

LEMMA ReservePlace ==
  ASSUME NEW x, Valid(x), x.fixed, x.header, NEW a \in PrimitiveSizes, NEW n \in Nat,
         x.cap + 15 + n <= SizeMax, ~ReserveAndStore(x, a, n).overflow
  PROVE  /\ Wrote(x, ReserveAndStore(x, a, n), DataAlign(x.pos, a) + n, x.depth)
         /\ ValidAfter(x, ReserveAndStore(x, a, n))
<1> DEFINE y == ReserveAndStore(x, a, n)
           e == EndOf(x, a, n)
           to == IF e > x.cap THEN x.pos ELSE e
           bytes == IF e > x.cap THEN {} ELSE (x.pos .. (e - n - 1)) \cup Offsets(e - n, n)
<1>1. Outcome(x, y, e > x.cap, to, bytes)
  BY ReserveOutcome
<1>2. ValidAfter(x, y)
  BY ReserveAndStoreValid, CursorInSpan, SizeMaxAssumption
<1> HIDE DEF y, e, bytes
<1>3. ~x.overflow /\ ~(e > x.cap) /\ y.header /\ y.pos = e /\ y.depth = x.depth
  BY <1>1 DEF Outcome, y
<1>4. QED
  BY <1>2, <1>3 DEF Wrote, EndOf, y, e

LEMMA WroteTransitive ==
  ASSUME NEW x, NEW y, NEW z, NEW p, NEW q, NEW d, NEW e,
         Wrote(x, y, p, d), Wrote(y, z, q, e)
  PROVE  Wrote(x, z, q, e)
BY DEF Wrote

LEMMA PrimitivePlace ==
  ASSUME NEW x, Valid(x), x.fixed, x.cap + 64 <= SizeMax, NEW s \in PrimitiveSizes,
         ~WritePrimitive(x, s).overflow
  PROVE  Wrote(x, WritePrimitive(x, s), DataAlign(DataPlace(x), s) + s, x.depth)
<1> DEFINE g == EnsureHeaderWritten(x)
           y == ReserveAndStore(g, s, s)
<1>1. y = WritePrimitive(x, s)
  BY DEF WritePrimitive
<1>2. ~g.overflow
  BY <1>1 DEF ReserveAndStore, AlignAndReserve
<1>3. Wrote(x, g, DataPlace(x), x.depth) /\ ValidAfter(x, g)
  BY <1>2, HeaderPlace
<1> HIDE DEF g
<1>4. /\ Valid(g) /\ g.fixed /\ g.header /\ g.pos = DataPlace(x) /\ g.depth = x.depth
      /\ g.cap = x.cap /\ x.cap \in Nat /\ s \in 1 .. 16
  BY <1>3 DEF Wrote, ValidAfter, Valid, WriterType, PrimitiveSizes
<1>5. s \in Nat /\ g.cap + 15 + s <= SizeMax
  BY <1>4, SizeMaxAssumption
<1>6. Wrote(g, y, DataAlign(g.pos, s) + s, g.depth)
  BY <1>1, <1>4, <1>5, ReservePlace
<1> HIDE DEF y
<1>7. QED
  BY <1>1, <1>3, <1>4, <1>6, WroteTransitive

LEMMA PrefixPlace ==
  ASSUME NEW x, Valid(x), x.fixed, x.cap + 64 <= SizeMax,
         ~ReserveAndStore(EnsureHeaderWritten(x), PrefixSize, PrefixSize).overflow
  PROVE  LET p == ReserveAndStore(EnsureHeaderWritten(x), PrefixSize, PrefixSize)
         IN Wrote(x, p, PrefixEnd(DataPlace(x)), x.depth) /\ ValidAfter(x, p)
<1> DEFINE p == ReserveAndStore(EnsureHeaderWritten(x), PrefixSize, PrefixSize)
<1>1. PrefixSize \in PrimitiveSizes /\ p = WritePrimitive(x, PrefixSize)
  BY DEF PrefixSize, PrimitiveSizes, WritePrimitive
<1>2. Cursor(x) + 64 <= SizeMax
  BY CursorInSpan, SizeMaxAssumption
<1> HIDE DEF p
<1>3. Wrote(x, p, PrefixEnd(DataPlace(x)), x.depth)
  BY <1>1, PrimitivePlace DEF PrefixEnd, p
<1>4. ValidAfter(x, p)
  BY <1>1, <1>2, WritePrimitiveValid
<1>5. QED
  BY <1>3, <1>4 DEF p

LEMMA StringPlace ==
  ASSUME NEW x, Valid(x), x.fixed, x.cap + 64 <= SizeMax, NEW n \in Nat,
         ~WriteString(x, n).overflow
  PROVE  Wrote(x, WriteString(x, n),
               PrefixEnd(DataPlace(x)) + (n + 1), x.depth)
<1> DEFINE p == ReserveAndStore(EnsureHeaderWritten(x), PrefixSize, PrefixSize)
           a == PrefixEnd(DataPlace(x))
<1>1. WriteString(x, n) = IF p.overflow THEN p
                         ELSE IF ~Fits(p, Cursor(p) + n + 1) THEN Fail(p)
                         ELSE StoreLast(MoveTo(p, Cursor(p) + n + 1), n + 1)
  BY DEF WriteString
<1>2. ~p.overflow
  BY <1>1
<1>3. Wrote(x, p, a, x.depth) /\ ValidAfter(x, p)
  BY <1>2, PrefixPlace
<1> HIDE DEF p, a
<1>4. Valid(p) /\ p.fixed /\ p.header /\ p.pos = a /\ p.depth = x.depth /\ Cursor(p) \in Nat
  BY <1>3, CursorInSpan DEF Wrote, ValidAfter
<1>5. Cursor(p) + n + 1 = Cursor(p) + (n + 1) /\ n + 1 \in Nat
  BY <1>4
<1> DEFINE y == AppendBytes(p, n + 1)
           e == p.pos + (n + 1)
           to == IF e > p.cap THEN p.pos ELSE e
           bytes == IF e > p.cap THEN {} ELSE Offsets(e - (n + 1), n + 1)
<1>6. WriteString(x, n) = y
  BY <1>1, <1>5 DEF AppendBytes
<1>7. Outcome(p, y, e > p.cap, to, bytes)
  BY <1>4, <1>5, AppendOutcome
<1> HIDE DEF y, e, bytes
<1>8. Wrote(p, y, e, p.depth)
  BY <1>2, <1>4, <1>6, <1>7 DEF Outcome, Wrote
<1>9. QED
  BY <1>3, <1>4, <1>6, <1>8, WroteTransitive DEF e, a

LEMMA WStringPlace ==
  ASSUME NEW x, Valid(x), x.fixed, x.cap + 64 <= SizeMax, NEW n \in Nat,
         ~WriteWString(x, n).overflow
  PROVE  Wrote(x, WriteWString(x, n),
               PrefixEnd(DataPlace(x)) + 2 * (n + 1), x.depth)
<1> DEFINE p == ReserveAndStore(EnsureHeaderWritten(x), PrefixSize, PrefixSize)
           a == PrefixEnd(DataPlace(x))
           u == n + 1
           k == UnitsThatFit(p, u)
           y == Units(p, u)
<1>1. WriteWString(x, n) = y
  BY DEF WriteWString, Units
<1>2. ~p.overflow
  BY <1>1 DEF Units
<1>3. Wrote(x, p, a, x.depth) /\ ValidAfter(x, p)
  BY <1>2, PrefixPlace
<1> HIDE DEF p, a
<1>4. /\ Valid(p) /\ p.fixed /\ p.header /\ p.pos = a /\ p.depth = x.depth
      /\ Cursor(p) = p.pos /\ p.pos \in Nat /\ p.cap \in Nat
  BY <1>3, CursorInSpan DEF Wrote, ValidAfter
<1>5. u \in Nat
  OBVIOUS
<1> HIDE DEF u
<1>6. Outcome(p, y, k < u, p.pos + 2 * k, Offsets(p.pos, 2 * k))
  BY <1>4, <1>5, UnitsOutcome
<1>7. ~(k < u) => k = u
  BY <1>4, <1>5 DEF UnitsThatFit, Fits, k
<1> HIDE DEF k, y
<1>8. Wrote(p, y, p.pos + 2 * u, p.depth)
  BY <1>1, <1>2, <1>4, <1>6, <1>7 DEF Outcome, Wrote
<1>9. QED
  BY <1>1, <1>3, <1>4, <1>8, WroteTransitive DEF u, a

LEMMA SpanPlace ==
  ASSUME NEW g, Valid(g), g.fixed, g.header, NEW s \in PrimitiveSizes, NEW n \in Nat,
         g.cap + s * n + 64 <= SizeMax, ~Pop(WritePodSpan(Push(g), s, n)).overflow
  PROVE  Wrote(g, Pop(WritePodSpan(Push(g), s, n)), ElementsEnd(g.pos, s, n), g.depth)
<1> DEFINE x == Push(g)
           y == WritePodSpan(x, s, n)
           z == Pop(y)
           fails == SpanFails(x, s, n)
           end == SpanEnd(x, s, n)
           bytes == SpanBytes(x, s, n)
<1>1. Valid(x) /\ x.fixed /\ Settled(x) /\ x.pos = g.pos /\ x.cap = g.cap
  BY PushFields DEF Settled
<1>2. Outcome(x, y, fails, end, bytes)
  BY <1>1, SpanOutcome
<1>3. Valid(y)
  <2>1. Cursor(x) = x.pos /\ x.pos \in Nat /\ x.cap \in Nat /\ x.pos <= x.cap
    BY <1>1, CursorInSpan
  <2>2. Cursor(x) + s * n + 40 <= SizeMax
    BY <1>1, <2>1, ProductIsNat, SizeMaxAssumption
  <2>3. QED
    BY <1>1, <2>2, WritePodSpanValid DEF ValidAfter
<1>4. Outcome(g, z, fails, end, bytes)
  BY <1>2, <1>3, BracketedOutcome
<1>5. ~fails => end = ElementsEnd(g.pos, s, n)
  BY <1>1 DEF SpanEnd, SpanFails, ElementsEnd, EndOf
<1> HIDE DEF z, fails, end, bytes
<1>6. ~g.overflow /\ ~fails
  BY <1>4 DEF Outcome, z
<1>7. QED
  BY <1>4, <1>5, <1>6 DEF Outcome, Wrote, z

LEMMA ArrayPlace ==
  ASSUME NEW x, Valid(x), x.fixed, NEW s \in PrimitiveSizes, NEW n \in Nat,
         x.cap + s * n + 64 <= SizeMax, ~WriteArray(x, s, n).overflow
  PROVE  Wrote(x, WriteArray(x, s, n), ElementsEnd(DataPlace(x), s, n), x.depth)
<1> DEFINE g == EnsureHeaderWritten(x)
           y == Pop(WritePodSpan(Push(g), s, n))
<1>1. WriteArray(x, s, n) = y
  BY DEF WriteArray, EndWrite, BeginWriteArray
<1>2. ValidAfter(x, g) /\ Settled(g)
  BY EnsureHeaderValid, HeaderSettles
<1>3. ~g.overflow
  <2> SUFFICES ASSUME g.overflow PROVE y.overflow
    BY <1>1
  <2>1. Valid(g) /\ g.fixed
    BY <1>2 DEF ValidAfter
  <2> HIDE DEF g
  <2>2. Valid(Push(g)) /\ Push(g).overflow
    BY <2>1, PushFields
  <2>3. WritePodSpan(Push(g), s, n) = Push(g)
    BY <2>2 DEF WritePodSpan, EnsureHeaderWritten, ReserveAndStore, AlignAndReserve
  <2>4. QED
    BY <2>2, <2>3, PopFields
<1>4. Wrote(x, g, DataPlace(x), x.depth)
  BY <1>3, HeaderPlace
<1> HIDE DEF g
<1>5. Valid(g) /\ g.fixed /\ g.header /\ g.pos = DataPlace(x) /\ g.depth = x.depth /\ g.cap = x.cap
  BY <1>2, <1>4 DEF ValidAfter, Wrote
<1>6. Wrote(g, y, ElementsEnd(g.pos, s, n), g.depth)
  BY <1>1, <1>5, SpanPlace
<1> HIDE DEF y
<1>7. QED
  BY <1>1, <1>4, <1>5, <1>6, WroteTransitive

LEMMA SequencePlace ==
  ASSUME NEW x, Valid(x), x.fixed, x.cap + 64 <= SizeMax,
         NEW s \in PrimitiveSizes, NEW n \in Nat,
         x.cap + s * n + 64 <= SizeMax, ~WriteSequence(x, s, n).overflow
  PROVE  Wrote(x, WriteSequence(x, s, n),
               ElementsEnd(PrefixEnd(DataPlace(x)), s, n), x.depth)
<1> DEFINE p == ReserveAndStore(EnsureHeaderWritten(x), PrefixSize, PrefixSize)
           a == PrefixEnd(DataPlace(x))
           y == Pop(WritePodSpan(Push(p), s, n))
           w == WriteSequence(x, s, n)
<1>1. w = Pop(WritePodSpan(IF p.overflow THEN p ELSE Push(p), s, n))
  BY DEF WriteSequence, BeginWriteSequence, EndWrite
<1>2. ~p.overflow
  <2> SUFFICES ASSUME p.overflow PROVE w.overflow
    OBVIOUS
  <2>1. p = WritePrimitive(x, PrefixSize) /\ PrefixSize \in PrimitiveSizes
    BY DEF WritePrimitive, PrefixSize, PrimitiveSizes
  <2>2. Cursor(x) + 64 <= SizeMax
    BY CursorInSpan, SizeMaxAssumption
  <2> HIDE DEF p
  <2>3. Valid(p)
    BY <2>1, <2>2, WritePrimitiveValid DEF ValidAfter
  <2>4. WritePodSpan(p, s, n) = p
    BY DEF WritePodSpan, EnsureHeaderWritten, ReserveAndStore, AlignAndReserve
  <2>5. QED
    BY <1>1, <2>3, <2>4, PopFields
<1>3. Wrote(x, p, a, x.depth) /\ ValidAfter(x, p)
  BY <1>2, PrefixPlace
<1>4. w = y
  BY <1>1, <1>2
<1> HIDE DEF p, a, w
<1>5. Valid(p) /\ p.fixed /\ p.header /\ p.pos = a /\ p.depth = x.depth /\ p.cap = x.cap
  BY <1>3 DEF ValidAfter, Wrote
<1>6. ~y.overflow
  BY <1>4 DEF w
<1>7. Wrote(p, y, ElementsEnd(p.pos, s, n), p.depth)
  BY <1>5, <1>6, SpanPlace
<1> HIDE DEF y
<1>8. QED
  BY <1>3, <1>4, <1>5, <1>7, WroteTransitive DEF a, w

LEMMA BeginPlace ==
  ASSUME NEW x, Valid(x), x.fixed, x.cap + 64 <= SizeMax
  PROVE  /\ ~BeginWriteStruct(x).overflow =>
              Wrote(x, BeginWriteStruct(x), DataPlace(x), x.depth + 1)
         /\ ~BeginWriteSequence(x).overflow =>
              Wrote(x, BeginWriteSequence(x),
                    PrefixEnd(DataPlace(x)), x.depth + 1)
<1> DEFINE g == EnsureHeaderWritten(x)
           p == ReserveAndStore(g, PrefixSize, PrefixSize)
           a == PrefixEnd(DataPlace(x))
<1>1. /\ BeginWriteStruct(x) = Push(g)
      /\ BeginWriteSequence(x) = IF p.overflow THEN p ELSE Push(p)
  BY DEF BeginWriteStruct, BeginWriteSequence
<1>2. ASSUME NEW y, NEW q, Valid(y), y.fixed, Wrote(x, y, q, x.depth)
      PROVE  Wrote(x, Push(y), q, x.depth + 1)
  BY <1>2, PushFields DEF Wrote
<1>3. ASSUME ~Push(g).overflow PROVE Wrote(x, Push(g), DataPlace(x), x.depth + 1)
  <2>1. ValidAfter(x, g)
    BY EnsureHeaderValid
  <2>2. Valid(g) /\ g.fixed
    BY <2>1 DEF ValidAfter
  <2>3. ~g.overflow
    BY <1>3, <2>2, PushFields
  <2>4. Wrote(x, g, DataPlace(x), x.depth)
    BY <2>3, HeaderPlace
  <2>5. QED
    BY <1>2, <2>2, <2>4
<1>4. ASSUME ~p.overflow PROVE Wrote(x, Push(p), a, x.depth + 1)
  <2>1. Wrote(x, p, a, x.depth) /\ ValidAfter(x, p)
    BY <1>4, PrefixPlace
  <2>2. Valid(p) /\ p.fixed
    BY <2>1 DEF ValidAfter
  <2>3. QED
    BY <1>2, <2>1, <2>2
<1> HIDE DEF g, p, a
<1>5. QED
  BY <1>1, <1>3, <1>4 DEF a

--------------------------------------------------------------------------------
(* A reader of a buffer that ends with the field it is to read *)

\* y is the reader r once it has read all of its buffer and has d contexts
\* open, unless it was refused bytes of a foreign system.
ReadAll(r, y, d) ==
  /\ y \in ReaderType /\ y.native = r.native
  /\ IF y.ok THEN y.pos = r.size /\ y.depth = d ELSE ~y.native

LEMMA ReachedIsReadAll ==
  ASSUME NEW r, NEW y, NEW d, Reached(r, y, r.size, d)
  PROVE  ReadAll(r, y, d)
BY DEF Reached, ReadAll

LEMMA PrimitiveRead ==
  ASSUME NEW r \in ReaderType, r.ok, NEW s \in PrimitiveSizes,
         DataAlign(r.pos, s) + s = r.size
  PROVE  ReadAll(r, ReadPrimitive(r, s), r.depth)
<1>1. s \in Nat /\ DataAlign(r.pos, s) + s <= r.size
  BY SizesArePositive DEF ReaderType
<1>2. Reached(r, ReadPrimitive(r, s), r.size, r.depth)
  BY <1>1, AlignedTakeReaches DEF ReadPrimitive
<1>3. QED
  BY <1>2, ReachedIsReadAll

LEMMA StringRead ==
  ASSUME NEW r \in ReaderType, r.ok, NEW n \in Nat, NEW noise,
         PrefixEnd(r.pos) + (n + 1) = r.size
  PROVE  ReadAll(r, ReadString(r, WireAt(r.pos, n + 1), noise), r.depth)
<1> DEFINE w == WireAt(r.pos, n + 1)
           a == PrefixEnd(r.pos)
           m == n + 1
           y == ReadPrefix(r, w, noise)
<1>1. m \in Nat /\ m # 0
  OBVIOUS
<1>2. Reached(r, y, a, r.depth) /\ y.got = m /\ a \in Nat
  <2>1. a \in Nat /\ r.size \in Nat /\ a + m = r.size
    BY PrefixEndIsNat DEF ReaderType
  <2>2. a <= r.size
    BY <1>1, <2>1
  <2>3. QED
    BY <1>1, <2>1, <2>2, PrefixReaches
<1>3. ReadString(r, w, noise) = Take(y, m)
  BY <1>1, <1>2 DEF ReadString, Reached
<1>4. a + m = r.size
  OBVIOUS
<1> HIDE DEF y, a, m, w
<1>5. /\ y \in ReaderType /\ y.ok /\ y.pos = a /\ y.depth = r.depth
      /\ y.size = r.size /\ y.size \in Nat
  BY <1>2 DEF Reached, ReaderType
<1>6. y.pos + m <= y.size
  BY <1>4, <1>5
<1>7. Reached(y, Take(y, m), r.size, r.depth)
  BY <1>1, <1>4, <1>5, <1>6, TakeReaches
<1>8. Reached(r, Take(y, m), r.size, r.depth)
  BY <1>2, <1>7, ReachedTransitive
<1>9. QED
  BY <1>3, <1>8, ReachedIsReadAll DEF w

LEMMA WStringRead ==
  ASSUME NEW r \in ReaderType, r.ok, NEW n \in Nat, NEW noise,
         PrefixEnd(r.pos) + 2 * (n + 1) = r.size
  PROVE  ReadAll(r, ReadWString(r, WireAt(r.pos, 2 * (n + 1)), noise), r.depth)
<1> DEFINE w == WireAt(r.pos, 2 * (n + 1))
           a == PrefixEnd(r.pos)
           m == 2 * (n + 1)
           y == ReadPrefix(r, w, noise)
<1>1. m \in Nat /\ ~(m < 2) /\ m % 2 = 0
  OBVIOUS
<1>2. Reached(r, y, a, r.depth) /\ y.got = m /\ a \in Nat
  <2>1. a \in Nat /\ r.size \in Nat /\ a + m = r.size
    BY PrefixEndIsNat DEF ReaderType
  <2>2. a <= r.size
    BY <1>1, <2>1
  <2>3. QED
    BY <1>1, <2>1, <2>2, PrefixReaches
<1>3. ReadWString(r, w, noise) = Take(y, m)
  <2> HIDE DEF y, m
  <2>1. QED
    BY <1>1, <1>2 DEF ReadWString, Reached, y
<1>4. a + m = r.size
  OBVIOUS
<1> HIDE DEF y, a, m, w
<1>5. /\ y \in ReaderType /\ y.ok /\ y.pos = a /\ y.depth = r.depth
      /\ y.size = r.size /\ y.size \in Nat
  BY <1>2 DEF Reached, ReaderType
<1>6. y.pos + m <= y.size
  BY <1>4, <1>5
<1>7. Reached(y, Take(y, m), r.size, r.depth)
  BY <1>1, <1>4, <1>5, <1>6, TakeReaches
<1>8. Reached(r, Take(y, m), r.size, r.depth)
  BY <1>2, <1>7, ReachedTransitive
<1>9. QED
  BY <1>3, <1>8, ReachedIsReadAll DEF w

\* The elements, in a context that was opened for them: one by one, as a copy
\* and as a view. Where there are none only the first leaves out the padding.
LEMMA ElementsRead ==
  ASSUME NEW b \in ReaderType, b.ok, b.depth # 0, NEW s \in PrimitiveSizes, NEW n \in Nat,
         ElementsEnd(b.pos, s, n) = b.size
  PROVE  /\ ReadAll(b, ReadEach(b, s, n), b.depth - 1)
         /\ n # 0 \/ DataAlign(b.size, s) = b.size =>
              /\ ReadAll(b, CopyBulk(b, s, n), b.depth - 1)
              /\ ReadAll(b, ReadBulk(b, s, n), b.depth - 1)
<1>1. b.size \in Nat /\ b.depth \in Nat
  BY DEF ReaderType
<1>2. ReadAll(b, ReadEach(b, s, n), b.depth - 1)
  BY <1>1, EachReaches, ReachedIsReadAll
<1>3. ASSUME n # 0 \/ DataAlign(b.size, s) = b.size
      PROVE  DataAlign(b.pos, s) + s * n = b.size
  <2>1. CASE n # 0
    BY <2>1 DEF ElementsEnd
  <2>2. CASE n = 0
    BY <1>1, <1>3, <2>2, ProductStep DEF ElementsEnd
  <2>3. QED
    BY <2>1, <2>2
<1>4. ASSUME DataAlign(b.pos, s) + s * n = b.size
      PROVE  /\ ReadAll(b, CopyBulk(b, s, n), b.depth - 1)
             /\ ReadAll(b, ReadBulk(b, s, n), b.depth - 1)
  <2>1. DataAlign(b.pos, s) + s * n <= b.size
    BY <1>1, <1>4
  <2>2. /\ Reached(b, CopyBulk(b, s, n), b.size, b.depth - 1)
        /\ IF b.native THEN ReadBulk(b, s, n) = CopyBulk(b, s, n)
           ELSE ReadBulk(b, s, n) = [b EXCEPT !.ok = FALSE]
    BY <1>4, <2>1, BulkReaches
  <2>3. ReadAll(b, CopyBulk(b, s, n), b.depth - 1)
    BY <2>2, ReachedIsReadAll
  <2>4. ASSUME ~b.native PROVE ReadAll(b, [b EXCEPT !.ok = FALSE], b.depth - 1)
    BY <2>4 DEF ReadAll, ReaderType
  <2>5. QED
    BY <2>2, <2>3, <2>4
<1>5. QED
  BY <1>2, <1>3, <1>4

\* All of b's buffer is all of r's.
LEMMA ReachedThenReadAll ==
  ASSUME NEW r, NEW b, NEW p, NEW d, NEW y, NEW e, Reached(r, b, p, d), ReadAll(b, y, e)
  PROVE  ReadAll(r, y, e)
BY DEF Reached, ReadAll

LEMMA ArrayRead ==
  ASSUME NEW r \in ReaderType, r.ok, NEW s \in PrimitiveSizes, NEW n \in Nat,
         ElementsEnd(r.pos, s, n) = r.size
  PROVE  /\ ReadAll(r, ReadEach(BeginReadArray(r), s, n), r.depth)
         /\ n # 0 => /\ ReadAll(r, ReadFixedSpan(r, s, n), r.depth)
                     /\ ReadAll(r, ReadStdArray(r, s, n), r.depth)
<1> DEFINE b == PushRead(r)
<1>1. BeginReadArray(r) = b
  BY DEF BeginReadArray
<1>2. Reached(r, b, r.pos, r.depth + 1)
  BY PushReadReaches
<1> HIDE DEF b
<1>3. /\ b \in ReaderType /\ b.ok /\ b.depth # 0 /\ b.depth - 1 = r.depth
      /\ b.pos = r.pos /\ b.size = r.size
  BY <1>2 DEF Reached, ReaderType
<1>4. /\ ReadAll(b, ReadEach(b, s, n), r.depth)
      /\ n # 0 => /\ ReadAll(b, CopyBulk(b, s, n), r.depth)
                  /\ ReadAll(b, ReadBulk(b, s, n), r.depth)
  BY <1>3, ElementsRead
<1>5. QED
  BY <1>1, <1>2, <1>4, ReachedThenReadAll DEF ReadFixedSpan, ReadStdArray

LEMMA SequenceBegun ==
  ASSUME NEW r \in ReaderType, r.ok, NEW n \in Nat, NEW noise, PrefixEnd(r.pos) <= r.size
  PROVE  LET b == BeginReadSequence(r, WireAt(r.pos, n), noise)
         IN /\ Reached(r, b, PrefixEnd(r.pos), r.depth + 1) /\ b.got = n
            /\ b.depth # 0 /\ b.depth - 1 = r.depth
<1> DEFINE p == PrefixEnd(r.pos)
           y == ReadPrefix(r, WireAt(r.pos, n), noise)
           b == BeginReadSequence(r, WireAt(r.pos, n), noise)
<1>1. Reached(r, y, p, r.depth) /\ y.got = n
  BY PrefixReaches
<1>2. b = PushRead(y)
  BY <1>1 DEF BeginReadSequence, Reached
<1> HIDE DEF y, b, p
<1>3. /\ y \in ReaderType /\ y.ok /\ y.pos = p /\ y.depth = r.depth
      /\ r.depth \in Nat
  BY <1>1 DEF Reached, ReaderType
<1>4. Reached(y, b, p, r.depth + 1) /\ b.got = n
  <2>1. b.got = n
    BY <1>1, <1>2, <1>3 DEF PushRead, ReaderType
  <2>2. QED
    BY <1>2, <1>3, <2>1, PushReadReaches
<1>5. Reached(r, b, p, r.depth + 1)
  BY <1>1, <1>4, ReachedTransitive
<1>6. b.depth # 0 /\ b.depth - 1 = r.depth
  BY <1>3, <1>4 DEF Reached
<1>7. QED
  BY <1>4, <1>5, <1>6 DEF b, p

LEMMA SequenceRead ==
  ASSUME NEW r \in ReaderType, r.ok, NEW s \in PrimitiveSizes, NEW n \in Nat, NEW noise,
         ElementsEnd(PrefixEnd(r.pos), s, n) = r.size
  PROVE  LET w == WireAt(r.pos, n)
         IN /\ ReadAll(r, ReadSequenceByElement(r, s, w, noise), r.depth)
            /\ n # 0 \/ DataAlign(r.size, s) = r.size =>
                 /\ ReadAll(r, ReadSpan(r, s, w, noise), r.depth)
                 /\ ReadAll(r, ReadVector(r, s, w, noise), r.depth)
<1> DEFINE p == PrefixEnd(r.pos)
           w == WireAt(r.pos, n)
           b == BeginReadSequence(r, w, noise)
<1>1. p <= r.size
  <2>1. p \in Nat
    BY PrefixEndIsNat DEF ReaderType
  <2>2. ElementsEnd(p, s, n) = r.size
    OBVIOUS
  <2> HIDE DEF p
  <2>3. DataAlign(p, s) \in Nat /\ p <= DataAlign(p, s) /\ s * n \in Nat
    BY <2>1, DataAlignBounds, ProductIsNat
  <2>4. \A x, c, q \in Nat : x <= c => x <= c + q
    OBVIOUS
  <2>5. CASE n = 0
    BY <2>1, <2>2, <2>5 DEF ElementsEnd
  <2>6. CASE n # 0
    BY <2>1, <2>2, <2>3, <2>4, <2>6 DEF ElementsEnd
  <2>7. QED
    BY <2>5, <2>6
<1>2. /\ Reached(r, b, p, r.depth + 1) /\ b.got = n
      /\ b.depth # 0 /\ b.depth - 1 = r.depth
  BY <1>1, SequenceBegun
<1> HIDE DEF b, p, w
<1>3. b \in ReaderType /\ b.ok /\ b.pos = p /\ b.size = r.size
  BY <1>2 DEF Reached
<1>4. ElementsEnd(b.pos, s, n) = b.size
  BY <1>3 DEF p
<1>5. /\ ReadAll(b, ReadEach(b, s, n), r.depth)
      /\ n # 0 \/ DataAlign(r.size, s) = r.size =>
           /\ ReadAll(b, CopyBulk(b, s, n), r.depth)
           /\ ReadAll(b, ReadBulk(b, s, n), r.depth)
  BY <1>2, <1>3, <1>4, ElementsRead
<1>6. /\ ReadSequenceByElement(r, s, w, noise) = ReadEach(b, s, n)
      /\ ReadSpan(r, s, w, noise) = ReadBulk(b, s, n)
      /\ ReadVector(r, s, w, noise) = CopyBulk(b, s, n)
  BY <1>2, <1>3 DEF ReadSequenceByElement, ReadSpan, ReadVector, b
<1>7. QED
  BY <1>2, <1>5, <1>6, ReachedThenReadAll DEF w

LEMMA BeginRead ==
  ASSUME NEW r \in ReaderType, r.ok
  PROVE  /\ r.pos = r.size =>
              /\ ReadAll(r, BeginReadStruct(r), r.depth + 1)
              /\ ReadAll(r, BeginReadArray(r), r.depth + 1)
         /\ \A n \in Nat : \A noise : PrefixEnd(r.pos) = r.size =>
              ReadAll(r, BeginReadSequence(r, WireAt(r.pos, n), noise), r.depth + 1)
<1>1. ASSUME r.pos = r.size
      PROVE  /\ ReadAll(r, BeginReadStruct(r), r.depth + 1)
             /\ ReadAll(r, BeginReadArray(r), r.depth + 1)
  <2>1. Reached(r, PushRead(r), r.size, r.depth + 1)
    BY <1>1, PushReadReaches
  <2>2. QED
    BY <2>1, ReachedIsReadAll DEF BeginReadStruct, BeginReadArray
<1>2. ASSUME NEW n \in Nat, NEW noise, PrefixEnd(r.pos) = r.size
      PROVE  ReadAll(r, BeginReadSequence(r, WireAt(r.pos, n), noise), r.depth + 1)
  <2>1. PrefixEnd(r.pos) <= r.size
    BY <1>2 DEF ReaderType
  <2>2. Reached(r, BeginReadSequence(r, WireAt(r.pos, n), noise), r.size, r.depth + 1)
    BY <1>2, <2>1, SequenceBegun
  <2>3. QED
    BY <2>2, ReachedIsReadAll
<1>3. QED
  BY <1>1, <1>2

LEMMA WrapTyped ==
  ASSUME NEW native \in BOOLEAN
  PROVE  LET r == Wrap(HeaderSize, native)
         IN r \in ReaderType /\ r.ok /\ r.pos = HeaderSize /\ r.depth = 0
<1> DEFINE r == Wrap(HeaderSize, native)
           fits == HeaderSize >= HeaderSize
<1>1. fits = TRUE
  BY DEF HeaderSize
<1>2. r = [size |-> HeaderSize, pos |-> IF fits THEN HeaderSize ELSE 0, depth |-> 0,
           native |-> native, ok |-> fits, got |-> 0]
  BY DEF Wrap
<1> HIDE DEF fits
<1>3. r = [size |-> HeaderSize, pos |-> HeaderSize, depth |-> 0,
           native |-> native, ok |-> TRUE, got |-> 0]
  BY <1>1, <1>2
<1> HIDE DEF r
<1>4. r \in ReaderType /\ r.ok /\ r.pos = HeaderSize /\ r.depth = 0
  BY <1>3 DEF ReaderType, HeaderSize
<1>5. QED
  BY <1>4 DEF r

--------------------------------------------------------------------------------
(***************************************************************************)
(* Folds. The step of a fold is an operator, which a lemma cannot be given *)
(* as a parameter, so the facts every fold shares are about the function   *)
(* that the step is on a set it stays in.                                  *)
(***************************************************************************)
LEMMA MaxOfTop ==
  ASSUME NEW n \in Int, NEW s \in SUBSET Int, n \in s, \A k \in s : k <= n
  PROVE  Max(s) = n
<1>1. \A k \in s : n >= k
  OBVIOUS
<1>2. \A x \in s : (\A y \in s : x >= y) => x = n
  <2> TAKE x \in s
  <2> HAVE \A y \in s : x >= y
  <2>1. x >= n /\ n >= x /\ x \in Int
    BY <1>1
  <2>2. QED
    BY <2>1
<1>3. QED
  BY <1>1, <1>2 DEF Max

\* An interval without its last element.
LEMMA TopOfInterval ==
  ASSUME NEW n \in Nat, n # 0
  PROVE  Max(1 .. n) = n /\ (1 .. n) \ {n} = 1 .. (n - 1) /\ 1 .. n # {}
<1>1. Max(1 .. n) = n
  <2>1. 1 .. n \in SUBSET Int /\ n \in 1 .. n /\ \A k \in 1 .. n : k <= n
    OBVIOUS
  <2>2. QED
    BY <2>1, MaxOfTop
<1>2. (1 .. n) \ {n} = 1 .. (n - 1)
  OBVIOUS
<1>3. n \in 1 .. n
  OBVIOUS
<1>4. QED
  BY <1>1, <1>2, <1>3

\* f is what FoldLeft's LET defines, for n elements and the given steps.
FoldsBy(f, n, T, base, step) ==
  /\ f = [s \in SUBSET (1 .. n) |-> IF s = {} THEN base ELSE step[Max(s)][f[s \ {Max(s)}]]]
  /\ \A s \in SUBSET (1 .. n) : s # {} => Max(s) \in 1 .. n /\ f[s \ {Max(s)}] \in T

LEMMA FoldExists ==
  ASSUME NEW n \in Nat, NEW T, NEW base \in T, NEW step \in [1 .. n -> [T -> T]]
  PROVE  \E f : FoldsBy(f, n, T, base, step)
<1> DEFINE P(it, m) ==
             /\ it = [s \in SUBSET (1 .. m) |->
                        IF s = {} THEN base ELSE step[Max(s)][it[s \ {Max(s)}]]]
             /\ \A s \in SUBSET (1 .. m) :
                  /\ it[s] \in T
                  /\ s # {} => Max(s) \in 1 .. m
           S == {m \in Nat : m <= n => \E it : P(it, m)}
<1>1. 0 \in S
  <2> DEFINE h == [s \in SUBSET (1 .. 0) |-> base]
  <2>1. \A s \in SUBSET (1 .. 0) : s = {} /\ h[s] = base
    OBVIOUS
  <2>2. h = [s \in SUBSET (1 .. 0) |->
               IF s = {} THEN base ELSE step[Max(s)][h[s \ {Max(s)}]]]
    BY <2>1
  <2> HIDE DEF h
  <2>3. P(h, 0)
    BY <2>1, <2>2
  <2> HIDE DEF P
  <2>4. \E it : P(it, 0)
    BY <2>3
  <2>5. QED
    BY <2>4
<1>2. ASSUME NEW m \in Nat, m \in S PROVE m + 1 \in S
  <2> SUFFICES ASSUME m + 1 <= n PROVE \E it : P(it, m + 1)
    <3> HIDE DEF P
    <3>1. QED
      OBVIOUS
  <2>0. \E it : P(it, m)
    <3> HIDE DEF P
    <3>1. m <= n
      OBVIOUS
    <3>2. QED
      BY <1>2, <3>1
  <2>1. PICK it : P(it, m)
    BY <2>0
  <2> DEFINE top == m + 1
             h == [s \in SUBSET (1 .. top) |->
                     IF top \in s THEN step[top][it[s \ {top}]] ELSE it[s]]
  <2>2. top \in 1 .. n /\ step[top] \in [T -> T] /\ top \in Nat
    BY <1>2
  <2>3. 1 .. top = (1 .. m) \cup {top} /\ top \notin 1 .. m
    OBVIOUS
  <2> HIDE DEF top
  <2>4. ASSUME NEW s \in SUBSET (1 .. top), top \in s
        PROVE  /\ Max(s) = top /\ s # {} /\ s \ {top} \in SUBSET (1 .. m)
               /\ h[s \ {Max(s)}] = it[s \ {top}]
               /\ h[s] = step[top][it[s \ {top}]]
               /\ h[s] \in T
    <3>1. Max(s) = top
      <4>1. s \in SUBSET Int /\ top \in Int /\ \A k \in s : k <= top
        BY <2>2
      <4>2. QED
        BY <2>4, <4>1, MaxOfTop
    <3>2. s \ {top} \in SUBSET (1 .. m) /\ s # {} /\ s \ {top} \in SUBSET (1 .. top)
      BY <2>3, <2>4
    <3>3. h[s \ {top}] = it[s \ {top}] /\ h[s] = step[top][it[s \ {top}]]
      BY <2>4, <3>2
    <3>4. it[s \ {top}] \in T
      BY <2>1, <3>2
    <3> HIDE DEF h, P
    <3>5. h[s] \in T
      BY <2>2, <3>3, <3>4
    <3>6. QED
      BY <3>1, <3>2, <3>3, <3>5
  <2>5. ASSUME NEW s \in SUBSET (1 .. top), top \notin s
        PROVE  /\ s \in SUBSET (1 .. m) /\ h[s] = it[s] /\ h[s] \in T
               /\ s # {} => Max(s) \in 1 .. m /\ h[s \ {Max(s)}] = it[s \ {Max(s)}]
    <3>1. s \in SUBSET (1 .. m) /\ h[s] = it[s]
      BY <2>3, <2>5
    <3>2. \A x : s \ {x} \in SUBSET (1 .. top) /\ top \notin s \ {x}
      BY <2>5
    <3>3. \A x : h[s \ {x}] = it[s \ {x}]
      BY <3>2
    <3> HIDE DEF h
    <3>4. QED
      BY <2>1, <3>1, <3>3
  <2>6. ASSUME NEW s \in SUBSET (1 .. top)
        PROVE  h[s] = IF s = {} THEN base ELSE step[Max(s)][h[s \ {Max(s)}]]
    <3>1. CASE top \in s
      <4> HIDE DEF h
      <4>1. QED
        BY <2>4, <3>1
    <3>2. CASE top \notin s
      <4>1. it[s] = IF s = {} THEN base ELSE step[Max(s)][it[s \ {Max(s)}]]
        <5>1. s \in SUBSET (1 .. m)
          BY <2>5, <3>2
        <5>2. QED
          BY <2>1, <5>1
      <4> HIDE DEF h, P
      <4>2. QED
        BY <2>5, <3>2, <4>1
    <3>3. QED
      BY <3>1, <3>2
  <2>7. h = [s \in SUBSET (1 .. top) |->
               IF s = {} THEN base ELSE step[Max(s)][h[s \ {Max(s)}]]]
    <3>1. h = [s \in SUBSET (1 .. top) |-> h[s]]
      OBVIOUS
    <3> HIDE DEF h
    <3>2. QED
      BY <2>6, <3>1
  <2> HIDE DEF h
  <2>8. \A s \in SUBSET (1 .. top) : h[s] \in T /\ (s # {} => Max(s) \in 1 .. top)
    <3> TAKE s \in SUBSET (1 .. top)
    <3>1. top \in 1 .. top
      BY <2>2
    <3>2. QED
      BY <2>3, <2>4, <2>5, <3>1
  <2>9. P(h, top)
    BY <2>7, <2>8
  <2> HIDE DEF P
  <2>10. QED
    BY <2>9 DEF top
<1>3. n \in S
  <2> HIDE DEF S
  <2>1. QED
    BY <1>1, <1>2, SetInduction
<1>4. PICK it : P(it, n)
  <2> HIDE DEF P
  <2>1. n <= n
    OBVIOUS
  <2>2. QED
    BY <1>3, <2>1 DEF S
<1>5. \A s \in SUBSET (1 .. n) : s # {} => Max(s) \in 1 .. n /\ it[s \ {Max(s)}] \in T
  <2> TAKE s \in SUBSET (1 .. n)
  <2>1. s \ {Max(s)} \in SUBSET (1 .. n)
    OBVIOUS
  <2>2. QED
    BY <1>4, <2>1
<1>6. FoldsBy(it, n, T, base, step)
  BY <1>4, <1>5 DEF FoldsBy
<1>7. QED
  BY <1>6

\* The equations of f, as far as the prefixes of the elements need them.
StepsBy(f, n, T, base, step) ==
  /\ f[{}] = base
  /\ \A s \in SUBSET (1 .. n) :
       s # {} /\ Max(s) \in 1 .. n /\ f[s \ {Max(s)}] \in T =>
         f[s] = step[Max(s)][f[s \ {Max(s)}]]

\* The states g a fold over n elements goes through, by the number of elements.
TraceOf(g, f, n, T, base, step) ==
  /\ g \in [0 .. n -> T]
  /\ g[0] = base /\ g[n] = f[1 .. n]
  /\ \A k \in 1 .. n : g[k] = step[k][g[k - 1]]

LEMMA FoldTrace ==
  ASSUME NEW n \in Nat, NEW T, NEW base \in T, NEW step \in [1 .. n -> [T -> T]], NEW f,
         StepsBy(f, n, T, base, step)
  PROVE  \E g : TraceOf(g, f, n, T, base, step)
<1> DEFINE g == [k \in 0 .. n |-> f[1 .. k]]
           S == {k \in Nat : k <= n => f[1 .. k] \in T}
<1>1. ASSUME NEW k \in 1 .. n, f[1 .. (k - 1)] \in T
      PROVE  f[1 .. k] = step[k][f[1 .. (k - 1)]] /\ f[1 .. k] \in T
  <2>1. /\ k \in Nat /\ k # 0 /\ 1 .. k \in SUBSET (1 .. n)
        /\ step[k] \in [T -> T]
    OBVIOUS
  <2>2. Max(1 .. k) = k /\ (1 .. k) \ {k} = 1 .. (k - 1) /\ 1 .. k # {}
    BY <2>1, TopOfInterval
  <2> DEFINE s == 1 .. k
             r == 1 .. (k - 1)
  <2> HIDE DEF s, r
  <2>3. s \in SUBSET (1 .. n) /\ s # {} /\ Max(s) = k /\ s \ {Max(s)} = r /\ f[r] \in T
    BY <1>1, <2>1, <2>2 DEF s, r
  <2>4. f[s] = step[k][f[r]]
    BY <2>1, <2>3 DEF StepsBy
  <2>5. QED
    BY <2>1, <2>3, <2>4 DEF s, r
<1>2. 0 \in S
  <2>1. 1 .. 0 = {}
    OBVIOUS
  <2>2. QED
    BY <2>1 DEF StepsBy
<1>3. ASSUME NEW k \in Nat, k \in S PROVE k + 1 \in S
  <2> SUFFICES ASSUME k + 1 <= n PROVE f[1 .. (k + 1)] \in T
    OBVIOUS
  <2>1. k + 1 \in 1 .. n /\ (k + 1) - 1 = k /\ f[1 .. k] \in T
    BY <1>3
  <2>2. QED
    BY <1>1, <2>1
<1> HIDE DEF S
<1>4. \A k \in 0 .. n : f[1 .. k] \in T
  <2>1. Nat \subseteq S
    BY <1>2, <1>3, SetInduction
  <2>2. QED
    BY <2>1 DEF S
<1>5. g \in [0 .. n -> T]
  BY <1>4
<1>6. g[0] = base /\ g[n] = f[1 .. n]
  <2>1. 1 .. 0 = {} /\ 0 \in 0 .. n /\ n \in 0 .. n
    OBVIOUS
  <2>2. QED
    BY <2>1 DEF StepsBy
<1>7. \A k \in 1 .. n : g[k] = step[k][g[k - 1]]
  <2> TAKE k \in 1 .. n
  <2>1. k \in 0 .. n /\ k - 1 \in 0 .. n
    OBVIOUS
  <2>2. g[k] = f[1 .. k] /\ g[k - 1] = f[1 .. (k - 1)]
    BY <2>1
  <2>3. f[1 .. (k - 1)] \in T
    BY <1>4, <2>1
  <2>4. QED
    BY <1>1, <2>2, <2>3
<1> HIDE DEF g
<1>8. TraceOf(g, f, n, T, base, step)
  BY <1>5, <1>6, <1>7 DEF TraceOf
<1>9. QED
  BY <1>8

(***************************************************************************)
(* The folds of GeneratedCodec. Each goes through states g[0], ..., g[n]   *)
(* of any set T that its step does not leave, one step at a time. The step *)
(* of each is another, the proof is the same.                              *)
(***************************************************************************)
\* The writer over the elements of a sequence of booleans.
FlagsStays(T) ==
  \A x \in T : WritePrimitive(x, 1) \in T

FlagsSteps(g, T, b, m) ==
  /\ g \in [0 .. m.count -> T]
  /\ g[0] = b /\ WriteFlags(b, m) = EndWrite(g[m.count])
  /\ \A k \in 1 .. m.count : g[k] = WritePrimitive(g[k - 1], 1)

LEMMA FlagsTrace ==
  ASSUME NEW T, NEW b \in T, NEW m, m.count \in Nat, FlagsStays(T)
  PROVE  \E g : FlagsSteps(g, T, b, m)
<1> DEFINE n == m.count
           seq == [i \in 1 .. m.count |-> i]
           F(x, k) == WritePrimitive(x, 1)
           step == [k \in 1 .. n |-> [x \in T |-> F(x, k)]]
           body(f) == [s \in SUBSET DOMAIN seq |->
                        IF s = {} THEN b ELSE F(f[s \ {Max(s)}], Max(s))]
           it == CHOOSE f : f = body(f)
<1>0. n \in Nat /\ DOMAIN seq = 1 .. n
  OBVIOUS
<1>1. WriteFlags(b, m) = EndWrite(it[DOMAIN seq])
  BY <1>0 DEF WriteFlags, Times, FoldLeft, MapThenFoldSet
<1>2. step \in [1 .. n -> [T -> T]] /\ \A k \in 1 .. n : \A x \in T : step[k][x] = F(x, k)
  BY DEF FlagsStays
<1> HIDE DEF F, step, seq, n
<1>3. \E f : f = body(f)
  <2>1. PICK f : FoldsBy(f, n, T, b, step)
    BY <1>0, <1>2, FoldExists
  <2>2. \A s \in SUBSET (1 .. n) :
          s # {} => step[Max(s)][f[s \ {Max(s)}]] = F(f[s \ {Max(s)}], Max(s))
    BY <1>2, <2>1 DEF FoldsBy
  <2>3. f = body(f)
    BY <1>0, <2>1, <2>2 DEF FoldsBy
  <2> HIDE DEF body
  <2>4. QED
    BY <2>3
<1>4. it = body(it)
  BY <1>3
<1> HIDE DEF it
<1>5. it[{}] = b /\ \A s \in SUBSET (1 .. n) : s # {} => it[s] = F(it[s \ {Max(s)}], Max(s))
  BY <1>0, <1>4
<1>6. StepsBy(it, n, T, b, step)
  BY <1>2, <1>5 DEF StepsBy
<1>7. PICK g : TraceOf(g, it, n, T, b, step)
  BY <1>0, <1>2, <1>6, FoldTrace
<1>8. \A k \in 1 .. n : g[k] = F(g[k - 1], k)
  <2> TAKE k \in 1 .. n
  <2>1. k - 1 \in 0 .. n
    BY <1>0
  <2>2. QED
    BY <1>2, <1>7, <2>1 DEF TraceOf
<1>9. g[0] = b /\ g[n] = it[DOMAIN seq]
  BY <1>0, <1>7 DEF TraceOf
<1>10. FlagsSteps(g, T, b, m)
  BY <1>1, <1>7, <1>8, <1>9 DEF F, n, TraceOf, FlagsSteps
<1>11. QED
  BY <1>10

\* The writer over the strings of a sequence.
StringsStays(T, m) ==
  \A x \in T : Prefixed(x, WriteString(x.w, m.chars), m.chars + 1) \in T

StringsSteps(g, T, b, m) ==
  /\ g \in [0 .. m.count -> T]
  /\ g[0] = b /\ WriteStrings(b, m) = [g[m.count] EXCEPT !.w = EndWrite(@)]
  /\ \A k \in 1 .. m.count : g[k] = Prefixed(g[k - 1], WriteString(g[k - 1].w, m.chars), m.chars + 1)

LEMMA StringsTrace ==
  ASSUME NEW T, NEW b \in T, NEW m, m.count \in Nat, StringsStays(T, m)
  PROVE  \E g : StringsSteps(g, T, b, m)
<1> DEFINE n == m.count
           seq == [i \in 1 .. m.count |-> i]
           F(x, k) == Prefixed(x, WriteString(x.w, m.chars), m.chars + 1)
           step == [k \in 1 .. n |-> [x \in T |-> F(x, k)]]
           body(f) == [s \in SUBSET DOMAIN seq |->
                        IF s = {} THEN b ELSE F(f[s \ {Max(s)}], Max(s))]
           it == CHOOSE f : f = body(f)
<1>0. n \in Nat /\ DOMAIN seq = 1 .. n
  OBVIOUS
<1>1. WriteStrings(b, m) = [it[DOMAIN seq] EXCEPT !.w = EndWrite(@)]
  BY <1>0 DEF WriteStrings, Times, FoldLeft, MapThenFoldSet
<1>2. step \in [1 .. n -> [T -> T]] /\ \A k \in 1 .. n : \A x \in T : step[k][x] = F(x, k)
  BY DEF StringsStays
<1> HIDE DEF F, step, seq, n
<1>3. \E f : f = body(f)
  <2>1. PICK f : FoldsBy(f, n, T, b, step)
    BY <1>0, <1>2, FoldExists
  <2>2. \A s \in SUBSET (1 .. n) :
          s # {} => step[Max(s)][f[s \ {Max(s)}]] = F(f[s \ {Max(s)}], Max(s))
    BY <1>2, <2>1 DEF FoldsBy
  <2>3. f = body(f)
    BY <1>0, <2>1, <2>2 DEF FoldsBy
  <2> HIDE DEF body
  <2>4. QED
    BY <2>3
<1>4. it = body(it)
  BY <1>3
<1> HIDE DEF it
<1>5. it[{}] = b /\ \A s \in SUBSET (1 .. n) : s # {} => it[s] = F(it[s \ {Max(s)}], Max(s))
  BY <1>0, <1>4
<1>6. StepsBy(it, n, T, b, step)
  BY <1>2, <1>5 DEF StepsBy
<1>7. PICK g : TraceOf(g, it, n, T, b, step)
  BY <1>0, <1>2, <1>6, FoldTrace
<1>8. \A k \in 1 .. n : g[k] = F(g[k - 1], k)
  <2> TAKE k \in 1 .. n
  <2>1. k - 1 \in 0 .. n
    BY <1>0
  <2>2. QED
    BY <1>2, <1>7, <2>1 DEF TraceOf
<1>9. g[0] = b /\ g[n] = it[DOMAIN seq]
  BY <1>0, <1>7 DEF TraceOf
<1>10. StringsSteps(g, T, b, m)
  BY <1>1, <1>7, <1>8, <1>9 DEF F, n, TraceOf, StringsSteps
<1>11. QED
  BY <1>10

\* The writer over the fields of a nested message.
NestedStays(T, m) ==
  \A k \in 1 .. Len(m.fields) : \A x \in T : WriteLeaf(x, m.fields[k]) \in T

NestedSteps(g, T, b, m) ==
  /\ g \in [0 .. Len(m.fields) -> T]
  /\ g[0] = b /\ WriteNested(b, m) = g[Len(m.fields)]
  /\ \A k \in 1 .. Len(m.fields) : g[k] = WriteLeaf(g[k - 1], m.fields[k])

LEMMA NestedTrace ==
  ASSUME NEW T, NEW b \in T, NEW m, NEW S, m.fields \in Seq(S), NestedStays(T, m)
  PROVE  \E g : NestedSteps(g, T, b, m)
<1> DEFINE n == Len(m.fields)
           seq == m.fields
           F(x, k) == WriteLeaf(x, m.fields[k])
           step == [k \in 1 .. n |-> [x \in T |-> F(x, k)]]
           body(f) == [s \in SUBSET DOMAIN seq |->
                        IF s = {} THEN b ELSE F(f[s \ {Max(s)}], Max(s))]
           it == CHOOSE f : f = body(f)
<1>0. n \in Nat /\ DOMAIN seq = 1 .. n
  OBVIOUS
<1>1. WriteNested(b, m) = it[DOMAIN seq]
  BY <1>0 DEF WriteNested, FoldLeft, MapThenFoldSet
<1>2. step \in [1 .. n -> [T -> T]] /\ \A k \in 1 .. n : \A x \in T : step[k][x] = F(x, k)
  BY DEF NestedStays
<1> HIDE DEF F, step, seq, n
<1>3. \E f : f = body(f)
  <2>1. PICK f : FoldsBy(f, n, T, b, step)
    BY <1>0, <1>2, FoldExists
  <2>2. \A s \in SUBSET (1 .. n) :
          s # {} => step[Max(s)][f[s \ {Max(s)}]] = F(f[s \ {Max(s)}], Max(s))
    BY <1>2, <2>1 DEF FoldsBy
  <2>3. f = body(f)
    BY <1>0, <2>1, <2>2 DEF FoldsBy
  <2> HIDE DEF body
  <2>4. QED
    BY <2>3
<1>4. it = body(it)
  BY <1>3
<1> HIDE DEF it
<1>5. it[{}] = b /\ \A s \in SUBSET (1 .. n) : s # {} => it[s] = F(it[s \ {Max(s)}], Max(s))
  BY <1>0, <1>4
<1>6. StepsBy(it, n, T, b, step)
  BY <1>2, <1>5 DEF StepsBy
<1>7. PICK g : TraceOf(g, it, n, T, b, step)
  BY <1>0, <1>2, <1>6, FoldTrace
<1>8. \A k \in 1 .. n : g[k] = F(g[k - 1], k)
  <2> TAKE k \in 1 .. n
  <2>1. k - 1 \in 0 .. n
    BY <1>0
  <2>2. QED
    BY <1>2, <1>7, <2>1 DEF TraceOf
<1>9. g[0] = b /\ g[n] = it[DOMAIN seq]
  BY <1>0, <1>7 DEF TraceOf
<1>10. NestedSteps(g, T, b, m)
  BY <1>1, <1>7, <1>8, <1>9 DEF F, n, TraceOf, NestedSteps
<1>11. QED
  BY <1>10

\* The writer over the nested messages of a sequence.
NestedElementsStays(T, m) ==
  \A x \in T : WriteNested(x, m) \in T

NestedElementsSteps(g, T, b, m) ==
  /\ g \in [0 .. m.count -> T]
  /\ g[0] = b /\ WriteNestedElements(b, m) = [g[m.count] EXCEPT !.w = EndWrite(@)]
  /\ \A k \in 1 .. m.count : g[k] = WriteNested(g[k - 1], m)

LEMMA NestedElementsTrace ==
  ASSUME NEW T, NEW b \in T, NEW m, m.count \in Nat, NestedElementsStays(T, m)
  PROVE  \E g : NestedElementsSteps(g, T, b, m)
<1> DEFINE n == m.count
           seq == [i \in 1 .. m.count |-> i]
           F(x, k) == WriteNested(x, m)
           step == [k \in 1 .. n |-> [x \in T |-> F(x, k)]]
           body(f) == [s \in SUBSET DOMAIN seq |->
                        IF s = {} THEN b ELSE F(f[s \ {Max(s)}], Max(s))]
           it == CHOOSE f : f = body(f)
<1>0. n \in Nat /\ DOMAIN seq = 1 .. n
  OBVIOUS
<1>1. WriteNestedElements(b, m) = [it[DOMAIN seq] EXCEPT !.w = EndWrite(@)]
  BY <1>0 DEF WriteNestedElements, Times, FoldLeft, MapThenFoldSet
<1>2. step \in [1 .. n -> [T -> T]] /\ \A k \in 1 .. n : \A x \in T : step[k][x] = F(x, k)
  BY DEF NestedElementsStays
<1> HIDE DEF F, step, seq, n
<1>3. \E f : f = body(f)
  <2>1. PICK f : FoldsBy(f, n, T, b, step)
    BY <1>0, <1>2, FoldExists
  <2>2. \A s \in SUBSET (1 .. n) :
          s # {} => step[Max(s)][f[s \ {Max(s)}]] = F(f[s \ {Max(s)}], Max(s))
    BY <1>2, <2>1 DEF FoldsBy
  <2>3. f = body(f)
    BY <1>0, <2>1, <2>2 DEF FoldsBy
  <2> HIDE DEF body
  <2>4. QED
    BY <2>3
<1>4. it = body(it)
  BY <1>3
<1> HIDE DEF it
<1>5. it[{}] = b /\ \A s \in SUBSET (1 .. n) : s # {} => it[s] = F(it[s \ {Max(s)}], Max(s))
  BY <1>0, <1>4
<1>6. StepsBy(it, n, T, b, step)
  BY <1>2, <1>5 DEF StepsBy
<1>7. PICK g : TraceOf(g, it, n, T, b, step)
  BY <1>0, <1>2, <1>6, FoldTrace
<1>8. \A k \in 1 .. n : g[k] = F(g[k - 1], k)
  <2> TAKE k \in 1 .. n
  <2>1. k - 1 \in 0 .. n
    BY <1>0
  <2>2. QED
    BY <1>2, <1>7, <2>1 DEF TraceOf
<1>9. g[0] = b /\ g[n] = it[DOMAIN seq]
  BY <1>0, <1>7 DEF TraceOf
<1>10. NestedElementsSteps(g, T, b, m)
  BY <1>1, <1>7, <1>8, <1>9 DEF F, n, TraceOf, NestedElementsSteps
<1>11. QED
  BY <1>10

\* The writer over the members of a message.
SerializeStays(T, msg) ==
  \A k \in 1 .. Len(msg) : \A x \in T : WriteMember(x, msg[k]) \in T

SerializeSteps(g, T, b, msg, c) ==
  /\ g \in [0 .. Len(msg) -> T]
  /\ g[0] = b /\ SerializeInto(msg, c) = g[Len(msg)]
  /\ \A k \in 1 .. Len(msg) : g[k] = WriteMember(g[k - 1], msg[k])

LEMMA SerializeTrace ==
  ASSUME NEW T, NEW b \in T, NEW msg, NEW c,
         b = [w |-> FixedSpan(c), at |-> <<>>, wire |-> <<>>], NEW S, msg \in Seq(S),
         SerializeStays(T, msg)
  PROVE  \E g : SerializeSteps(g, T, b, msg, c)
<1> DEFINE n == Len(msg)
           seq == msg
           F(x, k) == WriteMember(x, msg[k])
           step == [k \in 1 .. n |-> [x \in T |-> F(x, k)]]
           body(f) == [s \in SUBSET DOMAIN seq |->
                        IF s = {} THEN b ELSE F(f[s \ {Max(s)}], Max(s))]
           it == CHOOSE f : f = body(f)
<1>0. n \in Nat /\ DOMAIN seq = 1 .. n
  OBVIOUS
<1>1. SerializeInto(msg, c) = it[DOMAIN seq]
  BY <1>0 DEF SerializeInto, FoldLeft, MapThenFoldSet
<1>2. step \in [1 .. n -> [T -> T]] /\ \A k \in 1 .. n : \A x \in T : step[k][x] = F(x, k)
  BY DEF SerializeStays
<1> HIDE DEF F, step, seq, n
<1>3. \E f : f = body(f)
  <2>1. PICK f : FoldsBy(f, n, T, b, step)
    BY <1>0, <1>2, FoldExists
  <2>2. \A s \in SUBSET (1 .. n) :
          s # {} => step[Max(s)][f[s \ {Max(s)}]] = F(f[s \ {Max(s)}], Max(s))
    BY <1>2, <2>1 DEF FoldsBy
  <2>3. f = body(f)
    BY <1>0, <2>1, <2>2 DEF FoldsBy
  <2> HIDE DEF body
  <2>4. QED
    BY <2>3
<1>4. it = body(it)
  BY <1>3
<1> HIDE DEF it
<1>5. it[{}] = b /\ \A s \in SUBSET (1 .. n) : s # {} => it[s] = F(it[s \ {Max(s)}], Max(s))
  BY <1>0, <1>4
<1>6. StepsBy(it, n, T, b, step)
  BY <1>2, <1>5 DEF StepsBy
<1>7. PICK g : TraceOf(g, it, n, T, b, step)
  BY <1>0, <1>2, <1>6, FoldTrace
<1>8. \A k \in 1 .. n : g[k] = F(g[k - 1], k)
  <2> TAKE k \in 1 .. n
  <2>1. k - 1 \in 0 .. n
    BY <1>0
  <2>2. QED
    BY <1>2, <1>7, <2>1 DEF TraceOf
<1>9. g[0] = b /\ g[n] = it[DOMAIN seq]
  BY <1>0, <1>7 DEF TraceOf
<1>10. SerializeSteps(g, T, b, msg, c)
  BY <1>1, <1>7, <1>8, <1>9 DEF F, n, TraceOf, SerializeSteps
<1>11. QED
  BY <1>10

\* The reader over the flags of a sequence of booleans.
ReadFlagsStays(T) ==
  \A x \in T : ReadPrimitive(x, 1) \in T

ReadFlagsSteps(g, T, b) ==
  /\ g \in [0 .. b.got -> T]
  /\ g[0] = b /\ ReadFlags(b) = EndRead(g[b.got])
  /\ \A k \in 1 .. b.got : g[k] = ReadPrimitive(g[k - 1], 1)

LEMMA ReadFlagsTrace ==
  ASSUME NEW T, NEW b \in T, b.got \in Nat, ReadFlagsStays(T)
  PROVE  \E g : ReadFlagsSteps(g, T, b)
<1> DEFINE n == b.got
           seq == [i \in 1 .. b.got |-> i]
           F(x, k) == ReadPrimitive(x, 1)
           step == [k \in 1 .. n |-> [x \in T |-> F(x, k)]]
           body(f) == [s \in SUBSET DOMAIN seq |->
                        IF s = {} THEN b ELSE F(f[s \ {Max(s)}], Max(s))]
           it == CHOOSE f : f = body(f)
<1>0. n \in Nat /\ DOMAIN seq = 1 .. n
  OBVIOUS
<1>1. ReadFlags(b) = EndRead(it[DOMAIN seq])
  BY <1>0 DEF ReadFlags, Times, FoldLeft, MapThenFoldSet
<1>2. step \in [1 .. n -> [T -> T]] /\ \A k \in 1 .. n : \A x \in T : step[k][x] = F(x, k)
  BY DEF ReadFlagsStays
<1> HIDE DEF F, step, seq, n
<1>3. \E f : f = body(f)
  <2>1. PICK f : FoldsBy(f, n, T, b, step)
    BY <1>0, <1>2, FoldExists
  <2>2. \A s \in SUBSET (1 .. n) :
          s # {} => step[Max(s)][f[s \ {Max(s)}]] = F(f[s \ {Max(s)}], Max(s))
    BY <1>2, <2>1 DEF FoldsBy
  <2>3. f = body(f)
    BY <1>0, <2>1, <2>2 DEF FoldsBy
  <2> HIDE DEF body
  <2>4. QED
    BY <2>3
<1>4. it = body(it)
  BY <1>3
<1> HIDE DEF it
<1>5. it[{}] = b /\ \A s \in SUBSET (1 .. n) : s # {} => it[s] = F(it[s \ {Max(s)}], Max(s))
  BY <1>0, <1>4
<1>6. StepsBy(it, n, T, b, step)
  BY <1>2, <1>5 DEF StepsBy
<1>7. PICK g : TraceOf(g, it, n, T, b, step)
  BY <1>0, <1>2, <1>6, FoldTrace
<1>8. \A k \in 1 .. n : g[k] = F(g[k - 1], k)
  <2> TAKE k \in 1 .. n
  <2>1. k - 1 \in 0 .. n
    BY <1>0
  <2>2. QED
    BY <1>2, <1>7, <2>1 DEF TraceOf
<1>9. g[0] = b /\ g[n] = it[DOMAIN seq]
  BY <1>0, <1>7 DEF TraceOf
<1>10. ReadFlagsSteps(g, T, b)
  BY <1>1, <1>7, <1>8, <1>9 DEF F, n, TraceOf, ReadFlagsSteps
<1>11. QED
  BY <1>10

\* The reader over the strings of a sequence.
ReadStringsStays(T, wire, noise) ==
  \A x \in T : ReadValue(x, ReadString(x.r, wire, noise), PrefixSize) \in T

ReadStringsSteps(g, T, b, m, wire, noise) ==
  /\ g \in [0 .. b.r.got -> T]
  /\ g[0] = b /\ ReadStrings(b, m, wire, noise) = Closed(g[b.r.got])
  /\ \A k \in 1 .. b.r.got : g[k] = ReadValue(g[k - 1], ReadString(g[k - 1].r, wire, noise), PrefixSize)

LEMMA ReadStringsTrace ==
  ASSUME NEW T, NEW b \in T, NEW m, NEW wire, NEW noise, b.r.got \in Nat,
         ReadStringsStays(T, wire, noise)
  PROVE  \E g : ReadStringsSteps(g, T, b, m, wire, noise)
<1> DEFINE n == b.r.got
           seq == [i \in 1 .. b.r.got |-> i]
           F(x, k) == ReadValue(x, ReadString(x.r, wire, noise), PrefixSize)
           step == [k \in 1 .. n |-> [x \in T |-> F(x, k)]]
           body(f) == [s \in SUBSET DOMAIN seq |->
                        IF s = {} THEN b ELSE F(f[s \ {Max(s)}], Max(s))]
           it == CHOOSE f : f = body(f)
<1>0. n \in Nat /\ DOMAIN seq = 1 .. n
  OBVIOUS
<1>1. ReadStrings(b, m, wire, noise) = Closed(it[DOMAIN seq])
  BY <1>0 DEF ReadStrings, Times, FoldLeft, MapThenFoldSet
<1>2. step \in [1 .. n -> [T -> T]] /\ \A k \in 1 .. n : \A x \in T : step[k][x] = F(x, k)
  BY DEF ReadStringsStays
<1> HIDE DEF F, step, seq, n
<1>3. \E f : f = body(f)
  <2>1. PICK f : FoldsBy(f, n, T, b, step)
    BY <1>0, <1>2, FoldExists
  <2>2. \A s \in SUBSET (1 .. n) :
          s # {} => step[Max(s)][f[s \ {Max(s)}]] = F(f[s \ {Max(s)}], Max(s))
    BY <1>2, <2>1 DEF FoldsBy
  <2>3. f = body(f)
    BY <1>0, <2>1, <2>2 DEF FoldsBy
  <2> HIDE DEF body
  <2>4. QED
    BY <2>3
<1>4. it = body(it)
  BY <1>3
<1> HIDE DEF it
<1>5. it[{}] = b /\ \A s \in SUBSET (1 .. n) : s # {} => it[s] = F(it[s \ {Max(s)}], Max(s))
  BY <1>0, <1>4
<1>6. StepsBy(it, n, T, b, step)
  BY <1>2, <1>5 DEF StepsBy
<1>7. PICK g : TraceOf(g, it, n, T, b, step)
  BY <1>0, <1>2, <1>6, FoldTrace
<1>8. \A k \in 1 .. n : g[k] = F(g[k - 1], k)
  <2> TAKE k \in 1 .. n
  <2>1. k - 1 \in 0 .. n
    BY <1>0
  <2>2. QED
    BY <1>2, <1>7, <2>1 DEF TraceOf
<1>9. g[0] = b /\ g[n] = it[DOMAIN seq]
  BY <1>0, <1>7 DEF TraceOf
<1>10. ReadStringsSteps(g, T, b, m, wire, noise)
  BY <1>1, <1>7, <1>8, <1>9 DEF F, n, TraceOf, ReadStringsSteps
<1>11. QED
  BY <1>10

\* The reader over the fields of a nested message.
ReadNestedStays(T, m, wire, noise) ==
  \A k \in 1 .. Len(m.fields) : \A x \in T : ReadLeaf(x, m.fields[k], wire, noise) \in T

ReadNestedSteps(g, T, b, m, wire, noise) ==
  /\ g \in [0 .. Len(m.fields) -> T]
  /\ g[0] = b /\ ReadNested(b, m, wire, noise) = g[Len(m.fields)]
  /\ \A k \in 1 .. Len(m.fields) : g[k] = ReadLeaf(g[k - 1], m.fields[k], wire, noise)

LEMMA ReadNestedTrace ==
  ASSUME NEW T, NEW b \in T, NEW m, NEW wire, NEW noise, NEW S, m.fields \in Seq(S),
         ReadNestedStays(T, m, wire, noise)
  PROVE  \E g : ReadNestedSteps(g, T, b, m, wire, noise)
<1> DEFINE n == Len(m.fields)
           seq == m.fields
           F(x, k) == ReadLeaf(x, m.fields[k], wire, noise)
           step == [k \in 1 .. n |-> [x \in T |-> F(x, k)]]
           body(f) == [s \in SUBSET DOMAIN seq |->
                        IF s = {} THEN b ELSE F(f[s \ {Max(s)}], Max(s))]
           it == CHOOSE f : f = body(f)
<1>0. n \in Nat /\ DOMAIN seq = 1 .. n
  OBVIOUS
<1>1. ReadNested(b, m, wire, noise) = it[DOMAIN seq]
  BY <1>0 DEF ReadNested, FoldLeft, MapThenFoldSet
<1>2. step \in [1 .. n -> [T -> T]] /\ \A k \in 1 .. n : \A x \in T : step[k][x] = F(x, k)
  BY DEF ReadNestedStays
<1> HIDE DEF F, step, seq, n
<1>3. \E f : f = body(f)
  <2>1. PICK f : FoldsBy(f, n, T, b, step)
    BY <1>0, <1>2, FoldExists
  <2>2. \A s \in SUBSET (1 .. n) :
          s # {} => step[Max(s)][f[s \ {Max(s)}]] = F(f[s \ {Max(s)}], Max(s))
    BY <1>2, <2>1 DEF FoldsBy
  <2>3. f = body(f)
    BY <1>0, <2>1, <2>2 DEF FoldsBy
  <2> HIDE DEF body
  <2>4. QED
    BY <2>3
<1>4. it = body(it)
  BY <1>3
<1> HIDE DEF it
<1>5. it[{}] = b /\ \A s \in SUBSET (1 .. n) : s # {} => it[s] = F(it[s \ {Max(s)}], Max(s))
  BY <1>0, <1>4
<1>6. StepsBy(it, n, T, b, step)
  BY <1>2, <1>5 DEF StepsBy
<1>7. PICK g : TraceOf(g, it, n, T, b, step)
  BY <1>0, <1>2, <1>6, FoldTrace
<1>8. \A k \in 1 .. n : g[k] = F(g[k - 1], k)
  <2> TAKE k \in 1 .. n
  <2>1. k - 1 \in 0 .. n
    BY <1>0
  <2>2. QED
    BY <1>2, <1>7, <2>1 DEF TraceOf
<1>9. g[0] = b /\ g[n] = it[DOMAIN seq]
  BY <1>0, <1>7 DEF TraceOf
<1>10. ReadNestedSteps(g, T, b, m, wire, noise)
  BY <1>1, <1>7, <1>8, <1>9 DEF F, n, TraceOf, ReadNestedSteps
<1>11. QED
  BY <1>10

\* The reader over the nested messages of a sequence, whose count was read.
ReadElementsStays(T, m, wire, noise) ==
  \A x \in T : Ignoring(ReadNested(x, m, wire, noise)) \in T

ReadElementsSteps(g, T, b, m, wire, noise) ==
  /\ g \in [0 .. b.r.got -> T]
  /\ g[0] = b /\ ReadNestedElements(b, m, wire, noise) = Closed(g[b.r.got])
  /\ \A k \in 1 .. b.r.got : g[k] = Ignoring(ReadNested(g[k - 1], m, wire, noise))

LEMMA ReadElementsTrace ==
  ASSUME NEW T, NEW b \in T, NEW m, NEW wire, NEW noise, b.ok, b.r.got \in Nat,
         ReadElementsStays(T, m, wire, noise)
  PROVE  \E g : ReadElementsSteps(g, T, b, m, wire, noise)
<1> DEFINE n == b.r.got
           seq == [i \in 1 .. b.r.got |-> i]
           F(x, k) == Ignoring(ReadNested(x, m, wire, noise))
           step == [k \in 1 .. n |-> [x \in T |-> F(x, k)]]
           body(f) == [s \in SUBSET DOMAIN seq |->
                        IF s = {} THEN b ELSE F(f[s \ {Max(s)}], Max(s))]
           it == CHOOSE f : f = body(f)
<1>0. n \in Nat /\ DOMAIN seq = 1 .. n
  OBVIOUS
<1>1. ReadNestedElements(b, m, wire, noise) = Closed(it[DOMAIN seq])
  BY <1>0 DEF ReadNestedElements, Times, FoldLeft, MapThenFoldSet
<1>2. step \in [1 .. n -> [T -> T]] /\ \A k \in 1 .. n : \A x \in T : step[k][x] = F(x, k)
  BY DEF ReadElementsStays
<1> HIDE DEF F, step, seq, n
<1>3. \E f : f = body(f)
  <2>1. PICK f : FoldsBy(f, n, T, b, step)
    BY <1>0, <1>2, FoldExists
  <2>2. \A s \in SUBSET (1 .. n) :
          s # {} => step[Max(s)][f[s \ {Max(s)}]] = F(f[s \ {Max(s)}], Max(s))
    BY <1>2, <2>1 DEF FoldsBy
  <2>3. f = body(f)
    BY <1>0, <2>1, <2>2 DEF FoldsBy
  <2> HIDE DEF body
  <2>4. QED
    BY <2>3
<1>4. it = body(it)
  BY <1>3
<1> HIDE DEF it
<1>5. it[{}] = b /\ \A s \in SUBSET (1 .. n) : s # {} => it[s] = F(it[s \ {Max(s)}], Max(s))
  BY <1>0, <1>4
<1>6. StepsBy(it, n, T, b, step)
  BY <1>2, <1>5 DEF StepsBy
<1>7. PICK g : TraceOf(g, it, n, T, b, step)
  BY <1>0, <1>2, <1>6, FoldTrace
<1>8. \A k \in 1 .. n : g[k] = F(g[k - 1], k)
  <2> TAKE k \in 1 .. n
  <2>1. k - 1 \in 0 .. n
    BY <1>0
  <2>2. QED
    BY <1>2, <1>7, <2>1 DEF TraceOf
<1>9. g[0] = b /\ g[n] = it[DOMAIN seq]
  BY <1>0, <1>7 DEF TraceOf
<1>10. ReadElementsSteps(g, T, b, m, wire, noise)
  BY <1>1, <1>7, <1>8, <1>9 DEF F, n, TraceOf, ReadElementsSteps
<1>11. QED
  BY <1>10

\* The reader over the members of a message.
DeserializeStays(T, msg, wire, noise) ==
  \A k \in 1 .. Len(msg) : \A x \in T : ReadMember(x, msg[k], wire, noise) \in T

DeserializeSteps(g, T, b, msg, wire, bytes, noise) ==
  /\ g \in [0 .. Len(msg) -> T]
  /\ g[0] = b /\ DeserializeFrom(msg, wire, bytes, noise) = g[Len(msg)]
  /\ \A k \in 1 .. Len(msg) : g[k] = ReadMember(g[k - 1], msg[k], wire, noise)

LEMMA DeserializeTrace ==
  ASSUME NEW T, NEW b \in T, NEW msg, NEW wire, NEW bytes, NEW noise,
         b = [r |-> Wrap(bytes, TRUE), ok |-> Wrap(bytes, TRUE).ok, at |-> <<>>], NEW S,
         msg \in Seq(S), DeserializeStays(T, msg, wire, noise)
  PROVE  \E g : DeserializeSteps(g, T, b, msg, wire, bytes, noise)
<1> DEFINE n == Len(msg)
           seq == msg
           F(x, k) == ReadMember(x, msg[k], wire, noise)
           step == [k \in 1 .. n |-> [x \in T |-> F(x, k)]]
           body(f) == [s \in SUBSET DOMAIN seq |->
                        IF s = {} THEN b ELSE F(f[s \ {Max(s)}], Max(s))]
           it == CHOOSE f : f = body(f)
<1>0. n \in Nat /\ DOMAIN seq = 1 .. n
  OBVIOUS
<1>1. DeserializeFrom(msg, wire, bytes, noise) = it[DOMAIN seq]
  BY <1>0 DEF DeserializeFrom, FoldLeft, MapThenFoldSet
<1>2. step \in [1 .. n -> [T -> T]] /\ \A k \in 1 .. n : \A x \in T : step[k][x] = F(x, k)
  BY DEF DeserializeStays
<1> HIDE DEF F, step, seq, n
<1>3. \E f : f = body(f)
  <2>1. PICK f : FoldsBy(f, n, T, b, step)
    BY <1>0, <1>2, FoldExists
  <2>2. \A s \in SUBSET (1 .. n) :
          s # {} => step[Max(s)][f[s \ {Max(s)}]] = F(f[s \ {Max(s)}], Max(s))
    BY <1>2, <2>1 DEF FoldsBy
  <2>3. f = body(f)
    BY <1>0, <2>1, <2>2 DEF FoldsBy
  <2> HIDE DEF body
  <2>4. QED
    BY <2>3
<1>4. it = body(it)
  BY <1>3
<1> HIDE DEF it
<1>5. it[{}] = b /\ \A s \in SUBSET (1 .. n) : s # {} => it[s] = F(it[s \ {Max(s)}], Max(s))
  BY <1>0, <1>4
<1>6. StepsBy(it, n, T, b, step)
  BY <1>2, <1>5 DEF StepsBy
<1>7. PICK g : TraceOf(g, it, n, T, b, step)
  BY <1>0, <1>2, <1>6, FoldTrace
<1>8. \A k \in 1 .. n : g[k] = F(g[k - 1], k)
  <2> TAKE k \in 1 .. n
  <2>1. k - 1 \in 0 .. n
    BY <1>0
  <2>2. QED
    BY <1>2, <1>7, <2>1 DEF TraceOf
<1>9. g[0] = b /\ g[n] = it[DOMAIN seq]
  BY <1>0, <1>7 DEF TraceOf
<1>10. DeserializeSteps(g, T, b, msg, wire, bytes, noise)
  BY <1>1, <1>7, <1>8, <1>9 DEF F, n, TraceOf, DeserializeSteps
<1>11. QED
  BY <1>10

\* The size of the strings of a sequence.
StringsSizeStays(T, m) ==
  \A x \in T : StringSize(x, m.chars) \in T

StringsSizeSteps(g, T, b, m, offset) ==
  /\ g \in [0 .. m.count -> T]
  /\ g[0] = b /\ StringsSize(offset, m) = g[m.count]
  /\ \A k \in 1 .. m.count : g[k] = StringSize(g[k - 1], m.chars)

LEMMA StringsSizeTrace ==
  ASSUME NEW T, NEW b \in T, NEW m, NEW offset, m.count \in Nat,
         b = AlignTo(offset, PrefixSize) + PrefixSize, StringsSizeStays(T, m)
  PROVE  \E g : StringsSizeSteps(g, T, b, m, offset)
<1> DEFINE n == m.count
           seq == [i \in 1 .. m.count |-> i]
           F(x, k) == StringSize(x, m.chars)
           step == [k \in 1 .. n |-> [x \in T |-> F(x, k)]]
           body(f) == [s \in SUBSET DOMAIN seq |->
                        IF s = {} THEN b ELSE F(f[s \ {Max(s)}], Max(s))]
           it == CHOOSE f : f = body(f)
<1>0. n \in Nat /\ DOMAIN seq = 1 .. n
  OBVIOUS
<1>1. StringsSize(offset, m) = it[DOMAIN seq]
  BY <1>0 DEF StringsSize, Times, FoldLeft, MapThenFoldSet
<1>2. step \in [1 .. n -> [T -> T]] /\ \A k \in 1 .. n : \A x \in T : step[k][x] = F(x, k)
  BY DEF StringsSizeStays
<1> HIDE DEF F, step, seq, n
<1>3. \E f : f = body(f)
  <2>1. PICK f : FoldsBy(f, n, T, b, step)
    BY <1>0, <1>2, FoldExists
  <2>2. \A s \in SUBSET (1 .. n) :
          s # {} => step[Max(s)][f[s \ {Max(s)}]] = F(f[s \ {Max(s)}], Max(s))
    BY <1>2, <2>1 DEF FoldsBy
  <2>3. f = body(f)
    BY <1>0, <2>1, <2>2 DEF FoldsBy
  <2> HIDE DEF body
  <2>4. QED
    BY <2>3
<1>4. it = body(it)
  BY <1>3
<1> HIDE DEF it
<1>5. it[{}] = b /\ \A s \in SUBSET (1 .. n) : s # {} => it[s] = F(it[s \ {Max(s)}], Max(s))
  BY <1>0, <1>4
<1>6. StepsBy(it, n, T, b, step)
  BY <1>2, <1>5 DEF StepsBy
<1>7. PICK g : TraceOf(g, it, n, T, b, step)
  BY <1>0, <1>2, <1>6, FoldTrace
<1>8. \A k \in 1 .. n : g[k] = F(g[k - 1], k)
  <2> TAKE k \in 1 .. n
  <2>1. k - 1 \in 0 .. n
    BY <1>0
  <2>2. QED
    BY <1>2, <1>7, <2>1 DEF TraceOf
<1>9. g[0] = b /\ g[n] = it[DOMAIN seq]
  BY <1>0, <1>7 DEF TraceOf
<1>10. StringsSizeSteps(g, T, b, m, offset)
  BY <1>1, <1>7, <1>8, <1>9 DEF F, n, TraceOf, StringsSizeSteps
<1>11. QED
  BY <1>10

\* The size of a nested message.
NestedSizeStays(T, m) ==
  \A k \in 1 .. Len(m.fields) : \A x \in T : LeafSize(x, m.fields[k]) \in T

NestedSizeSteps(g, T, b, m) ==
  /\ g \in [0 .. Len(m.fields) -> T]
  /\ g[0] = b /\ NestedSize(m) = g[Len(m.fields)]
  /\ \A k \in 1 .. Len(m.fields) : g[k] = LeafSize(g[k - 1], m.fields[k])

LEMMA NestedSizeTrace ==
  ASSUME NEW T, NEW b \in T, NEW m, b = 0, NEW S, m.fields \in Seq(S),
         NestedSizeStays(T, m)
  PROVE  \E g : NestedSizeSteps(g, T, b, m)
<1> DEFINE n == Len(m.fields)
           seq == m.fields
           F(x, k) == LeafSize(x, m.fields[k])
           step == [k \in 1 .. n |-> [x \in T |-> F(x, k)]]
           body(f) == [s \in SUBSET DOMAIN seq |->
                        IF s = {} THEN b ELSE F(f[s \ {Max(s)}], Max(s))]
           it == CHOOSE f : f = body(f)
<1>0. n \in Nat /\ DOMAIN seq = 1 .. n
  OBVIOUS
<1>1. NestedSize(m) = it[DOMAIN seq]
  BY <1>0 DEF NestedSize, FoldLeft, MapThenFoldSet
<1>2. step \in [1 .. n -> [T -> T]] /\ \A k \in 1 .. n : \A x \in T : step[k][x] = F(x, k)
  BY DEF NestedSizeStays
<1> HIDE DEF F, step, seq, n
<1>3. \E f : f = body(f)
  <2>1. PICK f : FoldsBy(f, n, T, b, step)
    BY <1>0, <1>2, FoldExists
  <2>2. \A s \in SUBSET (1 .. n) :
          s # {} => step[Max(s)][f[s \ {Max(s)}]] = F(f[s \ {Max(s)}], Max(s))
    BY <1>2, <2>1 DEF FoldsBy
  <2>3. f = body(f)
    BY <1>0, <2>1, <2>2 DEF FoldsBy
  <2> HIDE DEF body
  <2>4. QED
    BY <2>3
<1>4. it = body(it)
  BY <1>3
<1> HIDE DEF it
<1>5. it[{}] = b /\ \A s \in SUBSET (1 .. n) : s # {} => it[s] = F(it[s \ {Max(s)}], Max(s))
  BY <1>0, <1>4
<1>6. StepsBy(it, n, T, b, step)
  BY <1>2, <1>5 DEF StepsBy
<1>7. PICK g : TraceOf(g, it, n, T, b, step)
  BY <1>0, <1>2, <1>6, FoldTrace
<1>8. \A k \in 1 .. n : g[k] = F(g[k - 1], k)
  <2> TAKE k \in 1 .. n
  <2>1. k - 1 \in 0 .. n
    BY <1>0
  <2>2. QED
    BY <1>2, <1>7, <2>1 DEF TraceOf
<1>9. g[0] = b /\ g[n] = it[DOMAIN seq]
  BY <1>0, <1>7 DEF TraceOf
<1>10. NestedSizeSteps(g, T, b, m)
  BY <1>1, <1>7, <1>8, <1>9 DEF F, n, TraceOf, NestedSizeSteps
<1>11. QED
  BY <1>10

\* The size of a message.
SizeStays(T, msg) ==
  \A k \in 1 .. Len(msg) : \A x \in T : MemberSize(x, msg[k]) \in T

SizeSteps(g, T, b, msg) ==
  /\ g \in [0 .. Len(msg) -> T]
  /\ g[0] = b /\ ComputeSerializedSize(msg) = HeaderSize + g[Len(msg)]
  /\ \A k \in 1 .. Len(msg) : g[k] = MemberSize(g[k - 1], msg[k])

LEMMA SizeTrace ==
  ASSUME NEW T, NEW b \in T, NEW msg, b = 0, NEW S, msg \in Seq(S), SizeStays(T, msg)
  PROVE  \E g : SizeSteps(g, T, b, msg)
<1> DEFINE n == Len(msg)
           seq == msg
           F(x, k) == MemberSize(x, msg[k])
           step == [k \in 1 .. n |-> [x \in T |-> F(x, k)]]
           body(f) == [s \in SUBSET DOMAIN seq |->
                        IF s = {} THEN b ELSE F(f[s \ {Max(s)}], Max(s))]
           it == CHOOSE f : f = body(f)
<1>0. n \in Nat /\ DOMAIN seq = 1 .. n
  OBVIOUS
<1>1. ComputeSerializedSize(msg) = HeaderSize + it[DOMAIN seq]
  BY <1>0 DEF ComputeSerializedSize, FoldLeft, MapThenFoldSet
<1>2. step \in [1 .. n -> [T -> T]] /\ \A k \in 1 .. n : \A x \in T : step[k][x] = F(x, k)
  BY DEF SizeStays
<1> HIDE DEF F, step, seq, n
<1>3. \E f : f = body(f)
  <2>1. PICK f : FoldsBy(f, n, T, b, step)
    BY <1>0, <1>2, FoldExists
  <2>2. \A s \in SUBSET (1 .. n) :
          s # {} => step[Max(s)][f[s \ {Max(s)}]] = F(f[s \ {Max(s)}], Max(s))
    BY <1>2, <2>1 DEF FoldsBy
  <2>3. f = body(f)
    BY <1>0, <2>1, <2>2 DEF FoldsBy
  <2> HIDE DEF body
  <2>4. QED
    BY <2>3
<1>4. it = body(it)
  BY <1>3
<1> HIDE DEF it
<1>5. it[{}] = b /\ \A s \in SUBSET (1 .. n) : s # {} => it[s] = F(it[s \ {Max(s)}], Max(s))
  BY <1>0, <1>4
<1>6. StepsBy(it, n, T, b, step)
  BY <1>2, <1>5 DEF StepsBy
<1>7. PICK g : TraceOf(g, it, n, T, b, step)
  BY <1>0, <1>2, <1>6, FoldTrace
<1>8. \A k \in 1 .. n : g[k] = F(g[k - 1], k)
  <2> TAKE k \in 1 .. n
  <2>1. k - 1 \in 0 .. n
    BY <1>0
  <2>2. QED
    BY <1>2, <1>7, <2>1 DEF TraceOf
<1>9. g[0] = b /\ g[n] = it[DOMAIN seq]
  BY <1>0, <1>7 DEF TraceOf
<1>10. SizeSteps(g, T, b, msg)
  BY <1>1, <1>7, <1>8, <1>9 DEF F, n, TraceOf, SizeSteps
<1>11. QED
  BY <1>10

--------------------------------------------------------------------------------
(***************************************************************************)
(* What is written, whatever the sizes: positions are integers, and every  *)
(* number a prefix holds is one the reader can count to.                   *)
(***************************************************************************)
LooseWriter ==
  [fixed : BOOLEAN, cap : Nat, pos : Int, size : Int, overflow : BOOLEAN,
   header : BOOLEAN, depth : Nat, stored : SUBSET Int]

Wires == UNION {[D -> Nat] : D \in SUBSET Int}

Serialized == [w : LooseWriter, at : Seq(Int), wire : Wires]

LEMMA LooseCalls ==
  ASSUME NEW x \in LooseWriter
  PROVE  /\ Cursor(x) \in Int
         /\ Fail(x) \in LooseWriter
         /\ Push(x) \in LooseWriter /\ EndWrite(x) \in LooseWriter
<1>1. Cursor(x) \in Int
  BY DEF LooseWriter, Cursor
<1>2. Fail(x) \in LooseWriter
  BY DEF LooseWriter, Fail
<1>3. Push(x) \in LooseWriter
  BY DEF LooseWriter, Push
<1>4. EndWrite(x) \in LooseWriter
  BY DEF LooseWriter, EndWrite, Pop
<1>5. QED
  BY <1>1, <1>2, <1>3, <1>4

LEMMA LooseMove ==
  ASSUME NEW x \in LooseWriter, NEW c \in Int
  PROVE  MoveTo(x, c) \in LooseWriter
BY DEF LooseWriter, MoveTo

LEMMA LooseStored ==
  ASSUME NEW x \in LooseWriter, NEW S \in SUBSET Int
  PROVE  [x EXCEPT !.stored = S] \in LooseWriter
BY DEF LooseWriter

LEMMA LooseStore ==
  ASSUME NEW x \in LooseWriter, NEW n \in Int
  PROVE  StoreLast(x, n) \in LooseWriter
<1>1. Cursor(x) \in Int
  BY LooseCalls
<1>2. x.stored \cup Offsets(Cursor(x) - n, n) \in SUBSET Int
  BY <1>1 DEF Offsets, LooseWriter
<1>3. QED
  BY <1>2, LooseStored DEF StoreLast

LEMMA LooseHeader ==
  ASSUME NEW x \in LooseWriter
  PROVE  EnsureHeaderWritten(x) \in LooseWriter
<1>1. MoveTo(x, HeaderSize) \in LooseWriter
  BY LooseMove DEF HeaderSize
<1>2. StoreLast(MoveTo(x, HeaderSize), HeaderSize) \in LooseWriter /\ Fail(x) \in LooseWriter
  BY <1>1, LooseStore, LooseCalls DEF HeaderSize
<1>3. \A y \in LooseWriter : [y EXCEPT !.header = TRUE] \in LooseWriter
  BY DEF LooseWriter
<1>4. QED
  BY <1>2, <1>3 DEF EnsureHeaderWritten

LEMMA LooseReserve ==
  ASSUME NEW x \in LooseWriter, NEW a \in PrimitiveSizes, NEW n \in Nat
  PROVE  ReserveAndStore(x, a, n) \in LooseWriter
<1> DEFINE c == Cursor(x)
           aligned == DataAlign(c, a)
           end == Plus(aligned, n)
           m == MoveTo(x, end)
           S == x.stored \cup (c .. ((IF x.fixed THEN aligned ELSE end) - 1))
           r == [m EXCEPT !.stored = S]
<1>1. c \in Int /\ aligned \in Int
  <2>1. c \in Int
    BY LooseCalls
  <2>2. c - HeaderSize \in Int /\ HeaderSize \in Int
    BY <2>1 DEF HeaderSize
  <2> HIDE DEF c
  <2>3. QED
    BY <2>1, <2>2, AlignToBounds DEF DataAlign, HeaderSize
<1>2. end \in Int
  <2> HIDE DEF c, aligned
  <2>1. QED
    BY <1>1, SizeMaxAssumption DEF Plus
<1>3. S \in SUBSET Int
  <2> HIDE DEF c, aligned, end
  <2>1. QED
    BY <1>1, <1>2 DEF LooseWriter
<1>4. m.stored = x.stored
  BY DEF MoveTo, LooseWriter
<1>5. r \in LooseWriter
  <2>1. m \in LooseWriter
    BY <1>2, LooseMove
  <2> HIDE DEF m, S
  <2>2. QED
    BY <1>3, <2>1, LooseStored
<1>6. AlignAndReserve(x, a, n) \in {x, Fail(x), r}
  BY <1>4 DEF AlignAndReserve
<1>7. Fail(x) \in LooseWriter
  BY LooseCalls
<1>8. AlignAndReserve(x, a, n) \in LooseWriter
  <2> HIDE DEF r
  <2>1. QED
    BY <1>5, <1>6, <1>7
<1>9. QED
  BY <1>8, LooseStore DEF ReserveAndStore

LEMMA LoosePrefix ==
  ASSUME NEW x \in LooseWriter
  PROVE  ReserveAndStore(EnsureHeaderWritten(x), PrefixSize, PrefixSize) \in LooseWriter
<1>1. PrefixSize \in PrimitiveSizes /\ PrefixSize \in Nat
  BY DEF PrefixSize, PrimitiveSizes
<1>2. QED
  BY <1>1, LooseHeader, LooseReserve

LEMMA LooseWrites ==
  ASSUME NEW x \in LooseWriter, NEW s \in PrimitiveSizes, NEW n \in Nat
  PROVE  /\ WritePrimitive(x, s) \in LooseWriter
         /\ WriteString(x, n) \in LooseWriter
         /\ WriteWString(x, n) \in LooseWriter
         /\ BeginWriteSequence(x) \in LooseWriter
         /\ WriteArray(x, s, n) \in LooseWriter
         /\ WriteSequence(x, s, n) \in LooseWriter
<1> DEFINE p == ReserveAndStore(EnsureHeaderWritten(x), PrefixSize, PrefixSize)
<1>1. p \in LooseWriter /\ Cursor(p) \in Int /\ p.cap \in Nat
  <2>1. p \in LooseWriter
    BY LoosePrefix
  <2> HIDE DEF p
  <2>2. QED
    BY <2>1, LooseCalls DEF LooseWriter
<1>2. WritePrimitive(x, s) \in LooseWriter
  BY LooseHeader, LooseReserve, SizesArePositive DEF WritePrimitive
<1>3. WriteString(x, n) \in LooseWriter
  <2> DEFINE end == Cursor(p) + n + 1
  <2> HIDE DEF p
  <2>1. end \in Int
    BY <1>1
  <2> HIDE DEF end
  <2>2. MoveTo(p, end) \in LooseWriter /\ Fail(p) \in LooseWriter
    BY <1>1, <2>1, LooseMove, LooseCalls
  <2>3. StoreLast(MoveTo(p, end), n + 1) \in LooseWriter
    BY <2>2, LooseStore
  <2>4. QED
    BY <1>1, <2>2, <2>3 DEF WriteString, p, end
<1>4. WriteWString(x, n) \in LooseWriter
  <2> DEFINE k == UnitsThatFit(p, n + 1)
             y == StoreLast(MoveTo(p, Cursor(p) + 2 * k), 2 * k)
  <2> HIDE DEF p
  <2>1. k \in Int
    BY <1>1 DEF UnitsThatFit
  <2> HIDE DEF k
  <2>2. MoveTo(p, Cursor(p) + 2 * k) \in LooseWriter
    BY <1>1, <2>1, LooseMove, LooseCalls
  <2>3. y \in LooseWriter
    BY <2>1, <2>2, LooseStore
  <2> HIDE DEF y
  <2>4. [y EXCEPT !.overflow = k < n + 1] \in LooseWriter
    <3> DEFINE less == k < n + 1
    <3>1. less \in BOOLEAN
      BY <2>1
    <3> HIDE DEF less
    <3>2. [y EXCEPT !.overflow = less] \in LooseWriter
      BY <2>3, <3>1 DEF LooseWriter
    <3>3. QED
      BY <3>2 DEF less
  <2>5. QED
    BY <1>1, <2>4 DEF WriteWString, p, k, y
<1>5. BeginWriteSequence(x) \in LooseWriter
  BY <1>1, LooseCalls DEF BeginWriteSequence
<1>6. \A y \in LooseWriter : EndWrite(WritePodSpan(y, s, n)) \in LooseWriter
  <2> TAKE y \in LooseWriter
  <2>1. s * n \in Nat
    BY ProductIsNat
  <2>2. WritePodSpan(y, s, n) \in LooseWriter
    BY <2>1, LooseHeader, LooseReserve DEF WritePodSpan
  <2>3. QED
    BY <2>2, LooseCalls
<1>7. BeginWriteArray(x) \in LooseWriter
  BY LooseHeader, LooseCalls DEF BeginWriteArray
<1>8. QED
  BY <1>2, <1>3, <1>4, <1>5, <1>6, <1>7 DEF WriteArray, WriteSequence

LEMMA WiresGrow ==
  ASSUME NEW wire \in Wires, NEW at \in Int, NEW n \in Nat
  PROVE  [p \in DOMAIN wire \cup {at} |-> IF p = at THEN n ELSE wire[p]] \in Wires
<1>1. PICK D \in SUBSET Int : wire \in [D -> Nat]
  BY DEF Wires
<1>2. [p \in DOMAIN wire \cup {at} |-> IF p = at THEN n ELSE wire[p]] \in [D \cup {at} -> Nat]
  BY <1>1
<1>3. D \cup {at} \in SUBSET Int
  BY <1>1
<1>4. QED
  BY <1>2, <1>3 DEF Wires

LEMMA LooseDataFrom ==
  ASSUME NEW x \in LooseWriter, NEW a \in PrimitiveSizes
  PROVE  DataFrom(x, a) \in Int
<1>1. Cursor(EnsureHeaderWritten(x)) \in Int
  BY LooseHeader, LooseCalls
<1>2. QED
  BY <1>1, AlignToBounds DEF DataFrom, DataAlign, HeaderSize

\* What a prefix holds, and what fits it is held unchanged.
LEMMA LengthsStored ==
  ASSUME NEW n \in Nat
  PROVE  /\ AsUint32(n) \in Nat
         /\ n <= NumberMax => AsUint32(n) = n
<1> DEFINE d == NumberMax + 1
<1>1. d \in Nat /\ d > 0 /\ (n <= NumberMax => n < d)
  BY NumberAssumption
<1>2. AsUint32(n) = n % d
  BY DEF AsUint32
<1> HIDE DEF d
<1>3. n % d \in Nat
  BY <1>1
<1>4. n < d => n % d = n
  BY <1>1
<1>5. QED
  BY <1>1, <1>2, <1>3, <1>4

LEMMA SerializedSteps ==
  ASSUME NEW s \in Serialized, NEW y \in LooseWriter, NEW a \in PrimitiveSizes, NEW n \in Nat
  PROVE  /\ Prefixed(s, y, n) \in Serialized
         /\ Unprefixed(s, y, a) \in Serialized
         /\ [s EXCEPT !.w = y] \in Serialized
<1>1. PrefixSize \in PrimitiveSizes
  BY DEF PrefixSize, PrimitiveSizes
<1>2. s.w \in LooseWriter /\ s.at \in Seq(Int) /\ s.wire \in Wires
  BY DEF Serialized
<1>3. DataFrom(s.w, PrefixSize) \in Int /\ DataFrom(s.w, a) \in Int
  BY <1>1, <1>2, LooseDataFrom
<1>4. [p \in DOMAIN s.wire \cup {DataFrom(s.w, PrefixSize)} |->
        IF p = DataFrom(s.w, PrefixSize) THEN AsUint32(n) ELSE s.wire[p]] \in Wires
  BY <1>2, <1>3, LengthsStored, WiresGrow
<1>5. \A d \in Int : Append(s.at, d) \in Seq(Int)
  BY <1>2
<1>6. QED
  BY <1>3, <1>4, <1>5 DEF Prefixed, Unprefixed, Serialized

\* What the members of each kind have.
LEMMA LeafFields ==
  ASSUME NEW m \in LeafType
  PROVE  /\ m.kind \in {"primitive", "string", "wstring", "array", "sequence", "bools", "strings"}
         /\ m.kind = "primitive" => m.size \in PrimitiveSizes
         /\ m.kind \in {"string", "wstring"} => m.chars \in Nat
         /\ m.kind = "array" => m.size \in PrimitiveSizes /\ m.count \in Nat /\ m.count # 0
         /\ m.kind = "sequence" => m.size \in PrimitiveSizes /\ m.count \in Nat
         /\ m.kind = "bools" => m.size = 1 /\ m.count \in Nat
         /\ m.kind = "strings" => m.count \in Nat /\ m.chars \in Nat
<1>1. CASE m \in [kind : {"primitive"}, size : PrimitiveSizes]
  BY <1>1
<1>2. CASE m \in [kind : {"string", "wstring"}, chars : Nat]
  BY <1>2
<1>3. CASE m \in [kind : {"array"}, size : PrimitiveSizes, count : Nat \ {0}]
  BY <1>3
<1>4. CASE m \in [kind : {"sequence"}, size : PrimitiveSizes, count : Nat]
  BY <1>4
<1>5. CASE m \in [kind : {"bools"}, size : {1}, count : Nat]
  BY <1>5
<1>6. CASE m \in [kind : {"strings"}, count : Nat, chars : Nat]
  BY <1>6
<1>7. QED
  BY <1>1, <1>2, <1>3, <1>4, <1>5, <1>6 DEF LeafType

LEMMA MemberFields ==
  ASSUME NEW m \in MemberType
  PROVE  \/ m \in LeafType /\ m.kind \notin {"nested", "nestedSequence"}
         \/ m.kind = "nested" /\ m.fields \in Seq(LeafType) /\ m.fields # <<>>
         \/ /\ m.kind = "nestedSequence" /\ m.count \in Nat
            /\ m.fields \in Seq(LeafType) /\ m.fields # <<>>
<1>1. CASE m \in LeafType
  BY <1>1, LeafFields
<1>2. CASE m \in [kind : {"nested"}, fields : Seq(LeafType) \ {<<>>}]
  BY <1>2
<1>3. CASE m \in [kind : {"nestedSequence"}, count : Nat, fields : Seq(LeafType) \ {<<>>}]
  BY <1>3
<1>4. QED
  BY <1>1, <1>2, <1>3 DEF MemberType

LEMMA FlagsStay == FlagsStays(LooseWriter)
<1> SUFFICES ASSUME NEW x \in LooseWriter PROVE WritePrimitive(x, 1) \in LooseWriter
  BY DEF FlagsStays
<1>1. 1 \in PrimitiveSizes
  BY DEF PrimitiveSizes
<1>2. QED
  BY <1>1, LooseWrites

LEMMA FlagsSerialized ==
  ASSUME NEW b \in LooseWriter, NEW m, m.count \in Nat
  PROVE  WriteFlags(b, m) \in LooseWriter
<1>1. FlagsStays(LooseWriter)
  BY FlagsStay
<1>2. PICK g : FlagsSteps(g, LooseWriter, b, m)
  BY <1>1, FlagsTrace
<1>3. g[m.count] \in LooseWriter /\ WriteFlags(b, m) = EndWrite(g[m.count])
  BY <1>2 DEF FlagsSteps
<1>4. QED
  BY <1>3, LooseCalls

LEMMA StringsStay ==
  ASSUME NEW m, m.chars \in Nat
  PROVE  StringsStays(Serialized, m)
<1> SUFFICES ASSUME NEW x \in Serialized
             PROVE  Prefixed(x, WriteString(x.w, m.chars), m.chars + 1) \in Serialized
  BY DEF StringsStays
<1>1. x.w \in LooseWriter /\ 1 \in PrimitiveSizes
  BY DEF Serialized, PrimitiveSizes
<1>2. WriteString(x.w, m.chars) \in LooseWriter
  BY <1>1, LooseWrites
<1>3. m.chars + 1 \in Nat
  OBVIOUS
<1>4. QED
  BY <1>1, <1>2, <1>3, SerializedSteps

LEMMA StringsSerialized ==
  ASSUME NEW b \in Serialized, NEW m, m.count \in Nat, m.chars \in Nat
  PROVE  WriteStrings(b, m) \in Serialized
<1>1. StringsStays(Serialized, m)
  BY StringsStay
<1>2. PICK g : StringsSteps(g, Serialized, b, m)
  BY <1>1, StringsTrace
<1>3. /\ g[m.count] \in Serialized /\ g[m.count].w \in LooseWriter /\ 1 \in PrimitiveSizes
      /\ WriteStrings(b, m) = [g[m.count] EXCEPT !.w = EndWrite(@)]
  BY <1>2 DEF StringsSteps, Serialized, PrimitiveSizes
<1>4. EndWrite(g[m.count].w) \in LooseWriter
  BY <1>3, LooseCalls
<1>5. QED
  BY <1>3, <1>4, SerializedSteps

LEMMA LeafSerialized ==
  ASSUME NEW s \in Serialized, NEW m \in LeafType
  PROVE  WriteLeaf(s, m) \in Serialized
<1>1. s.w \in LooseWriter /\ 1 \in PrimitiveSizes
  BY DEF Serialized, PrimitiveSizes
<1>2. CASE m.kind = "primitive"
  <2>1. m.size \in PrimitiveSizes /\ WritePrimitive(s.w, m.size) \in LooseWriter
    BY <1>1, <1>2, LeafFields, LooseWrites
  <2>2. WriteLeaf(s, m) = Unprefixed(s, WritePrimitive(s.w, m.size), m.size)
    BY <1>2 DEF WriteLeaf
  <2>3. QED
    BY <2>1, <2>2, SerializedSteps
<1>3. CASE m.kind = "array"
  <2>1. m.size \in PrimitiveSizes /\ WriteArray(s.w, m.size, m.count) \in LooseWriter
    BY <1>1, <1>3, LeafFields, LooseWrites
  <2>2. WriteLeaf(s, m) = Unprefixed(s, WriteArray(s.w, m.size, m.count), m.size)
    BY <1>3 DEF WriteLeaf
  <2>3. QED
    BY <2>1, <2>2, SerializedSteps
<1>4. CASE m.kind = "string"
  <2>1. m.chars + 1 \in Nat /\ WriteString(s.w, m.chars) \in LooseWriter
    BY <1>1, <1>4, LeafFields, LooseWrites
  <2>2. WriteLeaf(s, m) = Prefixed(s, WriteString(s.w, m.chars), m.chars + 1)
    BY <1>4 DEF WriteLeaf
  <2>3. QED
    BY <1>1, <2>1, <2>2, SerializedSteps
<1>5. CASE m.kind = "wstring"
  <2>1. m.chars \in Nat /\ WriteWString(s.w, m.chars) \in LooseWriter
    BY <1>1, <1>5, LeafFields, LooseWrites
  <2>2. 2 * (m.chars + 1) \in Nat
    BY <2>1
  <2>3. WriteLeaf(s, m) = Prefixed(s, WriteWString(s.w, m.chars), 2 * (m.chars + 1))
    BY <1>5 DEF WriteLeaf
  <2>4. QED
    BY <1>1, <2>1, <2>2, <2>3, SerializedSteps
<1>6. CASE m.kind = "sequence"
  <2>1. m.count \in Nat /\ WriteSequence(s.w, m.size, m.count) \in LooseWriter
    BY <1>1, <1>6, LeafFields, LooseWrites
  <2>2. WriteLeaf(s, m) = Prefixed(s, WriteSequence(s.w, m.size, m.count), m.count)
    BY <1>6 DEF WriteLeaf
  <2>3. QED
    BY <1>1, <2>1, <2>2, SerializedSteps
<1>7. CASE m.kind = "bools"
  <2>1. m.count \in Nat /\ BeginWriteSequence(s.w) \in LooseWriter
    BY <1>1, <1>7, LeafFields, LooseWrites
  <2>2. WriteFlags(BeginWriteSequence(s.w), m) \in LooseWriter
    BY <2>1, FlagsSerialized
  <2>3. WriteLeaf(s, m) = Prefixed(s, WriteFlags(BeginWriteSequence(s.w), m), m.count)
    BY <1>7 DEF WriteLeaf
  <2>4. QED
    BY <1>1, <2>1, <2>2, <2>3, SerializedSteps
<1>8. CASE m.kind = "strings"
  <2>1. m.count \in Nat /\ m.chars \in Nat /\ BeginWriteSequence(s.w) \in LooseWriter
    BY <1>1, <1>8, LeafFields, LooseWrites
  <2>2. Prefixed(s, BeginWriteSequence(s.w), m.count) \in Serialized
    BY <1>1, <2>1, SerializedSteps
  <2>3. WriteLeaf(s, m) = WriteStrings(Prefixed(s, BeginWriteSequence(s.w), m.count), m)
    BY <1>8 DEF WriteLeaf
  <2>4. QED
    BY <2>1, <2>2, <2>3, StringsSerialized
<1>9. QED
  BY <1>2, <1>3, <1>4, <1>5, <1>6, <1>7, <1>8, LeafFields

LEMMA NestedSerialized ==
  ASSUME NEW s \in Serialized, NEW m, m.fields \in Seq(LeafType)
  PROVE  WriteNested(s, m) \in Serialized
<1>1. NestedStays(Serialized, m)
  <2>1. \A k \in 1 .. Len(m.fields) : m.fields[k] \in LeafType
    OBVIOUS
  <2>2. QED
    BY <2>1, LeafSerialized DEF NestedStays
<1>2. PICK g : NestedSteps(g, Serialized, s, m)
  BY <1>1, NestedTrace
<1>3. Len(m.fields) \in Nat
  OBVIOUS
<1>4. QED
  BY <1>2, <1>3 DEF NestedSteps

LEMMA NestedElementsSerialized ==
  ASSUME NEW b \in Serialized, NEW m, m.count \in Nat, m.fields \in Seq(LeafType)
  PROVE  WriteNestedElements(b, m) \in Serialized
<1>1. NestedElementsStays(Serialized, m)
  BY NestedSerialized DEF NestedElementsStays
<1>2. PICK g : NestedElementsSteps(g, Serialized, b, m)
  BY <1>1, NestedElementsTrace
<1>3. /\ g[m.count] \in Serialized /\ g[m.count].w \in LooseWriter /\ 1 \in PrimitiveSizes
      /\ WriteNestedElements(b, m) = [g[m.count] EXCEPT !.w = EndWrite(@)]
  BY <1>2 DEF NestedElementsSteps, Serialized, PrimitiveSizes
<1>4. EndWrite(g[m.count].w) \in LooseWriter
  BY <1>3, LooseCalls
<1>5. QED
  BY <1>3, <1>4, SerializedSteps

LEMMA MemberSerialized ==
  ASSUME NEW s \in Serialized, NEW m \in MemberType
  PROVE  WriteMember(s, m) \in Serialized
<1>1. CASE m \in LeafType /\ m.kind \notin {"nested", "nestedSequence"}
  BY <1>1, LeafSerialized DEF WriteMember
<1>2. CASE m.kind = "nested" /\ m.fields \in Seq(LeafType)
  BY <1>2, NestedSerialized DEF WriteMember
<1>3. CASE m.kind = "nestedSequence" /\ m.count \in Nat /\ m.fields \in Seq(LeafType)
  <2> DEFINE b == Prefixed(s, BeginWriteSequence(s.w), m.count)
  <2>1. s.w \in LooseWriter /\ 1 \in PrimitiveSizes
    BY DEF Serialized, PrimitiveSizes
  <2>2. BeginWriteSequence(s.w) \in LooseWriter
    BY <1>3, <2>1, LooseWrites
  <2>3. b \in Serialized
    BY <1>3, <2>1, <2>2, SerializedSteps
  <2>4. WriteMember(s, m) = WriteNestedElements(b, m)
    BY <1>3 DEF WriteMember
  <2>5. QED
    BY <1>3, <2>3, <2>4, NestedElementsSerialized
<1>4. QED
  BY <1>1, <1>2, <1>3, MemberFields

LEMMA MessageSerialized ==
  ASSUME NEW msg \in Seq(MemberType), NEW c \in Nat
  PROVE  SerializeInto(msg, c) \in Serialized
<1> DEFINE b == [w |-> FixedSpan(c), at |-> <<>>, wire |-> <<>>]
<1>1. b \in Serialized
  <2>1. FixedSpan(c) \in LooseWriter
    <3>1. FixedSpan(c) \in WriterType
      BY SpanValid DEF Valid
    <3>2. QED
      BY <3>1 DEF WriterType, LooseWriter
  <2>2. <<>> \in Seq(Int) /\ <<>> \in [{} -> Nat]
    OBVIOUS
  <2>3. <<>> \in Wires
    BY <2>2 DEF Wires
  <2>4. QED
    BY <2>1, <2>2, <2>3 DEF Serialized
<1>2. SerializeStays(Serialized, msg)
  <2>1. \A k \in 1 .. Len(msg) : msg[k] \in MemberType
    OBVIOUS
  <2>2. QED
    BY <2>1, MemberSerialized DEF SerializeStays
<1> HIDE DEF b
<1>3. PICK g : SerializeSteps(g, Serialized, b, msg, c)
  BY <1>1, <1>2, SerializeTrace DEF b
<1>4. Len(msg) \in Nat
  OBVIOUS
<1>5. QED
  BY <1>3, <1>4 DEF SerializeSteps

--------------------------------------------------------------------------------
(***************************************************************************)
(* What is read, whatever the prefixes hold: the reader stays in a buffer  *)
(* of n bytes.                                                             *)
(***************************************************************************)
InBuffer(n) == {r \in ReaderType : r.size = n /\ r.pos <= n}

Arrived(n) == [r : InBuffer(n), ok : BOOLEAN, at : Seq(Nat)]

LEMMA InBufferCalls ==
  ASSUME NEW n \in Nat, NEW r \in InBuffer(n)
  PROVE  /\ Refuse(r) \in InBuffer(n)
         /\ PushRead(r) \in InBuffer(n)
         /\ EndRead(r) \in InBuffer(n)
         /\ r.ok \in BOOLEAN /\ r.pos \in Nat /\ r.got \in Nat
<1>1. r \in ReaderType /\ r.size = n /\ r.pos <= n
  BY DEF InBuffer
<1>2. Refuse(r) \in InBuffer(n)
  BY <1>1 DEF Refuse, InBuffer, ReaderType
<1>3. PushRead(r) \in InBuffer(n)
  BY <1>1 DEF PushRead, InBuffer, ReaderType
<1>4. CASE r.ok /\ r.depth # 0
  <2>1. [r EXCEPT !.depth = @ - 1] \in InBuffer(n)
    BY <1>1, <1>4 DEF InBuffer, ReaderType
  <2>2. QED
    BY <1>1, <1>2, <1>3, <1>4, <2>1 DEF EndRead, ReaderType
<1>5. CASE ~(r.ok /\ r.depth # 0)
  BY <1>1, <1>2, <1>3, <1>5 DEF EndRead, InBuffer, ReaderType
<1>6. QED
  BY <1>4, <1>5

LEMMA InBufferMoves ==
  ASSUME NEW n \in Nat, NEW r \in InBuffer(n), NEW a \in PrimitiveSizes, NEW k \in Nat
  PROVE  AlignPosition(r, a) \in InBuffer(n) /\ Take(r, k) \in InBuffer(n)
<1>1. r \in ReaderType /\ r.size = n /\ r.pos <= n /\ r.pos \in Nat
  BY DEF InBuffer, ReaderType
<1>2. \A p \in Nat : p <= n => [r EXCEPT !.pos = p] \in InBuffer(n)
  BY <1>1 DEF InBuffer, ReaderType
<1>3. Refuse(r) \in InBuffer(n)
  BY InBufferCalls
<1>4. AlignPosition(r, a) \in InBuffer(n)
  <2>1. DataAlign(r.pos, a) \in Nat
    BY <1>1, DataAlignBounds
  <2>2. QED
    BY <1>1, <1>2, <1>3, <2>1 DEF AlignPosition
<1>5. Take(r, k) \in InBuffer(n)
  <2>1. r.pos + k \in Nat
    BY <1>1
  <2>2. QED
    BY <1>1, <1>2, <1>3, <2>1 DEF Take
<1>6. QED
  BY <1>4, <1>5

LEMMA NumberIsNat ==
  ASSUME NEW wire \in Wires, NEW noise \in Nat, NEW at
  PROVE  NumberAt(wire, noise, at) \in Nat
<1>1. PICK D \in SUBSET Int : wire \in [D -> Nat]
  BY DEF Wires
<1>2. QED
  BY <1>1 DEF NumberAt

LEMMA InBufferPrefix ==
  ASSUME NEW n \in Nat, NEW r \in InBuffer(n), NEW wire \in Wires, NEW noise \in Nat
  PROVE  ReadPrefix(r, wire, noise) \in InBuffer(n)
<1> DEFINE a == AlignPosition(r, PrefixSize)
           t == Take(a, PrefixSize)
           m == NumberAt(wire, noise, a.pos)
<1>1. PrefixSize \in PrimitiveSizes /\ PrefixSize \in Nat
  BY DEF PrefixSize, PrimitiveSizes
<1>2. t \in InBuffer(n)
  <2>1. a \in InBuffer(n)
    BY <1>1, InBufferMoves
  <2> HIDE DEF a
  <2>2. QED
    BY <1>1, <2>1, InBufferMoves
<1>3. m \in Nat
  BY NumberIsNat
<1> HIDE DEF a, t, m
<1>4. [t EXCEPT !.got = m] \in InBuffer(n)
  BY <1>2, <1>3 DEF InBuffer, ReaderType
<1>5. QED
  BY <1>2, <1>4 DEF ReadPrefix, a, t, m

LEMMA InBufferBulk ==
  ASSUME NEW n \in Nat, NEW r \in InBuffer(n), NEW s \in PrimitiveSizes, NEW k \in Nat
  PROVE  /\ ReadPrimitive(r, s) \in InBuffer(n)
         /\ ReadBulk(r, s, k) \in InBuffer(n)
<1>1. AlignPosition(r, s) \in InBuffer(n) /\ s \in Nat /\ s * k \in Nat
  BY InBufferMoves, SizesArePositive, ProductIsNat
<1>2. Take(AlignPosition(r, s), s) \in InBuffer(n) /\ Take(AlignPosition(r, s), s * k) \in InBuffer(n)
  BY <1>1, InBufferMoves
<1>3. EndRead(Take(AlignPosition(r, s), s * k)) \in InBuffer(n) /\ Refuse(r) \in InBuffer(n)
  BY <1>2, InBufferCalls
<1>4. QED
  BY <1>2, <1>3 DEF ReadPrimitive, ReadBulk

LEMMA InBufferReads ==
  ASSUME NEW n \in Nat, NEW r \in InBuffer(n), NEW wire \in Wires, NEW noise \in Nat
  PROVE  /\ ReadString(r, wire, noise) \in InBuffer(n)
         /\ ReadWString(r, wire, noise) \in InBuffer(n)
         /\ BeginReadSequence(r, wire, noise) \in InBuffer(n)
<1> DEFINE p == ReadPrefix(r, wire, noise)
<1>1. p \in InBuffer(n)
  BY InBufferPrefix
<1>2. 1 \in PrimitiveSizes /\ p.got \in Nat
  <2> HIDE DEF p
  <2>1. QED
    BY <1>1, InBufferCalls DEF PrimitiveSizes
<1>3. Take(p, p.got) \in InBuffer(n) /\ Refuse(p) \in InBuffer(n) /\ PushRead(p) \in InBuffer(n)
  <2> HIDE DEF p
  <2>1. QED
    BY <1>1, <1>2, InBufferMoves, InBufferCalls
<1> HIDE DEF p
<1>4. QED
  BY <1>1, <1>3 DEF ReadString, ReadWString, BeginReadSequence, p

LEMMA InBufferSpans ==
  ASSUME NEW n \in Nat, NEW r \in InBuffer(n), NEW s \in PrimitiveSizes, NEW k \in Nat,
         NEW wire \in Wires, NEW noise \in Nat
  PROVE  /\ ReadFixedSpan(r, s, k) \in InBuffer(n)
         /\ ReadSpan(r, s, wire, noise) \in InBuffer(n)
<1>1. BeginReadArray(r) \in InBuffer(n)
  BY InBufferCalls DEF BeginReadArray
<1>2. ReadFixedSpan(r, s, k) \in InBuffer(n)
  BY <1>1, InBufferBulk DEF ReadFixedSpan
<1> DEFINE b == BeginReadSequence(r, wire, noise)
<1>3. b \in InBuffer(n)
  BY InBufferReads
<1> HIDE DEF b
<1>4. b.got \in Nat
  BY <1>3, InBufferCalls
<1>5. ReadBulk(b, s, b.got) \in InBuffer(n)
  BY <1>3, <1>4, InBufferBulk
<1>6. QED
  BY <1>2, <1>5 DEF ReadSpan, b

LEMMA InBufferFlags ==
  ASSUME NEW n \in Nat, NEW b \in InBuffer(n)
  PROVE  ReadFlags(b) \in InBuffer(n)
<1>1. ReadFlagsStays(InBuffer(n))
  <2> SUFFICES ASSUME NEW x \in InBuffer(n) PROVE ReadPrimitive(x, 1) \in InBuffer(n)
    BY DEF ReadFlagsStays
  <2>1. 1 \in PrimitiveSizes
    BY DEF PrimitiveSizes
  <2>2. QED
    BY <2>1, InBufferBulk
<1>2. b.got \in Nat
  BY InBufferCalls
<1>3. PICK g : ReadFlagsSteps(g, InBuffer(n), b)
  BY <1>1, <1>2, ReadFlagsTrace
<1>4. g[b.got] \in InBuffer(n) /\ ReadFlags(b) = EndRead(g[b.got])
  BY <1>2, <1>3 DEF ReadFlagsSteps
<1>5. QED
  BY <1>4, InBufferCalls

--------------------------------------------------------------------------------
(* The fields of a message. *)

LEMMA ValueArrived ==
  ASSUME NEW n \in Nat, NEW d \in Arrived(n), NEW y \in InBuffer(n), NEW a \in PrimitiveSizes
  PROVE  ReadValue(d, y, a) \in Arrived(n)
<1>1. d.r \in InBuffer(n) /\ d.ok \in BOOLEAN /\ d.at \in Seq(Nat)
  BY DEF Arrived
<1>2. d.r.pos \in Nat /\ y.ok \in BOOLEAN
  BY <1>1, InBufferCalls
<1>3. DataAlign(d.r.pos, a) \in Nat
  BY <1>2, DataAlignBounds
<1>4. Append(d.at, DataAlign(d.r.pos, a)) \in Seq(Nat)
  BY <1>1, <1>3
<1>5. QED
  BY <1>1, <1>2, <1>4 DEF ReadValue, Arrived

LEMMA ClosedArrived ==
  ASSUME NEW n \in Nat, NEW d \in Arrived(n)
  PROVE  Closed(d) \in Arrived(n) /\ Ignoring(d) \in Arrived(n)
<1>1. d.r \in InBuffer(n)
  BY DEF Arrived
<1>2. EndRead(d.r) \in InBuffer(n)
  BY <1>1, InBufferCalls
<1>3. [d.r EXCEPT !.ok = TRUE] \in InBuffer(n)
  BY <1>1 DEF InBuffer, ReaderType
<1>4. Closed(d) \in Arrived(n)
  BY <1>2 DEF Closed, Arrived
<1>5. Ignoring(d) = [[d EXCEPT !.ok = TRUE] EXCEPT !.r = [d.r EXCEPT !.ok = TRUE]]
  BY DEF Ignoring, Arrived
<1>6. QED
  BY <1>3, <1>4, <1>5 DEF Arrived

LEMMA StringsArrived ==
  ASSUME NEW n \in Nat, NEW b \in Arrived(n), NEW wire \in Wires, NEW noise \in Nat, NEW m
  PROVE  ReadStrings(b, m, wire, noise) \in Arrived(n)
<1>1. ReadStringsStays(Arrived(n), wire, noise)
  <2> SUFFICES ASSUME NEW x \in Arrived(n)
               PROVE  ReadValue(x, ReadString(x.r, wire, noise), PrefixSize) \in Arrived(n)
    BY DEF ReadStringsStays
  <2>1. x.r \in InBuffer(n) /\ PrefixSize \in PrimitiveSizes
    BY DEF Arrived, PrefixSize, PrimitiveSizes
  <2>2. ReadString(x.r, wire, noise) \in InBuffer(n)
    BY <2>1, InBufferReads
  <2>3. QED
    BY <2>1, <2>2, ValueArrived
<1>2. b.r \in InBuffer(n)
  BY DEF Arrived
<1>3. b.r.got \in Nat
  BY <1>2, InBufferCalls
<1>4. PICK g : ReadStringsSteps(g, Arrived(n), b, m, wire, noise)
  BY <1>1, <1>3, ReadStringsTrace
<1>5. g[b.r.got] \in Arrived(n) /\ ReadStrings(b, m, wire, noise) = Closed(g[b.r.got])
  BY <1>3, <1>4 DEF ReadStringsSteps
<1>6. QED
  BY <1>5, ClosedArrived

LEMMA LeafArrived ==
  ASSUME NEW n \in Nat, NEW d \in Arrived(n), NEW m \in LeafType,
         NEW wire \in Wires, NEW noise \in Nat
  PROVE  ReadLeaf(d, m, wire, noise) \in Arrived(n)
<1>1. d.r \in InBuffer(n) /\ PrefixSize \in PrimitiveSizes
  BY DEF Arrived, PrefixSize, PrimitiveSizes
<1>2. CASE m.kind = "primitive"
  <2>1. m.size \in PrimitiveSizes /\ 0 \in Nat
    BY <1>2, LeafFields
  <2>2. ReadPrimitive(d.r, m.size) \in InBuffer(n)
    BY <1>1, <2>1, InBufferBulk
  <2>3. ReadLeaf(d, m, wire, noise) = ReadValue(d, ReadPrimitive(d.r, m.size), m.size)
    BY <1>2 DEF ReadLeaf
  <2>4. QED
    BY <2>1, <2>2, <2>3, ValueArrived
<1>3. CASE m.kind = "array"
  <2>1. m.size \in PrimitiveSizes /\ m.count \in Nat
    BY <1>3, LeafFields
  <2>2. ReadFixedSpan(d.r, m.size, m.count) \in InBuffer(n)
    BY <1>1, <2>1, InBufferSpans
  <2>3. ReadLeaf(d, m, wire, noise) = ReadValue(d, ReadFixedSpan(d.r, m.size, m.count), m.size)
    BY <1>3 DEF ReadLeaf
  <2>4. QED
    BY <2>1, <2>2, <2>3, ValueArrived
<1>4. CASE m.kind = "string"
  <2>1. ReadLeaf(d, m, wire, noise) = ReadValue(d, ReadString(d.r, wire, noise), PrefixSize)
    BY <1>4 DEF ReadLeaf
  <2>2. QED
    BY <1>1, <2>1, InBufferReads, ValueArrived
<1>5. CASE m.kind = "wstring"
  <2>1. ReadLeaf(d, m, wire, noise) = ReadValue(d, ReadWString(d.r, wire, noise), PrefixSize)
    BY <1>5 DEF ReadLeaf
  <2>2. QED
    BY <1>1, <2>1, InBufferReads, ValueArrived
<1>6. CASE m.kind = "sequence"
  <2>1. m.size \in PrimitiveSizes /\ m.count \in Nat
    BY <1>6, LeafFields
  <2>2. ReadSpan(d.r, m.size, wire, noise) \in InBuffer(n)
    BY <1>1, <2>1, InBufferSpans
  <2>3. ReadLeaf(d, m, wire, noise) = ReadValue(d, ReadSpan(d.r, m.size, wire, noise), PrefixSize)
    BY <1>6 DEF ReadLeaf
  <2>4. QED
    BY <1>1, <2>2, <2>3, ValueArrived
<1>7. CASE m.kind = "bools"
  <2>1. ReadFlags(BeginReadSequence(d.r, wire, noise)) \in InBuffer(n)
    BY <1>1, InBufferReads, InBufferFlags
  <2>2. ReadLeaf(d, m, wire, noise)
          = ReadValue(d, ReadFlags(BeginReadSequence(d.r, wire, noise)), PrefixSize)
    BY <1>7 DEF ReadLeaf
  <2>3. QED
    BY <1>1, <2>1, <2>2, ValueArrived
<1>8. CASE m.kind = "strings"
  <2> DEFINE b == ReadValue(d, BeginReadSequence(d.r, wire, noise), PrefixSize)
  <2>1. b \in Arrived(n)
    BY <1>1, InBufferReads, ValueArrived
  <2>2. ReadLeaf(d, m, wire, noise) = ReadStrings(b, m, wire, noise)
    BY <1>8 DEF ReadLeaf
  <2> HIDE DEF b
  <2>3. QED
    BY <2>1, <2>2, StringsArrived
<1>9. QED
  BY <1>2, <1>3, <1>4, <1>5, <1>6, <1>7, <1>8, LeafFields

LEMMA NestedArrived ==
  ASSUME NEW n \in Nat, NEW d \in Arrived(n), NEW m, m.fields \in Seq(LeafType),
         NEW wire \in Wires, NEW noise \in Nat
  PROVE  ReadNested(d, m, wire, noise) \in Arrived(n)
<1>1. ReadNestedStays(Arrived(n), m, wire, noise)
  <2>1. \A k \in 1 .. Len(m.fields) : m.fields[k] \in LeafType
    OBVIOUS
  <2>2. QED
    BY <2>1, LeafArrived DEF ReadNestedStays
<1>2. PICK g : ReadNestedSteps(g, Arrived(n), d, m, wire, noise)
  BY <1>1, ReadNestedTrace
<1>3. Len(m.fields) \in Nat
  OBVIOUS
<1>4. QED
  BY <1>2, <1>3 DEF ReadNestedSteps

LEMMA ElementsArrived ==
  ASSUME NEW n \in Nat, NEW b \in Arrived(n), NEW m, m.fields \in Seq(LeafType),
         NEW wire \in Wires, NEW noise \in Nat
  PROVE  ReadNestedElements(b, m, wire, noise) \in Arrived(n)
<1>1. CASE ~b.ok
  BY <1>1 DEF ReadNestedElements
<1>2. CASE b.ok
  <2>1. ReadElementsStays(Arrived(n), m, wire, noise)
    BY NestedArrived, ClosedArrived DEF ReadElementsStays
  <2>2. b.r \in InBuffer(n)
    BY DEF Arrived
  <2>3. b.r.got \in Nat
    BY <2>2, InBufferCalls
  <2>4. PICK g : ReadElementsSteps(g, Arrived(n), b, m, wire, noise)
    BY <1>2, <2>1, <2>3, ReadElementsTrace
  <2>5. g[b.r.got] \in Arrived(n) /\ ReadNestedElements(b, m, wire, noise) = Closed(g[b.r.got])
    BY <2>3, <2>4 DEF ReadElementsSteps
  <2>6. QED
    BY <2>5, ClosedArrived
<1>3. QED
  BY <1>1, <1>2

LEMMA MemberArrived ==
  ASSUME NEW n \in Nat, NEW d \in Arrived(n), NEW m \in MemberType,
         NEW wire \in Wires, NEW noise \in Nat
  PROVE  ReadMember(d, m, wire, noise) \in Arrived(n)
<1>1. CASE ~d.ok
  BY <1>1 DEF ReadMember
<1>2. CASE d.ok /\ m \in LeafType /\ m.kind \notin {"nested", "nestedSequence"}
  <2>1. ReadMember(d, m, wire, noise) = ReadLeaf(d, m, wire, noise)
    BY <1>2 DEF ReadMember
  <2>2. QED
    BY <1>2, <2>1, LeafArrived
<1>3. CASE d.ok /\ m.kind = "nested" /\ m.fields \in Seq(LeafType)
  <2>1. ReadMember(d, m, wire, noise) = Ignoring(ReadNested(d, m, wire, noise))
    BY <1>3 DEF ReadMember
  <2>2. QED
    BY <1>3, <2>1, NestedArrived, ClosedArrived
<1>4. CASE d.ok /\ m.kind = "nestedSequence" /\ m.fields \in Seq(LeafType)
  <2> DEFINE b == ReadValue(d, BeginReadSequence(d.r, wire, noise), PrefixSize)
  <2>1. d.r \in InBuffer(n) /\ PrefixSize \in PrimitiveSizes
    BY DEF Arrived, PrefixSize, PrimitiveSizes
  <2>2. b \in Arrived(n)
    BY <2>1, InBufferReads, ValueArrived
  <2>3. ReadMember(d, m, wire, noise) = ReadNestedElements(b, m, wire, noise)
    BY <1>4 DEF ReadMember
  <2> HIDE DEF b
  <2>4. QED
    BY <1>4, <2>2, <2>3, ElementsArrived
<1>5. QED
  BY <1>1, <1>2, <1>3, <1>4, MemberFields

LEMMA MessageArrived ==
  ASSUME NEW n \in Nat, NEW msg \in Seq(MemberType), NEW wire \in Wires, NEW noise \in Nat
  PROVE  DeserializeFrom(msg, wire, n, noise) \in Arrived(n)
<1> DEFINE b == [r |-> Wrap(n, TRUE), ok |-> Wrap(n, TRUE).ok, at |-> <<>>]
<1>1. b \in Arrived(n)
  <2>1. Wrap(n, TRUE) \in InBuffer(n)
    BY DEF Wrap, HeaderSize, InBuffer, ReaderType
  <2>2. Wrap(n, TRUE).ok \in BOOLEAN
    BY <2>1, InBufferCalls
  <2>3. <<>> \in Seq(Nat)
    OBVIOUS
  <2>4. QED
    BY <2>1, <2>2, <2>3 DEF Arrived
<1>2. DeserializeStays(Arrived(n), msg, wire, noise)
  <2>1. \A k \in 1 .. Len(msg) : msg[k] \in MemberType
    OBVIOUS
  <2>2. QED
    BY <2>1, MemberArrived DEF DeserializeStays
<1> HIDE DEF b
<1>3. PICK g : DeserializeSteps(g, Arrived(n), b, msg, wire, n, noise)
  BY <1>1, <1>2, DeserializeTrace DEF b
<1>4. Len(msg) \in Nat
  OBVIOUS
<1>5. QED
  BY <1>3, <1>4 DEF DeserializeSteps

--------------------------------------------------------------------------------
(***************************************************************************)
(* get_message_size() is a number for every message.                       *)
(***************************************************************************)
LEMMA AlignToIsNat ==
  ASSUME NEW o \in Nat, NEW a \in PrimitiveSizes
  PROVE  AlignTo(o, a) \in Nat /\ o <= AlignTo(o, a)
<1>1. AlignTo(o, a) \in Int /\ o <= AlignTo(o, a)
  BY AlignToBounds
<1>2. QED
  BY <1>1

LEMMA StringSizeIsNat ==
  ASSUME NEW o \in Nat, NEW n \in Nat
  PROVE  StringSize(o, n) \in Nat /\ o <= StringSize(o, n)
<1>1. AlignTo(o, PrefixSize) \in Nat /\ o <= AlignTo(o, PrefixSize)
  BY AlignToIsNat DEF PrefixSize, PrimitiveSizes
<1>2. QED
  BY <1>1 DEF StringSize, PrefixSize

LEMMA StringsSizeIsNat ==
  ASSUME NEW o \in Nat, NEW m, m.count \in Nat, m.chars \in Nat
  PROVE  StringsSize(o, m) \in Nat
<1> DEFINE b == AlignTo(o, PrefixSize) + PrefixSize
<1>1. b \in Nat
  BY AlignToIsNat DEF PrefixSize, PrimitiveSizes
<1>2. StringsSizeStays(Nat, m)
  BY StringSizeIsNat DEF StringsSizeStays
<1> HIDE DEF b
<1>3. PICK g : StringsSizeSteps(g, Nat, b, m, o)
  BY <1>1, <1>2, StringsSizeTrace DEF b
<1>4. QED
  BY <1>3 DEF StringsSizeSteps

LEMMA LeafSizeIsNat ==
  ASSUME NEW o \in Nat, NEW m \in LeafType
  PROVE  LeafSize(o, m) \in Nat
<1>1. CASE m.kind = "primitive"
  <2>1. m.size \in PrimitiveSizes /\ m.size \in Nat
    BY <1>1, LeafFields, SizesArePositive
  <2>2. AlignTo(o, m.size) + m.size \in Nat
    BY <2>1, AlignToIsNat
  <2>3. QED
    BY <1>1, <2>2 DEF LeafSize
<1>2. CASE m.kind \in {"string", "wstring"}
  <2>1. LeafSize(o, m) = StringSize(o, m.chars) /\ m.chars \in Nat
    BY <1>2, LeafFields DEF LeafSize
  <2>2. QED
    BY <2>1, StringSizeIsNat
<1>3. CASE m.kind = "array"
  <2>1. m.size \in PrimitiveSizes /\ m.count \in Nat
    BY <1>3, LeafFields
  <2>2. AlignTo(o, m.size) \in Nat /\ m.size * m.count \in Nat
    BY <2>1, AlignToIsNat, ProductIsNat
  <2>3. LeafSize(o, m) = AlignTo(o, m.size) + m.size * m.count
    BY <1>3 DEF LeafSize
  <2>4. QED
    BY <2>2, <2>3
<1>4. CASE m.kind \in {"sequence", "bools"}
  <2> DEFINE p == AlignTo(o, PrefixSize) + PrefixSize
  <2>1. m.size \in PrimitiveSizes /\ m.count \in Nat
    BY <1>4, LeafFields DEF PrimitiveSizes
  <2>2. p \in Nat
    BY AlignToIsNat DEF PrefixSize, PrimitiveSizes
  <2>3. AlignTo(p, m.size) \in Nat /\ m.size * m.count \in Nat
    BY <2>1, <2>2, AlignToIsNat, ProductIsNat
  <2>4. LeafSize(o, m) = AlignTo(p, m.size) + m.size * m.count
    BY <1>4 DEF LeafSize
  <2> HIDE DEF p
  <2>5. QED
    BY <2>3, <2>4
<1>5. CASE m.kind = "strings"
  <2>1. m.count \in Nat /\ m.chars \in Nat /\ LeafSize(o, m) = StringsSize(o, m)
    BY <1>5, LeafFields DEF LeafSize
  <2>2. QED
    BY <2>1, StringsSizeIsNat
<1>6. QED
  BY <1>1, <1>2, <1>3, <1>4, <1>5, LeafFields

LEMMA NestedSizeIsNat ==
  ASSUME NEW m, m.fields \in Seq(LeafType)
  PROVE  NestedSize(m) \in Nat
<1>1. NestedSizeStays(Nat, m)
  <2>1. \A k \in 1 .. Len(m.fields) : m.fields[k] \in LeafType
    OBVIOUS
  <2>2. QED
    BY <2>1, LeafSizeIsNat DEF NestedSizeStays
<1>2. PICK g : NestedSizeSteps(g, Nat, 0, m)
  BY <1>1, NestedSizeTrace
<1>3. Len(m.fields) \in Nat
  OBVIOUS
<1>4. QED
  BY <1>2, <1>3 DEF NestedSizeSteps

LEMMA MemberSizeIsNat ==
  ASSUME NEW o \in Nat, NEW m \in MemberType
  PROVE  MemberSize(o, m) \in Nat
<1>1. CASE m \in LeafType /\ m.kind \notin {"nested", "nestedSequence"}
  BY <1>1, LeafSizeIsNat DEF MemberSize
<1>2. CASE m.kind = "nested" /\ m.fields \in Seq(LeafType)
  <2>1. NestedSize(m) \in Nat /\ MemberSize(o, m) = o + NestedSize(m)
    BY <1>2, NestedSizeIsNat DEF MemberSize
  <2>2. QED
    BY <2>1
<1>3. CASE m.kind = "nestedSequence" /\ m.count \in Nat /\ m.fields \in Seq(LeafType)
  <2>1. NestedSize(m) \in Nat /\ AlignTo(o, PrefixSize) \in Nat
    BY <1>3, NestedSizeIsNat, AlignToIsNat DEF PrefixSize, PrimitiveSizes
  <2>2. MemberSize(o, m) = AlignTo(o, PrefixSize) + PrefixSize + m.count * NestedSize(m)
    BY <1>3 DEF MemberSize
  <2>3. m.count * NestedSize(m) \in Nat
    BY <1>3, <2>1
  <2>4. QED
    BY <2>1, <2>2, <2>3 DEF PrefixSize
<1>4. QED
  BY <1>1, <1>2, <1>3, MemberFields

LEMMA SizeIsNat ==
  ASSUME NEW msg \in Seq(MemberType)
  PROVE  ComputeSerializedSize(msg) \in Nat
<1>1. SizeStays(Nat, msg)
  <2>1. \A k \in 1 .. Len(msg) : msg[k] \in MemberType
    OBVIOUS
  <2>2. QED
    BY <2>1, MemberSizeIsNat DEF SizeStays
<1>2. PICK g : SizeSteps(g, Nat, 0, msg)
  BY <1>1, SizeTrace
<1>3. Len(msg) \in Nat
  OBVIOUS
<1>4. QED
  BY <1>2, <1>3 DEF SizeSteps, HeaderSize

--------------------------------------------------------------------------------
(***************************************************************************)
(* What has room is written: a call fails only if the place where its data *)
(* ends lies behind the span.                                              *)
(***************************************************************************)
Open(x, c) == Valid(x) /\ x.fixed /\ x.cap = c /\ ~x.overflow

LEMMA OpenCursor ==
  ASSUME NEW x, NEW c, Open(x, c), c + 64 <= SizeMax
  PROVE  /\ x.pos \in Nat /\ c \in Nat /\ x.pos <= c /\ Cursor(x) = x.pos
         /\ Cursor(x) + 64 <= SizeMax /\ DataPlace(x) \in Nat
BY CursorInSpan, SizeMaxAssumption DEF Open, DataPlace, HeaderSize

LEMMA HeaderFits ==
  ASSUME NEW x, NEW c, Open(x, c), c + 64 <= SizeMax, DataPlace(x) <= c
  PROVE  LET y == EnsureHeaderWritten(x)
         IN Open(y, c) /\ y.header /\ y.pos = DataPlace(x)
<1> DEFINE y == EnsureHeaderWritten(x)
<1>1. Valid(y) /\ y.fixed /\ y.cap = c
  BY EnsureHeaderValid DEF Open, ValidAfter
<1>2. CASE x.header
  BY <1>1, <1>2, HeaderFields DEF Open, DataPlace
<1>3. CASE ~x.header
  BY <1>1, <1>3, HeaderFields DEF Open, DataPlace
<1>4. QED
  BY <1>2, <1>3

LEMMA ReserveFits ==
  ASSUME NEW x, NEW c, Open(x, c), c + 64 <= SizeMax,
         NEW a \in PrimitiveSizes, NEW n \in Nat, DataAlign(x.pos, a) + n <= c, n <= 16
  PROVE  Open(ReserveAndStore(x, a, n), c)
<1> DEFINE y == ReserveAndStore(x, a, n)
           e == DataAlign(x.pos, a) + n
<1>1. Cursor(x) + 15 + n <= SizeMax /\ c + 15 + n <= SizeMax /\ e \in Nat
  BY OpenCursor, DataAlignBounds, SizeMaxAssumption
<1>2. Valid(y) /\ y.fixed /\ y.cap = c
  BY <1>1, ReserveAndStoreValid DEF Open, ValidAfter
<1>3. y.overflow = (EndOf(x, a, n) > x.cap)
  BY <1>1, ReserveOutcome DEF Outcome, Open
<1>4. ~(EndOf(x, a, n) > x.cap)
  BY <1>1, OpenCursor DEF EndOf, Open
<1>5. QED
  BY <1>2, <1>3, <1>4 DEF Open

LEMMA PrimitiveFits ==
  ASSUME NEW x, NEW c, Open(x, c), c + 64 <= SizeMax,
         NEW s \in PrimitiveSizes, DataAlign(DataPlace(x), s) + s <= c
  PROVE  Open(WritePrimitive(x, s), c)
<1>1. DataPlace(x) \in Nat /\ c \in Nat
  BY OpenCursor
<1>2. DataPlace(x) <= DataAlign(DataPlace(x), s) /\ DataAlign(DataPlace(x), s) \in Nat
  BY <1>1, DataAlignBounds
<1>3. s \in Nat /\ s <= 16
  BY DEF PrimitiveSizes
<1>4. DataPlace(x) <= c
  BY <1>1, <1>2, <1>3
<1>5. Open(EnsureHeaderWritten(x), c) /\ EnsureHeaderWritten(x).pos = DataPlace(x)
  BY <1>4, HeaderFits
<1>6. QED
  BY <1>3, <1>5, ReserveFits DEF WritePrimitive

\* Room for a prefix and what follows it.
LEMMA PrefixFits ==
  ASSUME NEW x, NEW c, Open(x, c), c + 64 <= SizeMax, PrefixEnd(DataPlace(x)) <= c
  PROVE  LET p == ReserveAndStore(EnsureHeaderWritten(x), PrefixSize, PrefixSize)
         IN /\ Open(p, c) /\ Wrote(x, p, PrefixEnd(DataPlace(x)), x.depth)
            /\ Open(BeginWriteSequence(x), c)
            /\ Wrote(x, BeginWriteSequence(x), PrefixEnd(DataPlace(x)), x.depth + 1)
<1> DEFINE p == ReserveAndStore(EnsureHeaderWritten(x), PrefixSize, PrefixSize)
<1>1. PrefixSize \in PrimitiveSizes /\ p = WritePrimitive(x, PrefixSize)
  BY DEF PrefixSize, PrimitiveSizes, WritePrimitive
<1>2. Open(WritePrimitive(x, PrefixSize), c)
  BY <1>1, PrimitiveFits DEF PrefixEnd
<1>3. Open(p, c)
  BY <1>1, <1>2
<1>4. ~p.overflow /\ Valid(p) /\ p.fixed /\ Valid(x) /\ x.fixed /\ x.cap + 64 <= SizeMax
  BY <1>3 DEF Open
<1>5. Wrote(x, p, PrefixEnd(DataPlace(x)), x.depth)
  BY <1>4, PrefixPlace
<1>6. BeginWriteSequence(x) = Push(p)
  BY <1>4 DEF BeginWriteSequence
<1> HIDE DEF p
<1>7. Open(Push(p), c)
  BY <1>3, <1>4, PushFields DEF Open
<1>8. Wrote(x, Push(p), PrefixEnd(DataPlace(x)), x.depth + 1)
  BY <1>4, <1>5, PushFields DEF Wrote
<1>9. QED
  BY <1>3, <1>5, <1>6, <1>7, <1>8 DEF p

LEMMA StringFits ==
  ASSUME NEW x, NEW c, Open(x, c), c + 64 <= SizeMax, NEW n \in Nat,
         PrefixEnd(DataPlace(x)) + (n + 1) <= c
  PROVE  Open(WriteString(x, n), c)
<1> DEFINE p == ReserveAndStore(EnsureHeaderWritten(x), PrefixSize, PrefixSize)
           a == PrefixEnd(DataPlace(x))
<1>1. a \in Nat /\ c \in Nat
  BY OpenCursor, PrefixEndIsNat
<1>2. a <= c
  <2> HIDE DEF a
  <2>1. QED
    BY <1>1 DEF a
<1>3. Open(p, c) /\ Wrote(x, p, a, x.depth)
  BY <1>2, PrefixFits
<1> HIDE DEF p, a
<1>4. Valid(p) /\ p.fixed /\ p.cap = c /\ ~p.overflow /\ p.pos = a /\ Cursor(p) = a
  BY <1>3, CursorInSpan DEF Open, Wrote
<1>5. Cursor(p) + n + 1 = Cursor(p) + (n + 1) /\ n + 1 \in Nat /\ ~(p.pos + (n + 1) > p.cap)
  BY <1>1, <1>4 DEF a
<1> DEFINE y == AppendBytes(p, n + 1)
<1>6. WriteString(x, n) = y
  BY <1>5 DEF WriteString, AppendBytes, p
<1>7. ValidAfter(p, y) /\ y.overflow = (p.pos + (n + 1) > p.cap)
  BY <1>4, <1>5, AppendOutcome DEF Outcome
<1> HIDE DEF y
<1>8. QED
  BY <1>4, <1>5, <1>6, <1>7 DEF Open, ValidAfter

\* Elements in a context of their own.
LEMMA SpanFits ==
  ASSUME NEW g, NEW c, Open(g, c), g.header, NEW s \in PrimitiveSizes, NEW n \in Nat,
         c + s * n + 64 <= SizeMax, ElementsEnd(g.pos, s, n) <= c
  PROVE  Open(Pop(WritePodSpan(Push(g), s, n)), c)
<1> DEFINE x == Push(g)
           y == WritePodSpan(x, s, n)
<1>1. /\ Valid(x) /\ x.fixed /\ Settled(x) /\ x.pos = g.pos /\ x.cap = g.cap
      /\ g.cap = c /\ Valid(g) /\ g.fixed /\ ~g.overflow
  BY PushFields DEF Settled, Open
<1>2. Outcome(x, y, SpanFails(x, s, n), SpanEnd(x, s, n), SpanBytes(x, s, n))
  BY <1>1, SpanOutcome
<1>3. s * n \in Nat /\ g.pos \in Nat /\ c \in Nat
  BY <1>1, CursorInSpan, ProductIsNat
<1>4. ValidAfter(x, y)
  <2>1. Cursor(x) = x.pos /\ x.pos \in Nat /\ x.cap \in Nat /\ x.pos <= x.cap
    BY <1>1, CursorInSpan
  <2>2. Cursor(x) + s * n + 40 <= SizeMax
    BY <1>1, <1>3, <2>1, SizeMaxAssumption
  <2>3. QED
    BY <1>1, <2>2, WritePodSpanValid
<1>5. Outcome(g, Pop(y), SpanFails(x, s, n), SpanEnd(x, s, n), SpanBytes(x, s, n))
  BY <1>1, <1>2, <1>4, BracketedOutcome DEF ValidAfter
<1>6. ~SpanFails(x, s, n)
  <2>1. DataAlign(g.pos, s) \in Nat
    BY <1>3, DataAlignBounds
  <2>2. QED
    BY <1>1, <1>3, <2>1 DEF SpanFails, EndOf, ElementsEnd
<1>7. ValidAfter(y, Pop(y))
  BY <1>4, PushPopValid DEF ValidAfter
<1> HIDE DEF x, y
<1>8. QED
  BY <1>1, <1>4, <1>5, <1>6, <1>7 DEF Outcome, ValidAfter, Open, x, y

LEMMA ArrayFits ==
  ASSUME NEW x, NEW c, Open(x, c), NEW s \in PrimitiveSizes, NEW n \in Nat \ {0},
         c + s * n + 64 <= SizeMax, ElementsEnd(DataPlace(x), s, n) <= c
  PROVE  Open(WriteArray(x, s, n), c)
<1> DEFINE h == EnsureHeaderWritten(x)
<1>1. s * n \in Nat /\ c \in Nat
  BY CursorInSpan, ProductIsNat DEF Open
<1>2. c + 64 <= SizeMax
  BY <1>1, SizeMaxAssumption
<1>3. DataPlace(x) \in Nat
  BY <1>2, OpenCursor
<1>4. DataPlace(x) <= c
  <2>1. DataAlign(DataPlace(x), s) \in Nat /\ DataPlace(x) <= DataAlign(DataPlace(x), s)
    BY <1>3, DataAlignBounds
  <2>2. ElementsEnd(DataPlace(x), s, n) = DataAlign(DataPlace(x), s) + s * n
    BY DEF ElementsEnd
  <2>3. QED
    BY <1>1, <1>3, <2>1, <2>2
<1>5. Open(h, c) /\ h.header /\ h.pos = DataPlace(x)
  BY <1>2, <1>4, HeaderFits
<1> HIDE DEF h
<1>6. WriteArray(x, s, n) = Pop(WritePodSpan(Push(h), s, n))
  BY DEF WriteArray, BeginWriteArray, EndWrite, h
<1>7. QED
  BY <1>5, <1>6, SpanFits

LEMMA SequenceFits ==
  ASSUME NEW x, NEW c, Open(x, c), NEW s \in PrimitiveSizes, NEW n \in Nat,
         c + s * n + 64 <= SizeMax, ElementsEnd(PrefixEnd(DataPlace(x)), s, n) <= c
  PROVE  Open(WriteSequence(x, s, n), c)
<1> DEFINE p == ReserveAndStore(EnsureHeaderWritten(x), PrefixSize, PrefixSize)
           a == PrefixEnd(DataPlace(x))
<1>1. s * n \in Nat /\ c \in Nat
  BY CursorInSpan, ProductIsNat DEF Open
<1>2. c + 64 <= SizeMax
  BY <1>1, SizeMaxAssumption
<1>3. a \in Nat
  BY <1>2, OpenCursor, PrefixEndIsNat
<1>4. a <= c
  <2> HIDE DEF a
  <2>1. DataAlign(a, s) \in Nat /\ a <= DataAlign(a, s)
    BY <1>3, DataAlignBounds
  <2>2. QED
    BY <1>1, <1>3, <2>1 DEF ElementsEnd, a
<1>5. Open(p, c) /\ Wrote(x, p, a, x.depth)
  BY <1>2, <1>4, PrefixFits
<1>6. WriteSequence(x, s, n) = Pop(WritePodSpan(IF p.overflow THEN p ELSE Push(p), s, n))
  BY DEF WriteSequence, BeginWriteSequence, EndWrite
<1> HIDE DEF p
<1>7. WriteSequence(x, s, n) = Pop(WritePodSpan(Push(p), s, n)) /\ p.header /\ p.pos = a
  BY <1>5, <1>6 DEF Open, Wrote
<1>8. QED
  BY <1>5, <1>7, SpanFits

--------------------------------------------------------------------------------
(***************************************************************************)
(* Storage of get_message_size() bytes. A writer with room for an offset o *)
(* of the size calculation is at most o bytes behind the header.           *)
(***************************************************************************)
Room(w, o, c) == Open(w, c) /\ DataPlace(w) <= HeaderSize + o

LEMMA AlignMonotone ==
  ASSUME NEW p \in Int, NEW q \in Int, p <= q, NEW a \in PrimitiveSizes
  PROVE  AlignTo(p, a) <= AlignTo(q, a)
<1>1. /\ AlignTo(p, a) \in Int /\ AlignTo(q, a) \in Int
      /\ AlignTo(p, a) < p + a /\ q <= AlignTo(q, a)
      /\ AlignTo(p, a) % a = 0 /\ AlignTo(q, a) % a = 0
  BY AlignToBounds
<1> DEFINE x == AlignTo(p, a)
           y == AlignTo(q, a)
<1> HIDE DEF x, y
<1>2. x \in Int /\ y \in Int /\ x < y + a /\ x % a = 0 /\ y % a = 0
  <2>1. a \in Nat
    BY DEF PrimitiveSizes
  <2>2. QED
    BY <1>1, <2>1 DEF x, y
<1>3. x <= y
  <2>1. CASE a = 1
    BY <1>2, <2>1
  <2>2. CASE a = 2
    BY <1>2, <2>2
  <2>3. CASE a = 4
    BY <1>2, <2>3
  <2>4. CASE a = 8
    BY <1>2, <2>4
  <2>5. CASE a = 16
    BY <1>2, <2>5
  <2>6. QED
    BY <2>1, <2>2, <2>3, <2>4, <2>5 DEF PrimitiveSizes
<1>4. QED
  BY <1>3 DEF x, y

\* Aligned places stay as far behind the header as aligned offsets.
LEMMA PlaceMonotone ==
  ASSUME NEW p \in Nat, NEW o \in Nat, p <= HeaderSize + o, NEW a \in PrimitiveSizes
  PROVE  DataAlign(p, a) <= HeaderSize + AlignTo(o, a)
<1>1. p - HeaderSize \in Int /\ p - HeaderSize <= o
  BY DEF HeaderSize
<1>2. AlignTo(p - HeaderSize, a) <= AlignTo(o, a)
  BY <1>1, AlignMonotone
<1>3. AlignTo(p - HeaderSize, a) \in Int /\ AlignTo(o, a) \in Int
  BY <1>1, AlignToBounds
<1>4. QED
  BY <1>2, <1>3 DEF DataAlign, HeaderSize

\* A number that never shrinks is nowhere above what it ends with.
LEMMA NeverShrinks ==
  ASSUME NEW n \in Nat, NEW h \in [0 .. n -> Nat], \A k \in 1 .. n : h[k - 1] <= h[k]
  PROVE  \A k \in 0 .. n : h[k] <= h[n]
<1> DEFINE S == {j \in Nat : j <= n => h[n - j] <= h[n]}
<1>1. 0 \in S
  BY SMT
<1>2. ASSUME NEW j \in Nat, j \in S PROVE j + 1 \in S
  <2> SUFFICES ASSUME j + 1 <= n PROVE h[n - (j + 1)] <= h[n]
    OBVIOUS
  <2>1. h[n - j] <= h[n] /\ n - j \in 1 .. n /\ (n - j) - 1 = n - (j + 1)
    BY <1>2
  <2>2. h[(n - j) - 1] <= h[n - j]
    BY <2>1
  <2>3. h[n] \in Nat /\ h[n - j] \in Nat /\ h[n - (j + 1)] \in Nat
    OBVIOUS
  <2>4. QED
    BY <2>1, <2>2, <2>3
<1> HIDE DEF S
<1>3. Nat \subseteq S
  BY <1>1, <1>2, SetInduction
<1>4. QED
  <2> TAKE k \in 0 .. n
  <2>1. n - k \in Nat /\ n - k <= n /\ n - (n - k) = k
    OBVIOUS
  <2>2. QED
    BY <1>3, <2>1 DEF S

LEMMA StringsSizeGrows ==
  ASSUME NEW o \in Nat, NEW m, m.count \in Nat, m.chars \in Nat
  PROVE  AlignTo(o, PrefixSize) + PrefixSize <= StringsSize(o, m)
<1> DEFINE b == AlignTo(o, PrefixSize) + PrefixSize
<1>1. b \in Nat
  BY AlignToIsNat DEF PrefixSize, PrimitiveSizes
<1>2. StringsSizeStays(Nat, m)
  BY StringSizeIsNat DEF StringsSizeStays
<1> HIDE DEF b
<1>3. PICK h : StringsSizeSteps(h, Nat, b, m, o)
  BY <1>1, <1>2, StringsSizeTrace DEF b
<1>4. /\ h \in [0 .. m.count -> Nat] /\ h[0] = b /\ StringsSize(o, m) = h[m.count]
      /\ \A k \in 1 .. m.count : h[k] = StringSize(h[k - 1], m.chars)
  BY <1>3 DEF StringsSizeSteps
<1>5. \A k \in 1 .. m.count : h[k - 1] <= h[k]
  <2> TAKE k \in 1 .. m.count
  <2>1. h[k - 1] \in Nat
    BY <1>4
  <2>2. QED
    BY <1>4, <2>1, StringSizeIsNat
<1>6. h[0] <= h[m.count]
  <2>1. 0 \in 0 .. m.count
    OBVIOUS
  <2>2. \A k \in 0 .. m.count : h[k] <= h[m.count]
    BY <1>4, <1>5, NeverShrinks
  <2>3. QED
    BY <2>1, <2>2
<1>7. QED
  BY <1>4, <1>6 DEF b

LEMMA LeafSizeGrows ==
  ASSUME NEW o \in Nat, NEW m \in LeafType
  PROVE  o <= LeafSize(o, m)
<1> DEFINE p == AlignTo(o, PrefixSize) + PrefixSize
<1>1. p \in Nat /\ o <= p
  BY AlignToIsNat DEF PrefixSize, PrimitiveSizes
<1> HIDE DEF p
<1>2. CASE m.kind = "primitive"
  <2>1. m.size \in PrimitiveSizes /\ m.size \in Nat
    BY <1>2, LeafFields, SizesArePositive
  <2>2. LeafSize(o, m) = AlignTo(o, m.size) + m.size
    BY <1>2 DEF LeafSize
  <2>3. QED
    BY <2>1, <2>2, AlignToIsNat
<1>3. CASE m.kind \in {"string", "wstring"}
  <2>1. LeafSize(o, m) = StringSize(o, m.chars) /\ m.chars \in Nat
    BY <1>3, LeafFields DEF LeafSize
  <2>2. QED
    BY <2>1, StringSizeIsNat
<1>4. CASE m.kind = "array"
  <2>1. m.size \in PrimitiveSizes /\ m.count \in Nat
    BY <1>4, LeafFields
  <2>2. AlignTo(o, m.size) \in Nat /\ o <= AlignTo(o, m.size) /\ m.size * m.count \in Nat
    BY <2>1, AlignToIsNat, ProductIsNat
  <2>3. LeafSize(o, m) = AlignTo(o, m.size) + m.size * m.count
    BY <1>4 DEF LeafSize
  <2>4. QED
    BY <2>2, <2>3
<1>5. CASE m.kind \in {"sequence", "bools"}
  <2>1. m.size \in PrimitiveSizes /\ m.count \in Nat
    BY <1>5, LeafFields DEF PrimitiveSizes
  <2>2. AlignTo(p, m.size) \in Nat /\ p <= AlignTo(p, m.size) /\ m.size * m.count \in Nat
    BY <1>1, <2>1, AlignToIsNat, ProductIsNat
  <2>3. LeafSize(o, m) = AlignTo(p, m.size) + m.size * m.count
    BY <1>5 DEF LeafSize, p
  <2>4. QED
    BY <1>1, <2>2, <2>3
<1>6. CASE m.kind = "strings"
  <2>1. m.count \in Nat /\ m.chars \in Nat /\ LeafSize(o, m) = StringsSize(o, m)
    BY <1>6, LeafFields DEF LeafSize
  <2>2. p <= StringsSize(o, m) /\ StringsSize(o, m) \in Nat
    BY <2>1, StringsSizeGrows, StringsSizeIsNat DEF p
  <2>3. QED
    BY <1>1, <2>1, <2>2
<1>7. QED
  BY <1>2, <1>3, <1>4, <1>5, <1>6, LeafFields

LEMMA ValidIsLoose ==
  ASSUME NEW x, Valid(x)
  PROVE  x \in LooseWriter
BY DEF Valid, WriterType, LooseWriter

\* Behind a field whose data ends where the size calculation says, or before.
LEMMA RoomBehind ==
  ASSUME NEW x, NEW y, NEW c, NEW e, NEW o \in Nat, Open(y, c), Wrote(x, y, e, x.depth) \/ Wrote(x, y, e, x.depth + 1),
         e <= HeaderSize + o
  PROVE  Room(y, o, c)
BY DEF Room, Wrote, DataPlace

LEMMA PrefixRoom ==
  ASSUME NEW w, NEW c, NEW o \in Nat, Room(w, o, c), c + 64 <= SizeMax
  PROVE  LET p == AlignTo(o, PrefixSize) + PrefixSize
         IN p \in Nat /\ PrefixEnd(DataPlace(w)) \in Nat /\ PrefixEnd(DataPlace(w)) <= HeaderSize + p
<1>1. PrefixSize \in PrimitiveSizes
  BY DEF PrefixSize, PrimitiveSizes
<1>2. DataPlace(w) \in Nat /\ DataPlace(w) <= HeaderSize + o
  BY OpenCursor DEF Room
<1>3. DataAlign(DataPlace(w), PrefixSize) <= HeaderSize + AlignTo(o, PrefixSize)
  BY <1>1, <1>2, PlaceMonotone
<1>4. DataAlign(DataPlace(w), PrefixSize) \in Nat /\ AlignTo(o, PrefixSize) \in Nat
  BY <1>1, <1>2, DataAlignBounds, AlignToIsNat
<1>5. QED
  BY <1>3, <1>4 DEF PrefixEnd, PrefixSize, HeaderSize

LEMMA StringRoom ==
  ASSUME NEW w, NEW c, NEW o \in Nat, Room(w, o, c), c + 64 <= SizeMax, NEW n \in Nat,
         HeaderSize + StringSize(o, n) <= c
  PROVE  Room(WriteString(w, n), StringSize(o, n), c)
<1> DEFINE p == AlignTo(o, PrefixSize) + PrefixSize
           a == PrefixEnd(DataPlace(w))
<1>1. p \in Nat /\ a \in Nat /\ a <= HeaderSize + p
  BY PrefixRoom
<1>2. StringSize(o, n) = p + n + 1
  BY DEF StringSize
<1>3. Open(w, c) /\ c \in Nat
  BY OpenCursor DEF Room
<1> HIDE DEF p
<1>4. a + (n + 1) <= HeaderSize + StringSize(o, n) /\ a + (n + 1) <= c /\ StringSize(o, n) \in Nat
  <2> HIDE DEF a
  <2>1. QED
    BY <1>1, <1>2, <1>3 DEF HeaderSize
<1>5. Open(WriteString(w, n), c)
  BY <1>3, <1>4, StringFits
<1>6. Wrote(w, WriteString(w, n), a + (n + 1), w.depth)
  BY <1>3, <1>5, StringPlace DEF Open
<1> HIDE DEF a
<1>7. QED
  BY <1>4, <1>5, <1>6, RoomBehind

LEMMA SequenceRoom ==
  ASSUME NEW w, NEW c, NEW o \in Nat, Room(w, o, c), c + 64 <= SizeMax,
         HeaderSize + (AlignTo(o, PrefixSize) + PrefixSize) <= c
  PROVE  Room(BeginWriteSequence(w), AlignTo(o, PrefixSize) + PrefixSize, c)
<1> DEFINE p == AlignTo(o, PrefixSize) + PrefixSize
           a == PrefixEnd(DataPlace(w))
<1>1. p \in Nat /\ a \in Nat /\ a <= HeaderSize + p
  BY PrefixRoom
<1>2. Open(w, c) /\ c \in Nat
  BY OpenCursor DEF Room
<1>3. a <= c
  <2> HIDE DEF a
  <2>1. QED
    BY <1>1, <1>2 DEF HeaderSize
<1>4. Open(BeginWriteSequence(w), c) /\ Wrote(w, BeginWriteSequence(w), a, w.depth + 1)
  BY <1>2, <1>3, PrefixFits
<1> HIDE DEF a
<1>5. QED
  BY <1>1, <1>4, RoomBehind

LEMMA EndRoom ==
  ASSUME NEW w, NEW c, NEW o \in Nat, Room(w, o, c)
  PROVE  Room(EndWrite(w), o, c)
<1>1. ValidAfter(w, Pop(w)) /\ Valid(w)
  BY PushPopValid DEF Room, Open
<1>2. Pop(w).pos = w.pos /\ Pop(w).overflow = w.overflow /\ Pop(w).header = w.header
  BY <1>1, PopFields
<1>3. QED
  BY <1>1, <1>2 DEF Room, Open, ValidAfter, DataPlace, EndWrite

LEMMA FlagsRoom ==
  ASSUME NEW b, NEW c, NEW o \in Nat, Room(b, o, c), c + 64 <= SizeMax, NEW m, m.count \in Nat,
         HeaderSize + o + m.count <= c
  PROVE  Room(WriteFlags(b, m), o + m.count, c)
<1>1. FlagsStays(LooseWriter)
  BY FlagsStay
<1>2. b \in LooseWriter
  BY ValidIsLoose DEF Room, Open
<1>3. PICK g : FlagsSteps(g, LooseWriter, b, m)
  BY <1>1, <1>2, FlagsTrace
<1>4. /\ g[0] = b /\ WriteFlags(b, m) = EndWrite(g[m.count])
      /\ \A k \in 1 .. m.count : g[k] = WritePrimitive(g[k - 1], 1)
  BY <1>3 DEF FlagsSteps
<1> DEFINE S == {k \in Nat : k <= m.count => Room(g[k], o + k, c)}
<1>5. 0 \in S
  BY <1>4
<1>6. ASSUME NEW k \in Nat, k \in S PROVE k + 1 \in S
  <2> SUFFICES ASSUME k + 1 <= m.count PROVE Room(g[k + 1], o + (k + 1), c)
    OBVIOUS
  <2> DEFINE w == g[k]
             q == DataPlace(w)
  <2>1. Room(w, o + k, c) /\ g[k + 1] = WritePrimitive(w, 1)
    <3>1. k + 1 \in 1 .. m.count /\ (k + 1) - 1 = k
      OBVIOUS
    <3>2. QED
      BY <1>4, <1>6, <3>1
  <2> HIDE DEF w
  <2>2. Open(w, c) /\ q \in Nat /\ c \in Nat /\ q <= HeaderSize + (o + k)
    BY <2>1, OpenCursor DEF Room
  <2> HIDE DEF q
  <2>3. DataAlign(q, 1) = q
    BY <2>2 DEF DataAlign, AlignTo, CalculateAlignment, HeaderSize
  <2>4. q + 1 <= c /\ q + 1 <= HeaderSize + (o + (k + 1)) /\ 1 \in PrimitiveSizes
    BY <2>2 DEF HeaderSize, PrimitiveSizes
  <2>5. Open(WritePrimitive(w, 1), c)
    BY <2>2, <2>3, <2>4, PrimitiveFits DEF q
  <2>6. Wrote(w, WritePrimitive(w, 1), q + 1, w.depth)
    <3>1. Valid(w) /\ w.fixed /\ w.cap + 64 <= SizeMax /\ ~WritePrimitive(w, 1).overflow
      BY <2>2, <2>5 DEF Open
    <3>2. Wrote(w, WritePrimitive(w, 1), DataAlign(DataPlace(w), 1) + 1, w.depth)
      BY <2>4, <3>1, PrimitivePlace
    <3>3. QED
      BY <2>3, <3>2 DEF q
  <2>7. o + (k + 1) \in Nat
    OBVIOUS
  <2>8. QED
    BY <2>1, <2>4, <2>5, <2>6, <2>7, RoomBehind
<1> HIDE DEF S
<1>7. m.count \in S
  BY <1>5, <1>6, SetInduction
<1>8. Room(g[m.count], o + m.count, c) /\ o + m.count \in Nat
  BY <1>7 DEF S
<1>9. QED
  BY <1>4, <1>8, EndRoom

LEMMA StringsRoom ==
  ASSUME NEW b \in Serialized, NEW c, NEW o \in Nat, NEW m, m.count \in Nat, m.chars \in Nat,
         Room(b.w, AlignTo(o, PrefixSize) + PrefixSize, c), c + 64 <= SizeMax,
         HeaderSize + StringsSize(o, m) <= c
  PROVE  Room(WriteStrings(b, m).w, StringsSize(o, m), c)
<1> DEFINE p == AlignTo(o, PrefixSize) + PrefixSize
<1>1. p \in Nat /\ Room(b.w, p, c)
  BY AlignToIsNat DEF PrefixSize, PrimitiveSizes
<1>2. StringsSizeStays(Nat, m)
  BY StringSizeIsNat DEF StringsSizeStays
<1> HIDE DEF p
<1>3. PICK h : StringsSizeSteps(h, Nat, p, m, o)
  BY <1>1, <1>2, StringsSizeTrace DEF p
<1>4. /\ h \in [0 .. m.count -> Nat] /\ h[0] = p /\ StringsSize(o, m) = h[m.count]
      /\ \A k \in 1 .. m.count : h[k] = StringSize(h[k - 1], m.chars)
  BY <1>3 DEF StringsSizeSteps
<1>5. \A k \in 0 .. m.count : h[k] <= h[m.count]
  <2>1. \A k \in 1 .. m.count : h[k - 1] <= h[k]
    <3> TAKE k \in 1 .. m.count
    <3>0. k - 1 \in 0 .. m.count
      OBVIOUS
    <3>1. h[k - 1] \in Nat
      BY <1>4, <3>0
    <3>2. QED
      BY <1>4, <3>1, StringSizeIsNat
  <2>2. QED
    BY <1>4, <2>1, NeverShrinks
<1>6. StringsStays(Serialized, m)
  BY StringsStay
<1>7. PICK g : StringsSteps(g, Serialized, b, m)
  BY <1>6, StringsTrace
<1>8. /\ g \in [0 .. m.count -> Serialized] /\ g[0] = b
      /\ WriteStrings(b, m) = [g[m.count] EXCEPT !.w = EndWrite(@)]
      /\ \A k \in 1 .. m.count :
           g[k] = Prefixed(g[k - 1], WriteString(g[k - 1].w, m.chars), m.chars + 1)
  BY <1>7 DEF StringsSteps
<1> DEFINE S == {k \in Nat : k <= m.count => Room(g[k].w, h[k], c)}
<1>9. 0 \in S
  BY <1>1, <1>4, <1>8
<1>10. ASSUME NEW k \in Nat, k \in S PROVE k + 1 \in S
  <2> SUFFICES ASSUME k + 1 <= m.count PROVE Room(g[k + 1].w, h[k + 1], c)
    OBVIOUS
  <2>1. /\ k + 1 \in 1 .. m.count /\ (k + 1) - 1 = k
        /\ h[k] \in Nat /\ h[k + 1] \in Nat /\ h[m.count] \in Nat
    <3>1. k + 1 \in 1 .. m.count /\ (k + 1) - 1 = k
      OBVIOUS
    <3>2. k \in 0 .. m.count /\ k + 1 \in 0 .. m.count /\ m.count \in 0 .. m.count
      OBVIOUS
    <3>3. QED
      BY <1>4, <3>1, <3>2
  <2>0. k + 1 \in 0 .. m.count
    OBVIOUS
  <2>2. Room(g[k].w, h[k], c) /\ h[k + 1] = StringSize(h[k], m.chars)
    BY <1>4, <1>10, <2>1
  <2>3. g[k + 1] = Prefixed(g[k], WriteString(g[k].w, m.chars), m.chars + 1)
    BY <1>8, <2>1
  <2>4. g[k + 1].w = WriteString(g[k].w, m.chars)
    BY <2>3 DEF Prefixed
  <2>5. HeaderSize + StringSize(h[k], m.chars) <= c
    <3>1. h[k + 1] <= h[m.count] /\ c \in Nat /\ HeaderSize + h[m.count] <= c
      BY <1>1, <1>4, <1>5, <2>0, OpenCursor DEF Room
    <3>2. QED
      BY <2>1, <2>2, <3>1 DEF HeaderSize
  <2>6. Room(WriteString(g[k].w, m.chars), StringSize(h[k], m.chars), c)
    BY <2>1, <2>2, <2>5, StringRoom
  <2>7. QED
    BY <2>2, <2>4, <2>6
<1> HIDE DEF S
<1>11. m.count \in S
  BY <1>9, <1>10, SetInduction
<1>12. Room(g[m.count].w, h[m.count], c) /\ h[m.count] \in Nat
  BY <1>4, <1>11 DEF S
<1>13. WriteStrings(b, m).w = EndWrite(g[m.count].w)
  BY <1>8 DEF Serialized
<1>14. QED
  BY <1>4, <1>12, <1>13, EndRoom

\* A field without wide characters, sized at the offset the writer has room for.
LEMMA ElementsRoom ==
  ASSUME NEW q, NEW o \in Nat, q \in Nat, q <= HeaderSize + o, NEW s \in PrimitiveSizes,
         NEW n \in Nat, NEW c \in Nat, HeaderSize + (AlignTo(o, s) + s * n) <= c,
         2 * c + 64 <= SizeMax
  PROVE  /\ ElementsEnd(q, s, n) <= HeaderSize + (AlignTo(o, s) + s * n)
         /\ ElementsEnd(q, s, n) <= c /\ AlignTo(o, s) + s * n \in Nat
         /\ c + s * n + 64 <= SizeMax
<1>1. s * n \in Nat /\ AlignTo(o, s) \in Nat /\ o <= AlignTo(o, s)
  BY ProductIsNat, AlignToIsNat
<1>2. DataAlign(q, s) <= HeaderSize + AlignTo(o, s)
  BY PlaceMonotone
<1>3. DataAlign(q, s) \in Nat
  BY DataAlignBounds
<1>4. SizeMax \in Nat
  BY SizeMaxAssumption
<1> DEFINE b == s * n
           d == DataAlign(q, s)
           a == AlignTo(o, s)
           e == ElementsEnd(q, s, n)
<1>5. /\ b \in Nat /\ a \in Nat /\ d \in Nat /\ o <= a
      /\ d <= HeaderSize + a /\ HeaderSize + (a + b) <= c
  BY <1>1, <1>2, <1>3
<1>6. e = q \/ e = d + b
  BY DEF ElementsEnd
<1> HIDE DEF a, b, d, e
<1>7. e <= HeaderSize + (a + b) /\ e <= c /\ a + b \in Nat /\ c + b + 64 <= SizeMax
  BY <1>4, <1>5, <1>6 DEF HeaderSize
<1>8. QED
  BY <1>7 DEF a, b, e

LEMMA PrimitiveRoom ==
  ASSUME NEW w, NEW c, NEW o \in Nat, Room(w, o, c), 2 * c + 64 <= SizeMax,
         NEW s \in PrimitiveSizes, HeaderSize + (AlignTo(o, s) + s) <= c
  PROVE  Room(WritePrimitive(w, s), AlignTo(o, s) + s, c)
<1>1. Open(w, c) /\ c \in Nat /\ c + 64 <= SizeMax
  BY CursorInSpan, SizeMaxAssumption DEF Room, Open
<1>2. DataPlace(w) \in Nat /\ DataPlace(w) <= HeaderSize + o
  BY <1>1, OpenCursor DEF Room
<1>3. s \in Nat /\ 1 \in Nat /\ s * 1 = s
  BY SizesArePositive
<1>4. /\ ElementsEnd(DataPlace(w), s, 1) <= HeaderSize + (AlignTo(o, s) + s)
      /\ ElementsEnd(DataPlace(w), s, 1) <= c /\ AlignTo(o, s) + s \in Nat
  BY <1>1, <1>2, <1>3, ElementsRoom
<1>5. ElementsEnd(DataPlace(w), s, 1) = DataAlign(DataPlace(w), s) + s
  BY <1>3 DEF ElementsEnd
<1>6. Open(WritePrimitive(w, s), c)
  BY <1>1, <1>4, <1>5, PrimitiveFits
<1>7. Valid(w) /\ w.fixed /\ w.cap + 64 <= SizeMax /\ ~WritePrimitive(w, s).overflow
  BY <1>1, <1>6 DEF Open
<1>8. Wrote(w, WritePrimitive(w, s), DataAlign(DataPlace(w), s) + s, w.depth)
  BY <1>7, PrimitivePlace
<1>9. QED
  BY <1>4, <1>5, <1>6, <1>8, RoomBehind

LEMMA ArrayRoom ==
  ASSUME NEW w, NEW c, NEW o \in Nat, Room(w, o, c), 2 * c + 64 <= SizeMax,
         NEW s \in PrimitiveSizes, NEW n \in Nat \ {0},
         HeaderSize + (AlignTo(o, s) + s * n) <= c
  PROVE  Room(WriteArray(w, s, n), AlignTo(o, s) + s * n, c)
<1>1. Open(w, c) /\ c \in Nat /\ c + 64 <= SizeMax
  BY CursorInSpan, SizeMaxAssumption DEF Room, Open
<1>2. DataPlace(w) \in Nat /\ DataPlace(w) <= HeaderSize + o
  BY <1>1, OpenCursor DEF Room
<1>3. /\ ElementsEnd(DataPlace(w), s, n) <= HeaderSize + (AlignTo(o, s) + s * n)
      /\ ElementsEnd(DataPlace(w), s, n) <= c /\ AlignTo(o, s) + s * n \in Nat
      /\ c + s * n + 64 <= SizeMax
  BY <1>1, <1>2, ElementsRoom
<1>4. Open(WriteArray(w, s, n), c)
  BY <1>1, <1>3, ArrayFits
<1>5. Valid(w) /\ w.fixed /\ w.cap + s * n + 64 <= SizeMax /\ ~WriteArray(w, s, n).overflow
  BY <1>1, <1>3, <1>4 DEF Open
<1>6. Wrote(w, WriteArray(w, s, n), ElementsEnd(DataPlace(w), s, n), w.depth)
  BY <1>5, ArrayPlace
<1>7. QED
  BY <1>3, <1>4, <1>6, RoomBehind

LEMMA ElementSequenceRoom ==
  ASSUME NEW w, NEW c, NEW o \in Nat, Room(w, o, c), 2 * c + 64 <= SizeMax,
         NEW s \in PrimitiveSizes, NEW n \in Nat,
         HeaderSize + (AlignTo(AlignTo(o, PrefixSize) + PrefixSize, s) + s * n) <= c
  PROVE  Room(WriteSequence(w, s, n),
              AlignTo(AlignTo(o, PrefixSize) + PrefixSize, s) + s * n, c)
<1> DEFINE p == AlignTo(o, PrefixSize) + PrefixSize
<1>1. Open(w, c) /\ c \in Nat /\ c + 64 <= SizeMax
  BY CursorInSpan, SizeMaxAssumption DEF Room, Open
<1>2. p \in Nat /\ PrefixEnd(DataPlace(w)) \in Nat /\ PrefixEnd(DataPlace(w)) <= HeaderSize + p
  BY <1>1, PrefixRoom
<1> DEFINE e == ElementsEnd(PrefixEnd(DataPlace(w)), s, n)
<1> HIDE DEF p
<1>3. /\ e <= HeaderSize + (AlignTo(p, s) + s * n) /\ e <= c /\ AlignTo(p, s) + s * n \in Nat
      /\ c + s * n + 64 <= SizeMax
  BY <1>1, <1>2, ElementsRoom DEF p
<1>4. Open(WriteSequence(w, s, n), c)
  BY <1>1, <1>3, SequenceFits
<1>5. /\ Valid(w) /\ w.fixed /\ w.cap + s * n + 64 <= SizeMax /\ w.cap + 64 <= SizeMax
      /\ ~WriteSequence(w, s, n).overflow
  BY <1>1, <1>3, <1>4 DEF Open
<1>6. Wrote(w, WriteSequence(w, s, n), e, w.depth)
  BY <1>5, SequencePlace
<1> HIDE DEF e
<1>7. QED
  BY <1>3, <1>4, <1>6, RoomBehind DEF p

LEMMA LeafRoom ==
  ASSUME NEW s \in Serialized, NEW c, NEW o \in Nat, Room(s.w, o, c), 2 * c + 64 <= SizeMax,
         NEW m \in LeafType, m.kind # "wstring", HeaderSize + LeafSize(o, m) <= c
  PROVE  Room(WriteLeaf(s, m).w, LeafSize(o, m), c)
<1> DEFINE p == AlignTo(o, PrefixSize) + PrefixSize
<1>1. Open(s.w, c) /\ c \in Nat /\ c + 64 <= SizeMax
  BY CursorInSpan, SizeMaxAssumption DEF Room, Open
<1>2. p \in Nat
  BY AlignToIsNat DEF PrefixSize, PrimitiveSizes
<1>3. LeafSize(o, m) \in Nat
  BY LeafSizeIsNat
<1>4. CASE m.kind = "primitive"
  <2>1. m.size \in PrimitiveSizes
    BY <1>4, LeafFields
  <2>2. LeafSize(o, m) = AlignTo(o, m.size) + m.size
    BY <1>4 DEF LeafSize
  <2>3. WriteLeaf(s, m).w = WritePrimitive(s.w, m.size)
    BY <1>4 DEF WriteLeaf, Unprefixed, Serialized
  <2>4. QED
    BY <2>1, <2>2, <2>3, PrimitiveRoom
<1>5. CASE m.kind = "string"
  <2>1. m.chars \in Nat
    BY <1>5, LeafFields
  <2>2. LeafSize(o, m) = StringSize(o, m.chars)
    BY <1>5 DEF LeafSize
  <2>3. WriteLeaf(s, m).w = WriteString(s.w, m.chars)
    BY <1>5 DEF WriteLeaf, Prefixed
  <2>4. QED
    BY <1>1, <2>1, <2>2, <2>3, StringRoom
<1>6. CASE m.kind = "array"
  <2>1. m.size \in PrimitiveSizes /\ m.count \in Nat \ {0}
    BY <1>6, LeafFields
  <2>2. LeafSize(o, m) = AlignTo(o, m.size) + m.size * m.count
    BY <1>6 DEF LeafSize
  <2>3. WriteLeaf(s, m).w = WriteArray(s.w, m.size, m.count)
    BY <1>6 DEF WriteLeaf, Unprefixed, Serialized
  <2>4. QED
    BY <2>1, <2>2, <2>3, ArrayRoom
<1>7. CASE m.kind = "sequence"
  <2>1. m.size \in PrimitiveSizes /\ m.count \in Nat
    BY <1>7, LeafFields
  <2>2. LeafSize(o, m) = AlignTo(p, m.size) + m.size * m.count
    BY <1>7 DEF LeafSize
  <2>3. WriteLeaf(s, m).w = WriteSequence(s.w, m.size, m.count)
    BY <1>7 DEF WriteLeaf, Prefixed
  <2>4. QED
    BY <2>1, <2>2, <2>3, ElementSequenceRoom
<1>8. CASE m.kind = "bools"
  <2>1. m.size = 1 /\ m.count \in Nat
    BY <1>8, LeafFields
  <2>2. LeafSize(o, m) = AlignTo(p, m.size) + m.size * m.count
    BY <1>8 DEF LeafSize
  <2>3. WriteLeaf(s, m).w = WriteFlags(BeginWriteSequence(s.w), m)
    BY <1>8 DEF WriteLeaf, Prefixed
  <2> HIDE DEF p
  <2>4. LeafSize(o, m) = p + m.count
    <3>1. AlignTo(p, 1) = p
      BY <1>2 DEF AlignTo, CalculateAlignment
    <3>2. QED
      BY <1>2, <2>1, <2>2, <3>1
  <2>5. HeaderSize + p <= c /\ HeaderSize + p + m.count <= c
    BY <1>1, <1>2, <2>1, <2>4 DEF HeaderSize
  <2>6. Room(BeginWriteSequence(s.w), p, c)
    BY <1>1, <2>5, SequenceRoom DEF p
  <2>7. QED
    BY <1>1, <1>2, <2>1, <2>3, <2>4, <2>5, <2>6, FlagsRoom
<1>9. CASE m.kind = "strings"
  <2>1. m.count \in Nat /\ m.chars \in Nat
    BY <1>9, LeafFields
  <2>2. LeafSize(o, m) = StringsSize(o, m) /\ p <= StringsSize(o, m)
    BY <1>9, <2>1, StringsSizeGrows DEF LeafSize
  <2> DEFINE b == Prefixed(s, BeginWriteSequence(s.w), m.count)
  <2>3. WriteLeaf(s, m) = WriteStrings(b, m) /\ b.w = BeginWriteSequence(s.w)
    BY <1>9 DEF WriteLeaf, Prefixed
  <2>4. b \in Serialized
    <3>1. s.w \in LooseWriter
      BY DEF Serialized
    <3>2. BeginWriteSequence(s.w) \in LooseWriter /\ 1 \in PrimitiveSizes
      <4>1. 1 \in PrimitiveSizes
        BY DEF PrimitiveSizes
      <4>2. QED
        BY <2>1, <3>1, <4>1, LooseWrites
    <3>3. QED
      BY <2>1, <3>2, SerializedSteps
  <2> HIDE DEF p, b
  <2>5. HeaderSize + p <= c
    BY <1>1, <1>2, <1>3, <2>2 DEF HeaderSize
  <2>6. Room(b.w, p, c)
    BY <1>1, <2>3, <2>5, SequenceRoom DEF p
  <2>7. QED
    BY <1>1, <2>1, <2>2, <2>3, <2>4, <2>6, StringsRoom DEF p
<1>10. QED
  BY <1>4, <1>5, <1>6, <1>7, <1>8, <1>9, LeafFields

\* A message without nested members or wide strings fits the size it answers.
LEMMA MessageRoom ==
  ASSUME NEW msg \in Seq(MemberType), NEW c \in Nat, ComputeSerializedSize(msg) <= c,
         2 * c + 64 <= SizeMax,
         \A k \in 1 .. Len(msg) : msg[k] \in LeafType /\ msg[k].kind # "wstring"
  PROVE  ~SerializeInto(msg, c).w.overflow
<1> DEFINE n == Len(msg)
           b == [w |-> FixedSpan(c), at |-> <<>>, wire |-> <<>>]
<1>1. n \in Nat /\ \A k \in 1 .. n : msg[k] \in MemberType
  OBVIOUS
<1>2. b \in Serialized
  <2>1. FixedSpan(c) \in LooseWriter
    BY SpanValid, ValidIsLoose
  <2>2. <<>> \in Seq(Int) /\ <<>> \in [{} -> Nat]
    OBVIOUS
  <2>3. <<>> \in Wires
    BY <2>2 DEF Wires
  <2>4. QED
    BY <2>1, <2>2, <2>3 DEF Serialized
<1>3. Room(b.w, 0, c)
  <2>1. Valid(FixedSpan(c)) /\ FixedSpan(c).fixed /\ FixedSpan(c).cap = c
    BY 0 \in Nat, SpanValid
  <2>2. ~FixedSpan(c).overflow /\ ~FixedSpan(c).header
    BY DEF FixedSpan, Growing
  <2>3. QED
    BY <2>1, <2>2 DEF Room, Open, DataPlace, HeaderSize
<1>4. SerializeStays(Serialized, msg) /\ SizeStays(Nat, msg)
  BY <1>1, MemberSerialized, MemberSizeIsNat DEF SerializeStays, SizeStays
<1> HIDE DEF b
<1>5. PICK g : SerializeSteps(g, Serialized, b, msg, c)
  BY <1>2, <1>4, SerializeTrace DEF b
<1>6. PICK h : SizeSteps(h, Nat, 0, msg)
  BY <1>4, SizeTrace
<1>7. /\ g \in [0 .. n -> Serialized] /\ g[0] = b /\ SerializeInto(msg, c) = g[n]
      /\ \A k \in 1 .. n : g[k] = WriteLeaf(g[k - 1], msg[k])
  <2>1. \A k \in 1 .. n : \A x : WriteMember(x, msg[k]) = WriteLeaf(x, msg[k])
    <3> TAKE k \in 1 .. n
    <3>1. msg[k] \in LeafType
      OBVIOUS
    <3>2. msg[k].kind # "nested" /\ msg[k].kind # "nestedSequence"
      BY <3>1, LeafFields
    <3>3. QED
      BY <3>2 DEF WriteMember
  <2>2. QED
    BY <1>5, <2>1 DEF SerializeSteps
<1>8. /\ h \in [0 .. n -> Nat] /\ h[0] = 0 /\ ComputeSerializedSize(msg) = HeaderSize + h[n]
      /\ \A k \in 1 .. n : h[k] = LeafSize(h[k - 1], msg[k])
  <2>1. \A k \in 1 .. n : \A x : MemberSize(x, msg[k]) = LeafSize(x, msg[k])
    <3> TAKE k \in 1 .. n
    <3>1. msg[k] \in LeafType
      OBVIOUS
    <3>2. msg[k].kind # "nested" /\ msg[k].kind # "nestedSequence"
      BY <3>1, LeafFields
    <3>3. QED
      BY <3>2 DEF MemberSize
  <2>2. QED
    BY <1>6, <2>1 DEF SizeSteps
<1>9. \A k \in 1 .. n : msg[k] \in LeafType /\ msg[k].kind # "wstring"
  OBVIOUS
<1> HIDE DEF n
<1>10. \A k \in 0 .. n : h[k] <= h[n]
  <2>1. \A k \in 1 .. n : h[k - 1] <= h[k]
    <3> TAKE k \in 1 .. n
    <3>1. k - 1 \in 0 .. n
      BY <1>1
    <3>2. h[k - 1] \in Nat
      BY <1>8, <3>1
    <3>3. QED
      BY <1>8, <1>9, <3>2, LeafSizeGrows
  <2>2. QED
    BY <1>1, <1>8, <2>1, NeverShrinks
<1> DEFINE S == {k \in Nat : k <= n => Room(g[k].w, h[k], c)}
<1>11. 0 \in S
  BY <1>3, <1>7, <1>8
<1>12. ASSUME NEW k \in Nat, k \in S PROVE k + 1 \in S
  <2> SUFFICES ASSUME k + 1 <= n PROVE Room(g[k + 1].w, h[k + 1], c)
    OBVIOUS
  <2>1. k + 1 \in 1 .. n /\ (k + 1) - 1 = k /\ k \in 0 .. n /\ k + 1 \in 0 .. n /\ n \in 0 .. n
    BY <1>1
  <2>2. /\ g[k] \in Serialized /\ h[k] \in Nat /\ h[k + 1] \in Nat /\ h[n] \in Nat
        /\ h[k + 1] <= h[n]
    BY <1>7, <1>8, <1>10, <2>1
  <2>3. g[k + 1] = WriteLeaf(g[k], msg[k + 1]) /\ h[k + 1] = LeafSize(h[k], msg[k + 1])
    BY <1>7, <1>8, <2>1
  <2>4. Room(g[k].w, h[k], c)
    BY <1>1, <1>12, <2>1
  <2>5. HeaderSize + LeafSize(h[k], msg[k + 1]) <= c
    BY <1>8, <2>2, <2>3 DEF HeaderSize
  <2>6. msg[k + 1] \in LeafType /\ msg[k + 1].kind # "wstring"
    BY <1>9, <2>1
  <2>7. Room(WriteLeaf(g[k], msg[k + 1]).w, LeafSize(h[k], msg[k + 1]), c)
    BY <2>2, <2>4, <2>5, <2>6, LeafRoom
  <2>8. QED
    BY <2>3, <2>7
<1> HIDE DEF S
<1>13. n \in S
  BY <1>1, <1>11, <1>12, SetInduction
<1>14. QED
  BY <1>1, <1>7, <1>13 DEF S, Room, Open

--------------------------------------------------------------------------------
(***************************************************************************)
(* A read is answered OK if and only if what it asks for ends inside the   *)
(* buffer, and then it has read just that.                                 *)
(***************************************************************************)
Answers(r, y, p, d) == y.ok \/ p <= r.size => Reached(r, y, p, d)

LEMMA AnswersInTurn ==
  ASSUME NEW r, NEW y, NEW z, NEW p \in Nat, NEW q \in Nat, NEW d, NEW e,
         r.size \in Nat, p <= q, z.ok => y.ok,
         Answers(r, y, p, d), y.ok => Answers(y, z, q, e)
  PROVE  Answers(r, z, q, e)
<1> SUFFICES ASSUME z.ok \/ q <= r.size PROVE Reached(r, z, q, e)
  BY DEF Answers
<1>1. y.ok \/ p <= r.size
  OBVIOUS
<1>2. Reached(r, y, p, d)
  BY <1>1 DEF Answers
<1>3. y.ok /\ y.size = r.size
  BY <1>2 DEF Reached
<1>4. Reached(y, z, q, e)
  BY <1>3 DEF Answers
<1>5. QED
  BY <1>2, <1>4, ReachedTransitive

LEMMA TakeAnswers ==
  ASSUME NEW r \in ReaderType, r.ok, NEW a \in PrimitiveSizes, NEW n \in Nat
  PROVE  /\ Answers(r, Take(r, n), r.pos + n, r.depth)
         /\ Answers(r, Take(AlignPosition(r, a), n), DataAlign(r.pos, a) + n, r.depth)
         /\ Take(AlignPosition(r, a), n).ok => AlignPosition(r, a).ok
<1> DEFINE y == AlignPosition(r, a)
           p == DataAlign(r.pos, a)
<1>1. p \in Nat /\ r.size \in Nat /\ r.pos \in Nat
  BY DataAlignBounds DEF ReaderType
<1>2. Answers(r, Take(r, n), r.pos + n, r.depth)
  <2>1. ASSUME Take(r, n).ok PROVE r.pos + n <= r.size
    BY <1>1, <2>1 DEF Take, Refuse, ReaderType
  <2>2. QED
    BY <2>1, TakeReaches DEF Answers
<1>3. ASSUME Take(y, n).ok PROVE p + n <= r.size /\ y.ok
  <2>1. y.ok
    BY <1>3 DEF Take
  <2>2. p <= r.size
    BY <1>1, <2>1 DEF AlignPosition, Refuse, ReaderType
  <2>3. y.pos = p /\ y.size = r.size /\ y \in ReaderType
    BY <2>2, AlignReaches DEF Reached
  <2> HIDE DEF y, p
  <2>4. ~(y.pos + n > y.size)
    BY <1>3, <2>1 DEF Take, Refuse, ReaderType
  <2>5. QED
    BY <1>1, <2>1, <2>3, <2>4
<1>4. Answers(r, Take(y, n), p + n, r.depth)
  <2>1. Take(y, n).ok \/ p + n <= r.size => p + n <= r.size
    BY <1>3
  <2>2. QED
    BY <2>1, AlignedTakeReaches DEF Answers
<1>5. QED
  BY <1>2, <1>3, <1>4

LEMMA PrimitiveAnswers ==
  ASSUME NEW r \in ReaderType, r.ok, NEW s \in PrimitiveSizes
  PROVE  Answers(r, ReadPrimitive(r, s), DataAlign(r.pos, s) + s, r.depth)
BY SizesArePositive, TakeAnswers DEF ReadPrimitive

\* What any bytes with m in its place say to a prefix is what that place says.
LEMMA PrefixFromPlace ==
  ASSUME NEW r \in ReaderType, r.ok, NEW m, NEW wire, NEW noise,
         NumberAt(wire, noise, DataAlign(r.pos, PrefixSize)) = m
  PROVE  ReadPrefix(r, wire, noise) = ReadPrefix(r, WireAt(r.pos, m), noise)
<1> DEFINE a == AlignPosition(r, PrefixSize)
           t == Take(a, PrefixSize)
           p == DataAlign(r.pos, PrefixSize)
<1>1. CASE ~t.ok
  BY <1>1 DEF ReadPrefix
<1>2. CASE t.ok
  <2>1. a.ok
    BY <1>2 DEF Take
  <2>2. ~(p > r.size)
    BY <2>1 DEF AlignPosition, Refuse, ReaderType
  <2>3. a.pos = p
    BY <2>2 DEF AlignPosition, ReaderType
  <2>4. NumberAt(WireAt(r.pos, m), noise, p) = m
    BY DEF NumberAt, WireAt
  <2> HIDE DEF a, p
  <2>5. NumberAt(wire, noise, a.pos) = m /\ NumberAt(WireAt(r.pos, m), noise, a.pos) = m
    BY <2>3, <2>4 DEF p
  <2>6. QED
    BY <2>5 DEF ReadPrefix, a
<1>3. QED
  BY <1>1, <1>2

LEMMA PrefixAnswers ==
  ASSUME NEW r \in ReaderType, r.ok, NEW m \in Nat, NEW wire, NEW noise,
         NumberAt(wire, noise, DataAlign(r.pos, PrefixSize)) = m
  PROVE  LET y == ReadPrefix(r, wire, noise)
         IN Answers(r, y, PrefixEnd(r.pos), r.depth) /\ (y.ok => y.got = m)
<1> DEFINE y == ReadPrefix(r, wire, noise)
           t == Take(AlignPosition(r, PrefixSize), PrefixSize)
<1>1. PrefixSize \in PrimitiveSizes /\ PrefixSize \in Nat
  BY DEF PrefixSize, PrimitiveSizes
<1>2. Answers(r, t, PrefixEnd(r.pos), r.depth)
  BY <1>1, TakeAnswers DEF PrefixEnd
<1>3. y.ok => t.ok
  BY DEF ReadPrefix
<1>4. y = ReadPrefix(r, WireAt(r.pos, m), noise)
  BY PrefixFromPlace
<1>5. t.ok => PrefixEnd(r.pos) <= r.size
  <2>1. ASSUME t.ok PROVE t \in ReaderType /\ t.pos = PrefixEnd(r.pos) /\ t.size = r.size
    BY <1>2, <2>1 DEF Answers, Reached
  <2>2. ASSUME t.ok PROVE AlignPosition(r, PrefixSize).ok
    BY <2>2 DEF Take
  <2>3. ASSUME t.ok PROVE t.pos <= t.size
    <3> DEFINE b == AlignPosition(r, PrefixSize)
    <3>1. ~(b.pos + PrefixSize > b.size) /\ b.ok
      BY <2>2, <2>3 DEF Take, Refuse
    <3>2. t = [b EXCEPT !.pos = @ + PrefixSize]
      BY <3>1 DEF Take
    <3>3. b \in ReaderType
      <4>1. DataAlign(r.pos, PrefixSize) \in Nat
        BY PrefixEndIsNat DEF ReaderType
      <4>2. QED
        BY <4>1 DEF AlignPosition, Refuse, ReaderType
    <3> HIDE DEF b
    <3>4. QED
      BY <1>1, <3>1, <3>2, <3>3 DEF ReaderType
  <2>4. QED
    BY <2>1, <2>3
<1>6. PrefixEnd(r.pos) <= r.size => Reached(r, y, PrefixEnd(r.pos), r.depth) /\ y.got = m
  BY <1>4, PrefixReaches
<1> HIDE DEF y, t
<1>7. QED
  BY <1>3, <1>5, <1>6 DEF Answers, y

LEMMA StringAnswers ==
  ASSUME NEW r \in ReaderType, r.ok, NEW m \in Nat \ {0}, NEW wire, NEW noise,
         NumberAt(wire, noise, DataAlign(r.pos, PrefixSize)) = m
  PROVE  /\ Answers(r, ReadString(r, wire, noise), PrefixEnd(r.pos) + m, r.depth)
         /\ m % 2 = 0 =>
              Answers(r, ReadWString(r, wire, noise), PrefixEnd(r.pos) + m, r.depth)
<1> DEFINE y == ReadPrefix(r, wire, noise)
           a == PrefixEnd(r.pos)
<1>1. Answers(r, y, a, r.depth) /\ (y.ok => y.got = m)
  BY PrefixAnswers
<1>2. a \in Nat /\ r.size \in Nat /\ 1 \in PrimitiveSizes
  BY PrefixEndIsNat DEF ReaderType, PrimitiveSizes
<1>3. ReadString(r, wire, noise) = IF y.ok THEN Take(y, m) ELSE y
  BY <1>1 DEF ReadString
<1>4. m % 2 = 0 => ReadWString(r, wire, noise) = IF y.ok THEN Take(y, m) ELSE y
  <2> HIDE DEF y
  <2>1. m % 2 = 0 => ~(m < 2)
    OBVIOUS
  <2>2. QED
    BY <1>1, <2>1 DEF ReadWString, y
<1> HIDE DEF y, a
<1> DEFINE z == IF y.ok THEN Take(y, m) ELSE y
<1>5. Answers(r, z, a + m, r.depth)
  <2>1. y.ok => Answers(y, z, a + m, r.depth)
    <3> SUFFICES ASSUME y.ok PROVE Answers(y, Take(y, m), a + m, r.depth)
      OBVIOUS
    <3>1. y \in ReaderType /\ y.pos = a /\ y.depth = r.depth
      BY <1>1 DEF Answers, Reached
    <3>2. QED
      BY <1>2, <3>1, TakeAnswers
  <2>2. z.ok => y.ok
    BY DEF Take
  <2>3. a <= a + m /\ a + m \in Nat
    BY <1>2
  <2> HIDE DEF z
  <2>4. QED
    BY <1>1, <1>2, <2>1, <2>2, <2>3, AnswersInTurn
<1>6. QED
  BY <1>3, <1>4, <1>5 DEF a

LEMMA BeginAnswers ==
  ASSUME NEW r \in ReaderType, r.ok, NEW m \in Nat, NEW wire, NEW noise,
         NumberAt(wire, noise, DataAlign(r.pos, PrefixSize)) = m
  PROVE  LET b == BeginReadSequence(r, wire, noise)
         IN Answers(r, b, PrefixEnd(r.pos), r.depth + 1) /\ (b.ok => b.got = m)
<1> DEFINE y == ReadPrefix(r, wire, noise)
           a == PrefixEnd(r.pos)
           b == IF y.ok THEN PushRead(y) ELSE y
<1>1. Answers(r, y, a, r.depth) /\ (y.ok => y.got = m)
  BY PrefixAnswers
<1>2. BeginReadSequence(r, wire, noise) = b
  BY DEF BeginReadSequence
<1> HIDE DEF y
<1>3. a \in Nat /\ r.size \in Nat
  BY PrefixEndIsNat DEF ReaderType
<1>4. b.ok => y.ok
  OBVIOUS
<1>5. ASSUME y.ok
      PROVE  Answers(y, b, a, r.depth + 1) /\ b.got = m
  <2>1. y \in ReaderType /\ y.pos = a /\ y.depth = r.depth
    BY <1>1, <1>5 DEF Answers, Reached
  <2>2. Reached(y, PushRead(y), a, r.depth + 1)
    BY <1>5, <2>1, PushReadReaches
  <2>3. PushRead(y).got = m
    BY <1>1, <1>5, <2>1 DEF PushRead, ReaderType
  <2>4. QED
    BY <1>5, <2>2, <2>3 DEF Answers
<1> HIDE DEF b, a
<1>6. Answers(r, b, a, r.depth + 1)
  BY <1>1, <1>3, <1>4, <1>5, AnswersInTurn
<1>7. QED
  BY <1>2, <1>4, <1>5, <1>6 DEF a

\* Elements as a view, in the context opened for them.
LEMMA BulkAnswers ==
  ASSUME NEW r \in ReaderType, r.ok, r.native, r.depth # 0,
         NEW s \in PrimitiveSizes, NEW n \in Nat
  PROVE  Answers(r, ReadBulk(r, s, n), DataAlign(r.pos, s) + s * n, r.depth - 1)
<1> DEFINE t == Take(AlignPosition(r, s), s * n)
           p == DataAlign(r.pos, s) + s * n
<1>1. s * n \in Nat /\ DataAlign(r.pos, s) \in Nat /\ r.size \in Nat
  BY ProductIsNat, DataAlignBounds DEF ReaderType
<1>2. Answers(r, t, p, r.depth)
  BY <1>1, TakeAnswers
<1>3. ReadBulk(r, s, n) = EndRead(t)
  BY DEF ReadBulk
<1>4. p \in Nat
  BY <1>1
<1> HIDE DEF t, p
<1>5. EndRead(t).ok => t.ok
  BY DEF EndRead
<1>6. t.ok => Answers(t, EndRead(t), p, r.depth - 1)
  <2> SUFFICES ASSUME t.ok PROVE Reached(t, EndRead(t), p, r.depth - 1)
    BY DEF Answers
  <2>1. t \in ReaderType /\ t.depth = r.depth /\ t.pos = p
    BY <1>2 DEF Answers, Reached
  <2>2. QED
    BY <2>1, EndReadReaches
<1>7. p <= p /\ r.size \in Nat
  BY <1>1, <1>4
<1> DEFINE z == EndRead(t)
           e == r.depth - 1
<1> HIDE DEF z, e
<1>8. Answers(r, z, p, e)
  BY <1>2, <1>4, <1>5, <1>6, <1>7, AnswersInTurn DEF z, e
<1>9. QED
  BY <1>3, <1>8 DEF p, z, e

LEMMA ArrayAnswers ==
  ASSUME NEW r \in ReaderType, r.ok, r.native, NEW s \in PrimitiveSizes, NEW n \in Nat
  PROVE  Answers(r, ReadFixedSpan(r, s, n), DataAlign(r.pos, s) + s * n, r.depth)
<1> DEFINE b == PushRead(r)
           p == DataAlign(r.pos, s) + s * n
<1>1. Reached(r, b, r.pos, r.depth + 1)
  BY PushReadReaches
<1>2. ReadFixedSpan(r, s, n) = ReadBulk(b, s, n)
  BY DEF ReadFixedSpan, BeginReadArray
<1> HIDE DEF b
<1>3. /\ b \in ReaderType /\ b.ok /\ b.native /\ b.depth # 0 /\ b.depth - 1 = r.depth
      /\ b.pos = r.pos /\ b.size = r.size
  BY <1>1 DEF Reached, ReaderType
<1>4. Answers(b, ReadBulk(b, s, n), p, r.depth)
  BY <1>3, BulkAnswers
<1> HIDE DEF p
<1>5. QED
  BY <1>1, <1>2, <1>3, <1>4, ReachedTransitive DEF Answers, p

LEMMA SpanAnswers ==
  ASSUME NEW r \in ReaderType, r.ok, r.native, NEW s \in PrimitiveSizes, NEW n \in Nat,
         NEW wire, NEW noise, NumberAt(wire, noise, DataAlign(r.pos, PrefixSize)) = n
  PROVE  Answers(r, ReadSpan(r, s, wire, noise), DataAlign(PrefixEnd(r.pos), s) + s * n, r.depth)
<1> DEFINE b == BeginReadSequence(r, wire, noise)
           a == PrefixEnd(r.pos)
           z == ReadBulk(b, s, b.got)
           p == DataAlign(a, s) + s * n
<1>1. Answers(r, b, a, r.depth + 1) /\ (b.ok => b.got = n)
  BY BeginAnswers
<1>2. ReadSpan(r, s, wire, noise) = z
  BY DEF ReadSpan
<1>3. a \in Nat /\ r.size \in Nat /\ r.depth \in Nat
  BY PrefixEndIsNat DEF ReaderType
<1> HIDE DEF a, b
<1>4. a <= p /\ p \in Nat
  <2>1. DataAlign(a, s) \in Nat /\ a <= DataAlign(a, s) /\ s * n \in Nat
    BY <1>3, DataAlignBounds, ProductIsNat
  <2>2. QED
    BY <1>3, <2>1
<1>5. z.ok => b.ok
  BY DEF ReadBulk, EndRead, Take, AlignPosition, Refuse
<1>6. b.ok => Answers(b, z, p, r.depth)
  <2> SUFFICES ASSUME b.ok PROVE Answers(b, ReadBulk(b, s, n), p, r.depth)
    BY <1>1
  <2>1. b \in ReaderType /\ b.pos = a /\ b.depth = r.depth + 1 /\ b.native
    BY <1>1 DEF Answers, Reached
  <2>2. b.depth # 0 /\ b.depth - 1 = r.depth
    BY <1>3, <2>1
  <2>3. QED
    BY <2>1, <2>2, BulkAnswers
<1> HIDE DEF z, p
<1>7. Answers(r, z, p, r.depth)
  BY <1>1, <1>3, <1>4, <1>5, <1>6, AnswersInTurn
<1>8. QED
  BY <1>2, <1>7 DEF p, a

\* Flags are read one by one; none is read by a reader that was refused.
LEMMA FlagsAnswers ==
  ASSUME NEW n \in Nat, NEW b \in InBuffer(n)
  PROVE  /\ ReadFlags(b).ok => b.ok
         /\ b.ok /\ b.depth # 0 => Answers(b, ReadFlags(b), b.pos + b.got, b.depth - 1)
<1> DEFINE T == {x \in InBuffer(n) : x.ok => b.ok}
<1>1. ReadFlagsStays(T) /\ b \in T
  <2> SUFFICES ASSUME NEW x \in T PROVE ReadPrimitive(x, 1) \in T
    BY DEF ReadFlagsStays
  <2>1. 1 \in PrimitiveSizes /\ 0 \in Nat
    BY DEF PrimitiveSizes
  <2>2. ReadPrimitive(x, 1) \in InBuffer(n)
    BY <2>1, InBufferBulk
  <2>3. ReadPrimitive(x, 1).ok => x.ok
    BY DEF ReadPrimitive, AlignPosition, Take, Refuse
  <2>4. QED
    BY <2>2, <2>3
<1>2. b.got \in Nat /\ b \in ReaderType /\ b.size = n /\ b.pos \in Nat
  BY InBufferCalls DEF InBuffer
<1> DEFINE m == b.got
<1> HIDE DEF T
<1>3. PICK g : ReadFlagsSteps(g, T, b)
  BY <1>1, <1>2, ReadFlagsTrace
<1>4. /\ g \in [0 .. m -> T] /\ g[0] = b /\ ReadFlags(b) = EndRead(g[m])
      /\ \A k \in 1 .. m : g[k] = ReadPrimitive(g[k - 1], 1)
  BY <1>3 DEF ReadFlagsSteps
<1> HIDE DEF m
<1>5. m \in Nat
  BY <1>2 DEF m
<1>6. ReadFlags(b).ok => b.ok
  <2>1. g[m] \in T
    BY <1>4, <1>5
  <2>2. EndRead(g[m]).ok => g[m].ok
    BY DEF EndRead
  <2>3. QED
    BY <1>4, <2>1, <2>2 DEF T
<1>7. ASSUME b.ok, b.depth # 0
      PROVE  Answers(b, ReadFlags(b), b.pos + m, b.depth - 1)
  <2> DEFINE S == {k \in Nat : k <= m => Answers(b, g[k], b.pos + k, b.depth)}
  <2>1. 0 \in S
    <3>1. Reached(b, b, b.pos + 0, b.depth)
      BY <1>2, <1>7 DEF Reached
    <3>2. QED
      BY <1>4, <3>1 DEF Answers
  <2>2. ASSUME NEW k \in Nat, k \in S PROVE k + 1 \in S
    <3> SUFFICES ASSUME k + 1 <= m PROVE Answers(b, g[k + 1], b.pos + (k + 1), b.depth)
      OBVIOUS
    <3>1. k + 1 \in 1 .. m /\ (k + 1) - 1 = k /\ k <= m
      BY <1>5
    <3> DEFINE y == g[k]
               z == g[k + 1]
               p == b.pos + k
    <3>2. Answers(b, y, p, b.depth) /\ z = ReadPrimitive(y, 1)
      BY <1>4, <2>2, <3>1
    <3> HIDE DEF y, z
    <3>3. p \in Nat /\ p + 1 = b.pos + (k + 1) /\ n \in Nat /\ p + 1 \in Nat /\ p <= p + 1
      BY <1>2
    <3>4. z.ok => y.ok
      BY <3>2 DEF ReadPrimitive, AlignPosition, Take, Refuse
    <3>5. y.ok => Answers(y, z, p + 1, b.depth)
      <4> SUFFICES ASSUME y.ok PROVE Answers(y, ReadPrimitive(y, 1), p + 1, b.depth)
        BY <3>2
      <4>1. y \in ReaderType /\ y.pos = p /\ y.depth = b.depth
        BY <3>2 DEF Answers, Reached
      <4> HIDE DEF p
      <4>2. DataAlign(p, 1) = p /\ 1 \in PrimitiveSizes
        BY <3>3 DEF DataAlign, AlignTo, CalculateAlignment, HeaderSize, PrimitiveSizes
      <4>3. QED
        BY <4>1, <4>2, PrimitiveAnswers
    <3> HIDE DEF p
    <3>6. Answers(b, z, p + 1, b.depth)
      BY <1>2, <3>2, <3>3, <3>4, <3>5, AnswersInTurn
    <3>7. QED
      BY <3>3, <3>6 DEF z
  <2> HIDE DEF S
  <2>3. m \in S
    BY <1>5, <2>1, <2>2, SetInduction
  <2>4. Answers(b, g[m], b.pos + m, b.depth)
    BY <1>5, <2>3 DEF S
  <2> DEFINE y == g[m]
             p == b.pos + m
             e == b.depth - 1
             z == EndRead(y)
  <2> HIDE DEF y
  <2>5. p \in Nat /\ p <= p
    BY <1>2, <1>5
  <2>6. z.ok => y.ok
    BY DEF EndRead
  <2>7. y.ok => Answers(y, z, p, e)
    <3> SUFFICES ASSUME y.ok PROVE Reached(y, z, p, e)
      BY DEF Answers
    <3>1. y \in ReaderType /\ y.pos = p /\ y.depth = b.depth
      BY <2>4 DEF Answers, Reached, y
    <3>2. QED
      BY <1>7, <3>1, EndReadReaches
  <2>8. Answers(b, y, p, b.depth)
    BY <2>4 DEF y
  <2> HIDE DEF z, p, e
  <2>9. Answers(b, z, p, e)
    BY <1>2, <2>5, <2>6, <2>7, <2>8, AnswersInTurn
  <2>10. QED
    BY <1>4, <2>9 DEF z, p, e, y
<1>8. QED
  BY <1>6, <1>7 DEF m

--------------------------------------------------------------------------------
(***************************************************************************)
(* What a writer of c bytes has written stays: whatever follows lies       *)
(* behind it, and the prefixes keep their numbers.                         *)
(***************************************************************************)
Poised(s, c) == s \in Serialized /\ Valid(s.w) /\ s.w.fixed /\ s.w.cap = c

Onward(s, t, c) ==
  /\ Poised(t, c)
  /\ ~t.w.overflow =>
       /\ ~s.w.overflow
       /\ s.w.header => t.w.header
       /\ DataPlace(s.w) <= DataPlace(t.w)
       /\ \A p \in DOMAIN s.wire :
            p < DataPlace(s.w) => p \in DOMAIN t.wire /\ t.wire[p] = s.wire[p]

\* Onward, with as many contexts open.
WrittenTo(s, t, c) == Onward(s, t, c) /\ (~t.w.overflow => t.w.depth = s.w.depth)

LEMMA ReadyPlace ==
  ASSUME NEW c, NEW s, Poised(s, c)
  PROVE  /\ DataPlace(s.w) \in Nat /\ s.w.pos \in Nat /\ s.w.pos <= c /\ c \in Nat
         /\ s.w.depth \in Nat /\ s.w \in LooseWriter
         /\ s.wire \in Wires /\ DOMAIN s.wire \subseteq Int
<1>1. s.w.pos \in Nat /\ s.w.pos <= c /\ c \in Nat /\ s.w.depth \in Nat
  BY CursorInSpan DEF Poised, Valid, WriterType
<1>2. s.w \in LooseWriter /\ s.wire \in Wires
  BY DEF Poised, Serialized
<1>3. DOMAIN s.wire \subseteq Int
  BY <1>2 DEF Wires
<1>4. QED
  BY <1>1, <1>2, <1>3 DEF DataPlace, HeaderSize

LEMMA WrittenToItself ==
  ASSUME NEW c, NEW s, Poised(s, c) PROVE WrittenTo(s, s, c)
BY ReadyPlace DEF WrittenTo, Onward

LEMMA OnwardTransitive ==
  ASSUME NEW c, NEW s, NEW t, NEW u, Poised(s, c), Onward(s, t, c), Onward(t, u, c)
  PROVE  Onward(s, u, c)
<1> SUFFICES ASSUME ~u.w.overflow
             PROVE  /\ ~s.w.overflow
                    /\ s.w.header => u.w.header
                    /\ DataPlace(s.w) <= DataPlace(u.w)
                    /\ \A p \in DOMAIN s.wire :
                         p < DataPlace(s.w) => p \in DOMAIN u.wire /\ u.wire[p] = s.wire[p]
  BY DEF Onward
<1>1. /\ Poised(t, c) /\ Poised(u, c) /\ ~t.w.overflow /\ ~s.w.overflow
      /\ s.w.header => u.w.header
  BY DEF Onward
<1>2. /\ DataPlace(s.w) \in Nat /\ DataPlace(t.w) \in Nat /\ DataPlace(u.w) \in Nat
      /\ DOMAIN s.wire \subseteq Int
  BY <1>1, ReadyPlace
<1>3. DataPlace(s.w) <= DataPlace(t.w) /\ DataPlace(t.w) <= DataPlace(u.w)
  BY <1>1 DEF Onward
<1>4. ASSUME NEW p \in DOMAIN s.wire, p < DataPlace(s.w)
      PROVE  p \in DOMAIN u.wire /\ u.wire[p] = s.wire[p]
  <2>1. p \in DOMAIN t.wire /\ t.wire[p] = s.wire[p]
    BY <1>1, <1>4 DEF Onward
  <2>2. p \in Int
    BY <1>2
  <2>3. p < DataPlace(t.w)
    BY <1>2, <1>3, <1>4, <2>2
  <2>4. QED
    BY <1>1, <2>1, <2>3 DEF Onward
<1>5. DataPlace(s.w) <= DataPlace(u.w)
  BY <1>2, <1>3
<1>6. QED
  BY <1>1, <1>4, <1>5

LEMMA WrittenTransitive ==
  ASSUME NEW c, NEW s, NEW t, NEW u, Poised(s, c), WrittenTo(s, t, c), WrittenTo(t, u, c)
  PROVE  WrittenTo(s, u, c)
<1>1. Onward(s, u, c)
  BY OnwardTransitive DEF WrittenTo
<1>2. ~u.w.overflow => ~t.w.overflow
  BY DEF WrittenTo, Onward
<1>3. QED
  BY <1>1, <1>2 DEF WrittenTo

\* Along a trace of writes, from any point of it to any later one.
LEMMA WrittenAlong ==
  ASSUME NEW c, NEW n \in Nat, NEW g, Poised(g[0], c),
         \A k \in 1 .. n : Poised(g[k - 1], c) => WrittenTo(g[k - 1], g[k], c)
  PROVE  /\ \A k \in 0 .. n : WrittenTo(g[0], g[k], c) /\ Poised(g[k], c)
         /\ \A k \in 0 .. n : WrittenTo(g[k], g[n], c)
<1> DEFINE S == {k \in Nat : k <= n => WrittenTo(g[0], g[k], c)}
<1>1. 0 \in S
  BY WrittenToItself
<1>2. ASSUME NEW k \in Nat, k \in S PROVE k + 1 \in S
  <2> SUFFICES ASSUME k + 1 <= n PROVE WrittenTo(g[0], g[k + 1], c)
    OBVIOUS
  <2>1. k + 1 \in 1 .. n /\ (k + 1) - 1 = k /\ k <= n
    OBVIOUS
  <2>2. WrittenTo(g[0], g[k], c)
    BY <1>2, <2>1
  <2>3. Poised(g[k], c)
    BY <2>2 DEF WrittenTo, Onward
  <2>4. WrittenTo(g[k], g[k + 1], c)
    BY <2>1, <2>3
  <2>5. QED
    BY <2>2, <2>4, WrittenTransitive
<1> HIDE DEF S
<1>3. \A k \in 0 .. n : WrittenTo(g[0], g[k], c) /\ Poised(g[k], c)
  <2>1. Nat \subseteq S
    BY <1>1, <1>2, SetInduction
  <2> TAKE k \in 0 .. n
  <2>2. k \in Nat /\ k <= n
    OBVIOUS
  <2>3. WrittenTo(g[0], g[k], c)
    BY <2>1, <2>2 DEF S
  <2>4. QED
    BY <2>3 DEF WrittenTo, Onward
<1> DEFINE R == {j \in Nat : j <= n => WrittenTo(g[n - j], g[n], c)}
<1>4. 0 \in R
  <2>1. n \in 0 .. n /\ n - 0 = n
    OBVIOUS
  <2>2. WrittenTo(g[n], g[n], c)
    BY <1>3, <2>1, WrittenToItself
  <2>3. QED
    BY <2>1, <2>2
<1>5. ASSUME NEW j \in Nat, j \in R PROVE j + 1 \in R
  <2> SUFFICES ASSUME j + 1 <= n PROVE WrittenTo(g[n - (j + 1)], g[n], c)
    OBVIOUS
  <2>1. n - j \in 1 .. n /\ (n - j) - 1 = n - (j + 1) /\ n - (j + 1) \in 0 .. n /\ j <= n
    OBVIOUS
  <2>2. WrittenTo(g[n - j], g[n], c)
    BY <1>5, <2>1
  <2>3. Poised(g[n - (j + 1)], c)
    BY <1>3, <2>1
  <2>4. WrittenTo(g[n - (j + 1)], g[n - j], c)
    BY <2>1, <2>3
  <2>5. QED
    BY <2>2, <2>3, <2>4, WrittenTransitive
<1> HIDE DEF R
<1>6. \A k \in 0 .. n : WrittenTo(g[k], g[n], c)
  <2>1. Nat \subseteq R
    BY <1>4, <1>5, SetInduction
  <2> TAKE k \in 0 .. n
  <2>2. n - k \in Nat /\ n - k <= n /\ n - (n - k) = k
    OBVIOUS
  <2>3. QED
    BY <2>1, <2>2 DEF R
<1>7. QED
  BY <1>3, <1>6

--------------------------------------------------------------------------------
(* One field that is written. *)

LEMMA DataFromPlace ==
  ASSUME NEW c, c + 64 <= SizeMax, NEW w, Open(w, c), DataPlace(w) <= c, NEW a
  PROVE  DataFrom(w, a) = DataAlign(DataPlace(w), a)
<1>1. Open(EnsureHeaderWritten(w), c) /\ EnsureHeaderWritten(w).pos = DataPlace(w)
  BY HeaderFits
<1>2. Cursor(EnsureHeaderWritten(w)) = DataPlace(w)
  BY <1>1, OpenCursor
<1>3. QED
  BY <1>2 DEF DataFrom

\* What is known of a call that took writer w to y: if it met no error the
\* data ends at p, behind `from`, and d contexts are open.
CallTo(w, y, from, p, d, c) ==
  /\ ValidAfter(w, y)
  /\ ~y.overflow => Wrote(w, y, p, d) /\ p \in Nat /\ DataPlace(w) <= from /\ from <= p

LEMMA CallMoves ==
  ASSUME NEW c, c + 64 <= SizeMax, NEW s, Poised(s, c), NEW y, NEW from \in Nat, NEW p, NEW d,
         CallTo(s.w, y, from, p, d, c), ~y.overflow
  PROVE  /\ Open(s.w, c) /\ DataPlace(s.w) <= c /\ y.header /\ y.pos = p /\ y.depth = d
         /\ DataPlace(y) = p /\ p \in Nat /\ from <= p /\ DataPlace(s.w) <= p
<1>1. /\ Valid(y) /\ y.fixed /\ y.cap = c /\ ~s.w.overflow /\ y.header /\ y.pos = p
      /\ y.depth = d /\ p \in Nat /\ DataPlace(s.w) <= from /\ from <= p
  BY DEF CallTo, ValidAfter, Wrote, Poised
<1>2. p <= c /\ c \in Nat
  BY <1>1, CursorInSpan
<1>3. DataPlace(s.w) \in Nat
  BY ReadyPlace
<1>4. DataPlace(s.w) <= c /\ DataPlace(s.w) <= p
  BY <1>1, <1>2, <1>3
<1>5. QED
  BY <1>1, <1>4 DEF Open, Poised, DataPlace

\* t is s with one more field, or one more prefix, that ends at p.
Field(s, t, c, a, p, d) ==
  /\ Onward(s, t, c)
  /\ ~t.w.overflow =>
       /\ t.w.header /\ DataPlace(t.w) = p /\ t.w.depth = d
       /\ p \in Nat /\ DataPlace(s.w) <= p
       /\ t.at = Append(s.at, DataAlign(DataPlace(s.w), a))

LEMMA UnprefixedField ==
  ASSUME NEW c, c + 64 <= SizeMax, NEW s, Poised(s, c), NEW y \in LooseWriter, NEW p, NEW d,
         NEW a \in PrimitiveSizes, CallTo(s.w, y, DataPlace(s.w), p, d, c),
         NEW t, t = Unprefixed(s, y, a)
  PROVE  t.w = y /\ Field(s, t, c, a, p, d)
<1>1. t \in Serialized /\ t.w = y /\ t.wire = s.wire /\ t.at = Append(s.at, DataFrom(s.w, a))
  <2>1. s \in Serialized /\ 0 \in Nat
    BY DEF Poised
  <2>2. t \in Serialized
    BY <2>1, SerializedSteps
  <2>3. QED
    BY <2>1, <2>2 DEF Unprefixed, Serialized
<1>2. Poised(t, c)
  BY <1>1 DEF Poised, CallTo, ValidAfter
<1>3. DataPlace(s.w) \in Nat
  BY ReadyPlace
<1>4. ASSUME ~y.overflow
      PROVE  /\ Open(s.w, c) /\ DataPlace(s.w) <= c /\ DataPlace(y) = p /\ DataPlace(s.w) <= p
             /\ y.header /\ y.depth = d /\ p \in Nat
  BY <1>3, <1>4, CallMoves
<1>5. ~y.overflow => t.at = Append(s.at, DataAlign(DataPlace(s.w), a))
  BY <1>1, <1>4, DataFromPlace
<1>6. Onward(s, t, c)
  BY <1>1, <1>2, <1>4 DEF Onward, Open
<1>7. QED
  BY <1>1, <1>4, <1>5, <1>6 DEF Field

\* The number of a prefix it fits, as any later reader finds it.
Holds(s, t, c, number) ==
  number <= NumberMax => \A f : Onward(t, f, c) /\ ~f.w.overflow =>
    \A noise : NumberAt(f.wire, noise, DataAlign(DataPlace(s.w), PrefixSize)) = number

LEMMA PrefixedField ==
  ASSUME NEW c, c + 64 <= SizeMax, NEW s, Poised(s, c), NEW y \in LooseWriter, NEW p, NEW d,
         NEW n \in Nat, CallTo(s.w, y, PrefixEnd(DataPlace(s.w)), p, d, c),
         NEW t, t = Prefixed(s, y, n)
  PROVE  t.w = y /\ Field(s, t, c, PrefixSize, p, d) /\ Holds(s, t, c, n)
<1> DEFINE q == DataFrom(s.w, PrefixSize)
           b == DataAlign(DataPlace(s.w), PrefixSize)
<1>1. /\ t \in Serialized /\ t.w = y /\ t.at = Append(s.at, q)
      /\ t.wire = [x \in DOMAIN s.wire \cup {q} |-> IF x = q THEN AsUint32(n) ELSE s.wire[x]]
  <2>1. s \in Serialized /\ 1 \in PrimitiveSizes
    BY DEF Poised, PrimitiveSizes
  <2>2. t \in Serialized
    BY <2>1, SerializedSteps
  <2>3. QED
    BY <2>1, <2>2 DEF Prefixed
<1>2. Poised(t, c)
  BY <1>1 DEF Poised, CallTo, ValidAfter
<1>3. /\ DataPlace(s.w) \in Nat /\ b \in Nat /\ DataPlace(s.w) <= b
      /\ PrefixEnd(DataPlace(s.w)) = b + 4 /\ PrefixEnd(DataPlace(s.w)) \in Nat
  <2>1. DataPlace(s.w) \in Nat
    BY ReadyPlace
  <2>2. PrefixSize \in PrimitiveSizes
    BY DEF PrefixSize, PrimitiveSizes
  <2>3. b \in Nat /\ DataPlace(s.w) <= b
    BY <2>1, <2>2, DataAlignBounds
  <2>4. QED
    BY <2>1, <2>3 DEF PrefixEnd, PrefixSize
<1>4. ASSUME ~y.overflow
      PROVE  /\ Open(s.w, c) /\ DataPlace(s.w) <= c /\ DataPlace(y) = p /\ DataPlace(s.w) <= p
             /\ y.header /\ y.depth = d /\ p \in Nat
             /\ PrefixEnd(DataPlace(s.w)) <= p
  <2> DEFINE e == PrefixEnd(DataPlace(s.w))
  <2>1. e \in Nat /\ CallTo(s.w, y, e, p, d, c)
    BY <1>3
  <2> HIDE DEF e, q, b
  <2>2. /\ Open(s.w, c) /\ DataPlace(s.w) <= c /\ DataPlace(y) = p /\ DataPlace(s.w) <= p
        /\ y.header /\ y.depth = d /\ p \in Nat /\ e <= p
    BY <1>4, <2>1, CallMoves
  <2>3. QED
    BY <2>2 DEF e
<1>5. ~y.overflow => q = b
  BY <1>4, DataFromPlace
<1> HIDE DEF q, b
<1>6. ~y.overflow => t.at = Append(s.at, b)
  BY <1>1, <1>5
<1>7. ASSUME ~y.overflow, NEW x \in DOMAIN s.wire, x < DataPlace(s.w)
      PROVE  x \in DOMAIN t.wire /\ t.wire[x] = s.wire[x]
  <2>1. x \in Int
    BY ReadyPlace
  <2>2. x # q
    BY <1>3, <1>5, <1>7, <2>1
  <2>3. QED
    BY <1>1, <1>7, <2>2
<1>8. Onward(s, t, c)
  BY <1>1, <1>2, <1>4, <1>7 DEF Onward, Open
<1>9. Holds(s, t, c, n)
  <2> SUFFICES ASSUME n <= NumberMax, NEW f, Onward(t, f, c), ~f.w.overflow, NEW noise
               PROVE  NumberAt(f.wire, noise, b) = n
    BY DEF Holds, b
  <2>1. ~y.overflow /\ \A x \in DOMAIN t.wire : x < DataPlace(y) => x \in DOMAIN f.wire /\ f.wire[x] = t.wire[x]
    BY <1>1 DEF Onward
  <2>2. b \in DOMAIN t.wire /\ t.wire[b] = n
    <3>1. AsUint32(n) = n
      BY LengthsStored
    <3>2. QED
      BY <1>1, <1>5, <2>1, <3>1
  <2>3. b < DataPlace(y)
    BY <1>3, <1>4, <2>1
  <2>4. QED
    BY <2>1, <2>2, <2>3 DEF NumberAt
<1>10. QED
  BY <1>1, <1>4, <1>6, <1>8, <1>9 DEF Field, b

\* The calls behind the fields.
LEMMA FieldCalls ==
  ASSUME NEW c, c + 64 <= SizeMax, NEW w, Valid(w), w.fixed, w.cap = c,
         NEW s \in PrimitiveSizes, NEW n \in Nat
  PROVE  LET q == DataPlace(w)
         IN /\ CallTo(w, WritePrimitive(w, s), q, DataAlign(q, s) + s, w.depth, c)
            /\ CallTo(w, WriteString(w, n), PrefixEnd(q), PrefixEnd(q) + (n + 1), w.depth, c)
            /\ CallTo(w, WriteWString(w, n), PrefixEnd(q), PrefixEnd(q) + 2 * (n + 1), w.depth, c)
            /\ CallTo(w, BeginWriteSequence(w), PrefixEnd(q), PrefixEnd(q), w.depth + 1, c)
<1> DEFINE q == DataPlace(w)
           e == PrefixEnd(q)
<1>1. q \in Nat /\ e \in Nat /\ q <= e
  <2>1. q \in Nat
    BY DEF DataPlace, Valid, WriterType, HeaderSize
  <2>2. PrefixSize \in PrimitiveSizes /\ PrefixSize \in Nat
    BY DEF PrefixSize, PrimitiveSizes
  <2> HIDE DEF q
  <2>3. DataAlign(q, PrefixSize) \in Nat /\ q <= DataAlign(q, PrefixSize)
    BY <2>1, <2>2, DataAlignBounds
  <2>4. QED
    BY <2>1, <2>2, <2>3 DEF PrefixEnd
<1>2. Cursor(w) + 64 <= SizeMax
  BY CursorInSpan, SizeMaxAssumption
<1>3. DataAlign(q, s) \in Nat /\ q <= DataAlign(q, s) /\ s \in Nat
  BY <1>1, DataAlignBounds, SizesArePositive
<1>4. ASSUME ~WritePrimitive(w, s).overflow
      PROVE  Wrote(w, WritePrimitive(w, s), DataAlign(q, s) + s, w.depth)
  BY <1>4, PrimitivePlace
<1>5. ASSUME ~WriteString(w, n).overflow
      PROVE  Wrote(w, WriteString(w, n), e + (n + 1), w.depth)
  BY <1>5, StringPlace
<1>6. ASSUME ~WriteWString(w, n).overflow
      PROVE  Wrote(w, WriteWString(w, n), e + 2 * (n + 1), w.depth)
  BY <1>6, WStringPlace
<1>7. ASSUME ~BeginWriteSequence(w).overflow
      PROVE  Wrote(w, BeginWriteSequence(w), e, w.depth + 1)
  BY <1>7, BeginPlace
<1>8. /\ ValidAfter(w, WritePrimitive(w, s)) /\ ValidAfter(w, WriteString(w, n))
      /\ ValidAfter(w, WriteWString(w, n)) /\ ValidAfter(w, BeginWriteSequence(w))
  BY <1>2, WritePrimitiveValid, WriteStringValid, WriteWStringValid, BeginValid
<1> HIDE DEF q, e
<1>9. /\ DataAlign(q, s) + s \in Nat /\ q <= DataAlign(q, s) + s /\ q <= q
      /\ e + (n + 1) \in Nat /\ e <= e + (n + 1) /\ e <= e
      /\ e + 2 * (n + 1) \in Nat /\ e <= e + 2 * (n + 1)
  BY <1>1, <1>3
<1>10. CallTo(w, WritePrimitive(w, s), q, DataAlign(q, s) + s, w.depth, c)
  BY <1>1, <1>4, <1>8, <1>9 DEF CallTo, q
<1>11. /\ CallTo(w, WriteString(w, n), e, e + (n + 1), w.depth, c)
       /\ CallTo(w, WriteWString(w, n), e, e + 2 * (n + 1), w.depth, c)
       /\ CallTo(w, BeginWriteSequence(w), e, e, w.depth + 1, c)
  BY <1>1, <1>5, <1>6, <1>7, <1>8, <1>9 DEF CallTo, q
<1>12. QED
  BY <1>10, <1>11 DEF q, e

LEMMA ElementCalls ==
  ASSUME NEW c, NEW w, Valid(w), w.fixed, w.cap = c,
         NEW s \in PrimitiveSizes, NEW n \in Nat, c + s * n + 64 <= SizeMax
  PROVE  LET q == DataPlace(w)
         IN /\ CallTo(w, WriteArray(w, s, n), q, ElementsEnd(q, s, n), w.depth, c)
            /\ CallTo(w, WriteSequence(w, s, n), PrefixEnd(q), ElementsEnd(PrefixEnd(q), s, n),
                    w.depth, c)
<1> DEFINE q == DataPlace(w)
           e == PrefixEnd(q)
           b == s * n
<1>1. q \in Nat /\ e \in Nat /\ q <= e
  <2>1. q \in Nat
    BY DEF DataPlace, Valid, WriterType, HeaderSize
  <2>2. PrefixSize \in PrimitiveSizes /\ PrefixSize \in Nat
    BY DEF PrefixSize, PrimitiveSizes
  <2> HIDE DEF q
  <2>3. DataAlign(q, PrefixSize) \in Nat /\ q <= DataAlign(q, PrefixSize)
    BY <2>1, <2>2, DataAlignBounds
  <2>4. QED
    BY <2>1, <2>2, <2>3 DEF PrefixEnd
<1>2. b \in Nat /\ c + b + 64 <= SizeMax
  BY ProductIsNat
<1>3. w.pos \in Nat /\ w.pos <= c /\ c \in Nat /\ Cursor(w) = w.pos /\ SizeMax \in Nat
  BY CursorInSpan, SizeMaxAssumption
<1> HIDE DEF q, e, b
<1>4. Cursor(w) + b + 64 <= SizeMax /\ c + 64 <= SizeMax
  BY <1>2, <1>3
<1>5. \A x \in Nat : ElementsEnd(x, s, n) \in Nat /\ x <= ElementsEnd(x, s, n)
  <2> TAKE x \in Nat
  <2>1. DataAlign(x, s) \in Nat /\ x <= DataAlign(x, s)
    BY DataAlignBounds
  <2>2. QED
    BY <1>2, <2>1 DEF ElementsEnd, b
<1>6. ValidAfter(w, WriteArray(w, s, n)) /\ ValidAfter(w, WriteSequence(w, s, n))
  BY <1>4, WriteArraySequenceValid DEF b
<1>7. ASSUME ~WriteArray(w, s, n).overflow
      PROVE  Wrote(w, WriteArray(w, s, n), ElementsEnd(q, s, n), w.depth)
  BY <1>7, ArrayPlace DEF q
<1>8. ASSUME ~WriteSequence(w, s, n).overflow
      PROVE  Wrote(w, WriteSequence(w, s, n), ElementsEnd(e, s, n), w.depth)
  BY <1>4, <1>8, SequencePlace DEF e, q
<1>9. q <= q
  BY <1>1
<1>10. CallTo(w, WriteArray(w, s, n), q, ElementsEnd(q, s, n), w.depth, c)
  BY <1>1, <1>5, <1>6, <1>7, <1>9 DEF CallTo, q
<1>11. CallTo(w, WriteSequence(w, s, n), e, ElementsEnd(e, s, n), w.depth, c)
  BY <1>1, <1>5, <1>6, <1>8 DEF CallTo, q
<1>12. QED
  BY <1>10, <1>11 DEF q, e

LEMMA FlagsCall ==
  ASSUME NEW c, c + 64 <= SizeMax, NEW w \in LooseWriter, Valid(w), w.fixed, w.cap = c,
         NEW m, m.count \in Nat
  PROVE  LET e == PrefixEnd(DataPlace(w))
         IN CallTo(w, WriteFlags(BeginWriteSequence(w), m), e, e + m.count, w.depth, c)
<1> DEFINE e == PrefixEnd(DataPlace(w))
           b == BeginWriteSequence(w)
           n == m.count
<1>0. 1 \in PrimitiveSizes /\ 0 \in Nat /\ n \in Nat
  BY DEF PrimitiveSizes
<1>1. CallTo(w, b, e, e, w.depth + 1, c)
  BY <1>0, FieldCalls
<1>2. b \in LooseWriter
  BY <1>0, LooseWrites
<1>3. DataPlace(w) \in Nat /\ w.depth \in Nat
  BY DEF DataPlace, Valid, WriterType, HeaderSize
<1>4. e \in Nat
  BY <1>3, PrefixEndIsNat
<1> HIDE DEF b, e, n
<1>5. FlagsStays(LooseWriter)
  BY FlagsStay
<1>6. PICK g : FlagsSteps(g, LooseWriter, b, m)
  BY <1>0, <1>2, <1>5, FlagsTrace DEF n
<1>7. /\ g[0] = b /\ WriteFlags(b, m) = EndWrite(g[n])
      /\ \A k \in 1 .. n : g[k] = WritePrimitive(g[k - 1], 1)
  BY <1>6 DEF FlagsSteps, n
<1> DEFINE S == {k \in Nat : k <= n => CallTo(w, g[k], e, e + k, w.depth + 1, c)}
<1>8. 0 \in S
  <2>1. e + 0 = e
    BY <1>4
  <2>2. QED
    BY <1>1, <1>7, <2>1
<1>9. ASSUME NEW k \in Nat, k \in S PROVE k + 1 \in S
  <2> SUFFICES ASSUME k + 1 <= n PROVE CallTo(w, g[k + 1], e, e + (k + 1), w.depth + 1, c)
    OBVIOUS
  <2>1. k + 1 \in 1 .. n /\ (k + 1) - 1 = k /\ k <= n
    BY <1>0
  <2> DEFINE x == g[k]
             y == g[k + 1]
             p == e + k
  <2>2. CallTo(w, x, e, p, w.depth + 1, c) /\ y = WritePrimitive(x, 1)
    BY <1>7, <1>9, <2>1
  <2> HIDE DEF x, y
  <2>3. p \in Nat /\ p + 1 = e + (k + 1) /\ p + 1 \in Nat /\ e <= p + 1
    BY <1>4
  <2>4. Valid(x) /\ x.fixed /\ x.cap = c
    BY <2>2 DEF CallTo, ValidAfter
  <2>5. CallTo(x, y, DataPlace(x), DataAlign(DataPlace(x), 1) + 1, x.depth, c)
    BY <1>0, <2>2, <2>4, FieldCalls
  <2>6. ValidAfter(w, y)
    BY <2>2, <2>5 DEF CallTo, ValidAfter
  <2>7. ASSUME ~y.overflow PROVE Wrote(w, y, p + 1, w.depth + 1) /\ DataPlace(w) <= e
    <3>1. Wrote(x, y, DataAlign(DataPlace(x), 1) + 1, x.depth)
      BY <2>5, <2>7 DEF CallTo
    <3>2. ~x.overflow
      BY <3>1 DEF Wrote
    <3>3. Wrote(w, x, p, w.depth + 1) /\ DataPlace(w) <= e
      BY <2>2, <3>2 DEF CallTo
    <3>4. DataPlace(x) = p /\ x.depth = w.depth + 1
      BY <3>3 DEF Wrote, DataPlace
    <3> HIDE DEF p
    <3>5. DataAlign(p, 1) = p
      BY <2>3 DEF DataAlign, AlignTo, CalculateAlignment, HeaderSize
    <3>6. Wrote(x, y, p + 1, w.depth + 1)
      BY <3>1, <3>4, <3>5
    <3>7. QED
      BY <3>3, <3>6, WroteTransitive
  <2> HIDE DEF p
  <2>8. CallTo(w, y, e, p + 1, w.depth + 1, c)
    BY <2>3, <2>6, <2>7 DEF CallTo
  <2>9. QED
    BY <2>3, <2>8 DEF y
<1> HIDE DEF S
<1>10. n \in S
  BY <1>0, <1>8, <1>9, SetInduction
<1> DEFINE x == g[n]
           p == e + n
<1>11. CallTo(w, x, e, p, w.depth + 1, c)
  BY <1>0, <1>10 DEF S
<1>12. p \in Nat
  BY <1>0, <1>4
<1> HIDE DEF x, p
<1>13. /\ ValidAfter(w, Pop(x)) /\ Pop(x).overflow = x.overflow
       /\ Pop(x).pos = x.pos /\ Pop(x).header = x.header
       /\ Pop(x).depth = IF x.depth = 0 THEN 0 ELSE x.depth - 1
  BY <1>11, PopFields, PushPopValid DEF CallTo, ValidAfter
<1>14. ~x.overflow => x.depth = w.depth + 1
  BY <1>11 DEF CallTo, Wrote
<1>15. ~x.overflow => Pop(x).depth = w.depth
  BY <1>3, <1>13, <1>14
<1>16. CallTo(w, Pop(x), e, p, w.depth, c)
  BY <1>11, <1>13, <1>15 DEF CallTo, Wrote
<1>17. QED
  BY <1>7, <1>16 DEF EndWrite, x, p, n, b, e

--------------------------------------------------------------------------------
(***************************************************************************)
(* A reader in step with a writer: what the writer knows of its fields the *)
(* reader has found, and it stands where the writer's data goes on.        *)
(***************************************************************************)
InStep(s, d) ==
  /\ d.ok /\ d.r.ok /\ d.r.native
  /\ d.r.pos = DataPlace(s.w) /\ d.r.depth = s.w.depth
  /\ d.at = s.at

\* Of a message that arrived in part: in step, or refused for what is missing.
Along(s, d, N) ==
  /\ d \in Arrived(N)
  /\ d.ok \/ DataPlace(s.w) <= N => InStep(s, d)

\* A value read as it was written keeps the reader in step.
LEMMA ValueAlong ==
  ASSUME NEW N \in Nat, NEW c, NEW s, Poised(s, c), NEW t, NEW a \in PrimitiveSizes, NEW p, NEW e,
         Field(s, t, c, a, p, e), ~t.w.overflow, NEW d, Along(s, d, N), NEW y \in InBuffer(N),
         InStep(s, d) => Answers(d.r, y, p, e)
  PROVE  Along(t, ReadValue(d, y, a), N)
<1> DEFINE v == ReadValue(d, y, a)
<1>1. /\ DataPlace(t.w) = p /\ t.w.depth = e /\ p \in Nat /\ DataPlace(s.w) <= p
      /\ t.at = Append(s.at, DataAlign(DataPlace(s.w), a))
  BY DEF Field
<1>2. d \in Arrived(N) /\ d.r \in InBuffer(N) /\ d.r.size = N /\ y.ok \in BOOLEAN
  BY InBufferCalls DEF Along, Arrived, InBuffer
<1>3. v \in Arrived(N)
  BY <1>2, ValueArrived
<1>4. DataPlace(s.w) \in Nat
  BY ReadyPlace
<1>5. v.ok => d.ok /\ y.ok
  BY DEF ReadValue
<1>6. v.ok \/ p <= N => InStep(s, d)
  BY <1>1, <1>4, <1>5 DEF Along
<1>7. ASSUME v.ok \/ p <= N PROVE InStep(t, v)
  <2>1. InStep(s, d) /\ d.ok
    BY <1>6, <1>7 DEF InStep
  <2>2. y.ok \/ p <= d.r.size
    BY <1>2, <1>5, <1>7
  <2>3. Reached(d.r, y, p, e)
    BY <2>1, <2>2 DEF Answers
  <2>4. v = [r |-> y, ok |-> TRUE, at |-> Append(d.at, DataAlign(d.r.pos, a))]
    BY <2>1, <2>3 DEF ReadValue, Reached
  <2>5. v.at = t.at
    BY <1>1, <2>1, <2>4 DEF InStep
  <2>6. d.r.native
    BY <2>1 DEF InStep
  <2>7. v.r = y /\ v.ok
    BY <2>4
  <2>8. y.ok /\ y.native /\ y.pos = p /\ y.depth = e
    BY <2>3, <2>6 DEF Reached
  <2> HIDE DEF v
  <2>9. QED
    BY <1>1, <2>5, <2>7, <2>8 DEF InStep
<1>8. QED
  BY <1>1, <1>3, <1>7 DEF Along

\* What is refused stays refused, and lies behind what arrived.
LEMMA RefusedAlong ==
  ASSUME NEW N \in Nat, NEW c, NEW s, Poised(s, c), NEW t, Onward(s, t, c), ~t.w.overflow,
         NEW d, Along(s, d, N), ~d.ok, NEW v \in Arrived(N), ~v.ok
  PROVE  Along(t, v, N)
<1>1. ~(DataPlace(s.w) <= N)
  BY DEF Along, InStep
<1>2. DataPlace(s.w) <= DataPlace(t.w) /\ Poised(t, c)
  BY DEF Onward
<1>3. DataPlace(s.w) \in Nat /\ DataPlace(t.w) \in Nat
  BY <1>2, ReadyPlace
<1>4. ~(DataPlace(t.w) <= N)
  BY <1>1, <1>2, <1>3
<1>5. QED
  BY <1>4 DEF Along

--------------------------------------------------------------------------------
(* The context of a sequence is closed. *)

ClosedWriter(s) == [s EXCEPT !.w = EndWrite(@)]

LEMMA ClosingOnward ==
  ASSUME NEW c, NEW s, Poised(s, c)
  PROVE  LET t == ClosedWriter(s)
         IN /\ Onward(s, t, c) /\ t.at = s.at /\ DataPlace(t.w) = DataPlace(s.w)
            /\ t.w.overflow = s.w.overflow /\ t.w.header = s.w.header
            /\ s.w.depth # 0 => t.w.depth = s.w.depth - 1
<1> DEFINE t == ClosedWriter(s)
<1>1. s \in Serialized /\ s.w \in LooseWriter /\ Valid(s.w) /\ 1 \in PrimitiveSizes /\ 0 \in Nat
  BY DEF Poised, Serialized, PrimitiveSizes
<1>2. EndWrite(s.w) \in LooseWriter
  BY <1>1, LooseCalls
<1>3. t \in Serialized
  BY <1>1, <1>2, SerializedSteps DEF ClosedWriter
<1>4. t.w = Pop(s.w) /\ t.at = s.at /\ t.wire = s.wire
  BY <1>1 DEF ClosedWriter, EndWrite, Serialized
<1>5. /\ Pop(s.w).pos = s.w.pos /\ Pop(s.w).overflow = s.w.overflow
      /\ Pop(s.w).header = s.w.header
      /\ Pop(s.w).depth = IF s.w.depth = 0 THEN 0 ELSE s.w.depth - 1
      /\ ValidAfter(s.w, Pop(s.w))
  BY <1>1, PopFields, PushPopValid
<1> HIDE DEF t
<1>6. DataPlace(t.w) = DataPlace(s.w)
  BY <1>4, <1>5 DEF DataPlace
<1>7. Poised(t, c)
  BY <1>3, <1>4, <1>5 DEF Poised, ValidAfter
<1>8. DataPlace(s.w) \in Nat
  BY ReadyPlace
<1>9. Onward(s, t, c)
  BY <1>4, <1>5, <1>6, <1>7, <1>8 DEF Onward
<1>10. QED
  BY <1>4, <1>5, <1>6, <1>9 DEF t

LEMMA ClosingAlong ==
  ASSUME NEW N \in Nat, NEW c, NEW s, Poised(s, c), s.w.depth # 0, NEW d, Along(s, d, N)
  PROVE  Along(ClosedWriter(s), Closed(d), N)
<1> DEFINE t == ClosedWriter(s)
<1>1. t.at = s.at /\ DataPlace(t.w) = DataPlace(s.w) /\ t.w.depth = s.w.depth - 1
  BY ClosingOnward
<1>2. d \in Arrived(N) /\ Closed(d) \in Arrived(N)
  BY ClosedArrived DEF Along
<1>3. d.r \in ReaderType
  BY <1>2 DEF Arrived, InBuffer
<1>4. CASE ~d.ok
  BY <1>1, <1>2, <1>4 DEF Along, InStep, Closed
<1>5. CASE d.ok
  <2>1. InStep(s, d)
    BY <1>5 DEF Along
  <2>2. Reached(d.r, EndRead(d.r), d.r.pos, d.r.depth - 1)
    BY <1>3, <2>1, EndReadReaches DEF InStep
  <2>3. Closed(d).r = EndRead(d.r) /\ Closed(d).ok = d.ok /\ Closed(d).at = d.at
    BY <1>2, <1>5 DEF Closed, Arrived
  <2> HIDE DEF t
  <2>4. InStep(t, Closed(d))
    BY <1>1, <2>1, <2>2, <2>3 DEF InStep, Reached
  <2>5. QED
    BY <1>2, <2>4 DEF Along, t
<1>6. QED
  BY <1>4, <1>5

--------------------------------------------------------------------------------
(* The fields of a message, as they are written. *)

\* Elements of a field do not add up to what size_t cannot count.
Small(m, c) == m.kind \in {"array", "sequence"} => c + m.size * m.count + 64 <= SizeMax

LEMMA ReadyWriter ==
  ASSUME NEW c, NEW s, Poised(s, c)
  PROVE  Valid(s.w) /\ s.w.fixed /\ s.w.cap = c /\ s.w \in LooseWriter
BY DEF Poised, Serialized

LEMMA StringField ==
  ASSUME NEW c, c + 64 <= SizeMax, NEW s, Poised(s, c), NEW n \in Nat,
         NEW t, t = Prefixed(s, WriteString(s.w, n), n + 1)
  PROVE  /\ Field(s, t, c, PrefixSize, PrefixEnd(DataPlace(s.w)) + (n + 1), s.w.depth)
         /\ Holds(s, t, c, n + 1)
<1> DEFINE y == WriteString(s.w, n)
           e == PrefixEnd(DataPlace(s.w))
<1>1. 1 \in PrimitiveSizes /\ n + 1 \in Nat
  BY DEF PrimitiveSizes
<1>2. CallTo(s.w, y, e, e + (n + 1), s.w.depth, c)
  BY <1>1, ReadyWriter, FieldCalls
<1>3. y \in LooseWriter
  BY <1>1, ReadyWriter, LooseWrites
<1> HIDE DEF y
<1>4. QED
  BY <1>1, <1>2, <1>3, PrefixedField DEF y

LEMMA WStringField ==
  ASSUME NEW c, c + 64 <= SizeMax, NEW s, Poised(s, c), NEW n \in Nat,
         NEW t, t = Prefixed(s, WriteWString(s.w, n), 2 * (n + 1))
  PROVE  /\ Field(s, t, c, PrefixSize, PrefixEnd(DataPlace(s.w)) + 2 * (n + 1), s.w.depth)
         /\ Holds(s, t, c, 2 * (n + 1))
<1> DEFINE y == WriteWString(s.w, n)
           e == PrefixEnd(DataPlace(s.w))
<1>1. 1 \in PrimitiveSizes /\ 2 * (n + 1) \in Nat
  BY DEF PrimitiveSizes
<1>2. CallTo(s.w, y, e, e + 2 * (n + 1), s.w.depth, c)
  BY <1>1, ReadyWriter, FieldCalls
<1>3. y \in LooseWriter
  BY <1>1, ReadyWriter, LooseWrites
<1> HIDE DEF y
<1>4. QED
  BY <1>1, <1>2, <1>3, PrefixedField DEF y

LEMMA BeginField ==
  ASSUME NEW c, c + 64 <= SizeMax, NEW s, Poised(s, c), NEW n \in Nat,
         NEW t, t = Prefixed(s, BeginWriteSequence(s.w), n)
  PROVE  /\ Field(s, t, c, PrefixSize, PrefixEnd(DataPlace(s.w)), s.w.depth + 1)
         /\ Holds(s, t, c, n)
<1> DEFINE y == BeginWriteSequence(s.w)
           e == PrefixEnd(DataPlace(s.w))
<1>1. 1 \in PrimitiveSizes /\ n \in Nat
  BY DEF PrimitiveSizes
<1>2. CallTo(s.w, y, e, e, s.w.depth + 1, c)
  BY <1>1, ReadyWriter, FieldCalls
<1>3. y \in LooseWriter
  BY <1>1, ReadyWriter, LooseWrites
<1> HIDE DEF y
<1>4. QED
  BY <1>1, <1>2, <1>3, PrefixedField DEF y

LEMMA FieldIsWritten ==
  ASSUME NEW c, NEW s, NEW t, NEW a, NEW p, Field(s, t, c, a, p, s.w.depth)
  PROVE  WrittenTo(s, t, c) /\ (~t.w.overflow => t.w.header)
BY DEF Field, WrittenTo

\* The strings of a sequence, one by one, and the sequence once it is closed.
StringsPath(g, b, m, c) ==
  /\ StringsSteps(g, Serialized, b, m)
  /\ \A k \in 1 .. m.count :
       /\ Field(g[k - 1], g[k], c, PrefixSize,
                PrefixEnd(DataPlace(g[k - 1].w)) + (m.chars + 1), g[k - 1].w.depth)
       /\ Holds(g[k - 1], g[k], c, m.chars + 1)
  /\ \A k \in 0 .. m.count :
       /\ Poised(g[k], c) /\ WrittenTo(b, g[k], c)
       /\ Onward(g[k], WriteStrings(b, m), c)
  /\ WriteStrings(b, m) = ClosedWriter(g[m.count])

LEMMA StringsWalk ==
  ASSUME NEW c, c + 64 <= SizeMax, NEW b, Poised(b, c), NEW m, m.count \in Nat, m.chars \in Nat
  PROVE  \E g : StringsPath(g, b, m, c)
<1> DEFINE n == m.count
           e == WriteStrings(b, m)
<1>1. b \in Serialized /\ StringsStays(Serialized, m)
  BY StringsStay DEF Poised
<1>2. PICK g : StringsSteps(g, Serialized, b, m)
  BY <1>1, StringsTrace
<1>3. /\ g[0] = b /\ e = ClosedWriter(g[n])
      /\ \A k \in 1 .. n :
           g[k] = Prefixed(g[k - 1], WriteString(g[k - 1].w, m.chars), m.chars + 1)
  BY <1>2 DEF StringsSteps, ClosedWriter
<1> HIDE DEF e
<1>4. ASSUME NEW k \in 1 .. n, Poised(g[k - 1], c)
      PROVE  /\ Field(g[k - 1], g[k], c, PrefixSize,
                      PrefixEnd(DataPlace(g[k - 1].w)) + (m.chars + 1), g[k - 1].w.depth)
             /\ Holds(g[k - 1], g[k], c, m.chars + 1)
             /\ WrittenTo(g[k - 1], g[k], c)
  <2> DEFINE s == g[k - 1]
             t == g[k]
  <2>1. Poised(s, c) /\ t = Prefixed(s, WriteString(s.w, m.chars), m.chars + 1)
    BY <1>3, <1>4
  <2> HIDE DEF s, t
  <2>2. /\ Field(s, t, c, PrefixSize, PrefixEnd(DataPlace(s.w)) + (m.chars + 1), s.w.depth)
        /\ Holds(s, t, c, m.chars + 1)
    BY <2>1, StringField
  <2>3. WrittenTo(s, t, c)
    BY <2>2, FieldIsWritten
  <2>4. QED
    BY <2>2, <2>3 DEF s, t
<1>5. n \in Nat /\ Poised(g[0], c)
  BY <1>3
<1>6. /\ \A k \in 0 .. n : WrittenTo(b, g[k], c) /\ Poised(g[k], c)
      /\ \A k \in 0 .. n : WrittenTo(g[k], g[n], c)
  BY <1>3, <1>4, <1>5, WrittenAlong
<1>7. Onward(g[n], e, c)
  <2>1. n \in 0 .. n
    BY <1>5
  <2>2. Poised(g[n], c)
    BY <1>6, <2>1
  <2>3. QED
    BY <1>3, <2>2, ClosingOnward
<1>8. ASSUME NEW k \in 0 .. n PROVE Onward(g[k], e, c)
  BY <1>6, <1>7, OnwardTransitive DEF WrittenTo
<1>9. ASSUME NEW k \in 1 .. n PROVE Poised(g[k - 1], c)
  <2>1. k - 1 \in 0 .. n
    BY <1>5
  <2>2. QED
    BY <1>6, <2>1
<1>10. StringsPath(g, b, m, c)
  BY <1>2, <1>3, <1>4, <1>6, <1>8, <1>9 DEF StringsPath, e
<1>11. QED
  BY <1>10

LEMMA PrimitiveField ==
  ASSUME NEW c, c + 64 <= SizeMax, NEW s, Poised(s, c), NEW m \in LeafType, m.kind = "primitive"
  PROVE  LET q == DataPlace(s.w)
         IN Field(s, WriteLeaf(s, m), c, m.size, DataAlign(q, m.size) + m.size, s.w.depth)
<1> DEFINE y == WritePrimitive(s.w, m.size)
           q == DataPlace(s.w)
           t == WriteLeaf(s, m)
<1>1. m.size \in PrimitiveSizes /\ 0 \in Nat
  BY LeafFields
<1>2. CallTo(s.w, y, q, DataAlign(q, m.size) + m.size, s.w.depth, c) /\ y \in LooseWriter
  BY <1>1, ReadyWriter, FieldCalls, LooseWrites
<1>3. t = Unprefixed(s, y, m.size)
  BY DEF WriteLeaf
<1> HIDE DEF y, t
<1>4. QED
  BY <1>1, <1>2, <1>3, UnprefixedField DEF t

LEMMA ArrayField ==
  ASSUME NEW c, c + 64 <= SizeMax, NEW s, Poised(s, c), NEW m \in LeafType, m.kind = "array",
         Small(m, c)
  PROVE  LET q == DataPlace(s.w)
         IN Field(s, WriteLeaf(s, m), c, m.size, DataAlign(q, m.size) + m.size * m.count,
                  s.w.depth)
<1> DEFINE y == WriteArray(s.w, m.size, m.count)
           q == DataPlace(s.w)
           t == WriteLeaf(s, m)
           p == ElementsEnd(q, m.size, m.count)
<1>1. /\ m.size \in PrimitiveSizes /\ m.count \in Nat /\ m.count # 0
      /\ c + m.size * m.count + 64 <= SizeMax
  BY LeafFields DEF Small
<1>2. CallTo(s.w, y, q, p, s.w.depth, c)
  BY <1>1, ReadyWriter, ElementCalls
<1>3. y \in LooseWriter
  BY <1>1, ReadyWriter, LooseWrites
<1>4. t = Unprefixed(s, y, m.size)
  BY DEF WriteLeaf
<1>5. p = DataAlign(q, m.size) + m.size * m.count
  BY <1>1 DEF ElementsEnd
<1> HIDE DEF y, t, p
<1>6. Field(s, t, c, m.size, p, s.w.depth)
  BY <1>1, <1>2, <1>3, <1>4, UnprefixedField
<1>7. QED
  BY <1>5, <1>6 DEF t

LEMMA SequenceField ==
  ASSUME NEW c, c + 64 <= SizeMax, NEW s, Poised(s, c), NEW m \in LeafType, m.kind = "sequence",
         Small(m, c)
  PROVE  LET e == PrefixEnd(DataPlace(s.w))
         IN /\ Field(s, WriteLeaf(s, m), c, PrefixSize, ElementsEnd(e, m.size, m.count),
                     s.w.depth)
            /\ Holds(s, WriteLeaf(s, m), c, m.count)
<1> DEFINE y == WriteSequence(s.w, m.size, m.count)
           e == PrefixEnd(DataPlace(s.w))
           t == WriteLeaf(s, m)
           p == ElementsEnd(e, m.size, m.count)
<1>1. /\ m.size \in PrimitiveSizes /\ m.count \in Nat
      /\ c + m.size * m.count + 64 <= SizeMax
  BY LeafFields DEF Small
<1>2. CallTo(s.w, y, e, p, s.w.depth, c)
  BY <1>1, ReadyWriter, ElementCalls
<1>3. y \in LooseWriter
  BY <1>1, ReadyWriter, LooseWrites
<1>4. t = Prefixed(s, y, m.count)
  BY DEF WriteLeaf
<1> HIDE DEF y, t, p
<1>5. Field(s, t, c, PrefixSize, p, s.w.depth) /\ Holds(s, t, c, m.count)
  BY <1>1, <1>2, <1>3, <1>4, PrefixedField
<1>6. QED
  BY <1>5 DEF t, p

LEMMA BoolsField ==
  ASSUME NEW c, c + 64 <= SizeMax, NEW s, Poised(s, c), NEW m \in LeafType, m.kind = "bools"
  PROVE  LET e == PrefixEnd(DataPlace(s.w))
         IN /\ Field(s, WriteLeaf(s, m), c, PrefixSize, e + m.count, s.w.depth)
            /\ Holds(s, WriteLeaf(s, m), c, m.count)
<1> DEFINE y == WriteFlags(BeginWriteSequence(s.w), m)
           e == PrefixEnd(DataPlace(s.w))
           t == WriteLeaf(s, m)
<1>1. m.count \in Nat /\ 1 \in PrimitiveSizes
  BY LeafFields DEF PrimitiveSizes
<1>2. CallTo(s.w, y, e, e + m.count, s.w.depth, c)
  BY <1>1, ReadyWriter, FlagsCall
<1>3. y \in LooseWriter
  BY <1>1, ReadyWriter, LooseWrites, FlagsSerialized
<1>4. t = Prefixed(s, y, m.count)
  BY DEF WriteLeaf
<1> HIDE DEF y, t
<1>5. Field(s, t, c, PrefixSize, e + m.count, s.w.depth) /\ Holds(s, t, c, m.count)
  BY <1>1, <1>2, <1>3, <1>4, PrefixedField
<1>6. QED
  BY <1>5 DEF t

\* Elements of a sequence in the context opened for them, which is closed again.
LEMMA SequenceFieldWritten ==
  ASSUME NEW c, NEW s, Poised(s, c), NEW b, NEW p, Field(s, b, c, PrefixSize, p, s.w.depth + 1),
         NEW u, WrittenTo(b, u, c), NEW t, t = ClosedWriter(u)
  PROVE  WrittenTo(s, t, c) /\ (~t.w.overflow => t.w.header)
<1>1. Onward(s, b, c) /\ Onward(b, u, c) /\ Poised(b, c) /\ Poised(u, c)
  BY DEF Field, WrittenTo, Onward
<1>2. /\ Onward(u, t, c) /\ t.w.overflow = u.w.overflow /\ t.w.header = u.w.header
      /\ u.w.depth # 0 => t.w.depth = u.w.depth - 1
  BY <1>1, ClosingOnward
<1>3. Onward(s, t, c)
  BY <1>1, <1>2, OnwardTransitive
<1>4. s.w.depth \in Nat
  BY ReadyPlace
<1>5. ASSUME ~t.w.overflow PROVE t.w.depth = s.w.depth /\ t.w.header
  <2>1. ~u.w.overflow
    BY <1>2, <1>5
  <2>2. u.w.depth = b.w.depth /\ ~b.w.overflow /\ (b.w.header => u.w.header)
    BY <2>1 DEF WrittenTo, Onward
  <2>3. b.w.depth = s.w.depth + 1 /\ b.w.header
    BY <2>2 DEF Field
  <2>4. u.w.depth # 0 /\ u.w.depth - 1 = s.w.depth
    BY <1>4, <2>2, <2>3
  <2>5. QED
    BY <1>2, <2>2, <2>3, <2>4
<1>6. QED
  BY <1>3, <1>5 DEF WrittenTo

LEMMA LeafWritten ==
  ASSUME NEW c, c + 64 <= SizeMax, NEW s, Poised(s, c), NEW m \in LeafType, Small(m, c)
  PROVE  LET t == WriteLeaf(s, m)
         IN WrittenTo(s, t, c) /\ (~t.w.overflow => t.w.header)
<1> DEFINE t == WriteLeaf(s, m)
<1>1. CASE m.kind = "primitive"
  BY <1>1, PrimitiveField, FieldIsWritten
<1>2. CASE m.kind = "array"
  BY <1>2, ArrayField, FieldIsWritten
<1>3. CASE m.kind = "string"
  <2>1. m.chars \in Nat /\ t = Prefixed(s, WriteString(s.w, m.chars), m.chars + 1)
    BY <1>3, LeafFields DEF WriteLeaf
  <2> HIDE DEF t
  <2>2. QED
    BY <2>1, StringField, FieldIsWritten DEF t
<1>4. CASE m.kind = "wstring"
  <2>1. m.chars \in Nat /\ t = Prefixed(s, WriteWString(s.w, m.chars), 2 * (m.chars + 1))
    BY <1>4, LeafFields DEF WriteLeaf
  <2> HIDE DEF t
  <2>2. QED
    BY <2>1, WStringField, FieldIsWritten DEF t
<1>5. CASE m.kind = "sequence"
  BY <1>5, SequenceField, FieldIsWritten
<1>6. CASE m.kind = "bools"
  BY <1>6, BoolsField, FieldIsWritten
<1>7. CASE m.kind = "strings"
  <2> DEFINE b == Prefixed(s, BeginWriteSequence(s.w), m.count)
  <2>1. m.count \in Nat /\ m.chars \in Nat /\ t = WriteStrings(b, m)
    BY <1>7, LeafFields DEF WriteLeaf
  <2> HIDE DEF b, t
  <2>2. Field(s, b, c, PrefixSize, PrefixEnd(DataPlace(s.w)), s.w.depth + 1)
    BY <2>1, BeginField DEF b
  <2>3. Poised(b, c)
    BY <2>2 DEF Field, Onward
  <2>4. PICK g : StringsPath(g, b, m, c)
    BY <2>1, <2>3, StringsWalk
  <2>5. m.count \in 0 .. m.count
    BY <2>1
  <2>6. WrittenTo(b, g[m.count], c) /\ t = ClosedWriter(g[m.count])
    BY <2>1, <2>4, <2>5 DEF StringsPath
  <2>7. QED
    BY <2>2, <2>6, SequenceFieldWritten DEF t
<1>8. QED
  BY <1>1, <1>2, <1>3, <1>4, <1>5, <1>6, <1>7, LeafFields

--------------------------------------------------------------------------------
(***************************************************************************)
(* The fields of a message, as they are read: f is what was written in the *)
(* end, N bytes of it arrived.                                             *)
(***************************************************************************)
Sent(t, f, c) == Onward(t, f, c) /\ ~f.w.overflow

LEMMA SentSoFar ==
  ASSUME NEW c, NEW t, NEW f, Sent(t, f, c)
  PROVE  /\ ~t.w.overflow /\ DataPlace(t.w) <= DataPlace(f.w)
         /\ f.wire \in Wires /\ Poised(f, c)
BY ReadyPlace DEF Sent, Onward

LEMMA SentBefore ==
  ASSUME NEW c, NEW s, Poised(s, c), NEW t, Onward(s, t, c), NEW f, Sent(t, f, c)
  PROVE  Sent(s, f, c)
BY OnwardTransitive DEF Sent

LEMMA InStepReader ==
  ASSUME NEW N \in Nat, NEW s, NEW d, Along(s, d, N)
  PROVE  /\ d.r \in InBuffer(N) /\ d.r \in ReaderType /\ d.r.size = N /\ d \in Arrived(N)
         /\ InStep(s, d) => d.r.ok /\ d.r.native /\ d.r.pos = DataPlace(s.w)
                              /\ d.r.depth = s.w.depth
BY DEF Along, Arrived, InBuffer, InStep

LEMMA HeldNumber ==
  ASSUME NEW c, NEW s, NEW t, NEW n, n <= NumberMax, Holds(s, t, c, n), NEW f, Sent(t, f, c),
         NEW noise, NEW d, InStep(s, d)
  PROVE  NumberAt(f.wire, noise, DataAlign(d.r.pos, PrefixSize)) = n
BY DEF Holds, Sent, InStep

LEMMA StringAlong ==
  ASSUME NEW N \in Nat, NEW c, NEW s, Poised(s, c), NEW t, NEW n \in Nat, NEW noise \in Nat,
         Field(s, t, c, PrefixSize, PrefixEnd(DataPlace(s.w)) + (n + 1), s.w.depth),
         n + 1 <= NumberMax, Holds(s, t, c, n + 1), NEW f, Sent(t, f, c), NEW d, Along(s, d, N)
  PROVE  Along(t, ReadValue(d, ReadString(d.r, f.wire, noise), PrefixSize), N)
<1> DEFINE y == ReadString(d.r, f.wire, noise)
           p == PrefixEnd(DataPlace(s.w)) + (n + 1)
<1>1. ~t.w.overflow /\ f.wire \in Wires /\ PrefixSize \in PrimitiveSizes
  BY SentSoFar DEF PrefixSize, PrimitiveSizes
<1>2. y \in InBuffer(N)
  BY <1>1, InStepReader, InBufferReads
<1>3. InStep(s, d) => Answers(d.r, y, p, s.w.depth)
  <2> SUFFICES ASSUME InStep(s, d) PROVE Answers(d.r, y, p, s.w.depth)
    OBVIOUS
  <2>1. NumberAt(f.wire, noise, DataAlign(d.r.pos, PrefixSize)) = n + 1 /\ n + 1 \in Nat \ {0}
    BY HeldNumber
  <2>2. Answers(d.r, y, PrefixEnd(d.r.pos) + (n + 1), d.r.depth)
    BY <2>1, InStepReader, StringAnswers
  <2>3. QED
    BY <2>2, InStepReader
<1> HIDE DEF y, p
<1>4. Field(s, t, c, PrefixSize, p, s.w.depth)
  BY DEF p
<1>5. QED
  BY <1>1, <1>2, <1>3, <1>4, ValueAlong DEF y

LEMMA WStringAlong ==
  ASSUME NEW N \in Nat, NEW c, NEW s, Poised(s, c), NEW t, NEW n \in Nat, NEW noise \in Nat,
         Field(s, t, c, PrefixSize, PrefixEnd(DataPlace(s.w)) + 2 * (n + 1), s.w.depth),
         2 * (n + 1) <= NumberMax, Holds(s, t, c, 2 * (n + 1)), NEW f, Sent(t, f, c),
         NEW d, Along(s, d, N)
  PROVE  Along(t, ReadValue(d, ReadWString(d.r, f.wire, noise), PrefixSize), N)
<1> DEFINE y == ReadWString(d.r, f.wire, noise)
           b == 2 * (n + 1)
           p == PrefixEnd(DataPlace(s.w)) + b
<1>1. ~t.w.overflow /\ f.wire \in Wires /\ PrefixSize \in PrimitiveSizes
  BY SentSoFar DEF PrefixSize, PrimitiveSizes
<1>2. y \in InBuffer(N)
  BY <1>1, InStepReader, InBufferReads
<1>3. b \in Nat \ {0} /\ b % 2 = 0
  OBVIOUS
<1> HIDE DEF b
<1>4. InStep(s, d) => Answers(d.r, y, p, s.w.depth)
  <2> SUFFICES ASSUME InStep(s, d) PROVE Answers(d.r, y, p, s.w.depth)
    OBVIOUS
  <2>1. NumberAt(f.wire, noise, DataAlign(d.r.pos, PrefixSize)) = b
    BY HeldNumber DEF b
  <2>2. Answers(d.r, y, PrefixEnd(d.r.pos) + b, d.r.depth)
    BY <1>3, <2>1, InStepReader, StringAnswers
  <2>3. QED
    BY <2>2, InStepReader
<1> HIDE DEF y, p
<1>5. Field(s, t, c, PrefixSize, p, s.w.depth)
  BY DEF p, b
<1>6. QED
  BY <1>1, <1>2, <1>4, <1>5, ValueAlong DEF y

\* The count of a sequence, and the context opened for its elements.
LEMMA BeginAlong ==
  ASSUME NEW N \in Nat, NEW c, NEW s, Poised(s, c), NEW t, NEW n \in Nat, NEW noise \in Nat,
         Field(s, t, c, PrefixSize, PrefixEnd(DataPlace(s.w)), s.w.depth + 1),
         n <= NumberMax, Holds(s, t, c, n), NEW f, Sent(t, f, c), NEW d, Along(s, d, N),
         NEW v, v = ReadValue(d, BeginReadSequence(d.r, f.wire, noise), PrefixSize)
  PROVE  Along(t, v, N) /\ (v.ok => v.r.got = n)
<1> DEFINE y == BeginReadSequence(d.r, f.wire, noise)
           p == PrefixEnd(DataPlace(s.w))
           e == s.w.depth + 1
<1>1. ~t.w.overflow /\ f.wire \in Wires /\ PrefixSize \in PrimitiveSizes
  BY SentSoFar DEF PrefixSize, PrimitiveSizes
<1>2. y \in InBuffer(N)
  BY <1>1, InStepReader, InBufferReads
<1>3. ASSUME InStep(s, d) PROVE Answers(d.r, y, p, e) /\ (y.ok => y.got = n)
  <2>1. NumberAt(f.wire, noise, DataAlign(d.r.pos, PrefixSize)) = n
    BY <1>3, HeldNumber
  <2>2. Answers(d.r, y, PrefixEnd(d.r.pos), d.r.depth + 1) /\ (y.ok => y.got = n)
    BY <1>3, <2>1, InStepReader, BeginAnswers
  <2>3. QED
    BY <1>3, <2>2, InStepReader
<1> HIDE DEF y, p, e
<1>4. Field(s, t, c, PrefixSize, p, e)
  BY DEF p, e
<1>5. v = ReadValue(d, y, PrefixSize)
  BY DEF y
<1>6. Along(t, v, N)
  BY <1>1, <1>2, <1>3, <1>4, <1>5, ValueAlong
<1>7. ASSUME v.ok PROVE v.r.got = n
  <2>1. d.ok /\ y.ok /\ v.r = y
    BY <1>5, <1>7 DEF ReadValue
  <2>2. InStep(s, d)
    BY <2>1 DEF Along
  <2>3. QED
    BY <1>3, <2>1, <2>2
<1>8. QED
  BY <1>6, <1>7

LEMMA PrimitiveAlong ==
  ASSUME NEW N \in Nat, NEW c, c + 64 <= SizeMax, NEW s, Poised(s, c),
         NEW m \in LeafType, m.kind = "primitive", NEW noise \in Nat,
         NEW f, Sent(WriteLeaf(s, m), f, c), NEW d, Along(s, d, N)
  PROVE  Along(WriteLeaf(s, m), ReadLeaf(d, m, f.wire, noise), N)
<1> DEFINE t == WriteLeaf(s, m)
           y == ReadPrimitive(d.r, m.size)
           p == DataAlign(DataPlace(s.w), m.size) + m.size
<1>1. ~t.w.overflow /\ m.size \in PrimitiveSizes /\ 0 \in Nat
  BY SentSoFar, LeafFields
<1>2. y \in InBuffer(N)
  BY <1>1, InStepReader, InBufferBulk
<1>3. InStep(s, d) => Answers(d.r, y, p, s.w.depth)
  <2> SUFFICES ASSUME InStep(s, d) PROVE Answers(d.r, y, p, s.w.depth)
    OBVIOUS
  <2>1. Answers(d.r, y, DataAlign(d.r.pos, m.size) + m.size, d.r.depth)
    BY <1>1, InStepReader, PrimitiveAnswers
  <2>2. QED
    BY <2>1, InStepReader
<1>4. Field(s, t, c, m.size, p, s.w.depth)
  BY PrimitiveField
<1>5. ReadLeaf(d, m, f.wire, noise) = ReadValue(d, y, m.size)
  BY DEF ReadLeaf
<1> HIDE DEF t, y, p
<1>6. Along(t, ReadValue(d, y, m.size), N)
  BY <1>1, <1>2, <1>3, <1>4, ValueAlong
<1>7. QED
  BY <1>5, <1>6 DEF t

LEMMA ArrayAlong ==
  ASSUME NEW N \in Nat, NEW c, c + 64 <= SizeMax, NEW s, Poised(s, c),
         NEW m \in LeafType, m.kind = "array", Small(m, c), NEW noise \in Nat,
         NEW f, Sent(WriteLeaf(s, m), f, c), NEW d, Along(s, d, N)
  PROVE  Along(WriteLeaf(s, m), ReadLeaf(d, m, f.wire, noise), N)
<1> DEFINE t == WriteLeaf(s, m)
           y == ReadFixedSpan(d.r, m.size, m.count)
           p == DataAlign(DataPlace(s.w), m.size) + m.size * m.count
<1>1. ~t.w.overflow /\ f.wire \in Wires /\ m.size \in PrimitiveSizes /\ m.count \in Nat
  BY SentSoFar, LeafFields
<1>2. y \in InBuffer(N)
  BY <1>1, InStepReader, InBufferSpans
<1>3. InStep(s, d) => Answers(d.r, y, p, s.w.depth)
  <2> SUFFICES ASSUME InStep(s, d) PROVE Answers(d.r, y, p, s.w.depth)
    OBVIOUS
  <2>1. Answers(d.r, y, DataAlign(d.r.pos, m.size) + m.size * m.count, d.r.depth)
    BY <1>1, InStepReader, ArrayAnswers
  <2>2. QED
    BY <2>1, InStepReader
<1>4. Field(s, t, c, m.size, p, s.w.depth)
  BY ArrayField
<1>5. ReadLeaf(d, m, f.wire, noise) = ReadValue(d, y, m.size)
  BY DEF ReadLeaf
<1> HIDE DEF t, y, p
<1>6. Along(t, ReadValue(d, y, m.size), N)
  BY <1>1, <1>2, <1>3, <1>4, ValueAlong
<1>7. QED
  BY <1>5, <1>6 DEF t

\* Behind a prefix nothing is padded for elements no wider than the prefix.
LEMMA PrefixAligns ==
  ASSUME NEW q \in Nat, NEW s \in PrimitiveSizes, s <= PrefixSize
  PROVE  DataAlign(PrefixEnd(q), s) = PrefixEnd(q)
<1> DEFINE a == AlignTo(q - HeaderSize, PrefixSize)
<1>1. PrefixSize \in PrimitiveSizes /\ q - HeaderSize \in Int /\ s \in {1, 2, 4} /\ 4 \in Nat
  BY DEF PrefixSize, PrimitiveSizes, HeaderSize
<1>2. a \in Int /\ a % 4 = 0
  <2>1. /\ a = (q - 4) + ((4 - ((q - 4) % 4)) % 4)
    BY DEF AlignTo, CalculateAlignment, PrefixSize, HeaderSize
  <2>2. QED
    BY <2>1
<1>3. PrefixEnd(q) = HeaderSize + a + 4
  BY DEF PrefixEnd, DataAlign, PrefixSize, HeaderSize
<1> HIDE DEF a
<1>4. PrefixEnd(q) - HeaderSize = a + 4
  BY <1>2, <1>3 DEF HeaderSize
<1>5. (a + 4) % s = 0
  BY <1>1, <1>2
<1>6. AlignTo(a + 4, s) = a + 4
  BY <1>1, <1>2, <1>5 DEF AlignTo, CalculateAlignment
<1>7. QED
  BY <1>2, <1>3, <1>4, <1>6 DEF DataAlign, HeaderSize

\* The fields a reader follows: what is in their prefixes fits, and the alignment
\* behind the prefix is no business of an empty sequence.
Readable(f) == ~WideEmpty(f) /\ LeafFits(f)

LEMMA SequenceAlong ==
  ASSUME NEW N \in Nat, NEW c, c + 64 <= SizeMax, NEW s, Poised(s, c),
         NEW m \in LeafType, m.kind = "sequence", Small(m, c), Readable(m), NEW noise \in Nat,
         NEW f, Sent(WriteLeaf(s, m), f, c), NEW d, Along(s, d, N)
  PROVE  Along(WriteLeaf(s, m), ReadLeaf(d, m, f.wire, noise), N)
<1> DEFINE t == WriteLeaf(s, m)
           y == ReadSpan(d.r, m.size, f.wire, noise)
           e == PrefixEnd(DataPlace(s.w))
           p == ElementsEnd(e, m.size, m.count)
<1>1. /\ ~t.w.overflow /\ f.wire \in Wires /\ PrefixSize \in PrimitiveSizes
      /\ m.size \in PrimitiveSizes /\ m.count \in Nat
      /\ ~WideEmpty(m) /\ m.count <= NumberMax
  BY SentSoFar, LeafFields DEF PrefixSize, PrimitiveSizes, Readable, LeafFits
<1>2. y \in InBuffer(N)
  <2>1. 0 \in Nat
    OBVIOUS
  <2>2. QED
    BY <1>1, <2>1, InStepReader, InBufferSpans
<1>3. Field(s, t, c, PrefixSize, p, s.w.depth) /\ Holds(s, t, c, m.count)
  BY SequenceField
<1>4. p = DataAlign(e, m.size) + m.size * m.count
  <2>1. CASE m.count # 0
    BY <2>1 DEF ElementsEnd
  <2>2. CASE m.count = 0
    <3>1. m.size <= PrefixSize /\ m.size \in Nat /\ DataPlace(s.w) \in Nat
      BY <1>1, <2>2, SizesArePositive, ReadyPlace DEF WideEmpty, PrefixSize
    <3>2. DataAlign(e, m.size) = e /\ e \in Nat
      BY <1>1, <3>1, PrefixAligns, PrefixEndIsNat
    <3> HIDE DEF e
    <3>3. m.size * m.count = 0
      BY <2>2, <3>1
    <3>4. QED
      BY <2>2, <3>2, <3>3 DEF ElementsEnd
  <2>3. QED
    BY <2>1, <2>2
<1>5. InStep(s, d) => Answers(d.r, y, p, s.w.depth)
  <2> SUFFICES ASSUME InStep(s, d) PROVE Answers(d.r, y, p, s.w.depth)
    OBVIOUS
  <2> HIDE DEF t, p
  <2>1. NumberAt(f.wire, noise, DataAlign(d.r.pos, PrefixSize)) = m.count
    BY <1>1, <1>3, HeldNumber DEF t
  <2>2. Answers(d.r, y, DataAlign(PrefixEnd(d.r.pos), m.size) + m.size * m.count, d.r.depth)
    BY <1>1, <2>1, InStepReader, SpanAnswers
  <2>3. d.r.pos = DataPlace(s.w) /\ d.r.depth = s.w.depth
    BY InStepReader
  <2>4. QED
    BY <1>4, <2>2, <2>3
<1>6. ReadLeaf(d, m, f.wire, noise) = ReadValue(d, y, PrefixSize)
  BY DEF ReadLeaf
<1> HIDE DEF t, y, p
<1>7. Along(t, ReadValue(d, y, PrefixSize), N)
  BY <1>1, <1>2, <1>3, <1>5, ValueAlong
<1>8. QED
  BY <1>6, <1>7 DEF t

LEMMA BoolsAlong ==
  ASSUME NEW N \in Nat, NEW c, c + 64 <= SizeMax, NEW s, Poised(s, c),
         NEW m \in LeafType, m.kind = "bools", Readable(m), NEW noise \in Nat,
         NEW f, Sent(WriteLeaf(s, m), f, c), NEW d, Along(s, d, N)
  PROVE  Along(WriteLeaf(s, m), ReadLeaf(d, m, f.wire, noise), N)
<1> DEFINE t == WriteLeaf(s, m)
           b == BeginReadSequence(d.r, f.wire, noise)
           y == ReadFlags(b)
           e == PrefixEnd(DataPlace(s.w))
           p == e + m.count
<1>1. /\ ~t.w.overflow /\ f.wire \in Wires /\ PrefixSize \in PrimitiveSizes /\ m.count \in Nat
      /\ s.w.depth \in Nat /\ DataPlace(s.w) \in Nat /\ m.count <= NumberMax
  BY SentSoFar, LeafFields, ReadyPlace DEF PrefixSize, PrimitiveSizes, Readable, LeafFits
<1>2. e \in Nat
  BY <1>1, PrefixEndIsNat
<1>3. b \in InBuffer(N)
  BY <1>1, InStepReader, InBufferReads
<1>4. Field(s, t, c, PrefixSize, p, s.w.depth) /\ Holds(s, t, c, m.count)
  BY BoolsField
<1>5. y \in InBuffer(N)
  BY <1>3, InBufferFlags
<1>6. InStep(s, d) => Answers(d.r, y, p, s.w.depth)
  <2> SUFFICES ASSUME InStep(s, d) PROVE Answers(d.r, y, p, s.w.depth)
    OBVIOUS
  <2> HIDE DEF t
  <2>1. NumberAt(f.wire, noise, DataAlign(d.r.pos, PrefixSize)) = m.count
    BY <1>1, <1>4, HeldNumber DEF t
  <2>2. Answers(d.r, b, PrefixEnd(d.r.pos), d.r.depth + 1) /\ (b.ok => b.got = m.count)
    BY <1>1, <2>1, InStepReader, BeginAnswers
  <2>3. Answers(d.r, b, e, s.w.depth + 1)
    BY <2>2, InStepReader
  <2> HIDE DEF b, e
  <2>4. y.ok => b.ok
    BY <1>3, FlagsAnswers
  <2>5. ASSUME b.ok PROVE Answers(b, y, p, s.w.depth)
    <3>1. b.pos = e /\ b.depth = s.w.depth + 1 /\ b.got = m.count
      BY <2>2, <2>3, <2>5 DEF Answers, Reached
    <3>2. b.depth # 0 /\ b.depth - 1 = s.w.depth
      BY <1>1, <3>1
    <3>3. Answers(b, y, b.pos + b.got, b.depth - 1)
      BY <1>3, <2>5, <3>2, FlagsAnswers
    <3>4. QED
      BY <3>1, <3>2, <3>3
  <2>6. d.r.size \in Nat /\ e <= p /\ p \in Nat
    BY <1>1, <1>2, InStepReader
  <2> DEFINE h == s.w.depth + 1
             k == s.w.depth
             r == d.r
  <2>7. Answers(r, b, e, h) /\ (b.ok => Answers(b, y, p, k)) /\ r.size \in Nat
    BY <2>3, <2>5, <2>6
  <2> HIDE DEF y, p, h, k, r
  <2>8. Answers(r, y, p, k)
    BY <1>2, <2>4, <2>6, <2>7, AnswersInTurn
  <2>9. QED
    BY <2>8 DEF r, k
<1>7. ReadLeaf(d, m, f.wire, noise) = ReadValue(d, y, PrefixSize)
  BY DEF ReadLeaf
<1> HIDE DEF t, y, p
<1>8. Along(t, ReadValue(d, y, PrefixSize), N)
  BY <1>1, <1>4, <1>5, <1>6, ValueAlong
<1>9. QED
  BY <1>7, <1>8 DEF t

\* A reader that was refused reads no strings.
LEMMA RefusedStrings ==
  ASSUME NEW N \in Nat, NEW v \in Arrived(N), ~v.ok, NEW m,
         NEW wire \in Wires, NEW noise \in Nat
  PROVE  ReadStrings(v, m, wire, noise) \in Arrived(N) /\ ~ReadStrings(v, m, wire, noise).ok
<1> DEFINE T == {x \in Arrived(N) : ~x.ok}
<1>1. ReadStringsStays(T, wire, noise)
  BY DEF ReadStringsStays, ReadValue
<1>2. v.r.got \in Nat
  <2>1. v.r \in InBuffer(N)
    BY DEF Arrived
  <2>2. QED
    BY <2>1, InBufferCalls
<1>3. v \in T
  OBVIOUS
<1> HIDE DEF T
<1>4. PICK h : ReadStringsSteps(h, T, v, m, wire, noise)
  BY <1>1, <1>2, <1>3, ReadStringsTrace
<1>5. h[v.r.got] \in T /\ ReadStrings(v, m, wire, noise) = Closed(h[v.r.got])
  BY <1>2, <1>4 DEF ReadStringsSteps
<1>6. QED
  BY <1>5 DEF Closed, T

LEMMA StringsAlong ==
  ASSUME NEW N \in Nat, NEW c, c + 64 <= SizeMax, NEW s, Poised(s, c),
         NEW m \in LeafType, m.kind = "strings", Readable(m), NEW noise \in Nat,
         NEW f, Sent(WriteLeaf(s, m), f, c), NEW d, Along(s, d, N)
  PROVE  Along(WriteLeaf(s, m), ReadLeaf(d, m, f.wire, noise), N)
<1> DEFINE wire == f.wire
           n == m.count
           b == Prefixed(s, BeginWriteSequence(s.w), n)
           v == ReadValue(d, BeginReadSequence(d.r, wire, noise), PrefixSize)
           t == WriteLeaf(s, m)
<1>1. n \in Nat /\ m.chars \in Nat /\ t = WriteStrings(b, m)
      /\ ReadLeaf(d, m, wire, noise) = ReadStrings(v, m, wire, noise)
      /\ n <= NumberMax /\ m.chars + 1 <= NumberMax
  BY LeafFields DEF WriteLeaf, ReadLeaf, Readable, LeafFits
<1>2. wire \in Wires /\ ~t.w.overflow /\ Sent(t, f, c)
  BY SentSoFar
<1> HIDE DEF b, t, n
<1>3. Field(s, b, c, PrefixSize, PrefixEnd(DataPlace(s.w)), s.w.depth + 1) /\ Holds(s, b, c, n)
  BY <1>1, BeginField DEF b
<1>4. Poised(b, c)
  BY <1>3 DEF Field, Onward
<1>5. PICK g : StringsPath(g, b, m, c)
  BY <1>1, <1>4, StringsWalk DEF n
<1>6. /\ \A k \in 0 .. n : Poised(g[k], c) /\ WrittenTo(b, g[k], c) /\ Onward(g[k], t, c)
      /\ g[0] = b /\ t = ClosedWriter(g[n])
  BY <1>1, <1>5 DEF StringsPath, StringsSteps, n
<1>7. Onward(b, t, c) /\ Sent(b, f, c)
  <2>1. 0 \in 0 .. n
    BY <1>1
  <2>2. Onward(b, t, c)
    BY <1>6, <2>1
  <2>3. QED
    BY <1>2, <1>4, <2>2, SentBefore
<1>8. Along(b, v, N) /\ (v.ok => v.r.got = n)
  BY <1>1, <1>3, <1>7, BeginAlong
<1> HIDE DEF v
<1>9. CASE ~v.ok
  <2> DEFINE x == ReadStrings(v, m, wire, noise)
  <2>1. v \in Arrived(N)
    BY <1>8 DEF Along
  <2>2. x \in Arrived(N) /\ ~x.ok
    BY <1>2, <1>9, <2>1, RefusedStrings
  <2> HIDE DEF x
  <2>3. Along(t, x, N)
    BY <1>2, <1>4, <1>7, <1>8, <1>9, <2>2, RefusedAlong
  <2>4. QED
    BY <1>1, <2>3 DEF x, t
<1>10. CASE v.ok
  <2>1. v \in Arrived(N) /\ v.r.got = n
    BY <1>8, <1>10 DEF Along
  <2>2. ReadStringsStays(Arrived(N), wire, noise)
    <3> SUFFICES ASSUME NEW x \in Arrived(N)
                 PROVE  ReadValue(x, ReadString(x.r, wire, noise), PrefixSize) \in Arrived(N)
      BY DEF ReadStringsStays
    <3>1. x.r \in InBuffer(N) /\ PrefixSize \in PrimitiveSizes
      BY DEF Arrived, PrefixSize, PrimitiveSizes
    <3>2. QED
      BY <1>2, <3>1, InBufferReads, ValueArrived
  <2>3. PICK h : ReadStringsSteps(h, Arrived(N), v, m, wire, noise)
    BY <1>1, <2>1, <2>2, ReadStringsTrace
  <2>4. /\ h[0] = v /\ ReadStrings(v, m, wire, noise) = Closed(h[n])
        /\ \A k \in 1 .. n :
             h[k] = ReadValue(h[k - 1], ReadString(h[k - 1].r, wire, noise), PrefixSize)
    BY <2>1, <2>3 DEF ReadStringsSteps
  <2> DEFINE S == {k \in Nat : k <= n => Along(g[k], h[k], N)}
  <2>5. 0 \in S
    BY <1>6, <1>8, <2>4
  <2>6. ASSUME NEW k \in Nat, k \in S PROVE k + 1 \in S
    <3> SUFFICES ASSUME k + 1 <= n PROVE Along(g[k + 1], h[k + 1], N)
      OBVIOUS
    <3>1. k + 1 \in 1 .. n /\ k \in 0 .. n /\ k + 1 \in 0 .. n /\ (k + 1) - 1 = k /\ k <= n
      BY <1>1
    <3> DEFINE y == g[k]
               z == g[k + 1]
               x == h[k]
    <3>2. Poised(y, c) /\ Poised(z, c) /\ Onward(z, t, c)
      BY <1>6, <3>1
    <3>3. Along(y, x, N)
      BY <2>6, <3>1
    <3>4. /\ Field(y, z, c, PrefixSize, PrefixEnd(DataPlace(y.w)) + (m.chars + 1), y.w.depth)
          /\ Holds(y, z, c, m.chars + 1)
      BY <1>5, <3>1 DEF StringsPath, n
    <3>5. h[k + 1] = ReadValue(x, ReadString(x.r, wire, noise), PrefixSize)
      BY <2>4, <3>1
    <3> HIDE DEF x, y, z
    <3>6. Sent(z, f, c)
      BY <1>2, <3>2, SentBefore
    <3>7. QED
      BY <1>1, <3>2, <3>3, <3>4, <3>5, <3>6, StringAlong DEF z
  <2> HIDE DEF S
  <2>7. n \in S
    BY <1>1, <2>5, <2>6, SetInduction
  <2>8. Along(g[n], h[n], N)
    BY <1>1, <2>7 DEF S
  <2>9. n \in 0 .. n
    BY <1>1
  <2>10. Poised(g[n], c) /\ WrittenTo(b, g[n], c) /\ ~g[n].w.overflow
    BY <1>2, <1>6, <2>9 DEF Onward
  <2>11. g[n].w.depth # 0
    <3>1. g[n].w.depth = b.w.depth /\ ~b.w.overflow
      BY <2>10 DEF WrittenTo, Onward
    <3>2. b.w.depth = s.w.depth + 1 /\ s.w.depth \in Nat
      BY <1>3, <3>1, ReadyPlace DEF Field
    <3>3. QED
      BY <3>1, <3>2
  <2>12. Along(ClosedWriter(g[n]), Closed(h[n]), N)
    BY <2>8, <2>10, <2>11, ClosingAlong
  <2>13. QED
    BY <1>1, <1>6, <2>4, <2>12 DEF t
<1>11. QED
  BY <1>9, <1>10

LEMMA LeafAlong ==
  ASSUME NEW N \in Nat, NEW c, c + 64 <= SizeMax, NEW s, Poised(s, c),
         NEW m \in LeafType, Small(m, c), Readable(m), NEW noise \in Nat,
         NEW f, Sent(WriteLeaf(s, m), f, c), NEW d, Along(s, d, N)
  PROVE  Along(WriteLeaf(s, m), ReadLeaf(d, m, f.wire, noise), N)
<1> DEFINE t == WriteLeaf(s, m)
           x == ReadLeaf(d, m, f.wire, noise)
<1>1. CASE m.kind = "string"
  <2>1. /\ m.chars \in Nat /\ t = Prefixed(s, WriteString(s.w, m.chars), m.chars + 1)
        /\ x = ReadValue(d, ReadString(d.r, f.wire, noise), PrefixSize) /\ Sent(t, f, c)
    BY <1>1, LeafFields DEF WriteLeaf, ReadLeaf
  <2>0. m.chars + 1 <= NumberMax
    BY <1>1 DEF Readable, LeafFits
  <2> HIDE DEF t, x
  <2>2. Along(t, x, N)
    BY <2>0, <2>1, StringField, StringAlong
  <2>3. QED
    BY <2>2 DEF t, x
<1>2. CASE m.kind = "wstring"
  <2>1. /\ m.chars \in Nat /\ t = Prefixed(s, WriteWString(s.w, m.chars), 2 * (m.chars + 1))
        /\ x = ReadValue(d, ReadWString(d.r, f.wire, noise), PrefixSize) /\ Sent(t, f, c)
    BY <1>2, LeafFields DEF WriteLeaf, ReadLeaf
  <2>0. 2 * (m.chars + 1) <= NumberMax
    BY <1>2 DEF Readable, LeafFits
  <2> HIDE DEF t, x
  <2>2. Along(t, x, N)
    BY <2>0, <2>1, WStringField, WStringAlong
  <2>3. QED
    BY <2>2 DEF t, x
<1>3. CASE m.kind \in {"primitive", "array", "sequence", "bools", "strings"}
  BY <1>3, PrimitiveAlong, ArrayAlong, SequenceAlong, BoolsAlong, StringsAlong
<1>4. QED
  BY <1>1, <1>2, <1>3, LeafFields

--------------------------------------------------------------------------------
(* Nested messages. *)

SmallFields(m, c) == \A k \in 1 .. Len(m.fields) : Small(m.fields[k], c)

NestedPath(g, s, m, c) ==
  /\ NestedSteps(g, Serialized, s, m)
  /\ \A k \in 0 .. Len(m.fields) :
       /\ Poised(g[k], c) /\ WrittenTo(s, g[k], c)
       /\ Onward(g[k], WriteNested(s, m), c)

LEMMA NestedWalk ==
  ASSUME NEW c, c + 64 <= SizeMax, NEW s, Poised(s, c), NEW m, m.fields \in Seq(LeafType),
         SmallFields(m, c)
  PROVE  \E g : NestedPath(g, s, m, c)
<1> DEFINE n == Len(m.fields)
<1>1. s \in Serialized /\ n \in Nat /\ \A k \in 1 .. n : m.fields[k] \in LeafType
  BY DEF Poised
<1>2. NestedStays(Serialized, m)
  BY <1>1, LeafSerialized DEF NestedStays
<1>3. PICK g : NestedSteps(g, Serialized, s, m)
  BY <1>1, <1>2, NestedTrace
<1>4. /\ g[0] = s /\ WriteNested(s, m) = g[n]
      /\ \A k \in 1 .. n : g[k] = WriteLeaf(g[k - 1], m.fields[k])
  BY <1>3 DEF NestedSteps
<1>5. ASSUME NEW k \in 1 .. n, Poised(g[k - 1], c) PROVE WrittenTo(g[k - 1], g[k], c)
  <2>1. m.fields[k] \in LeafType /\ Small(m.fields[k], c)
    BY <1>1 DEF SmallFields
  <2> DEFINE a == m.fields[k]
             x == g[k - 1]
  <2>2. g[k] = WriteLeaf(x, a) /\ Poised(x, c)
    BY <1>4, <1>5
  <2> HIDE DEF a, x
  <2>3. WrittenTo(x, WriteLeaf(x, a), c)
    BY <2>1, <2>2, LeafWritten DEF a
  <2>4. QED
    BY <2>2, <2>3 DEF x
<1> HIDE DEF n
<1>6. Poised(g[0], c)
  BY <1>4
<1>7. /\ \A k \in 0 .. n : WrittenTo(g[0], g[k], c) /\ Poised(g[k], c)
      /\ \A k \in 0 .. n : WrittenTo(g[k], g[n], c)
  BY <1>1, <1>5, <1>6, WrittenAlong
<1>8. NestedPath(g, s, m, c)
  BY <1>3, <1>4, <1>7 DEF NestedPath, WrittenTo, n
<1>9. QED
  BY <1>8

LEMMA NestedWritten ==
  ASSUME NEW c, c + 64 <= SizeMax, NEW s, Poised(s, c), NEW m, m.fields \in Seq(LeafType),
         SmallFields(m, c)
  PROVE  LET t == WriteNested(s, m)
         IN WrittenTo(s, t, c) /\ (m.fields # <<>> /\ ~t.w.overflow => t.w.header)
<1> DEFINE n == Len(m.fields)
           t == WriteNested(s, m)
<1>1. PICK g : NestedPath(g, s, m, c)
  BY NestedWalk
<1>2. n \in Nat /\ n \in 0 .. n /\ (m.fields # <<>> => n \in 1 .. n /\ n - 1 \in 0 .. n)
  OBVIOUS
<1>3. t = g[n] /\ WrittenTo(s, g[n], c)
  BY <1>1, <1>2 DEF NestedPath, NestedSteps
<1>4. ASSUME m.fields # <<>> PROVE ~t.w.overflow => t.w.header
  <2> DEFINE x == g[n - 1]
             a == m.fields[n]
  <2>1. Poised(x, c) /\ t = WriteLeaf(x, a) /\ a \in LeafType /\ Small(a, c)
    BY <1>1, <1>2, <1>3, <1>4 DEF NestedPath, NestedSteps, SmallFields
  <2> HIDE DEF x, a, t
  <2>2. QED
    BY <2>1, LeafWritten
<1>5. QED
  BY <1>3, <1>4

LEMMA NestedAlong ==
  ASSUME NEW N \in Nat, NEW c, c + 64 <= SizeMax, NEW s, Poised(s, c), NEW m,
         m.fields \in Seq(LeafType), SmallFields(m, c),
         \A k \in 1 .. Len(m.fields) : Readable(m.fields[k]), NEW noise \in Nat,
         NEW f, Sent(WriteNested(s, m), f, c), NEW d, Along(s, d, N)
  PROVE  Along(WriteNested(s, m), ReadNested(d, m, f.wire, noise), N)
<1> DEFINE n == Len(m.fields)
           wire == f.wire
           t == WriteNested(s, m)
<1>1. PICK g : NestedPath(g, s, m, c)
  BY NestedWalk
<1>2. /\ n \in Nat /\ wire \in Wires /\ d \in Arrived(N)
      /\ \A k \in 1 .. n : m.fields[k] \in LeafType
  BY SentSoFar DEF Along
<1>3. /\ g[0] = s /\ t = g[n] /\ \A k \in 1 .. n : g[k] = WriteLeaf(g[k - 1], m.fields[k])
      /\ \A k \in 0 .. n : Poised(g[k], c) /\ Onward(g[k], t, c)
  BY <1>1 DEF NestedPath, NestedSteps
<1>4. ReadNestedStays(Arrived(N), m, wire, noise)
  BY <1>2, LeafArrived DEF ReadNestedStays
<1>5. PICK h : ReadNestedSteps(h, Arrived(N), d, m, wire, noise)
  BY <1>2, <1>4, ReadNestedTrace
<1>6. /\ h[0] = d /\ ReadNested(d, m, wire, noise) = h[n]
      /\ \A k \in 1 .. n : h[k] = ReadLeaf(h[k - 1], m.fields[k], wire, noise)
  BY <1>5 DEF ReadNestedSteps
<1>7. Sent(t, f, c)
  OBVIOUS
<1> HIDE DEF t
<1> DEFINE S == {k \in Nat : k <= n => Along(g[k], h[k], N)}
<1>8. 0 \in S
  BY <1>3, <1>6
<1>9. ASSUME NEW k \in Nat, k \in S PROVE k + 1 \in S
  <2> SUFFICES ASSUME k + 1 <= n PROVE Along(g[k + 1], h[k + 1], N)
    OBVIOUS
  <2>1. k + 1 \in 1 .. n /\ k \in 0 .. n /\ k + 1 \in 0 .. n /\ (k + 1) - 1 = k /\ k <= n
    BY <1>2
  <2> DEFINE y == g[k]
             x == h[k]
             a == m.fields[k + 1]
             z == WriteLeaf(y, a)
  <2>2. Poised(y, c) /\ Along(y, x, N) /\ a \in LeafType /\ Small(a, c) /\ Readable(a)
    BY <1>2, <1>3, <1>9, <2>1 DEF SmallFields
  <2>3. g[k + 1] = z /\ h[k + 1] = ReadLeaf(x, a, wire, noise)
    BY <1>3, <1>6, <2>1
  <2>4. Poised(z, c) /\ Onward(z, t, c)
    BY <1>3, <2>1, <2>3
  <2> HIDE DEF y, x, a, z
  <2>5. Sent(z, f, c)
    BY <1>7, <2>4, SentBefore
  <2>6. QED
    BY <2>2, <2>3, <2>5, LeafAlong DEF z
<1> HIDE DEF S
<1>10. n \in S
  BY <1>2, <1>8, <1>9, SetInduction
<1>11. QED
  BY <1>2, <1>3, <1>6, <1>10 DEF S, t

\* Where all of it has arrived, no return code is dropped.
LEMMA AlongWhole ==
  ASSUME NEW N \in Nat, NEW c, NEW t, Poised(t, c), NEW f, Sent(t, f, c), DataPlace(f.w) <= N,
         NEW x, Along(t, x, N)
  PROVE  InStep(t, x) /\ Ignoring(x) = x
<1>1. Poised(t, c) /\ Poised(f, c) /\ DataPlace(t.w) <= DataPlace(f.w)
  BY SentSoFar DEF Sent, Onward
<1>2. DataPlace(t.w) \in Nat /\ DataPlace(f.w) \in Nat
  BY <1>1, ReadyPlace
<1>3. DataPlace(t.w) <= N
  BY <1>1, <1>2
<1>4. InStep(t, x) /\ x \in Arrived(N)
  BY <1>3 DEF Along
<1>5. x.ok /\ x.r.ok /\ x.r \in ReaderType
  BY <1>4 DEF InStep, Arrived, InBuffer
<1>6. [x.r EXCEPT !.ok = TRUE] = x.r
  BY <1>5 DEF ReaderType
<1>7. Ignoring(x) = [x EXCEPT !.ok = TRUE, !.r = [x.r EXCEPT !.ok = TRUE]]
  BY <1>4 DEF Ignoring, Arrived
<1>8. Ignoring(x) = x
  BY <1>4, <1>5, <1>6, <1>7 DEF Arrived
<1>9. QED
  BY <1>4, <1>8

ElementsPath(g, b, m, c) ==
  /\ NestedElementsSteps(g, Serialized, b, m)
  /\ \A k \in 0 .. m.count :
       /\ Poised(g[k], c) /\ WrittenTo(b, g[k], c)
       /\ Onward(g[k], WriteNestedElements(b, m), c)
  /\ WriteNestedElements(b, m) = ClosedWriter(g[m.count])

LEMMA ElementsWalk ==
  ASSUME NEW c, c + 64 <= SizeMax, NEW b, Poised(b, c), NEW m, m.count \in Nat,
         m.fields \in Seq(LeafType), m.count # 0 => SmallFields(m, c)
  PROVE  \E g : ElementsPath(g, b, m, c)
<1> DEFINE n == m.count
           e == WriteNestedElements(b, m)
<1>1. b \in Serialized /\ n \in Nat /\ NestedElementsStays(Serialized, m)
  BY NestedSerialized DEF Poised, NestedElementsStays
<1>2. PICK g : NestedElementsSteps(g, Serialized, b, m)
  BY <1>1, NestedElementsTrace
<1>3. /\ g[0] = b /\ e = ClosedWriter(g[n])
      /\ \A k \in 1 .. n : g[k] = WriteNested(g[k - 1], m)
  BY <1>2 DEF NestedElementsSteps, ClosedWriter
<1> HIDE DEF e
<1>4. ASSUME NEW k \in 1 .. n, Poised(g[k - 1], c) PROVE WrittenTo(g[k - 1], g[k], c)
  <2>1. n # 0
    BY <1>1
  <2>2. SmallFields(m, c)
    BY <2>1
  <2> DEFINE x == g[k - 1]
  <2>3. g[k] = WriteNested(x, m) /\ Poised(x, c)
    BY <1>3, <1>4
  <2> HIDE DEF x
  <2>4. WrittenTo(x, WriteNested(x, m), c)
    BY <2>2, <2>3, NestedWritten
  <2>5. QED
    BY <2>3, <2>4 DEF x
<1>5. Poised(g[0], c)
  BY <1>3
<1>6. /\ \A k \in 0 .. n : WrittenTo(g[0], g[k], c) /\ Poised(g[k], c)
      /\ \A k \in 0 .. n : WrittenTo(g[k], g[n], c)
  BY <1>1, <1>4, <1>5, WrittenAlong
<1>7. Onward(g[n], e, c)
  <2>1. n \in 0 .. n
    BY <1>1
  <2>2. Poised(g[n], c)
    BY <1>6, <2>1
  <2>3. QED
    BY <1>3, <2>2, ClosingOnward
<1>8. ASSUME NEW k \in 0 .. n PROVE Onward(g[k], e, c)
  BY <1>6, <1>7, OnwardTransitive DEF WrittenTo
<1>9. ElementsPath(g, b, m, c)
  BY <1>2, <1>3, <1>6, <1>8 DEF ElementsPath, e
<1>10. QED
  BY <1>9

LEMMA ElementsAlong ==
  ASSUME NEW N \in Nat, NEW c, c + 64 <= SizeMax, NEW b, Poised(b, c), ~b.w.overflow => b.w.depth # 0,
         NEW m, m.count \in Nat, m.fields \in Seq(LeafType), m.count # 0 => SmallFields(m, c),
         \A k \in 1 .. Len(m.fields) : Readable(m.fields[k]), NEW noise \in Nat,
         NEW f, Sent(WriteNestedElements(b, m), f, c), DataPlace(f.w) <= N,
         NEW v, Along(b, v, N), v.ok => v.r.got = m.count
  PROVE  Along(WriteNestedElements(b, m), ReadNestedElements(v, m, f.wire, noise), N)
<1> DEFINE n == m.count
           wire == f.wire
           t == WriteNestedElements(b, m)
<1>1. PICK g : ElementsPath(g, b, m, c)
  BY ElementsWalk
<1>2. Sent(t, f, c) /\ n \in Nat /\ wire \in Wires /\ 0 \in 0 .. n /\ n \in 0 .. n
  BY SentSoFar
<1> HIDE DEF t
<1>3. /\ g[0] = b /\ t = ClosedWriter(g[n]) /\ \A k \in 1 .. n : g[k] = WriteNested(g[k - 1], m)
      /\ \A k \in 0 .. n : Poised(g[k], c) /\ WrittenTo(b, g[k], c) /\ Onward(g[k], t, c)
  BY <1>1 DEF ElementsPath, NestedElementsSteps, t
<1>4. Sent(b, f, c)
  BY <1>2, <1>3, SentBefore
<1>5. InStep(b, v)
  BY <1>4, AlongWhole
<1>6. v.ok /\ v.r.got = n /\ v \in Arrived(N)
  BY <1>5 DEF InStep, Along
<1>7. ReadElementsStays(Arrived(N), m, wire, noise)
  BY <1>2, NestedArrived, ClosedArrived DEF ReadElementsStays
<1>8. PICK h : ReadElementsSteps(h, Arrived(N), v, m, wire, noise)
  BY <1>2, <1>6, <1>7, ReadElementsTrace
<1>9. /\ h[0] = v /\ ReadNestedElements(v, m, wire, noise) = Closed(h[n])
      /\ \A k \in 1 .. n : h[k] = Ignoring(ReadNested(h[k - 1], m, wire, noise))
  BY <1>6, <1>8 DEF ReadElementsSteps
<1> DEFINE S == {k \in Nat : k <= n => Along(g[k], h[k], N)}
<1>10. 0 \in S
  BY <1>3, <1>9
<1>11. ASSUME NEW k \in Nat, k \in S PROVE k + 1 \in S
  <2> SUFFICES ASSUME k + 1 <= n PROVE Along(g[k + 1], h[k + 1], N)
    OBVIOUS
  <2>1. /\ k + 1 \in 1 .. n /\ k \in 0 .. n /\ k + 1 \in 0 .. n /\ (k + 1) - 1 = k /\ k <= n
        /\ n # 0
    BY <1>2
  <2> DEFINE y == g[k]
             x == h[k]
             z == WriteNested(y, m)
             r == ReadNested(x, m, wire, noise)
  <2>2. Poised(y, c) /\ Along(y, x, N) /\ SmallFields(m, c)
    BY <1>3, <1>11, <2>1
  <2>3. g[k + 1] = z /\ h[k + 1] = Ignoring(r)
    BY <1>3, <1>9, <2>1
  <2>4. Poised(z, c) /\ Onward(z, t, c)
    BY <1>3, <2>1, <2>3
  <2> HIDE DEF y, x, z, r
  <2>5. Sent(z, f, c)
    BY <1>2, <2>4, SentBefore
  <2>6. Along(z, r, N)
    BY <2>2, <2>5, NestedAlong DEF z, r
  <2>7. Ignoring(r) = r
    BY <2>4, <2>5, <2>6, AlongWhole
  <2>8. QED
    BY <2>3, <2>6, <2>7
<1> HIDE DEF S
<1>12. n \in S
  BY <1>2, <1>10, <1>11, SetInduction
<1>13. Along(g[n], h[n], N)
  BY <1>2, <1>12 DEF S
<1>14. Poised(g[n], c) /\ g[n].w.depth # 0
  <2>1. Poised(g[n], c) /\ WrittenTo(b, g[n], c) /\ ~g[n].w.overflow
    BY <1>2, <1>3, SentSoFar DEF Onward
  <2>2. g[n].w.depth = b.w.depth /\ ~b.w.overflow
    BY <2>1 DEF WrittenTo, Onward
  <2>3. QED
    BY <2>1, <2>2
<1>15. Along(ClosedWriter(g[n]), Closed(h[n]), N)
  BY <1>13, <1>14, ClosingAlong
<1>16. QED
  BY <1>3, <1>9, <1>15 DEF t

--------------------------------------------------------------------------------
(* Members and messages. *)

SmallMember(m, c) ==
  /\ ~IsNested(m) => Small(m, c)
  /\ m.kind = "nested" => SmallFields(m, c)
  /\ m.kind = "nestedSequence" /\ m.count # 0 => SmallFields(m, c)

NoWideEmpty(m) == \A f \in Fields(m) : ~WideEmpty(f)

\* The members a reader follows.
ReadsBack(m) == NoWideEmpty(m) /\ PrefixesFit(m)

LEMMA FieldsOfMember ==
  ASSUME NEW m \in MemberType, ReadsBack(m)
  PROVE  /\ ~IsNested(m) => Readable(m)
         /\ m.kind = "nestedSequence" => m.count <= NumberMax
         /\ IsNested(m) => \A k \in 1 .. Len(m.fields) : Readable(m.fields[k])
<1>1. CASE ~IsNested(m)
  BY <1>1 DEF ReadsBack, NoWideEmpty, PrefixesFit, Fields, Readable, IsNested
<1>2. CASE IsNested(m)
  <2>1. m.fields \in Seq(LeafType)
    BY <1>2, MemberFields DEF IsNested
  <2>2. ASSUME NEW k \in 1 .. Len(m.fields) PROVE Readable(m.fields[k])
    <3>1. m.fields[k] \in Fields(m)
      BY <1>2, <2>1 DEF Fields, Range
    <3>2. QED
      BY <3>1 DEF ReadsBack, NoWideEmpty, PrefixesFit, Readable
  <2>3. QED
    BY <1>2, <2>2 DEF ReadsBack, PrefixesFit
<1>3. QED
  BY <1>1, <1>2

LEMMA MemberWritten ==
  ASSUME NEW c, c + 64 <= SizeMax, NEW s, Poised(s, c), NEW m \in MemberType, SmallMember(m, c)
  PROVE  LET t == WriteMember(s, m)
         IN WrittenTo(s, t, c) /\ (~t.w.overflow => t.w.header)
<1> DEFINE t == WriteMember(s, m)
<1>1. CASE m \in LeafType /\ m.kind \notin {"nested", "nestedSequence"}
  <2>1. t = WriteLeaf(s, m) /\ Small(m, c)
    BY <1>1 DEF WriteMember, SmallMember, IsNested
  <2>2. QED
    BY <1>1, <2>1, LeafWritten
<1>2. CASE m.kind = "nested" /\ m.fields \in Seq(LeafType) /\ m.fields # <<>>
  <2>1. t = WriteNested(s, m) /\ SmallFields(m, c)
    BY <1>2 DEF WriteMember, SmallMember
  <2>2. QED
    BY <1>2, <2>1, NestedWritten
<1>3. CASE /\ m.kind = "nestedSequence" /\ m.count \in Nat
           /\ m.fields \in Seq(LeafType) /\ m.fields # <<>>
  <2> DEFINE b == Prefixed(s, BeginWriteSequence(s.w), m.count)
  <2>1. t = WriteNestedElements(b, m) /\ (m.count # 0 => SmallFields(m, c))
    BY <1>3 DEF WriteMember, SmallMember
  <2> HIDE DEF b, t
  <2>2. Field(s, b, c, PrefixSize, PrefixEnd(DataPlace(s.w)), s.w.depth + 1)
    BY <1>3, BeginField DEF b
  <2>3. Poised(b, c)
    BY <2>2 DEF Field, Onward
  <2>4. PICK g : ElementsPath(g, b, m, c)
    BY <1>3, <2>1, <2>3, ElementsWalk
  <2>5. m.count \in 0 .. m.count
    BY <1>3
  <2>6. WrittenTo(b, g[m.count], c) /\ t = ClosedWriter(g[m.count])
    BY <2>1, <2>4, <2>5 DEF ElementsPath
  <2>7. QED
    BY <2>2, <2>6, SequenceFieldWritten DEF t
<1>4. QED
  BY <1>1, <1>2, <1>3, MemberFields

LEMMA MemberAlong ==
  ASSUME NEW N \in Nat, NEW c, c + 64 <= SizeMax, NEW s, Poised(s, c),
         NEW m \in MemberType, SmallMember(m, c), ReadsBack(m), NEW noise \in Nat,
         NEW f, Sent(WriteMember(s, m), f, c), IsNested(m) => DataPlace(f.w) <= N,
         NEW d, Along(s, d, N)
  PROVE  Along(WriteMember(s, m), ReadMember(d, m, f.wire, noise), N)
<1> DEFINE t == WriteMember(s, m)
           x == ReadMember(d, m, f.wire, noise)
<1>1. WrittenTo(s, t, c)
  BY MemberWritten
<1>2. Sent(t, f, c) /\ ~t.w.overflow /\ f.wire \in Wires /\ Onward(s, t, c) /\ Poised(t, c)
  BY <1>1, SentSoFar DEF WrittenTo, Onward
<1>3. d \in Arrived(N)
  BY DEF Along
<1>4. CASE ~d.ok
  <2>1. x = d
    BY <1>4 DEF ReadMember
  <2> HIDE DEF x, t
  <2>2. Along(t, x, N)
    BY <1>2, <1>3, <1>4, <2>1, RefusedAlong
  <2>3. QED
    BY <2>2 DEF x, t
<1>5. CASE d.ok /\ m \in LeafType /\ m.kind \notin {"nested", "nestedSequence"}
  <2>1. t = WriteLeaf(s, m) /\ Small(m, c) /\ Readable(m)
    BY <1>5, FieldsOfMember DEF WriteMember, SmallMember, IsNested
  <2>2. x = ReadLeaf(d, m, f.wire, noise)
    BY <1>5 DEF ReadMember
  <2> HIDE DEF x, t
  <2>3. Along(t, x, N)
    BY <1>2, <1>5, <2>1, <2>2, LeafAlong
  <2>4. QED
    BY <2>3 DEF x, t
<1>6. CASE d.ok /\ m.kind = "nested" /\ m.fields \in Seq(LeafType)
  <2> DEFINE r == ReadNested(d, m, f.wire, noise)
  <2>1. t = WriteNested(s, m) /\ SmallFields(m, c) /\ IsNested(m)
    BY <1>6 DEF WriteMember, SmallMember, IsNested
  <2>2. \A k \in 1 .. Len(m.fields) : Readable(m.fields[k])
    BY <2>1, FieldsOfMember
  <2>3. x = Ignoring(r)
    BY <1>6 DEF ReadMember
  <2> HIDE DEF x, t, r
  <2>4. Along(t, r, N)
    BY <1>2, <1>6, <2>1, <2>2, NestedAlong DEF r
  <2>5. Ignoring(r) = r
    BY <1>2, <2>1, <2>4, AlongWhole
  <2>6. QED
    BY <2>3, <2>4, <2>5 DEF x, t
<1>7. CASE d.ok /\ m.kind = "nestedSequence" /\ m.count \in Nat /\ m.fields \in Seq(LeafType)
  <2> DEFINE b == Prefixed(s, BeginWriteSequence(s.w), m.count)
             v == ReadValue(d, BeginReadSequence(d.r, f.wire, noise), PrefixSize)
  <2>1. /\ t = WriteNestedElements(b, m) /\ (m.count # 0 => SmallFields(m, c)) /\ IsNested(m)
        /\ x = ReadNestedElements(v, m, f.wire, noise)
    BY <1>7 DEF WriteMember, ReadMember, SmallMember, IsNested
  <2>2. \A k \in 1 .. Len(m.fields) : Readable(m.fields[k])
    BY <2>1, FieldsOfMember
  <2> HIDE DEF b, t, x
  <2>3. /\ Field(s, b, c, PrefixSize, PrefixEnd(DataPlace(s.w)), s.w.depth + 1)
        /\ Holds(s, b, c, m.count)
    BY <1>7, BeginField DEF b
  <2>4. Poised(b, c)
    BY <2>3 DEF Field, Onward
  <2>5. ~b.w.overflow => b.w.depth # 0
    <3>1. s.w.depth \in Nat
      BY ReadyPlace
    <3>2. QED
      BY <2>3, <3>1 DEF Field
  <2>6. PICK g : ElementsPath(g, b, m, c)
    BY <1>7, <2>1, <2>4, ElementsWalk
  <2>7. Onward(b, t, c)
    <3>1. 0 \in 0 .. m.count
      BY <1>7
    <3>2. QED
      BY <2>1, <2>6, <3>1 DEF ElementsPath, NestedElementsSteps
  <2>8. Sent(b, f, c)
    BY <1>2, <2>4, <2>7, SentBefore
  <2>9. Along(b, v, N) /\ (v.ok => v.r.got = m.count)
    BY <1>7, <2>3, <2>8, BeginAlong, FieldsOfMember
  <2> HIDE DEF v
  <2>10. Along(t, x, N)
    BY <1>2, <1>7, <2>1, <2>2, <2>4, <2>5, <2>9, ElementsAlong
  <2>11. QED
    BY <2>10 DEF x, t
<1>8. QED
  BY <1>3, <1>4, <1>5, <1>6, <1>7, MemberFields

LEMMA BeginAtHeader ==
  ASSUME NEW N \in Nat, NEW c \in Nat, NEW b, b = [w |-> FixedSpan(c), at |-> <<>>, wire |-> <<>>],
         NEW d, d = [r |-> Wrap(N, TRUE), ok |-> Wrap(N, TRUE).ok, at |-> <<>>]
  PROVE  Poised(b, c) /\ Along(b, d, N)
<1>1. Valid(FixedSpan(c)) /\ FixedSpan(c).fixed /\ FixedSpan(c).cap = c
  BY 0 \in Nat, SpanValid
<1>2. ~FixedSpan(c).header /\ FixedSpan(c).depth = 0
  BY DEF FixedSpan, Growing
<1>3. b \in Serialized
  <2>1. FixedSpan(c) \in LooseWriter
    BY <1>1, ValidIsLoose
  <2>2. <<>> \in Seq(Int) /\ <<>> \in [{} -> Nat]
    OBVIOUS
  <2>3. <<>> \in Wires
    BY <2>2 DEF Wires
  <2>4. QED
    BY <2>1, <2>2, <2>3 DEF Serialized
<1>4. Poised(b, c)
  BY <1>1, <1>3 DEF Poised
<1>5. DataPlace(b.w) = 4 /\ b.w.depth = 0 /\ b.at = <<>>
  BY <1>2 DEF DataPlace, HeaderSize
<1>6. d \in Arrived(N)
  <2>1. Wrap(N, TRUE) \in InBuffer(N)
    BY DEF Wrap, HeaderSize, InBuffer, ReaderType
  <2>2. Wrap(N, TRUE).ok \in BOOLEAN
    BY <2>1, InBufferCalls
  <2>3. <<>> \in Seq(Nat)
    OBVIOUS
  <2>4. QED
    BY <2>1, <2>2, <2>3 DEF Arrived
<1>7. ASSUME d.ok \/ 4 <= N PROVE InStep(b, d)
  <2>1. N >= HeaderSize
    BY <1>7 DEF Wrap, HeaderSize
  <2>2. Wrap(N, TRUE).ok /\ Wrap(N, TRUE).pos = 4 /\ Wrap(N, TRUE).native /\ Wrap(N, TRUE).depth = 0
    BY <2>1 DEF Wrap, HeaderSize
  <2>3. QED
    BY <1>5, <2>2 DEF InStep
<1>8. QED
  BY <1>4, <1>5, <1>6, <1>7 DEF Along

\* The writer over the members of a message.
MessagePath(g, msg, c) ==
  /\ g[0] = [w |-> FixedSpan(c), at |-> <<>>, wire |-> <<>>]
  /\ SerializeInto(msg, c) = g[Len(msg)]
  /\ \A k \in 1 .. Len(msg) : g[k] = WriteMember(g[k - 1], msg[k])
  /\ \A k \in 0 .. Len(msg) :
       WrittenTo(g[0], g[k], c) /\ Poised(g[k], c) /\ WrittenTo(g[k], g[Len(msg)], c)

LEMMA MessageWalk ==
  ASSUME NEW c \in Nat, c + 64 <= SizeMax, NEW msg \in Seq(MemberType),
         \A k \in 1 .. Len(msg) : SmallMember(msg[k], c)
  PROVE  \E g : MessagePath(g, msg, c)
<1> DEFINE n == Len(msg)
           b == [w |-> FixedSpan(c), at |-> <<>>, wire |-> <<>>]
<1>1. n \in Nat /\ \A k \in 1 .. n : msg[k] \in MemberType /\ SmallMember(msg[k], c)
  OBVIOUS
<1>2. Poised(b, c)
  BY 0 \in Nat, BeginAtHeader
<1>3. b \in Serialized /\ SerializeStays(Serialized, msg)
  BY <1>1, <1>2, MemberSerialized DEF SerializeStays, Poised
<1> HIDE DEF b
<1>4. PICK g : SerializeSteps(g, Serialized, b, msg, c)
  BY <1>3, SerializeTrace DEF b
<1>5. /\ g[0] = b /\ SerializeInto(msg, c) = g[n]
      /\ \A k \in 1 .. n : g[k] = WriteMember(g[k - 1], msg[k])
  BY <1>4 DEF SerializeSteps
<1> HIDE DEF n
<1>6. ASSUME NEW k \in 1 .. n, Poised(g[k - 1], c) PROVE WrittenTo(g[k - 1], g[k], c)
  <2> DEFINE x == g[k - 1]
             m == msg[k]
  <2>1. g[k] = WriteMember(x, m) /\ Poised(x, c) /\ m \in MemberType /\ SmallMember(m, c)
    BY <1>1, <1>5, <1>6
  <2> HIDE DEF x, m
  <2>2. QED
    BY <2>1, MemberWritten DEF x
<1>7. Poised(g[0], c)
  BY <1>2, <1>5
<1>8. /\ \A k \in 0 .. n : WrittenTo(g[0], g[k], c) /\ Poised(g[k], c)
      /\ \A k \in 0 .. n : WrittenTo(g[k], g[n], c)
  BY <1>1, <1>6, <1>7, WrittenAlong
<1>9. QED
  BY <1>5, <1>8 DEF MessagePath, b, n

\* A message with members that was written has its header and no context left.
LEMMA MessageWritten ==
  ASSUME NEW c \in Nat, c + 64 <= SizeMax, NEW msg \in Seq(MemberType), msg # <<>>,
         \A k \in 1 .. Len(msg) : SmallMember(msg[k], c),
         NEW f, f = SerializeInto(msg, c), ~f.w.overflow
  PROVE  Poised(f, c) /\ f.w.header /\ f.w.depth = 0
<1> DEFINE n == Len(msg)
<1>1. PICK g : MessagePath(g, msg, c)
  BY MessageWalk
<1>2. n \in Nat /\ n # 0
  OBVIOUS
<1> HIDE DEF n
<1>3. n \in 0 .. n /\ n \in 1 .. n /\ n - 1 \in 0 .. n
  BY <1>2
<1> DEFINE x == g[n - 1]
           m == msg[n]
<1>4. f = g[n] /\ Poised(f, c) /\ WrittenTo(g[0], f, c) /\ f = WriteMember(x, m) /\ Poised(x, c)
  BY <1>1, <1>3 DEF MessagePath, n
<1>5. m \in MemberType /\ SmallMember(m, c)
  BY <1>3 DEF n
<1>6. g[0].w.depth = 0
  <2>1. g[0].w = FixedSpan(c)
    BY <1>1 DEF MessagePath
  <2>2. FixedSpan(c).depth = 0
    BY DEF FixedSpan, Growing
  <2>3. QED
    BY <2>1, <2>2
<1> HIDE DEF x, m
<1>7. f.w.header
  BY <1>4, <1>5, MemberWritten
<1>8. QED
  BY <1>4, <1>6, <1>7 DEF WrittenTo

\* N bytes with the prefixes of f, all that a message stored among them, are read
\* along with what was written.
LEMMA PathAlong ==
  ASSUME NEW N \in Nat, NEW c \in Nat, c + 64 <= SizeMax, NEW msg \in Seq(MemberType),
         \A k \in 1 .. Len(msg) : SmallMember(msg[k], c) /\ ReadsBack(msg[k]),
         NEW noise \in Nat, NEW g, MessagePath(g, msg, c),
         NEW f, \A k \in 0 .. Len(msg) : Sent(g[k], f, c),
         \A k \in 1 .. Len(msg) : IsNested(msg[k]) => DataPlace(f.w) <= N
  PROVE  Along(SerializeInto(msg, c), DeserializeFrom(msg, f.wire, N, noise), N)
<1> DEFINE n == Len(msg)
           b == [w |-> FixedSpan(c), at |-> <<>>, wire |-> <<>>]
           d == [r |-> Wrap(N, TRUE), ok |-> Wrap(N, TRUE).ok, at |-> <<>>]
           wire == f.wire
<1>1. n \in Nat /\ \A k \in 1 .. n : msg[k] \in MemberType
  OBVIOUS
<1>2. Along(b, d, N) /\ d \in Arrived(N)
  BY BeginAtHeader DEF Along
<1> HIDE DEF b
<1>3. \A k \in 0 .. n : Sent(g[k], f, c)
  OBVIOUS
<1>4. /\ g[0] = b /\ SerializeInto(msg, c) = g[n]
      /\ \A k \in 1 .. n : g[k] = WriteMember(g[k - 1], msg[k])
      /\ \A k \in 0 .. n : Poised(g[k], c)
  BY DEF MessagePath, b
<1>5. \A k \in 1 .. n : SmallMember(msg[k], c) /\ ReadsBack(msg[k])
                          /\ (IsNested(msg[k]) => DataPlace(f.w) <= N)
  OBVIOUS
<1> HIDE DEF n
<1>6. wire \in Wires
  <2>1. n \in 0 .. n
    BY <1>1
  <2>2. QED
    BY <1>3, <2>1, SentSoFar
<1>7. DeserializeStays(Arrived(N), msg, wire, noise)
  BY <1>1, <1>6, MemberArrived DEF DeserializeStays, n
<1>8. PICK h : DeserializeSteps(h, Arrived(N), d, msg, wire, N, noise)
  BY <1>2, <1>7, DeserializeTrace
<1>9. /\ h[0] = d /\ DeserializeFrom(msg, wire, N, noise) = h[n]
      /\ \A k \in 1 .. n : h[k] = ReadMember(h[k - 1], msg[k], wire, noise)
  BY <1>8 DEF DeserializeSteps, n
<1> DEFINE S == {k \in Nat : k <= n => Along(g[k], h[k], N)}
<1>10. 0 \in S
  BY <1>2, <1>4, <1>9
<1>11. ASSUME NEW k \in Nat, k \in S PROVE k + 1 \in S
  <2> SUFFICES ASSUME k + 1 <= n PROVE Along(g[k + 1], h[k + 1], N)
    OBVIOUS
  <2>1. k + 1 \in 1 .. n /\ k \in 0 .. n /\ k + 1 \in 0 .. n /\ (k + 1) - 1 = k /\ k <= n
    BY <1>1
  <2> DEFINE y == g[k]
             x == h[k]
             m == msg[k + 1]
             z == WriteMember(y, m)
  <2>2. Poised(y, c) /\ Along(y, x, N)
    BY <1>4, <1>11, <2>1
  <2>3. /\ m \in MemberType /\ SmallMember(m, c) /\ ReadsBack(m)
        /\ IsNested(m) => DataPlace(f.w) <= N
    BY <1>1, <1>5, <2>1
  <2>4. g[k + 1] = z /\ h[k + 1] = ReadMember(x, m, wire, noise)
    BY <1>4, <1>9, <2>1
  <2>5. Sent(z, f, c)
    BY <1>3, <2>1, <2>4
  <2> HIDE DEF y, x, m, z
  <2>6. QED
    BY <2>2, <2>3, <2>4, <2>5, MemberAlong DEF z
<1> HIDE DEF S
<1>12. n \in S
  BY <1>1, <1>10, <1>11, SetInduction
<1>13. QED
  BY <1>1, <1>4, <1>9, <1>12 DEF S

\* A message that was written, and N bytes of it that are read.
LEMMA MessageAlong ==
  ASSUME NEW N \in Nat, NEW c \in Nat, c + 64 <= SizeMax, NEW msg \in Seq(MemberType),
         \A k \in 1 .. Len(msg) : SmallMember(msg[k], c) /\ ReadsBack(msg[k]),
         NEW noise \in Nat, NEW f, f = SerializeInto(msg, c), ~f.w.overflow,
         \A k \in 1 .. Len(msg) : IsNested(msg[k]) => DataPlace(f.w) <= N
  PROVE  Along(f, DeserializeFrom(msg, f.wire, N, noise), N)
<1>1. PICK g : MessagePath(g, msg, c)
  BY MessageWalk
<1>2. \A k \in 0 .. Len(msg) : Sent(g[k], f, c)
  BY <1>1 DEF MessagePath, WrittenTo, Sent
<1>3. QED
  BY <1>1, <1>2, PathAlong

--------------------------------------------------------------------------------
(* Messages of the model: their arrays and sequences end within size_t. *)

LEMMA LeafIsCounted ==
  ASSUME NEW o \in Nat, NEW f \in LeafType, f.kind \in {"array", "sequence"}
  PROVE  f.size * f.count \in Nat /\ f.size * f.count <= LeafSize(o, f)
<1> DEFINE p == AlignTo(o, PrefixSize) + PrefixSize
           k == f.size * f.count
<1>1. f.size \in PrimitiveSizes /\ f.count \in Nat
  BY LeafFields
<1>2. p \in Nat /\ k \in Nat
  <2>1. PrefixSize \in PrimitiveSizes
    BY DEF PrefixSize, PrimitiveSizes
  <2>2. AlignTo(o, PrefixSize) \in Nat
    BY <2>1, AlignToIsNat
  <2>3. QED
    BY <1>1, <2>2, ProductIsNat DEF PrefixSize
<1>3. AlignTo(o, f.size) \in Nat /\ AlignTo(p, f.size) \in Nat
  BY <1>1, <1>2, AlignToIsNat
<1>4. LeafSize(o, f) = AlignTo(o, f.size) + k \/ LeafSize(o, f) = AlignTo(p, f.size) + k
  BY DEF LeafSize
<1> HIDE DEF p, k
<1>5. k <= LeafSize(o, f)
  BY <1>2, <1>3, <1>4
<1>6. QED
  BY <1>2, <1>5 DEF k

LEMMA SmallBySize ==
  ASSUME NEW o \in Nat, NEW f \in LeafType, NEW c \in Nat, NEW x \in Nat,
         LeafSize(o, f) <= x, c + x + 64 <= SizeMax
  PROVE  Small(f, c)
<1> DEFINE k == f.size * f.count
<1>1. SUFFICES ASSUME f.kind \in {"array", "sequence"} PROVE c + k + 64 <= SizeMax
  BY DEF Small
<1>2. k \in Nat /\ k <= LeafSize(o, f) /\ LeafSize(o, f) \in Nat
  BY <1>1, LeafIsCounted, LeafSizeIsNat
<1> HIDE DEF k
<1>3. QED
  BY <1>2, SizeMaxAssumption

LEMMA SmallFieldsBySize ==
  ASSUME NEW m, m.fields \in Seq(LeafType), NEW c \in Nat, NEW x \in Nat,
         NestedSize(m) <= x, c + x + 64 <= SizeMax
  PROVE  SmallFields(m, c)
<1> DEFINE n == Len(m.fields)
<1>1. n \in Nat /\ \A k \in 1 .. n : m.fields[k] \in LeafType
  OBVIOUS
<1>2. NestedSizeStays(Nat, m)
  BY <1>1, LeafSizeIsNat DEF NestedSizeStays
<1>3. PICK h : NestedSizeSteps(h, Nat, 0, m)
  BY <1>2, NestedSizeTrace
<1>4. /\ h \in [0 .. n -> Nat] /\ NestedSize(m) = h[n]
      /\ \A k \in 1 .. n : h[k] = LeafSize(h[k - 1], m.fields[k])
  BY <1>3 DEF NestedSizeSteps
<1> HIDE DEF n
<1>5. \A k \in 1 .. n : k - 1 \in 0 .. n /\ k \in 0 .. n
  BY <1>1
<1>6. \A k \in 1 .. n : h[k - 1] <= h[k]
  <2> TAKE k \in 1 .. n
  <2>1. h[k - 1] \in Nat
    BY <1>4, <1>5
  <2>2. QED
    BY <1>1, <1>4, <2>1, LeafSizeGrows
<1>7. \A k \in 0 .. n : h[k] <= h[n]
  BY <1>1, <1>4, <1>6, NeverShrinks
<1>8. ASSUME NEW k \in 1 .. n PROVE Small(m.fields[k], c)
  <2>1. h[k - 1] \in Nat /\ h[k] \in Nat /\ h[k] <= h[n] /\ h[n] <= x
    BY <1>4, <1>5, <1>7
  <2>2. LeafSize(h[k - 1], m.fields[k]) = h[k] /\ m.fields[k] \in LeafType
    BY <1>1, <1>4
  <2>3. n \in 0 .. n
    BY <1>1
  <2>4. h[n] \in Nat
    BY <1>4, <2>3
  <2>5. LeafSize(h[k - 1], m.fields[k]) <= x
    BY <2>1, <2>2, <2>4
  <2>6. QED
    BY <2>1, <2>2, <2>5, SmallBySize
<1>9. QED
  BY <1>8 DEF SmallFields, n

LEMMA SmallMemberBySize ==
  ASSUME NEW m \in MemberType, NEW c \in Nat, c + ComputeSerializedSize(<<m>>) + 64 <= SizeMax
  PROVE  SmallMember(m, c)
<1> DEFINE x == MemberSize(0, m)
           msg == <<m>>
<1>1. x \in Nat
  BY MemberSizeIsNat
<1>2. ComputeSerializedSize(msg) = HeaderSize + x
  <2>1. msg \in Seq(MemberType) /\ Len(msg) = 1 /\ msg[1] = m
    OBVIOUS
  <2>2. SizeStays(Nat, msg)
    BY <2>1, MemberSizeIsNat DEF SizeStays
  <2> HIDE DEF msg
  <2>3. PICK g : SizeSteps(g, Nat, 0, msg)
    BY <2>1, <2>2, SizeTrace
  <2>4. /\ g[0] = 0 /\ ComputeSerializedSize(msg) = HeaderSize + g[1]
        /\ \A k \in 1 .. 1 : g[k] = MemberSize(g[k - 1], msg[k])
    BY <2>1, <2>3 DEF SizeSteps
  <2>5. 1 \in 1 .. 1 /\ 1 - 1 = 0
    OBVIOUS
  <2>6. g[1] = MemberSize(0, m)
    BY <2>1, <2>4, <2>5
  <2>7. QED
    BY <2>4, <2>6
<1> HIDE DEF x
<1>3. c + x + 64 <= SizeMax
  BY <1>1, <1>2, SizeMaxAssumption DEF HeaderSize, msg
<1>4. CASE m \in LeafType /\ m.kind \notin {"nested", "nestedSequence"}
  <2>1. LeafSize(0, m) = x
    BY <1>4 DEF MemberSize, x
  <2>2. Small(m, c)
    BY <1>1, <1>3, <1>4, <2>1, SmallBySize
  <2>3. QED
    BY <1>4, <2>2 DEF SmallMember
<1>5. CASE m.kind = "nested" /\ m.fields \in Seq(LeafType)
  <2>1. NestedSize(m) \in Nat /\ x = 0 + NestedSize(m)
    BY <1>5, NestedSizeIsNat DEF MemberSize, x
  <2>2. SmallFields(m, c)
    BY <1>1, <1>3, <1>5, <2>1, SmallFieldsBySize
  <2>3. QED
    BY <1>5, <2>2 DEF SmallMember, IsNested
<1>6. CASE m.kind = "nestedSequence" /\ m.count \in Nat /\ m.fields \in Seq(LeafType)
  <2> DEFINE e == NestedSize(m)
             p == AlignTo(0, PrefixSize) + PrefixSize
  <2>1. e \in Nat /\ p \in Nat
    <3>1. NestedSize(m) \in Nat
      BY <1>6, NestedSizeIsNat
    <3>2. 0 \in Nat /\ PrefixSize \in PrimitiveSizes
      BY DEF PrefixSize, PrimitiveSizes
    <3>3. AlignTo(0, PrefixSize) \in Nat
      BY <3>2, AlignToIsNat
    <3>4. QED
      BY <3>1, <3>3 DEF PrefixSize
  <2>2. x = p + m.count * e
    BY <1>6 DEF MemberSize, x
  <2> HIDE DEF e, p
  <2>3. ASSUME m.count # 0 PROVE SmallFields(m, c)
    <3>1. e <= m.count * e /\ m.count * e \in Nat
      BY <1>6, <2>1, <2>3
    <3>2. e <= x
      BY <2>1, <2>2, <3>1
    <3>3. QED
      BY <1>1, <1>3, <1>6, <3>2, SmallFieldsBySize DEF e
  <2>4. QED
    BY <1>6, <2>3 DEF SmallMember, IsNested
<1>7. QED
  BY <1>4, <1>5, <1>6, MemberFields

================================================================================
