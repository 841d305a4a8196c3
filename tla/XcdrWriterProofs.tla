---------------------------- MODULE XcdrWriterProofs ---------------------------
(***************************************************************************)
(* XcdrWriter's safety, for all capacities, element sizes, lengths and     *)
(* counts that fit in memory together: types and span, what data() exposes *)
(* behind the cursor, the context stack and the finality of errors.        *)
(***************************************************************************)
EXTENDS XcdrWriter, CodecOpsProofs

--------------------------------------------------------------------------------
(* What a call makes of a session *)

\* No header is due any more.
Ready(x) == x.header \/ x.overflow

\* The bytes stored are those from s to the cursor.
Packed(x, s) ==
  /\ x.stored = s .. (Cursor(x) - 1)
  /\ ~x.overflow => s <= Cursor(x)
  /\ ~x.fixed => s = 0

\* A session that began at s; the header comes first if it is still due.
Session(x, s) == Packed(x, s) /\ (Ready(x) \/ (s = 0 /\ Cursor(x) = 0))

\* y is x after an operation that opens d contexts and respects errors.
Step(x, y, d) ==
  /\ ValidAfter(x, y)
  /\ x.overflow => y.overflow /\ Cursor(y) = Cursor(x) /\ y.stored = x.stored
  /\ ~y.overflow => y.depth = x.depth + d

\* Behind the header the session goes on.
Extends(x, y, s) == Ready(x) /\ Packed(x, s) => Ready(y) /\ Packed(y, s)

LEMMA StepsCompose ==
  ASSUME NEW x, NEW y, NEW z, NEW d \in Int, NEW e \in Int,
         Valid(x), Step(x, y, d), Step(y, z, e)
  PROVE  Step(x, z, d + e)
<1>1. ValidAfter(x, z)
  BY ValidAfterTransitive DEF Step
<1>2. x.depth \in Nat
  BY DEF Valid, WriterType
<1>3. ~z.overflow => z.depth = x.depth + (d + e)
  BY <1>2 DEF Step
<1>4. QED
  BY <1>1, <1>3 DEF Step

LEMMA NothingSteps ==
  ASSUME NEW x, Valid(x) PROVE Step(x, x, 0)
BY DEF Step, ValidAfter, Valid, WriterType

\* Failing.
LEMMA FailSteps ==
  ASSUME NEW x, Valid(x), NEW s \in Nat
  PROVE  Step(x, Fail(x), 0) /\ Extends(x, Fail(x), s)
<1> DEFINE y == Fail(x)
<1>1. ValidAfter(x, y) /\ Cursor(y) = Cursor(x) /\ y.overflow
  BY FailValid
<1>2. y.stored = x.stored /\ y.fixed = x.fixed
  BY DEF Valid, WriterType, Fail
<1> HIDE DEF y
<1>3. QED
  BY <1>1, <1>2 DEF Step, Extends, Ready, Packed, y

LEMMA PushSteps ==
  ASSUME NEW x, Valid(x), NEW s \in Nat
  PROVE  Step(x, Push(x), 1) /\ Extends(x, Push(x), s)
<1> DEFINE y == Push(x)
<1>1. ValidAfter(x, y)
  BY PushPopValid
<1>2. /\ y.stored = x.stored /\ y.fixed = x.fixed /\ Cursor(y) = Cursor(x)
      /\ y.overflow = x.overflow /\ y.header = x.header /\ y.depth = x.depth + 1
  BY DEF Valid, WriterType, Push, Cursor
<1> HIDE DEF y
<1>3. QED
  BY <1>1, <1>2 DEF Step, Extends, Ready, Packed, y

\* A pop without a matching push is only possible behind an error.
LEMMA PopSteps ==
  ASSUME NEW x, Valid(x), NEW s \in Nat, x.overflow \/ x.depth > 0
  PROVE  Step(x, Pop(x), -1) /\ Extends(x, Pop(x), s)
<1> DEFINE y == Pop(x)
<1>1. ValidAfter(x, y)
  BY PushPopValid
<1>2. /\ y.stored = x.stored /\ y.fixed = x.fixed /\ Cursor(y) = Cursor(x)
      /\ y.overflow = x.overflow /\ y.header = x.header
      /\ x.depth > 0 => y.depth = x.depth - 1
  BY DEF Valid, WriterType, Pop, Cursor
<1>3. x.depth \in Nat
  BY DEF Valid, WriterType
<1> HIDE DEF y
<1>4. ~y.overflow => y.depth = x.depth + (-1)
  BY <1>2, <1>3
<1>5. QED
  BY <1>1, <1>2, <1>4 DEF Step, Extends, Ready, Packed, y

\* Bytes stored from the cursor on, up to the new cursor.
LEMMA GrowthSteps ==
  ASSUME NEW x, Valid(x), NEW y, ValidAfter(x, y), ~x.overflow,
         y.header = x.header, y.depth = x.depth, Cursor(x) <= Cursor(y),
         y.stored = x.stored \cup (Cursor(x) .. (Cursor(y) - 1)),
         NEW s \in Nat
  PROVE  Step(x, y, 0) /\ Extends(x, y, s)
<1>1. Cursor(x) \in Nat /\ Cursor(y) \in Nat /\ x.depth \in Nat
  BY CursorIsNat DEF ValidAfter, Valid, WriterType
<1>2. Step(x, y, 0)
  BY <1>1 DEF Step
<1>3. ASSUME Ready(x), Packed(x, s) PROVE Packed(y, s) /\ Ready(y)
  <2> DEFINE c == Cursor(x)
             e == Cursor(y)
  <2>1. /\ x.stored = s .. (c - 1) /\ s <= c /\ c <= e
        /\ y.stored = x.stored \cup (c .. (e - 1))
    BY <1>3 DEF Packed
  <2>2. c \in Nat /\ e \in Nat
    BY <1>1
  <2> HIDE DEF c, e
  <2>3. y.stored = s .. (e - 1) /\ s <= e
    BY <2>1, <2>2
  <2>4. QED
    BY <1>3, <2>3 DEF Packed, Ready, ValidAfter, e
<1>4. QED
  BY <1>2, <1>3 DEF Extends

\* The header, which opens the session unless something did before.
LEMMA HeaderSteps ==
  ASSUME NEW x, Valid(x), NEW s \in Nat
  PROVE  LET h == EnsureHeaderWritten(x)
         IN /\ Step(x, h, 0)
            /\ Ready(h)
            /\ Session(x, s) => Packed(h, s)
<1> DEFINE h == EnsureHeaderWritten(x)
<1>1. ValidAfter(x, h) /\ x \in WriterType
  BY EnsureHeaderValid DEF Valid
<1>2. CASE Ready(x)
  BY <1>2, NothingSteps DEF EnsureHeaderWritten, Ready, Session
<1>3. CASE ~Ready(x) /\ Fits(x, HeaderSize)
  <2> DEFINE m == MoveTo(x, HeaderSize)
  <2>1. h = [[m EXCEPT !.stored = @ \cup Offsets(Cursor(m) - HeaderSize, HeaderSize)]
              EXCEPT !.header = TRUE]
    BY <1>3 DEF EnsureHeaderWritten, StoreLast, Ready
  <2>2. /\ m \in WriterType /\ Cursor(m) = 4
        /\ m.overflow = x.overflow /\ m.depth = x.depth /\ m.stored = x.stored
        /\ m.fixed = x.fixed
    <3> HIDE DEF m
    <3>1. QED
      BY <1>1, MoveToFields DEF m, HeaderSize
  <2> HIDE DEF m
  <2>3. Offsets(Cursor(m) - HeaderSize, HeaderSize) = 0 .. 3
    BY <2>2 DEF Offsets, HeaderSize
  <2>4. h = [[m EXCEPT !.stored = @ \cup (0 .. 3)] EXCEPT !.header = TRUE]
    BY <2>1, <2>3
  <2> HIDE DEF h
  <2>5. /\ Cursor(h) = 4 /\ ~h.overflow /\ h.depth = x.depth /\ h.header
        /\ h.stored = x.stored \cup (0 .. 3) /\ h.fixed = x.fixed
    BY <1>3, <2>2, <2>4 DEF WriterType, Cursor, Ready
  <2>6. x.depth \in Nat
    BY <1>1 DEF WriterType
  <2>7. Step(x, h, 0) /\ Ready(h)
    BY <1>1, <1>3, <2>5, <2>6 DEF Step, Ready
  <2>8. ASSUME Session(x, s) PROVE Packed(h, s)
    <3>1. s = 0 /\ x.stored = 0 .. (0 - 1)
      BY <1>3, <2>8 DEF Session, Packed
    <3>2. h.stored = 0 .. 3
      BY <2>5, <3>1
    <3>3. QED
      BY <2>5, <3>1, <3>2 DEF Packed
  <2>9. QED
    BY <2>7, <2>8 DEF h
<1>4. CASE ~Ready(x) /\ ~Fits(x, HeaderSize)
  <2>1. h = [[x EXCEPT !.overflow = TRUE] EXCEPT !.header = TRUE]
    BY <1>4 DEF EnsureHeaderWritten, Ready, Fail
  <2> HIDE DEF h
  <2>2. /\ Cursor(h) = Cursor(x) /\ h.overflow /\ h.header
        /\ h.stored = x.stored /\ h.fixed = x.fixed
    BY <1>1, <2>1 DEF WriterType, Cursor
  <2>3. QED
    BY <1>1, <1>4, <2>2 DEF Step, Ready, Session, Packed, h
<1>5. QED
  BY <1>2, <1>3, <1>4

\* Padding and data, whichever of them zeros are stored for first.
LEMMA ReserveSteps ==
  ASSUME NEW x, Valid(x), NEW a \in PrimitiveSizes, NEW n \in Nat,
         Cursor(x) + 15 + n <= SizeMax, NEW s \in Nat
  PROVE  LET y == ReserveAndStore(x, a, n)
         IN Step(x, y, 0) /\ Extends(x, y, s)
<1> DEFINE c == Cursor(x)
           aligned == DataAlign(c, a)
           end == Plus(aligned, n)
           y == ReserveAndStore(x, a, n)
<1>1. c \in Nat /\ x \in WriterType
  BY CursorIsNat DEF Valid
<1>2. aligned \in Nat /\ c <= aligned /\ aligned <= c + 15
  BY <1>1, DataAlignBounds
<1>3. end = aligned + n
  BY <1>1, <1>2, PlusIsNat, SizeMaxAssumption
<1>4. ValidAfter(x, y)
  BY ReserveAndStoreValid
<1>5. CASE x.overflow
  BY <1>5, NothingSteps DEF ReserveAndStore, AlignAndReserve, Extends
<1>6. CASE ~x.overflow /\ ~Fits(x, end)
  <2>1. AlignAndReserve(x, a, n) = Fail(x)
    BY <1>6 DEF AlignAndReserve
  <2>2. y = Fail(x)
    BY <2>1, FailValid DEF ReserveAndStore
  <2>3. QED
    BY <2>2, FailSteps
<1>7. CASE ~x.overflow /\ Fits(x, end)
  <2> DEFINE m == MoveTo(x, end)
             gap == c .. ((IF x.fixed THEN aligned ELSE end) - 1)
             r == [m EXCEPT !.stored = @ \cup gap]
  <2>1. end \in Nat
    BY <1>2, <1>3
  <2>2. /\ m \in WriterType /\ Cursor(m) = end
        /\ m.overflow = x.overflow /\ m.header = x.header
        /\ m.depth = x.depth /\ m.stored = x.stored
    <3> HIDE DEF end
    <3>1. QED
      BY <1>1, <2>1, MoveToFields
  <2>3. AlignAndReserve(x, a, n) = r
    BY <1>7 DEF AlignAndReserve
  <2> HIDE DEF m
  <2>4. gap \in SUBSET Nat /\ Offsets(end - n, n) \in SUBSET Nat
    BY <1>1, <1>2, <1>3 DEF Offsets
  <2>5. gap \cup Offsets(end - n, n) = c .. (end - 1)
    BY <1>1, <1>2, <1>3 DEF Offsets
  <2> HIDE DEF gap
  <2>6. /\ r \in WriterType /\ Cursor(r) = end /\ ~r.overflow
        /\ r.header = x.header /\ r.depth = x.depth /\ r.stored = x.stored \cup gap
    BY <1>7, <2>2, <2>4 DEF WriterType, Cursor
  <2> HIDE DEF r
  <2>7. y = [r EXCEPT !.stored = @ \cup Offsets(end - n, n)]
    BY <2>3, <2>6 DEF ReserveAndStore, StoreLast
  <2>8. /\ Cursor(y) = end /\ ~y.overflow
        /\ y.header = x.header /\ y.depth = x.depth
        /\ y.stored = (x.stored \cup gap) \cup Offsets(end - n, n)
    <3> HIDE DEF y, end
    <3>1. QED
      BY <2>4, <2>6, <2>7 DEF WriterType, Cursor
  <2>9. c <= end
    BY <1>1, <1>2, <1>3
  <2> HIDE DEF y, end
  <2>10. y.stored = x.stored \cup (c .. (Cursor(y) - 1))
    BY <2>5, <2>8
  <2>11. QED
    BY <1>4, <1>7, <2>8, <2>9, <2>10, GrowthSteps DEF y
<1>8. QED
  BY <1>5, <1>6, <1>7

\* n bytes that fit, right behind the cursor.
LEMMA AppendSteps ==
  ASSUME NEW x, Valid(x), ~x.overflow, NEW n \in Nat, Fits(x, Cursor(x) + n), NEW s \in Nat
  PROVE  LET y == StoreLast(MoveTo(x, Cursor(x) + n), n)
         IN Step(x, y, 0) /\ Extends(x, y, s)
<1> DEFINE c == Cursor(x)
           m == MoveTo(x, c + n)
           y == StoreLast(m, n)
<1>1. x \in WriterType /\ c \in Nat /\ c + n \in Nat
  BY CursorIsNat DEF Valid
<1>2. ValidAfter(x, y)
  BY AppendValid
<1>3. /\ m \in WriterType /\ Cursor(m) = c + n
      /\ m.header = x.header /\ m.depth = x.depth /\ m.stored = x.stored
  <2> HIDE DEF c
  <2>1. QED
    BY <1>1, MoveToFields
<1> HIDE DEF m
<1>4. Offsets(Cursor(m) - n, n) = c .. (c + n - 1)
  BY <1>1, <1>3 DEF Offsets
<1>5. y = [m EXCEPT !.stored = x.stored \cup (c .. (c + n - 1))]
  BY <1>3, <1>4 DEF StoreLast
<1>6. c <= c + n
  BY <1>1
<1> HIDE DEF y, c
<1>7. /\ Cursor(y) = c + n /\ y.header = x.header /\ y.depth = x.depth
      /\ y.stored = x.stored \cup (c .. (c + n - 1))
  BY <1>3, <1>5 DEF WriterType, Cursor
<1>8. /\ Cursor(x) <= Cursor(y)
      /\ y.stored = x.stored \cup (Cursor(x) .. (Cursor(y) - 1))
  BY <1>1, <1>6, <1>7 DEF c
<1>9. Step(x, y, 0) /\ Extends(x, y, s)
  BY <1>2, <1>7, <1>8, GrowthSteps
<1>10. QED
  BY <1>9 DEF y, m, c

\* A growing buffer is zero up to its new end, even if that wrapped.
LEMMA SkipAdvanceSteps ==
  ASSUME NEW x, Valid(x), NEW a \in PrimitiveSizes, NEW n \in Nat, NEW s \in Nat
  PROVE  LET y == SkipAdvance(x, a, n)
         IN Step(x, y, 0) /\ (~x.fixed => Extends(x, y, s))
<1> DEFINE c == Cursor(x)
           end == Plus(DataAlign(c, a), n)
           y == SkipAdvance(x, a, n)
<1>1. c \in Nat /\ end \in Nat /\ x \in WriterType
  BY CursorIsNat, DataAlignBounds, PlusIsNat DEF Valid
<1>2. ValidAfter(x, y)
  BY SkipAdvanceValid
<1>3. CASE x.overflow
  BY <1>3, NothingSteps DEF SkipAdvance, Extends
<1>4. CASE ~x.overflow /\ ~Fits(x, end)
  BY <1>4, FailSteps DEF SkipAdvance
<1>5. CASE ~x.overflow /\ Fits(x, end)
  <2> DEFINE m == MoveTo(x, end)
             kept == {o \in x.stored : o < end} \cup (c .. (end - 1))
  <2>1. /\ m \in WriterType /\ Cursor(m) = end /\ m.fixed = x.fixed
        /\ m.overflow = x.overflow /\ m.header = x.header
        /\ m.depth = x.depth /\ m.stored = x.stored
    <3> HIDE DEF end
    <3>1. QED
      BY <1>1, MoveToFields
  <2>2. y = IF x.fixed THEN m ELSE [m EXCEPT !.stored = kept]
    BY <1>5, <2>1 DEF SkipAdvance, Resize
  <2> HIDE DEF m
  <2>3. kept \in SUBSET Nat
    BY <1>1 DEF WriterType
  <2> HIDE DEF kept, y, end
  <2>4. /\ Cursor(y) = end /\ y.overflow = x.overflow /\ y.fixed = x.fixed
        /\ y.header = x.header /\ y.depth = x.depth
        /\ ~x.fixed => y.stored = kept
    BY <2>1, <2>2, <2>3 DEF WriterType, Cursor
  <2>5. Step(x, y, 0)
    <3>1. x.depth \in Nat
      BY <1>1 DEF WriterType
    <3>2. QED
      BY <1>2, <1>5, <2>4, <3>1 DEF Step
  <2>6. ASSUME ~x.fixed, Ready(x), Packed(x, s) PROVE Packed(y, s) /\ Ready(y)
    <3>1. s = 0 /\ x.stored = 0 .. (c - 1)
      BY <2>6 DEF Packed
    <3>2. kept = 0 .. (end - 1)
      BY <1>1, <3>1 DEF kept
    <3>3. QED
      BY <1>1, <2>4, <2>6, <3>1, <3>2 DEF Packed, Ready
  <2>7. QED
    BY <2>5, <2>6 DEF Extends, y
<1>6. QED
  BY <1>3, <1>4, <1>5

\* The session goes on behind a public call.
Resumes(x, y, s) == Session(x, s) => Session(y, s)

\* A call that begins with the header.
LEMMA BehindHeader ==
  ASSUME NEW x, Valid(x), NEW y, NEW d \in Int, NEW s \in Nat,
         Step(EnsureHeaderWritten(x), y, d)
  PROVE  /\ Step(x, y, d)
         /\ Extends(EnsureHeaderWritten(x), y, s) => Resumes(x, y, s)
<1> DEFINE h == EnsureHeaderWritten(x)
<1>1. Step(x, h, 0) /\ Ready(h) /\ (Session(x, s) => Packed(h, s))
  BY HeaderSteps
<1>2. Step(h, y, d)
  OBVIOUS
<1> HIDE DEF h
<1>3. Step(x, y, 0 + d)
  BY <1>1, <1>2, StepsCompose
<1>4. 0 + d = d
  OBVIOUS
<1>5. Extends(h, y, s) => Resumes(x, y, s)
  BY <1>1 DEF Extends, Session, Resumes
<1>6. QED
  BY <1>3, <1>4, <1>5 DEF h

LEMMA ExtendsCompose ==
  ASSUME NEW x, NEW y, NEW z, NEW s, Extends(x, y, s), Extends(y, z, s)
  PROVE  Extends(x, z, s)
BY DEF Extends

\* The header is where it was, so there is room for what follows.
LEMMA RoomBehindHeader ==
  ASSUME NEW x, Valid(x)
  PROVE  LET h == EnsureHeaderWritten(x)
         IN /\ Valid(h) /\ h.fixed = x.fixed
            /\ Cursor(x) \in Nat /\ Cursor(h) \in Nat
            /\ Cursor(h) <= Cursor(x) + 4
BY EnsureHeaderValid, CursorIsNat DEF ValidAfter, HeaderSize

\* The length prefix of a string or sequence.
LEMMA PrefixSteps ==
  ASSUME NEW x, Valid(x), Cursor(x) + 64 <= SizeMax, NEW s \in Nat
  PROVE  LET h == EnsureHeaderWritten(x)
             p == ReserveAndStore(h, PrefixSize, PrefixSize)
         IN Step(h, p, 0) /\ Extends(h, p, s) /\ Valid(p) /\ Cursor(p) \in Nat
<1> DEFINE h == EnsureHeaderWritten(x)
<1>1. Valid(h) /\ Cursor(x) \in Nat /\ Cursor(h) \in Nat /\ Cursor(h) <= Cursor(x) + 4
  BY RoomBehindHeader
<1> HIDE DEF h
<1>2. Cursor(h) + 15 + PrefixSize <= SizeMax
  BY <1>1, SizeMaxAssumption DEF PrefixSize
<1>3. PrefixSize \in PrimitiveSizes /\ PrefixSize \in Nat
  BY DEF PrefixSize, PrimitiveSizes
<1>4. Step(h, ReserveAndStore(h, PrefixSize, PrefixSize), 0)
      /\ Extends(h, ReserveAndStore(h, PrefixSize, PrefixSize), s)
  BY <1>1, <1>2, <1>3, ReserveSteps
<1>5. QED
  BY <1>4, CursorIsNat DEF Step, ValidAfter, h

LEMMA WritePrimitiveGoes ==
  ASSUME NEW x, Valid(x), NEW a \in PrimitiveSizes, Cursor(x) + 64 <= SizeMax, NEW s \in Nat
  PROVE  LET y == WritePrimitive(x, a) IN Step(x, y, 0) /\ Resumes(x, y, s)
<1> DEFINE h == EnsureHeaderWritten(x)
           y == ReserveAndStore(h, a, a)
<1>1. Valid(h) /\ Cursor(x) \in Nat /\ Cursor(h) \in Nat /\ Cursor(h) <= Cursor(x) + 4
  BY RoomBehindHeader
<1> HIDE DEF h
<1>2. a \in Nat /\ Cursor(h) + 15 + a <= SizeMax
  BY <1>1, SizeMaxAssumption DEF PrimitiveSizes
<1>3. Step(h, y, 0) /\ Extends(h, y, s)
  BY <1>1, <1>2, ReserveSteps
<1> HIDE DEF y
<1>4. Step(x, y, 0) /\ Resumes(x, y, s)
  BY <1>3, BehindHeader DEF h
<1>5. QED
  BY <1>4 DEF WritePrimitive, y, h

LEMMA WriteStringGoes ==
  ASSUME NEW x, Valid(x), NEW n \in Nat, Cursor(x) + 64 <= SizeMax, NEW s \in Nat
  PROVE  LET y == WriteString(x, n) IN Step(x, y, 0) /\ Resumes(x, y, s)
<1> DEFINE h == EnsureHeaderWritten(x)
           p == ReserveAndStore(h, PrefixSize, PrefixSize)
           end == Cursor(p) + (n + 1)
           y == WriteString(x, n)
<1>1. Step(h, p, 0) /\ Extends(h, p, s) /\ Valid(p) /\ Cursor(p) \in Nat /\ Valid(h)
  BY PrefixSteps, RoomBehindHeader
<1>2. Cursor(p) + n + 1 = Cursor(p) + (n + 1) /\ n + 1 \in Nat
  BY <1>1
<1>3. y = IF p.overflow THEN p
          ELSE IF ~Fits(p, end) THEN Fail(p)
          ELSE StoreLast(MoveTo(p, end), n + 1)
  BY <1>2 DEF WriteString
<1> HIDE DEF p, y
<1>4. Step(p, y, 0) /\ Extends(p, y, s)
  <2>1. CASE p.overflow
    BY <1>1, <1>3, <2>1, NothingSteps DEF Extends
  <2>2. CASE ~p.overflow /\ ~Fits(p, end)
    BY <1>1, <1>3, <2>2, FailSteps
  <2>3. CASE ~p.overflow /\ Fits(p, end)
    BY <1>1, <1>2, <1>3, <2>3, AppendSteps
  <2>4. QED
    BY <2>1, <2>2, <2>3
<1> HIDE DEF h
<1>5. Step(h, y, 0 + 0) /\ Extends(h, y, s)
  BY <1>1, <1>4, StepsCompose, ExtendsCompose
<1>6. 0 + 0 = 0
  OBVIOUS
<1>7. QED
  BY <1>5, <1>6, BehindHeader DEF y, h

LEMMA WriteWStringGoes ==
  ASSUME NEW x, Valid(x), NEW n \in Nat, Cursor(x) + 64 <= SizeMax, NEW s \in Nat
  PROVE  LET y == WriteWString(x, n) IN Step(x, y, 0) /\ Resumes(x, y, s)
<1> DEFINE h == EnsureHeaderWritten(x)
           p == ReserveAndStore(h, PrefixSize, PrefixSize)
           k == UnitsThatFit(p, n + 1)
           q == StoreLast(MoveTo(p, Cursor(p) + 2 * k), 2 * k)
           cut == k < n + 1
           y == WriteWString(x, n)
<1>1. Step(h, p, 0) /\ Extends(h, p, s) /\ Valid(p) /\ Cursor(p) \in Nat /\ Valid(h)
  BY PrefixSteps, RoomBehindHeader
<1>2. y = IF p.overflow THEN p ELSE [q EXCEPT !.overflow = cut]
  BY DEF WriteWString
<1> HIDE DEF p, y
<1>3. /\ k \in Nat /\ 2 * k \in Nat
      /\ Fits(p, Cursor(p) + 2 * k)
  BY <1>1, UnitsThatFitBounds
<1>4. cut \in BOOLEAN
  BY <1>3
<1> HIDE DEF k, cut
<1>5. Step(p, y, 0) /\ Extends(p, y, s)
  <2>1. CASE p.overflow
    BY <1>1, <1>2, <2>1, NothingSteps DEF Extends
  <2>2. CASE ~p.overflow
    <3>1. Step(p, q, 0) /\ Extends(p, q, s)
      BY <1>1, <1>3, <2>2, AppendSteps
    <3>2. y = [q EXCEPT !.overflow = cut]
      BY <1>2, <2>2
    <3> HIDE DEF q
    <3>3. q \in WriterType /\ Valid(q)
      BY <3>1 DEF Step, ValidAfter, Valid
    <3>4. /\ y \in WriterType /\ y.overflow = cut
          /\ y.fixed = q.fixed /\ y.cap = q.cap /\ y.pos = q.pos /\ y.size = q.size
          /\ y.header = q.header /\ y.depth = q.depth /\ y.stored = q.stored
      BY <1>4, <3>2, <3>3 DEF WriterType
    <3>5. ValidAfter(q, y) /\ Cursor(y) = Cursor(q)
      BY <3>3, <3>4 DEF ValidAfter, Valid, InSpan, ModeFields, Cursor
    <3>6. ValidAfter(p, y)
      BY <3>1, <3>5, ValidAfterTransitive DEF Step
    <3>7. q.overflow = p.overflow /\ q.header = p.header /\ q.depth = p.depth + 0
      <4>1. q = StoreLast(MoveTo(p, Cursor(p) + 2 * k), 2 * k)
        BY DEF q
      <4>2. Cursor(p) + 2 * k \in Nat /\ p \in WriterType
        BY <1>1, <1>3 DEF Valid
      <4> DEFINE m == MoveTo(p, Cursor(p) + 2 * k)
      <4>3. m \in WriterType /\ m.overflow = p.overflow /\ m.header = p.header /\ m.depth = p.depth
        BY <4>2, MoveToFields
      <4>4. q = [m EXCEPT !.stored = @ \cup Offsets(Cursor(m) - 2 * k, 2 * k)]
        BY <4>1 DEF StoreLast
      <4> HIDE DEF m
      <4>5. QED
        BY <4>2, <4>3, <4>4 DEF WriterType
    <3>8. QED
      BY <2>2, <3>1, <3>4, <3>5, <3>6, <3>7 DEF Step, Extends, Ready, Packed
  <2>3. QED
    BY <2>1, <2>2
<1> HIDE DEF h
<1>6. Step(h, y, 0 + 0) /\ Extends(h, y, s)
  BY <1>1, <1>5, StepsCompose, ExtendsCompose
<1>7. 0 + 0 = 0
  OBVIOUS
<1>8. QED
  BY <1>6, <1>7, BehindHeader DEF y, h

LEMMA BeginGoes ==
  ASSUME NEW x, Valid(x), Cursor(x) + 64 <= SizeMax, NEW s \in Nat
  PROVE  LET h == EnsureHeaderWritten(x)
             a == BeginWriteArray(x)
             q == BeginWriteSequence(x)
         IN /\ BeginWriteStruct(x) = a
            /\ Step(h, a, 1) /\ Extends(h, a, s) /\ Step(h, q, 1) /\ Extends(h, q, s)
            /\ Step(x, a, 1) /\ Resumes(x, a, s) /\ Step(x, q, 1) /\ Resumes(x, q, s)
<1> DEFINE h == EnsureHeaderWritten(x)
           p == ReserveAndStore(h, PrefixSize, PrefixSize)
           a == BeginWriteArray(x)
           q == BeginWriteSequence(x)
<1>1. Step(h, p, 0) /\ Extends(h, p, s) /\ Valid(p) /\ Valid(h)
  BY PrefixSteps, RoomBehindHeader
<1>2. a = Push(h) /\ BeginWriteStruct(x) = a /\ q = IF p.overflow THEN p ELSE Push(p)
  BY DEF BeginWriteArray, BeginWriteStruct, BeginWriteSequence
<1> HIDE DEF a, q, p
<1>3. Step(p, q, 1) /\ Extends(p, q, s)
  <2>1. CASE p.overflow
    BY <1>1, <1>2, <2>1, NothingSteps DEF Extends, Step
  <2>2. CASE ~p.overflow
    BY <1>1, <1>2, <2>2, PushSteps
  <2>3. QED
    BY <2>1, <2>2
<1>4. Step(h, a, 1) /\ Extends(h, a, s)
  BY <1>1, <1>2, PushSteps
<1> HIDE DEF h
<1>5. Step(h, q, 0 + 1) /\ Extends(h, q, s)
  BY <1>1, <1>3, StepsCompose, ExtendsCompose
<1>6. 0 + 1 = 1
  OBVIOUS
<1>7. Step(h, q, 1)
  BY <1>5, <1>6
<1>8. Step(x, a, 1) /\ Resumes(x, a, s) /\ Step(x, q, 1) /\ Resumes(x, q, s)
  BY <1>4, <1>5, <1>7, BehindHeader DEF h
<1>9. QED
  BY <1>2, <1>4, <1>5, <1>7, <1>8 DEF a, q, h

LEMMA PodSpanSteps ==
  ASSUME NEW x, Valid(x), NEW a \in PrimitiveSizes, NEW n \in Nat,
         Cursor(x) + a * n + 40 <= SizeMax, NEW s \in Nat
  PROVE  LET y == WritePodSpan(x, a, n) IN Step(x, y, 0) /\ Extends(x, y, s)
<1> DEFINE h == EnsureHeaderWritten(x)
           b == a * n
           r == ReserveAndStore(h, a, b)
           y == WritePodSpan(x, a, n)
<1>1. Valid(h) /\ Cursor(x) \in Nat /\ Cursor(h) \in Nat /\ Cursor(h) <= Cursor(x) + 4
  BY RoomBehindHeader
<1>2. Step(x, h, 0) /\ Extends(x, h, s)
  BY HeaderSteps DEF Extends, Session
<1>3. b \in Nat /\ Cursor(x) + b + 40 <= SizeMax
  BY ProductIsNat
<1>4. y = IF n = 0 THEN x ELSE r
  BY DEF WritePodSpan
<1> HIDE DEF h, b, y
<1>5. Cursor(h) + 15 + b <= SizeMax
  BY <1>1, <1>3, SizeMaxAssumption
<1>6. Step(h, r, 0) /\ Extends(h, r, s)
  BY <1>1, <1>3, <1>5, ReserveSteps
<1> HIDE DEF r
<1>7. Step(x, r, 0 + 0) /\ Extends(x, r, s)
  BY <1>2, <1>6, StepsCompose, ExtendsCompose
<1>8. 0 + 0 = 0
  OBVIOUS
<1>9. Step(x, y, 0) /\ Extends(x, y, s)
  BY <1>4, <1>7, <1>8, NothingSteps DEF Extends
<1>10. QED
  BY <1>9 DEF y

\* A begin, the elements, an end: the stack is as deep as before.
LEMMA WriteElementsGoes ==
  ASSUME NEW x, Valid(x), NEW a \in PrimitiveSizes, NEW n \in Nat,
         Cursor(x) + a * n + 64 <= SizeMax, NEW s \in Nat
  PROVE  LET y == WriteArray(x, a, n)
             z == WriteSequence(x, a, n)
         IN Step(x, y, 0) /\ Resumes(x, y, s) /\ Step(x, z, 0) /\ Resumes(x, z, s)
<1>1. a * n \in Nat /\ Cursor(x) \in Nat
  BY ProductIsNat, CursorIsNat
<1> DEFINE h == EnsureHeaderWritten(x)
<1>2. ASSUME NEW q, Step(h, q, 1), Extends(h, q, s), Cursor(q) <= Cursor(x) + 23
      PROVE  LET z == EndWrite(WritePodSpan(q, a, n)) IN Step(x, z, 0) /\ Resumes(x, z, s)
  <2> DEFINE v == WritePodSpan(q, a, n)
             z == EndWrite(v)
             b == a * n
  <2>1. Valid(h) /\ Valid(q) /\ Cursor(q) \in Nat
    BY <1>2, RoomBehindHeader, CursorIsNat DEF Step, ValidAfter
  <2>2. Cursor(q) + a * n + 40 <= SizeMax
    <3>1. Cursor(x) + b + 64 <= SizeMax /\ b \in Nat
      BY <1>1
    <3> HIDE DEF b
    <3>2. Cursor(q) + b + 40 <= SizeMax
      BY <1>1, <1>2, <2>1, <3>1, SizeMaxAssumption
    <3>3. QED
      BY <3>2 DEF b
  <2>3. Step(q, v, 0) /\ Extends(q, v, s)
    BY <2>1, <2>2, PodSpanSteps
  <2> HIDE DEF h, v
  <2>4. Step(h, v, 1 + 0) /\ Extends(h, v, s)
    BY <1>2, <2>1, <2>3, StepsCompose, ExtendsCompose
  <2>5. Valid(v) /\ (v.overflow \/ v.depth > 0)
    BY <2>1, <2>4 DEF Step, ValidAfter, Valid, WriterType
  <2>6. Step(v, z, -1) /\ Extends(v, z, s)
    BY <2>5, PopSteps DEF EndWrite
  <2> HIDE DEF z
  <2>7. Step(h, z, (1 + 0) + (-1)) /\ Extends(h, z, s)
    BY <2>1, <2>4, <2>6, StepsCompose, ExtendsCompose
  <2>8. (1 + 0) + (-1) = 0
    OBVIOUS
  <2>9. Step(x, z, 0) /\ Resumes(x, z, s)
    BY <2>7, <2>8, BehindHeader DEF h
  <2>10. QED
    BY <2>9 DEF z, v
<1>3. Cursor(x) + 64 <= SizeMax
  <2> DEFINE b == a * n
  <2>1. b \in Nat /\ Cursor(x) + b + 64 <= SizeMax
    BY <1>1
  <2> HIDE DEF b
  <2>2. QED
    BY <1>1, <2>1, SizeMaxAssumption
<1> DEFINE u == BeginWriteArray(x)
           q == BeginWriteSequence(x)
<1>4. /\ Step(h, u, 1) /\ Extends(h, u, s) /\ Cursor(u) <= Cursor(x) + 23
      /\ Step(h, q, 1) /\ Extends(h, q, s) /\ Cursor(q) <= Cursor(x) + 23
  BY <1>3, BeginGoes, BeginValid
<1> HIDE DEF h, u, q
<1>5. /\ Step(x, EndWrite(WritePodSpan(u, a, n)), 0)
      /\ Resumes(x, EndWrite(WritePodSpan(u, a, n)), s)
      /\ Step(x, EndWrite(WritePodSpan(q, a, n)), 0)
      /\ Resumes(x, EndWrite(WritePodSpan(q, a, n)), s)
  BY <1>2, <1>4
<1>6. QED
  BY <1>5 DEF WriteArray, WriteSequence, u, q

--------------------------------------------------------------------------------
(* The same of the calls that skip, over a growing buffer *)

LEMMA PrefixSkipSteps ==
  ASSUME NEW x, Valid(x), NEW s \in Nat
  PROVE  LET h == EnsureHeaderWritten(x)
             p == SkipAdvance(h, PrefixSize, PrefixSize)
         IN /\ Valid(h) /\ h.fixed = x.fixed /\ Valid(p) /\ p.fixed = x.fixed
            /\ Step(h, p, 0) /\ (~x.fixed => Extends(h, p, s))
<1> DEFINE h == EnsureHeaderWritten(x)
<1>1. Valid(h) /\ h.fixed = x.fixed
  BY RoomBehindHeader
<1>2. PrefixSize \in PrimitiveSizes /\ PrefixSize \in Nat
  BY DEF PrefixSize, PrimitiveSizes
<1> HIDE DEF h
<1>3. /\ Step(h, SkipAdvance(h, PrefixSize, PrefixSize), 0)
      /\ ~h.fixed => Extends(h, SkipAdvance(h, PrefixSize, PrefixSize), s)
  BY <1>1, <1>2, SkipAdvanceSteps
<1>4. QED
  BY <1>1, <1>3 DEF Step, ValidAfter, h

LEMMA SkipGoes ==
  ASSUME NEW x, Valid(x), NEW a \in PrimitiveSizes, NEW s \in Nat
  PROVE  LET y == Skip(x, a) IN Step(x, y, 0) /\ (~x.fixed => Resumes(x, y, s))
<1> DEFINE h == EnsureHeaderWritten(x)
           y == Skip(x, a)
<1>1. Valid(h) /\ h.fixed = x.fixed /\ a \in Nat
  BY RoomBehindHeader, SizesArePositive
<1>2. y = SkipAdvance(h, a, a)
  BY DEF Skip
<1> HIDE DEF y, h
<1>3. Step(h, y, 0) /\ (~x.fixed => Extends(h, y, s))
  BY <1>1, <1>2, SkipAdvanceSteps
<1>4. QED
  BY <1>3, BehindHeader DEF y, h

LEMMA SkipStringGoes ==
  ASSUME NEW x, Valid(x), NEW n \in Nat, NEW s \in Nat
  PROVE  LET y == SkipString(x, n) IN Step(x, y, 0) /\ (~x.fixed => Resumes(x, y, s))
<1> DEFINE h == EnsureHeaderWritten(x)
           p == SkipAdvance(h, PrefixSize, PrefixSize)
           y == SkipString(x, n)
<1>1. /\ Valid(h) /\ h.fixed = x.fixed /\ Valid(p) /\ p.fixed = x.fixed
      /\ Step(h, p, 0) /\ (~x.fixed => Extends(h, p, s))
  BY PrefixSkipSteps
<1>2. 1 \in PrimitiveSizes /\ n + 1 \in Nat
  BY DEF PrimitiveSizes
<1>3. y = SkipAdvance(p, 1, n + 1)
  BY DEF SkipString
<1> HIDE DEF y, h, p
<1>4. Step(p, y, 0) /\ (~x.fixed => Extends(p, y, s))
  BY <1>1, <1>2, <1>3, SkipAdvanceSteps
<1>5. Step(h, y, 0 + 0) /\ (~x.fixed => Extends(h, y, s))
  BY <1>1, <1>4, StepsCompose, ExtendsCompose
<1>6. 0 + 0 = 0
  OBVIOUS
<1>7. QED
  BY <1>5, <1>6, BehindHeader DEF y, h

LEMMA BeginSkipSequenceGoes ==
  ASSUME NEW x, Valid(x), NEW s \in Nat
  PROVE  LET h == EnsureHeaderWritten(x)
             y == BeginSkipSequence(x)
         IN /\ Step(h, y, 1) /\ (~x.fixed => Extends(h, y, s))
            /\ Step(x, y, 1) /\ (~x.fixed => Resumes(x, y, s))
<1> DEFINE h == EnsureHeaderWritten(x)
           p == SkipAdvance(h, PrefixSize, PrefixSize)
           y == BeginSkipSequence(x)
<1>1. /\ Valid(h) /\ h.fixed = x.fixed /\ Valid(p) /\ p.fixed = x.fixed
      /\ Step(h, p, 0) /\ (~x.fixed => Extends(h, p, s))
  BY PrefixSkipSteps
<1>2. y = IF p.overflow THEN p ELSE Push(p)
  BY DEF BeginSkipSequence
<1> HIDE DEF y, h, p
<1>3. Step(p, y, 1) /\ Extends(p, y, s)
  <2>1. CASE p.overflow
    BY <1>1, <1>2, <2>1, NothingSteps DEF Extends, Step
  <2>2. CASE ~p.overflow
    BY <1>1, <1>2, <2>2, PushSteps
  <2>3. QED
    BY <2>1, <2>2
<1>4. Step(h, y, 0 + 1) /\ (~x.fixed => Extends(h, y, s))
  BY <1>1, <1>3, StepsCompose, ExtendsCompose
<1>5. 0 + 1 = 1
  OBVIOUS
<1>6. Step(h, y, 1)
  BY <1>4, <1>5
<1>7. Step(x, y, 1) /\ (~x.fixed => Resumes(x, y, s))
  BY <1>4, <1>6, BehindHeader DEF h
<1>8. QED
  BY <1>4, <1>6, <1>7 DEF y, h

LEMMA SkipWStringGoes ==
  ASSUME NEW x, Valid(x), NEW n \in Nat, NEW s \in Nat
  PROVE  LET y == SkipWString(x, n) IN Step(x, y, 0) /\ (~x.fixed => Resumes(x, y, s))
<1> DEFINE h == EnsureHeaderWritten(x)
           p == SkipAdvance(h, PrefixSize, PrefixSize)
           k == UnitsThatFit(p, n + 1)
           c == Cursor(p) + 2 * k
           m == MoveTo(p, c)
           cut == k < n + 1
           zeroed == IF p.fixed THEN {} ELSE Offsets(Cursor(p), 2 * k)
           y == SkipWString(x, n)
<1>1. /\ Valid(h) /\ h.fixed = x.fixed /\ Valid(p) /\ p.fixed = x.fixed
      /\ Step(h, p, 0) /\ (~x.fixed => Extends(h, p, s))
  BY PrefixSkipSteps
<1>2. ValidAfter(x, y) /\ ValidAfter(x, h) /\ ValidAfter(h, p)
  BY <1>1, SkipWStringValid, EnsureHeaderValid DEF Step
<1>3. y = IF p.overflow THEN p ELSE [m EXCEPT !.overflow = cut, !.stored = @ \cup zeroed]
  BY DEF SkipWString
<1> HIDE DEF y, p
<1>4. Cursor(p) \in Nat /\ p \in WriterType /\ k \in Nat
  BY <1>1, CursorIsNat, UnitsThatFitBounds DEF Valid
<1> HIDE DEF k
<1>5. cut \in BOOLEAN /\ zeroed \in SUBSET Nat /\ c \in Nat
  BY <1>4 DEF Offsets
<1>6. ~p.fixed => zeroed = Cursor(p) .. (c - 1)
  BY <1>4 DEF Offsets
<1>7. Cursor(p) <= c
  BY <1>4
<1> HIDE DEF cut, zeroed, c
<1>8. /\ m \in WriterType /\ Cursor(m) = c /\ m.fixed = p.fixed
      /\ m.header = p.header /\ m.depth = p.depth /\ m.stored = p.stored
  BY <1>4, <1>5, MoveToFields
<1> HIDE DEF m
<1>9. ~p.overflow =>
        /\ Cursor(y) = c /\ y.fixed = p.fixed /\ y.header = p.header
        /\ y.depth = p.depth /\ y.stored = p.stored \cup zeroed
  BY <1>3, <1>5, <1>8 DEF WriterType, Cursor
<1>10. p.overflow => y = p
  BY <1>3
<1>11. Step(p, y, 0)
  <2>1. ValidAfter(p, y)
    BY <1>1, <1>2 DEF ValidAfter
  <2>2. p.depth \in Nat
    BY <1>4 DEF WriterType
  <2>3. QED
    BY <1>9, <1>10, <2>1, <2>2 DEF Step
<1>12. ~x.fixed => Extends(p, y, s)
  <2>1. CASE p.overflow
    BY <1>10, <2>1 DEF Extends
  <2>2. ASSUME ~p.overflow, ~x.fixed, Ready(p), Packed(p, s)
        PROVE  Ready(y) /\ Packed(y, s)
    <3>1. s <= Cursor(p) /\ p.stored = s .. (Cursor(p) - 1) /\ s = 0
      BY <1>1, <2>2 DEF Packed
    <3>2. p.stored \cup (Cursor(p) .. (c - 1)) = s .. (c - 1)
      BY <1>4, <1>5, <1>7, <3>1
    <3>3. y.stored = s .. (c - 1)
      BY <1>1, <1>6, <1>9, <2>2, <3>2
    <3>4. s <= Cursor(y)
      BY <1>5, <1>9, <2>2, <3>1
    <3>5. QED
      BY <1>9, <2>2, <3>1, <3>3, <3>4 DEF Packed, Ready
  <2>3. QED
    BY <2>1, <2>2 DEF Extends
<1> HIDE DEF h
<1>13. Step(h, y, 0 + 0) /\ (~x.fixed => Extends(h, y, s))
  BY <1>1, <1>11, <1>12, StepsCompose, ExtendsCompose
<1>14. 0 + 0 = 0
  OBVIOUS
<1>15. QED
  BY <1>13, <1>14, BehindHeader DEF y, h

LEMMA SkipArrayGoes ==
  ASSUME NEW x, Valid(x), NEW a \in PrimitiveSizes, NEW n \in Nat, NEW s \in Nat
  PROVE  LET y == SkipArray(x, a, n)
         IN Step(x, y, 0) /\ (~x.fixed => Extends(x, y, s) /\ Resumes(x, y, s))
<1> DEFINE h == EnsureHeaderWritten(x)
           b == a * n
           y == SkipArray(x, a, n)
<1>1. Valid(h) /\ h.fixed = x.fixed /\ b \in Nat
  BY RoomBehindHeader, ProductIsNat
<1>2. y \in {h, Fail(h), SkipAdvance(h, a, b)}
  BY DEF SkipArray
<1>3. Step(x, h, 0) /\ Extends(x, h, s)
  BY HeaderSteps DEF Extends, Session
<1> HIDE DEF y, h, b
<1>4. Step(h, y, 0) /\ (~x.fixed => Extends(h, y, s))
  <2>1. Step(h, h, 0) /\ Extends(h, h, s)
    BY <1>1, NothingSteps DEF Extends
  <2>2. Step(h, Fail(h), 0) /\ Extends(h, Fail(h), s)
    BY <1>1, FailSteps
  <2>3. Step(h, SkipAdvance(h, a, b), 0) /\ (~x.fixed => Extends(h, SkipAdvance(h, a, b), s))
    BY <1>1, SkipAdvanceSteps
  <2>4. QED
    BY <1>2, <2>1, <2>2, <2>3
<1>5. Step(x, y, 0) /\ (~x.fixed => Resumes(x, y, s))
  BY <1>4, BehindHeader DEF h
<1>6. QED
  BY <1>3, <1>4, <1>5, ExtendsCompose DEF y

LEMMA SkipSequenceGoes ==
  ASSUME NEW x, Valid(x), NEW a \in PrimitiveSizes, NEW n \in Nat, NEW s \in Nat
  PROVE  LET y == SkipSequence(x, a, n) IN Step(x, y, 0) /\ (~x.fixed => Resumes(x, y, s))
<1> DEFINE h == EnsureHeaderWritten(x)
           b == BeginSkipSequence(x)
           r == IF b.overflow THEN b ELSE SkipArray(b, a, n)
           y == SkipSequence(x, a, n)
<1>1. Step(h, b, 1) /\ (~x.fixed => Extends(h, b, s)) /\ Valid(h) /\ h.fixed = x.fixed
  BY BeginSkipSequenceGoes, RoomBehindHeader
<1>2. y = IF r.overflow THEN r ELSE EndWrite(r)
  BY DEF SkipSequence
<1> HIDE DEF h, b, y
<1>3. Valid(b) /\ b.fixed = x.fixed
  BY <1>1 DEF Step, ValidAfter
<1>4. Step(b, r, 0) /\ (~x.fixed => Extends(b, r, s))
  BY <1>3, SkipArrayGoes, NothingSteps DEF Extends
<1> HIDE DEF r
<1>5. Step(h, r, 1 + 0) /\ (~x.fixed => Extends(h, r, s))
  BY <1>1, <1>4, StepsCompose, ExtendsCompose
<1>6. Valid(r) /\ (r.overflow \/ r.depth > 0)
  BY <1>1, <1>5 DEF Step, ValidAfter, Valid, WriterType
<1>7. Step(r, y, -1) /\ Extends(r, y, s)
  <2>1. CASE r.overflow
    BY <1>2, <1>6, <2>1, NothingSteps DEF Extends, Step
  <2>2. CASE ~r.overflow
    BY <1>2, <1>6, <2>2, PopSteps DEF EndWrite
  <2>3. QED
    BY <2>1, <2>2
<1>8. Step(h, y, (1 + 0) + (-1)) /\ (~x.fixed => Extends(h, y, s))
  BY <1>1, <1>5, <1>7, StepsCompose, ExtendsCompose
<1>9. (1 + 0) + (-1) = 0
  OBVIOUS
<1>10. QED
  BY <1>8, <1>9, BehindHeader DEF y, h

LEMMA ResetOpens ==
  ASSUME NEW x, Valid(x)
  PROVE  Session(Reset(x), 0) /\ Reset(x).depth = 0
<1> DEFINE y == Reset(x)
<1>1. Cursor(y) = 0 /\ y.stored = {} /\ y.depth = 0
  BY DEF Reset, Valid, WriterType, Cursor
<1> HIDE DEF y
<1>2. {} = 0 .. (0 - 1)
  OBVIOUS
<1>3. QED
  BY <1>1, <1>2 DEF Session, Packed, y

--------------------------------------------------------------------------------
(* The inductive invariant *)

(***************************************************************************)
(* TypeOK and StaysInSpan are one invariant: a writer is valid before a    *)
(* call because it was after the last one. What they need beside it is     *)
(* where the span came from, for the sums of MemoryAssumption.             *)
(***************************************************************************)
WriterInv ==
  /\ Valid(w)
  /\ IF w.fixed THEN w.cap \in Capacities ELSE w.size <= MaxGrowth
  /\ start \in Nat
  /\ skipped \in BOOLEAN
  /\ open \in Nat

\* The cursor is within a span or a buffer of a size MemoryAssumption names.
LEMMA RoomForACall ==
  ASSUME WriterInv
  PROVE  /\ Cursor(w) \in Nat /\ Cursor(w) + 64 <= SizeMax
         /\ \A s \in Sizes, n \in Counts : Cursor(w) + s * n + 64 <= SizeMax
<1> DEFINE c == IF w.fixed THEN w.cap ELSE MaxGrowth
<1>1. c \in Capacities \cup {MaxGrowth} /\ c \in Nat
  BY WriterAssumption DEF WriterInv
<1>2. Cursor(w) \in Nat /\ Cursor(w) <= c
  BY CursorIsNat DEF WriterInv, Valid, InSpan, Cursor
<1>3. /\ c + 64 <= SizeMax
      /\ \A s \in Sizes, n \in Counts : c + s * n + 64 <= SizeMax
  BY <1>1, MemoryAssumption
<1>4. \A s \in Sizes, n \in Counts : s * n \in Nat
  BY WriterAssumption, ProductIsNat
<1> HIDE DEF c
<1>5. QED
  BY <1>1, <1>2, <1>3, <1>4, SizeMaxAssumption

LEMMA InitInvariant == Init => WriterInv
<1>1. CASE w = Growing /\ start = 0 /\ skipped = FALSE /\ open = 0
  <2>1. Valid(w) /\ w.size <= MaxGrowth /\ ~w.fixed
    BY <1>1, GrowingValid, WriterAssumption
  <2>2. QED
    BY <1>1, <2>1 DEF WriterInv
<1>2. ASSUME NEW c \in Capacities, w = FixedSpan(c), start = 0,
             skipped = FALSE, open = 0
      PROVE  WriterInv
  <2>1. Valid(w) /\ w.fixed /\ w.cap = c
    BY <1>2, WriterAssumption, SpanValid
  <2>2. QED
    BY <1>2, <2>1 DEF WriterInv
<1>3. ASSUME NEW c \in Capacities, NEW o \in Starts, w = FixedSpanAt(c, o),
             start = o, skipped = FALSE, open = 0
      PROVE  WriterInv
  <2>1. Valid(w) /\ w.fixed /\ w.cap = c /\ o \in Nat
    BY <1>3, WriterAssumption, SpanValid
  <2>2. QED
    BY <1>3, <2>1 DEF WriterInv
<1>4. QED
  BY <1>1, <1>2, <1>3 DEF Init

\* A call that leaves the writer valid keeps the invariant.
LEMMA CallKeepsInv ==
  ASSUME WriterInv, NEW y, ValidAfter(w, y), NEW b \in BOOLEAN,
         Call(y, b) \/ Begin(y, b)
  PROVE  WriterInv'
<1>1. Valid(w') /\ w'.fixed = w.fixed /\ w'.cap = w.cap /\ w'.size <= MaxGrowth
  BY DEF Call, Begin, ValidAfter
<1>2. start' \in Nat /\ skipped' \in BOOLEAN /\ open' \in Nat
  BY DEF Call, Begin, WriterInv
<1>3. Valid(w)'
  BY <1>1 DEF Valid, ModeFields, InSpan
<1>4. QED
  BY <1>1, <1>2, <1>3 DEF WriterInv

LEMMA NextInvariant == WriterInv /\ [Next]_vars => WriterInv'
<1> SUFFICES ASSUME WriterInv, [Next]_vars PROVE WriterInv'
  OBVIOUS
<1>1. /\ Valid(w) /\ Cursor(w) + 64 <= SizeMax
      /\ \A s \in Sizes, n \in Counts : Cursor(w) + s * n + 64 <= SizeMax
  BY RoomForACall DEF WriterInv
<1>2. /\ \A s \in Sizes : s \in PrimitiveSizes
      /\ \A n \in Chars : n \in Nat
      /\ \A n \in Counts : n \in Nat
      /\ \A n \in SkipCounts : n \in Nat
  BY WriterAssumption
<1>3. CASE Write
  <2>1. CASE \E s \in Sizes : Call(WritePrimitive(w, s), FALSE)
    BY <1>1, <1>2, <2>1, WritePrimitiveValid, CallKeepsInv
  <2>2. CASE \E n \in Chars : Call(WriteString(w, n), FALSE)
    BY <1>1, <1>2, <2>2, WriteStringValid, CallKeepsInv
  <2>3. CASE \E n \in Chars : Call(WriteWString(w, n), FALSE)
    BY <1>1, <1>2, <2>3, WriteWStringValid, CallKeepsInv
  <2>4. CASE \E s \in Sizes, n \in Counts : Call(WriteArray(w, s, n), FALSE)
    BY <1>1, <1>2, <2>4, WriteArraySequenceValid, CallKeepsInv
  <2>5. CASE \E s \in Sizes, n \in Counts : Call(WriteSequence(w, s, n), FALSE)
    BY <1>1, <1>2, <2>5, WriteArraySequenceValid, CallKeepsInv
  <2>6. QED
    BY <1>3, <2>1, <2>2, <2>3, <2>4, <2>5 DEF Write
<1>4. CASE SkipCall
  <2>1. CASE \E s \in Sizes : Call(Skip(w, s), TRUE)
    BY <1>1, <1>2, <2>1, SkipValid, CallKeepsInv
  <2>2. CASE \E n \in Chars : Call(SkipString(w, n), TRUE)
    <3>1. 1 \in PrimitiveSizes
      BY DEF PrimitiveSizes
    <3>2. QED
      BY <1>1, <1>2, <2>2, <3>1, SkipValid, CallKeepsInv
  <2>3. CASE \E n \in Chars : Call(SkipWString(w, n), TRUE)
    BY <1>1, <1>2, <2>3, SkipWStringValid, CallKeepsInv
  <2>4. CASE \E s \in Sizes, n \in SkipCounts : Call(SkipArray(w, s, n), TRUE)
    BY <1>1, <1>2, <2>4, SkipArrayValid, CallKeepsInv
  <2>5. CASE \E s \in Sizes, n \in SkipCounts : Call(SkipSequence(w, s, n), TRUE)
    BY <1>1, <1>2, <2>5, SkipSequenceValid, CallKeepsInv
  <2>6. QED
    BY <1>4, <2>1, <2>2, <2>3, <2>4, <2>5 DEF SkipCall
<1>5. CASE BeginCall
  <2>1. 1 \in PrimitiveSizes /\ 1 \in Nat
    BY DEF PrimitiveSizes
  <2>2. ValidAfter(w, BeginSkipSequence(w))
    BY <1>1, <2>1, SkipValid
  <2>3. QED
    BY <1>1, <1>5, <2>2, BeginValid, CallKeepsInv DEF BeginCall
<1>6. CASE EndCall
  <2>1. ValidAfter(w, w')
    BY <1>1, <1>6, PushPopValid DEF EndCall, EndWrite
  <2>2. open' \in Nat /\ start' = start /\ skipped' = skipped
    BY <1>6 DEF EndCall, WriterInv
  <2>3. w'.size = w.size
    BY <1>1, <1>6 DEF EndCall, EndWrite, Pop, Valid, WriterType
  <2>4. QED
    BY <2>1, <2>2, <2>3 DEF ValidAfter, WriterInv, Valid, ModeFields, InSpan
<1>7. CASE ResetCall
  <2>1. ValidAfter(w, w') /\ w'.size = 0
    BY <1>1, <1>7, ResetValid DEF ResetCall
  <2>2. start' \in Nat /\ skipped' \in BOOLEAN /\ open' \in Nat
    BY <1>7 DEF ResetCall
  <2>3. Valid(w)' /\ w'.fixed = w.fixed /\ w'.cap = w.cap
    BY <2>1 DEF ValidAfter, Valid, ModeFields, InSpan
  <2>4. 0 <= MaxGrowth
    BY WriterAssumption
  <2>5. QED
    BY <2>1, <2>2, <2>3, <2>4 DEF WriterInv
<1>8. CASE UNCHANGED vars
  BY <1>8 DEF vars, WriterInv, Valid, ModeFields, InSpan
<1>9. QED
  BY <1>3, <1>4, <1>5, <1>6, <1>7, <1>8 DEF Next

--------------------------------------------------------------------------------
LEMMA InvariantHolds == Spec => []WriterInv
BY InitInvariant, NextInvariant, PTL DEF Spec

(***************************************************************************)
(* Every writer a client can bring about has fields of their types, and    *)
(* the position its mode does not use stays 0.                             *)
(***************************************************************************)
THEOREM WriterTypeCorrect == Spec => []TypeOK
<1>1. WriterInv => TypeOK
  BY DEF WriterInv, Valid, ModeFields, TypeOK
<1>2. QED
  BY <1>1, InvariantHolds, PTL

(***************************************************************************)
(* XCdrWriter over a caller's span stores nothing outside the span and     *)
(* keeps its cursor in it, whatever is called in whatever order, for every *)
(* span, size, length and count; skip counts need not even fit in memory.  *)
(***************************************************************************)
THEOREM WriterStaysInSpan == Spec => []StaysInSpan
<1>1. WriterInv => StaysInSpan
  BY DEF WriterInv, Valid, InSpan, StaysInSpan
<1>2. QED
  BY <1>1, InvariantHolds, PTL
--------------------------------------------------------------------------------
(* Sessions, contexts and errors *)

(***************************************************************************)
(* What a session keeps beside a valid writer. NoGapBehindCursor is not    *)
(* inductive by itself: the header must not be due in a session that has   *)
(* begun to store, a growing buffer must have begun at 0, for a wrapped    *)
(* skip cuts it off anywhere, and without an error the cursor is behind    *)
(* the beginning.                                                          *)
(***************************************************************************)
SessionInv ==
  /\ ~w.fixed \/ ~skipped => Session(w, start)
  /\ ContextsMatchClient

Freezes ==
  w.overflow => w'.overflow /\ Cursor(w') = Cursor(w) /\ w'.stored = w.stored

LEMMA InitSession == Init => SessionInv
<1>1. ASSUME Session(w, start), w.depth = 0, open = 0 PROVE SessionInv
  BY <1>1 DEF SessionInv, ContextsMatchClient
<1>2. {} = 0 .. (0 - 1)
  OBVIOUS
<1>3. CASE w = Growing /\ start = 0 /\ skipped = FALSE /\ open = 0
  <2>1. Session(Growing, 0) /\ Growing.depth = 0
    BY <1>2 DEF Session, Packed, Growing, Cursor
  <2>2. Session(w, start) /\ w.depth = 0 /\ open = 0
    BY <1>3, <2>1
  <2>3. QED
    BY <1>1, <2>2
<1>4. ASSUME NEW c \in Capacities, w = FixedSpan(c), start = 0,
             skipped = FALSE, open = 0
      PROVE  SessionInv
  <2>1. Session(FixedSpan(c), 0) /\ FixedSpan(c).depth = 0
    BY <1>2 DEF Session, Packed, FixedSpan, Growing, Cursor
  <2>2. Session(w, start) /\ w.depth = 0 /\ open = 0
    BY <1>4, <2>1
  <2>3. QED
    BY <1>1, <2>2
<1>5. ASSUME NEW c \in Capacities, NEW o \in Starts, w = FixedSpanAt(c, o),
             start = o, skipped = FALSE, open = 0
      PROVE  SessionInv
  <2> DEFINE y == FixedSpanAt(c, o)
  <2>1. c \in Nat /\ o \in Nat
    BY WriterAssumption
  <2>2. /\ y.header = TRUE /\ (y.overflow <=> o > c) /\ y.stored = {} /\ y.depth = 0
        /\ y.fixed = TRUE /\ y.pos = IF o > c THEN 0 ELSE o
    BY DEF FixedSpanAt, FixedSpan, Growing
  <2> HIDE DEF y
  <2>3. {} = o .. (Cursor(y) - 1) /\ (~y.overflow => o <= Cursor(y))
    <3>1. Cursor(y) = IF o > c THEN 0 ELSE o
      BY <2>2 DEF Cursor
    <3>2. CASE o > c
      BY <2>1, <2>2, <3>1, <3>2
    <3>3. CASE ~(o > c)
      BY <2>1, <2>2, <3>1, <3>3
    <3>4. QED
      BY <3>2, <3>3
  <2>4. Session(y, o)
    BY <2>2, <2>3 DEF Session, Packed, Ready
  <2>5. Session(w, start) /\ w.depth = 0 /\ open = 0
    BY <1>5, <2>2, <2>4 DEF y
  <2>6. QED
    BY <1>1, <2>5
<1>6. QED
  BY <1>3, <1>4, <1>5 DEF Init

\* The primed invariant, from the writer after the step.
LEMMA SessionAfter ==
  ASSUME NEW y, w' = y,
         ~y.fixed \/ ~skipped' => Session(y, start'),
         ~y.overflow => y.depth = open'
  PROVE  SessionInv'
BY DEF SessionInv, ContextsMatchClient, Session, Packed, Ready, Cursor

LEMMA CallKeepsSession ==
  ASSUME WriterInv, SessionInv, NEW y, NEW b \in BOOLEAN,
         (Step(w, y, 0) /\ Call(y, b)) \/ (Step(w, y, 1) /\ Begin(y, b)),
         ~w.fixed \/ ~b => Resumes(w, y, start)
  PROVE  SessionInv' /\ Freezes
<1>1. /\ w' = y /\ start' = start /\ skipped' = (skipped \/ b) /\ y.fixed = w.fixed
      /\ w.overflow => y.overflow /\ Cursor(y) = Cursor(w) /\ y.stored = w.stored
  BY DEF Call, Begin, Step, ValidAfter
<1>2. ~y.overflow => y.depth = open'
  <2>1. w.depth \in Nat /\ open \in Nat /\ (~w.overflow => w.depth = open)
    BY DEF WriterInv, Valid, WriterType, SessionInv, ContextsMatchClient
  <2>2. QED
    BY <1>1, <2>1 DEF Call, Begin, Step
<1>3. ~y.fixed \/ ~skipped' => Session(y, start')
  BY <1>1 DEF SessionInv, Resumes
<1>4. SessionInv'
  BY <1>1, <1>2, <1>3, SessionAfter
<1>5. QED
  BY <1>1, <1>4 DEF Freezes

LEMMA NextSession ==
  ASSUME WriterInv, SessionInv, [Next]_vars
  PROVE  SessionInv' /\ (Freezes \/ ResetCall)
<1>1. /\ Valid(w) /\ start \in Nat /\ Cursor(w) + 64 <= SizeMax
      /\ \A s \in Sizes, n \in Counts : Cursor(w) + s * n + 64 <= SizeMax
  BY RoomForACall DEF WriterInv
<1>2. /\ \A s \in Sizes : s \in PrimitiveSizes
      /\ \A n \in Chars : n \in Nat
      /\ \A n \in Counts : n \in Nat
      /\ \A n \in SkipCounts : n \in Nat
  BY WriterAssumption
<1>3. CASE Write
  <2>1. CASE \E s \in Sizes : Call(WritePrimitive(w, s), FALSE)
    BY <1>1, <1>2, <2>1, WritePrimitiveGoes, CallKeepsSession
  <2>2. CASE \E n \in Chars : Call(WriteString(w, n), FALSE)
    BY <1>1, <1>2, <2>2, WriteStringGoes, CallKeepsSession
  <2>3. CASE \E n \in Chars : Call(WriteWString(w, n), FALSE)
    BY <1>1, <1>2, <2>3, WriteWStringGoes, CallKeepsSession
  <2>4. CASE \E s \in Sizes, n \in Counts : Call(WriteArray(w, s, n), FALSE)
    BY <1>1, <1>2, <2>4, WriteElementsGoes, CallKeepsSession
  <2>5. CASE \E s \in Sizes, n \in Counts : Call(WriteSequence(w, s, n), FALSE)
    BY <1>1, <1>2, <2>5, WriteElementsGoes, CallKeepsSession
  <2>6. QED
    BY <1>3, <2>1, <2>2, <2>3, <2>4, <2>5 DEF Write
<1>4. CASE SkipCall
  <2>1. CASE \E s \in Sizes : Call(Skip(w, s), TRUE)
    BY <1>1, <1>2, <2>1, SkipGoes, CallKeepsSession
  <2>2. CASE \E n \in Chars : Call(SkipString(w, n), TRUE)
    BY <1>1, <1>2, <2>2, SkipStringGoes, CallKeepsSession
  <2>3. CASE \E n \in Chars : Call(SkipWString(w, n), TRUE)
    BY <1>1, <1>2, <2>3, SkipWStringGoes, CallKeepsSession
  <2>4. CASE \E s \in Sizes, n \in SkipCounts : Call(SkipArray(w, s, n), TRUE)
    BY <1>1, <1>2, <2>4, SkipArrayGoes, CallKeepsSession
  <2>5. CASE \E s \in Sizes, n \in SkipCounts : Call(SkipSequence(w, s, n), TRUE)
    BY <1>1, <1>2, <2>5, SkipSequenceGoes, CallKeepsSession
  <2>6. QED
    BY <1>4, <2>1, <2>2, <2>3, <2>4, <2>5 DEF SkipCall
<1>5. CASE BeginCall
  <2>1. /\ Step(w, BeginWriteArray(w), 1) /\ Resumes(w, BeginWriteArray(w), start)
        /\ BeginWriteStruct(w) = BeginWriteArray(w)
        /\ Step(w, BeginWriteSequence(w), 1) /\ Resumes(w, BeginWriteSequence(w), start)
    BY <1>1, BeginGoes
  <2>2. /\ Step(w, BeginSkipSequence(w), 1)
        /\ ~w.fixed => Resumes(w, BeginSkipSequence(w), start)
    BY <1>1, BeginSkipSequenceGoes
  <2>3. QED
    BY <1>5, <2>1, <2>2, CallKeepsSession DEF BeginCall
<1>6. CASE EndCall
  <2> DEFINE y == Pop(w)
  <2>1. w' = y /\ start' = start /\ skipped' = skipped /\ open' = open - 1 /\ open > 0
    BY <1>6 DEF EndCall, EndWrite
  <2>2. /\ w.depth \in Nat /\ open \in Nat /\ w \in WriterType
        /\ ~w.overflow => w.depth = open
    BY DEF WriterInv, Valid, WriterType, SessionInv, ContextsMatchClient
  <2>3. /\ y.stored = w.stored /\ y.fixed = w.fixed /\ Cursor(y) = Cursor(w)
        /\ y.overflow = w.overflow /\ y.header = w.header
        /\ w.depth > 0 => y.depth = w.depth - 1
    BY <2>2 DEF WriterType, Pop, Cursor
  <2> HIDE DEF y
  <2>4. ~y.overflow => y.depth = open'
    BY <2>1, <2>2, <2>3
  <2>5. ~y.fixed \/ ~skipped' => Session(y, start')
    BY <2>1, <2>3 DEF SessionInv, Session, Packed, Ready
  <2>6. SessionInv'
    BY <2>1, <2>4, <2>5, SessionAfter
  <2>7. QED
    BY <2>1, <2>3, <2>6 DEF Freezes
<1>7. CASE ResetCall
  <2>1. w' = Reset(w) /\ start' = 0 /\ open' = 0
    BY <1>7 DEF ResetCall
  <2>2. Session(Reset(w), 0) /\ Reset(w).depth = 0
    BY <1>1, ResetOpens
  <2>3. SessionInv'
    BY <2>1, <2>2, SessionAfter
  <2>4. QED
    BY <1>7, <2>3
<1>8. CASE UNCHANGED vars
  <2>1. w' = w /\ start' = start /\ skipped' = skipped /\ open' = open
    BY <1>8 DEF vars
  <2>2. SessionInv'
    BY <2>1, SessionAfter DEF SessionInv, ContextsMatchClient
  <2>3. QED
    BY <2>1, <2>2 DEF Freezes
<1>9. QED
  BY <1>3, <1>4, <1>5, <1>6, <1>7, <1>8 DEF Next

LEMMA SessionHolds == Spec => [](WriterInv /\ SessionInv)
<1>1. Init => WriterInv /\ SessionInv
  BY InitInvariant, InitSession
<1>2. WriterInv /\ SessionInv /\ [Next]_vars => (WriterInv /\ SessionInv)'
  BY NextInvariant, NextSession
<1>3. QED
  BY <1>1, <1>2, PTL DEF Spec

(***************************************************************************)
(* What data() exposes, header and padding included, has been stored by    *)
(* the writer, byte for byte from the beginning of the session to the      *)
(* cursor: for every span and buffer, whatever was written in whatever     *)
(* order, and in a growing buffer whatever was skipped, wrapped sums and   *)
(* calls behind an error included.                                         *)
(***************************************************************************)
THEOREM WriterLeavesNoGap == Spec => []NoGapBehindCursor
<1>1. SessionInv => NoGapBehindCursor
  BY DEF SessionInv, Session, Packed, NoGapBehindCursor
<1>2. QED
  BY <1>1, SessionHolds, PTL

(***************************************************************************)
(* Until a call fails the writer's context stack is as deep as the client  *)
(* left it with its own begin and end calls.                               *)
(***************************************************************************)
THEOREM WriterContextsMatch == Spec => []ContextsMatchClient
<1>1. SessionInv => ContextsMatchClient
  BY DEF SessionInv
<1>2. QED
  BY <1>1, SessionHolds, PTL

(***************************************************************************)
(* Behind overflow_error_ no call but reset() stores a byte, moves the     *)
(* cursor or clears the error.                                             *)
(***************************************************************************)
THEOREM WriterErrorIsFinal == Spec => ErrorFreezesOutput
<1>1. WriterInv /\ SessionInv /\ [Next]_vars =>
        [w.overflow => \/ ResetCall
                       \/ /\ w'.overflow
                          /\ Cursor(w') = Cursor(w)
                          /\ w'.stored = w.stored]_vars
  BY NextSession DEF Freezes
<1>2. QED
  BY <1>1, SessionHolds, PTL DEF Spec, ErrorFreezesOutput
================================================================================
