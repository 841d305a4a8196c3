---------------------------- MODULE SkipMirrorProofs ----------------------------
(***************************************************************************)
(* A skipping writer mirrors a writing one and a reader follows it, for    *)
(* spans of any size, every start offset, any data that fits in memory     *)
(* along with the span and any sequence of calls.                          *)
(***************************************************************************)
EXTENDS SkipMirror, CodecOpsProofs

(***************************************************************************)
(* Two writers over spans of one size, of which the second has stored no   *)
(* more: what every pair of calls keeps.                                   *)
(***************************************************************************)
Twins(f, m) ==
  /\ Valid(f) /\ f.fixed
  /\ Valid(m) /\ m.fixed
  /\ m.cap = f.cap
  /\ m.pos = f.pos
  /\ m.overflow = f.overflow
  /\ m.header = f.header
  /\ ~f.overflow => m.depth = f.depth
  /\ m.stored \subseteq f.stored

\* Such a pair over the span of f.
TwinsAfter(f, g, m) == Twins(g, m) /\ g.cap = f.cap

LEMMA TwinOfItself ==
  ASSUME NEW f, Valid(f), f.fixed PROVE Twins(f, f)
BY DEF Twins, Valid, WriterType

--------------------------------------------------------------------------------
(* The private steps over a span, field by field *)

\* Steps with one outcome, the second of which stores no more, keep twins.
LEMMA OutcomesKeepTwins ==
  ASSUME NEW f, NEW m, NEW g, NEW k, Twins(f, m),
         ValidAfter(f, g), ValidAfter(m, k),
         NEW fails, NEW to, NEW bytes, NEW fewer \in SUBSET bytes,
         Outcome(f, g, fails, to, bytes), Outcome(m, k, fails, to, fewer)
  PROVE  TwinsAfter(f, g, k)
<1>1. CASE f.overflow
  BY <1>1 DEF Outcome, Twins, TwinsAfter, ValidAfter
<1>2. CASE ~f.overflow
  BY <1>2 DEF Outcome, Twins, TwinsAfter, ValidAfter
<1>3. QED
  BY <1>1, <1>2

LEMMA TwinsTransitive ==
  ASSUME NEW f, NEW g, NEW m, NEW h, NEW k, TwinsAfter(f, g, m), TwinsAfter(g, h, k)
  PROVE  TwinsAfter(f, h, k)
BY DEF TwinsAfter

LEMMA HeaderTwins ==
  ASSUME NEW f, NEW m, Twins(f, m)
  PROVE  TwinsAfter(f, EnsureHeaderWritten(f), EnsureHeaderWritten(m))
<1> DEFINE g == EnsureHeaderWritten(f)
           k == EnsureHeaderWritten(m)
<1>1. ValidAfter(f, g) /\ ValidAfter(m, k)
  BY EnsureHeaderValid DEF Twins
<1>2. f.cap \in Nat
  BY DEF Twins, Valid, WriterType
<1>3. CASE f.overflow \/ f.header
  BY <1>1, <1>3, HeaderFields DEF Twins, TwinsAfter
<1>4. CASE ~f.overflow /\ ~f.header /\ HeaderSize <= f.cap
  <2>1. /\ g.pos = HeaderSize /\ ~g.overflow /\ g.header
        /\ g.depth = f.depth /\ g.stored = f.stored \cup Offsets(0, HeaderSize)
    BY <1>4, HeaderFields DEF Twins
  <2>2. /\ k.pos = HeaderSize /\ ~k.overflow /\ k.header
        /\ k.depth = m.depth /\ k.stored = m.stored \cup Offsets(0, HeaderSize)
    BY <1>4, HeaderFields DEF Twins
  <2> HIDE DEF g, k
  <2>3. g.overflow = k.overflow /\ g.header = k.header
    BY <1>1, <2>1, <2>2 DEF ValidAfter, Valid, WriterType
  <2>4. QED
    BY <1>1, <1>4, <2>1, <2>2, <2>3 DEF Twins, TwinsAfter, ValidAfter, g, k
<1>5. CASE ~f.overflow /\ ~f.header /\ ~(HeaderSize <= f.cap)
  <2>1. g.pos = f.pos /\ g.overflow /\ g.header /\ g.stored = f.stored
    BY <1>5, HeaderFields DEF Twins
  <2>2. k.pos = m.pos /\ k.overflow /\ k.header /\ k.stored = m.stored
    BY <1>5, HeaderFields DEF Twins
  <2> HIDE DEF g, k
  <2>3. g.overflow = k.overflow /\ g.header = k.header
    BY <1>1, <2>1, <2>2 DEF ValidAfter, Valid, WriterType
  <2>4. QED
    BY <1>1, <2>1, <2>2, <2>3 DEF Twins, TwinsAfter, ValidAfter, g, k
<1>6. QED
  BY <1>3, <1>4, <1>5

\* Writing an aligned field and skipping it come to the same.
LEMMA ReserveTwins ==
  ASSUME NEW f, NEW m, Twins(f, m), NEW a \in PrimitiveSizes, NEW n \in Nat,
         f.cap + 15 + n <= SizeMax
  PROVE  /\ TwinsAfter(f, ReserveAndStore(f, a, n), ReserveAndStore(m, a, n))
         /\ TwinsAfter(f, ReserveAndStore(f, a, n), SkipAdvance(m, a, n))
<1> DEFINE e == EndOf(f, a, n)
           fails == e > f.cap
           to == IF e > f.cap THEN f.pos ELSE e
           bytes == IF e > f.cap THEN {}
                    ELSE (f.pos .. (e - n - 1)) \cup Offsets(e - n, n)
<1>1. /\ Valid(f) /\ f.fixed /\ Valid(m) /\ m.fixed
      /\ m.pos = f.pos /\ m.cap = f.cap /\ EndOf(m, a, n) = e
  BY DEF Twins, EndOf
<1>2. Cursor(f) + 15 + n <= SizeMax /\ Cursor(m) + 15 + n <= SizeMax
  BY <1>1, CursorInSpan, SizeMaxAssumption
<1>3. /\ ValidAfter(f, ReserveAndStore(f, a, n))
      /\ ValidAfter(m, ReserveAndStore(m, a, n))
      /\ ValidAfter(m, SkipAdvance(m, a, n))
  BY <1>1, <1>2, ReserveAndStoreValid, SkipAdvanceValid
<1>4. /\ Outcome(f, ReserveAndStore(f, a, n), fails, to, bytes)
      /\ Outcome(m, ReserveAndStore(m, a, n), fails, to, bytes)
  BY <1>1, ReserveOutcome
<1>5. Outcome(m, SkipAdvance(m, a, n), fails, to, {})
  BY <1>1, SkipOutcome
<1> HIDE DEF fails, to, bytes
<1>6. QED
  BY <1>3, <1>4, <1>5, OutcomesKeepTwins

\* The header and a length prefix, written by one and written or skipped by
\* the other.
LEMMA PrefixTwins ==
  ASSUME NEW f, NEW m, Twins(f, m), f.cap + 64 <= SizeMax
  PROVE  LET p == ReserveAndStore(EnsureHeaderWritten(f), PrefixSize, PrefixSize)
             q == ReserveAndStore(EnsureHeaderWritten(m), PrefixSize, PrefixSize)
             r == SkipAdvance(EnsureHeaderWritten(m), PrefixSize, PrefixSize)
         IN TwinsAfter(f, p, q) /\ TwinsAfter(f, p, r)
<1> DEFINE g == EnsureHeaderWritten(f)
           k == EnsureHeaderWritten(m)
<1>1. TwinsAfter(f, g, k)
  BY HeaderTwins
<1> HIDE DEF g, k
<1>2. g.cap = f.cap /\ f.cap \in Nat
  BY <1>1, CursorInSpan DEF Twins, TwinsAfter
<1>3. /\ TwinsAfter(g, ReserveAndStore(g, PrefixSize, PrefixSize),
                    ReserveAndStore(k, PrefixSize, PrefixSize))
      /\ TwinsAfter(g, ReserveAndStore(g, PrefixSize, PrefixSize),
                    SkipAdvance(k, PrefixSize, PrefixSize))
  <2>1. Twins(g, k) /\ g.cap + 15 + PrefixSize <= SizeMax
    BY <1>1, <1>2, SizeMaxAssumption DEF TwinsAfter, PrefixSize
  <2>2. PrefixSize \in PrimitiveSizes /\ PrefixSize \in Nat
    BY DEF PrefixSize, PrimitiveSizes
  <2>3. QED
    BY <2>1, <2>2, ReserveTwins
<1>4. QED
  BY <1>1, <1>3, TwinsTransitive DEF g, k

LEMMA PrimitiveTwins ==
  ASSUME NEW f, NEW m, Twins(f, m), NEW s \in PrimitiveSizes, f.cap + 64 <= SizeMax
  PROVE  /\ TwinsAfter(f, WritePrimitive(f, s), WritePrimitive(m, s))
         /\ TwinsAfter(f, WritePrimitive(f, s), Skip(m, s))
<1> DEFINE g == EnsureHeaderWritten(f)
           k == EnsureHeaderWritten(m)
<1>1. TwinsAfter(f, g, k)
  BY HeaderTwins
<1>2. /\ WritePrimitive(f, s) = ReserveAndStore(g, s, s)
      /\ WritePrimitive(m, s) = ReserveAndStore(k, s, s)
      /\ Skip(m, s) = SkipAdvance(k, s, s)
  BY DEF WritePrimitive, Skip
<1> HIDE DEF g, k
<1>3. Twins(g, k) /\ g.cap = f.cap /\ f.cap \in Nat /\ s \in 1 .. 16
  BY <1>1, CursorInSpan DEF Twins, TwinsAfter, PrimitiveSizes
<1>4. s \in Nat /\ g.cap + 15 + s <= SizeMax
  BY <1>3, SizeMaxAssumption
<1>5. /\ TwinsAfter(g, ReserveAndStore(g, s, s), ReserveAndStore(k, s, s))
      /\ TwinsAfter(g, ReserveAndStore(g, s, s), SkipAdvance(k, s, s))
  BY <1>3, <1>4, ReserveTwins
<1>6. QED
  BY <1>1, <1>2, <1>5, TwinsTransitive

--------------------------------------------------------------------------------
(* Strings *)

\* A skip with nothing to align is the append's mirror.
LEMMA AppendTwins ==
  ASSUME NEW f, NEW m, Twins(f, m), NEW n \in Nat, f.cap + 15 + n <= SizeMax
  PROVE  /\ TwinsAfter(f, AppendBytes(f, n), AppendBytes(m, n))
         /\ TwinsAfter(f, AppendBytes(f, n), SkipAdvance(m, 1, n))
<1> DEFINE e == f.pos + n
           fails == e > f.cap
           to == IF e > f.cap THEN f.pos ELSE e
           bytes == IF e > f.cap THEN {} ELSE Offsets(e - n, n)
<1>1. /\ Valid(f) /\ f.fixed /\ Valid(m) /\ m.fixed
      /\ m.pos = f.pos /\ m.cap = f.cap /\ f.pos \in Nat
  BY CursorInSpan DEF Twins
<1>2. 1 \in PrimitiveSizes
  BY DEF PrimitiveSizes
<1>3. EndOf(m, 1, n) = e
  BY <1>1 DEF EndOf, DataAlign, AlignTo, CalculateAlignment, HeaderSize
<1>4. /\ ValidAfter(f, AppendBytes(f, n)) /\ Outcome(f, AppendBytes(f, n), fails, to, bytes)
      /\ ValidAfter(m, AppendBytes(m, n)) /\ Outcome(m, AppendBytes(m, n), fails, to, bytes)
  BY <1>1, AppendOutcome
<1>5. /\ ValidAfter(m, SkipAdvance(m, 1, n))
      /\ Outcome(m, SkipAdvance(m, 1, n), fails, to, {})
  BY <1>1, <1>2, <1>3, SkipOutcome, SkipAdvanceValid
<1> HIDE DEF fails, to, bytes
<1>6. QED
  BY <1>4, <1>5, OutcomesKeepTwins

LEMMA StringTwins ==
  ASSUME NEW f, NEW m, Twins(f, m), NEW n \in Nat,
         f.cap + 64 <= SizeMax, f.cap + 2 * n + 64 <= SizeMax
  PROVE  /\ TwinsAfter(f, WriteString(f, n), WriteString(m, n))
         /\ TwinsAfter(f, WriteString(f, n), SkipString(m, n))
<1> DEFINE p == ReserveAndStore(EnsureHeaderWritten(f), PrefixSize, PrefixSize)
           q == ReserveAndStore(EnsureHeaderWritten(m), PrefixSize, PrefixSize)
           r == SkipAdvance(EnsureHeaderWritten(m), PrefixSize, PrefixSize)
<1>1. TwinsAfter(f, p, q) /\ TwinsAfter(f, p, r)
  BY PrefixTwins
<1>2. /\ WriteString(f, n) = IF p.overflow THEN p
                            ELSE IF ~Fits(p, Cursor(p) + n + 1) THEN Fail(p)
                            ELSE StoreLast(MoveTo(p, Cursor(p) + n + 1), n + 1)
      /\ WriteString(m, n) = IF q.overflow THEN q
                            ELSE IF ~Fits(q, Cursor(q) + n + 1) THEN Fail(q)
                            ELSE StoreLast(MoveTo(q, Cursor(q) + n + 1), n + 1)
      /\ SkipString(m, n) = SkipAdvance(r, 1, n + 1)
  BY DEF WriteString, SkipString
<1> HIDE DEF p, q, r
<1>3. /\ Cursor(p) \in Nat /\ Cursor(q) \in Nat
      /\ p.cap = f.cap /\ f.cap \in Nat
  BY <1>1, CursorInSpan DEF Twins, TwinsAfter
<1>4. WriteString(f, n) = AppendBytes(p, n + 1) /\ WriteString(m, n) = AppendBytes(q, n + 1)
  <2>1. Cursor(p) + n + 1 = Cursor(p) + (n + 1) /\ Cursor(q) + n + 1 = Cursor(q) + (n + 1)
    BY <1>3
  <2>2. QED
    BY <1>2, <2>1 DEF AppendBytes
<1>5. n + 1 \in Nat /\ p.cap + 15 + (n + 1) <= SizeMax
  BY <1>3, SizeMaxAssumption
<1>6. /\ TwinsAfter(p, AppendBytes(p, n + 1), AppendBytes(q, n + 1))
      /\ TwinsAfter(p, AppendBytes(p, n + 1), SkipAdvance(r, 1, n + 1))
  BY <1>1, <1>5, AppendTwins DEF TwinsAfter
<1>7. QED
  BY <1>1, <1>2, <1>4, <1>6, TwinsTransitive

LEMMA WStringTwins ==
  ASSUME NEW f, NEW m, Twins(f, m), NEW n \in Nat, f.cap + 64 <= SizeMax
  PROVE  /\ TwinsAfter(f, WriteWString(f, n), WriteWString(m, n))
         /\ TwinsAfter(f, WriteWString(f, n), SkipWString(m, n))
<1> DEFINE p == ReserveAndStore(EnsureHeaderWritten(f), PrefixSize, PrefixSize)
           q == ReserveAndStore(EnsureHeaderWritten(m), PrefixSize, PrefixSize)
           r == SkipAdvance(EnsureHeaderWritten(m), PrefixSize, PrefixSize)
           u == n + 1
           k == UnitsThatFit(p, u)
<1>1. TwinsAfter(f, p, q) /\ TwinsAfter(f, p, r)
  BY PrefixTwins
<1>2. /\ WriteWString(f, n) = Units(p, u)
      /\ WriteWString(m, n) = Units(q, u)
      /\ SkipWString(m, n) = SkippedUnits(r, u)
  BY DEF WriteWString, SkipWString, Units, SkippedUnits
<1>3. Cursor(f) + 64 <= SizeMax /\ Cursor(m) + 64 <= SizeMax
  BY CursorInSpan, SizeMaxAssumption DEF Twins
<1>4. /\ ValidAfter(f, WriteWString(f, n))
      /\ ValidAfter(m, WriteWString(m, n))
      /\ ValidAfter(m, SkipWString(m, n))
  BY <1>3, WriteWStringValid, SkipWStringValid DEF Twins
<1> HIDE DEF p, q, r
<1>5. u \in Nat
  OBVIOUS
<1> HIDE DEF u
<1>6. /\ Valid(p) /\ p.fixed /\ Valid(q) /\ q.fixed /\ Valid(r) /\ r.fixed
      /\ p.cap = q.cap /\ p.cap = r.cap /\ p.pos = q.pos /\ p.pos = r.pos
      /\ p.cap = f.cap
  BY <1>1 DEF Twins, TwinsAfter
<1>7. UnitsThatFit(q, u) = k /\ UnitsThatFit(r, u) = k
  BY <1>6 DEF UnitsThatFit, Fits, Cursor
<1>8. /\ Outcome(p, Units(p, u), k < u, p.pos + 2 * k, Offsets(p.pos, 2 * k))
      /\ Outcome(q, Units(q, u), k < u, p.pos + 2 * k, Offsets(p.pos, 2 * k))
      /\ Outcome(r, SkippedUnits(r, u), k < u, p.pos + 2 * k, {})
  BY <1>5, <1>6, <1>7, UnitsOutcome
<1>9. /\ ValidAfter(p, Units(p, u))
      /\ ValidAfter(q, Units(q, u))
      /\ ValidAfter(r, SkippedUnits(r, u))
  BY <1>1, <1>2, <1>4, <1>6 DEF ValidAfter, Twins, TwinsAfter
<1> HIDE DEF k
<1>10. /\ TwinsAfter(p, Units(p, u), Units(q, u))
       /\ TwinsAfter(p, Units(p, u), SkippedUnits(r, u))
  BY <1>1, <1>8, <1>9, OutcomesKeepTwins DEF TwinsAfter
<1>11. QED
  BY <1>1, <1>2, <1>10, TwinsTransitive

--------------------------------------------------------------------------------
(* Contexts, arrays and sequences *)

LEMMA PushTwins ==
  ASSUME NEW f, NEW m, Twins(f, m)
  PROVE  TwinsAfter(f, Push(f), Push(m))
BY PushFields DEF Twins, TwinsAfter

\* Behind an error it does not matter who pops.
LEMMA PopTwins ==
  ASSUME NEW f, NEW m, Twins(f, m)
  PROVE  /\ TwinsAfter(f, Pop(f), Pop(m))
         /\ f.overflow => TwinsAfter(f, Pop(f), m)
<1>1. /\ ValidAfter(f, Pop(f)) /\ ValidAfter(m, Pop(m))
  BY PushPopValid DEF Twins
<1>2. /\ Pop(f).pos = f.pos /\ Pop(f).overflow = f.overflow
      /\ Pop(f).header = f.header /\ Pop(f).stored = f.stored
      /\ Pop(f).depth = IF f.depth = 0 THEN 0 ELSE f.depth - 1
  BY PopFields DEF Twins
<1>3. /\ Pop(m).pos = m.pos /\ Pop(m).overflow = m.overflow
      /\ Pop(m).header = m.header /\ Pop(m).stored = m.stored
      /\ Pop(m).depth = IF m.depth = 0 THEN 0 ELSE m.depth - 1
  BY PopFields DEF Twins
<1>4. QED
  BY <1>1, <1>2, <1>3 DEF Twins, TwinsAfter, ValidAfter

\* Within a context of their own the same holds, the context closed or not.
LEMMA BracketedTwins ==
  ASSUME NEW f, NEW m, Twins(f, m), Settled(f),
         NEW s \in PrimitiveSizes, NEW n \in Nat, f.cap + s * n + 64 <= SizeMax
  PROVE  LET g == Pop(WritePodSpan(Push(f), s, n))
         IN /\ TwinsAfter(f, g, Pop(WritePodSpan(Push(m), s, n)))
            /\ TwinsAfter(f, g, Pop(SkipArray(Push(m), s, n)))
            /\ TwinsAfter(f, g, SkipArray(m, s, n))
<1> DEFINE fails == SpanFails(f, s, n)
           to == SpanEnd(f, s, n)
           bytes == SpanBytes(f, s, n)
           g == Pop(WritePodSpan(Push(f), s, n))
           k == Pop(WritePodSpan(Push(m), s, n))
           l == Pop(SkipArray(Push(m), s, n))
<1>1. /\ Valid(f) /\ f.fixed /\ Valid(m) /\ m.fixed
      /\ m.pos = f.pos /\ m.cap = f.cap /\ f.cap \in Nat /\ f.pos \in Nat /\ f.pos <= f.cap
      /\ Settled(m)
  BY CursorInSpan DEF Twins, Settled
<1>2. /\ Valid(Push(f)) /\ Push(f).fixed /\ Settled(Push(f))
      /\ Push(f).pos = f.pos /\ Push(f).cap = f.cap
      /\ Valid(Push(m)) /\ Push(m).fixed /\ Settled(Push(m))
      /\ Push(m).pos = f.pos /\ Push(m).cap = f.cap
  BY <1>1, PushFields DEF Settled
<1>3. /\ SpanFails(m, s, n) = fails /\ SpanEnd(m, s, n) = to /\ SpanBytes(m, s, n) = bytes
      /\ SpanFails(Push(f), s, n) = fails /\ SpanEnd(Push(f), s, n) = to
      /\ SpanBytes(Push(f), s, n) = bytes
      /\ SpanFails(Push(m), s, n) = fails /\ SpanEnd(Push(m), s, n) = to
      /\ SpanBytes(Push(m), s, n) = bytes
  BY <1>1, <1>2 DEF SpanFails, SpanEnd, SpanBytes, EndOf
<1> HIDE DEF fails, to, bytes
<1>4. Push(f).cap + s * n + 64 <= SizeMax /\ Push(m).cap + s * n + 64 <= SizeMax
      /\ m.cap + s * n + 64 <= SizeMax
  BY <1>1, <1>2
<1>5. /\ Outcome(Push(f), WritePodSpan(Push(f), s, n), fails, to, bytes)
      /\ Outcome(Push(m), WritePodSpan(Push(m), s, n), fails, to, bytes)
      /\ Outcome(Push(m), SkipArray(Push(m), s, n), fails, to, {})
      /\ Outcome(m, SkipArray(m, s, n), fails, to, {})
  BY <1>1, <1>2, <1>3, <1>4, SpanOutcome
<1>6. Cursor(Push(f)) + s * n + 40 <= SizeMax /\ Cursor(Push(m)) + s * n + 40 <= SizeMax
  <2>1. Cursor(Push(f)) = f.pos /\ Cursor(Push(m)) = f.pos
    BY <1>2, CursorInSpan
  <2>2. f.pos + s * n + 40 <= SizeMax
    BY <1>1, ProductIsNat, SizeMaxAssumption
  <2>3. QED
    BY <2>1, <2>2
<1>7. /\ ValidAfter(Push(f), WritePodSpan(Push(f), s, n))
      /\ ValidAfter(Push(m), WritePodSpan(Push(m), s, n))
      /\ ValidAfter(Push(m), SkipArray(Push(m), s, n))
      /\ ValidAfter(m, SkipArray(m, s, n))
  BY <1>1, <1>2, <1>6, WritePodSpanValid, SkipArrayValid
<1>8. ValidAfter(f, g) /\ ValidAfter(m, k) /\ ValidAfter(m, l)
  BY <1>1, <1>2, <1>7, PushPopValid DEF ValidAfter
<1>9. /\ Outcome(f, g, fails, to, bytes)
      /\ Outcome(m, k, fails, to, bytes)
      /\ Outcome(m, l, fails, to, {})
  BY <1>1, <1>5, <1>7, BracketedOutcome DEF ValidAfter
<1> HIDE DEF g, k, l
<1>10. /\ TwinsAfter(f, g, k)
       /\ TwinsAfter(f, g, l)
       /\ TwinsAfter(f, g, SkipArray(m, s, n))
  BY <1>5, <1>7, <1>8, <1>9, OutcomesKeepTwins
<1>11. QED
  BY <1>10 DEF g, k, l

LEMMA ArrayTwins ==
  ASSUME NEW f, NEW m, Twins(f, m),
         NEW s \in PrimitiveSizes, NEW n \in Nat, f.cap + s * n + 64 <= SizeMax
  PROVE  /\ TwinsAfter(f, WriteArray(f, s, n), WriteArray(m, s, n))
         /\ TwinsAfter(f, WriteArray(f, s, n), SkipArray(m, s, n))
<1> DEFINE g == EnsureHeaderWritten(f)
           k == EnsureHeaderWritten(m)
<1>1. TwinsAfter(f, g, k)
  BY HeaderTwins
<1>2. Settled(g) /\ EnsureHeaderWritten(k) = k
  BY <1>1, HeaderSettles DEF Twins, TwinsAfter
<1>3. /\ WriteArray(f, s, n) = Pop(WritePodSpan(Push(g), s, n))
      /\ WriteArray(m, s, n) = Pop(WritePodSpan(Push(k), s, n))
  BY DEF WriteArray, EndWrite, BeginWriteArray
<1>4. SkipArray(k, s, n) = SkipArray(m, s, n)
  BY <1>2 DEF SkipArray
<1> HIDE DEF g, k
<1>5. Twins(g, k) /\ g.cap + s * n + 64 <= SizeMax
  BY <1>1 DEF TwinsAfter
<1>6. /\ TwinsAfter(g, Pop(WritePodSpan(Push(g), s, n)), Pop(WritePodSpan(Push(k), s, n)))
      /\ TwinsAfter(g, Pop(WritePodSpan(Push(g), s, n)), SkipArray(k, s, n))
  BY <1>2, <1>5, BracketedTwins
<1>7. QED
  BY <1>1, <1>3, <1>4, <1>6, TwinsTransitive

(***************************************************************************)
(* Behind an error the write pops and the skip does not. Else both pop     *)
(* what they pushed.                                                       *)
(***************************************************************************)
LEMMA SequenceTwins ==
  ASSUME NEW f, NEW m, Twins(f, m), f.cap + 64 <= SizeMax,
         NEW s \in PrimitiveSizes, NEW n \in Nat, f.cap + s * n + 64 <= SizeMax
  PROVE  /\ TwinsAfter(f, WriteSequence(f, s, n), WriteSequence(m, s, n))
         /\ TwinsAfter(f, WriteSequence(f, s, n), SkipSequence(m, s, n))
<1> DEFINE p == ReserveAndStore(EnsureHeaderWritten(f), PrefixSize, PrefixSize)
           q == ReserveAndStore(EnsureHeaderWritten(m), PrefixSize, PrefixSize)
           r == SkipAdvance(EnsureHeaderWritten(m), PrefixSize, PrefixSize)
           Written(x) == Pop(WritePodSpan(IF x.overflow THEN x ELSE Push(x), s, n))
           g == Written(p)
           b == IF r.overflow THEN r ELSE Push(r)
           a == IF b.overflow THEN b ELSE SkipArray(b, s, n)
<1>1. TwinsAfter(f, p, q) /\ TwinsAfter(f, p, r)
  BY PrefixTwins
<1>2. Settled(p)
  BY PrefixSettles DEF Twins
<1>3. /\ WriteSequence(f, s, n) = g
      /\ WriteSequence(m, s, n) = Written(q)
      /\ SkipSequence(m, s, n) = IF a.overflow THEN a ELSE Pop(a)
  BY DEF WriteSequence, BeginWriteSequence, SkipSequence, BeginSkipSequence, EndWrite
<1> HIDE DEF p, q, r
<1>4. /\ Twins(p, q) /\ Twins(p, r) /\ p.cap = f.cap
      /\ p.overflow = q.overflow /\ p.overflow = r.overflow
      /\ Valid(r) /\ r.fixed
  BY <1>1 DEF Twins, TwinsAfter
<1>5. CASE p.overflow
  <2>1. WritePodSpan(p, s, n) = p /\ WritePodSpan(q, s, n) = q
    BY <1>4, <1>5 DEF WritePodSpan, EnsureHeaderWritten, ReserveAndStore, AlignAndReserve
  <2>2. g = Pop(p) /\ Written(q) = Pop(q) /\ a = r /\ a.overflow
    BY <1>4, <1>5, <2>1
  <2> HIDE DEF g, a, Written
  <2>3. QED
    BY <1>1, <1>3, <1>4, <1>5, <2>2, PopTwins, TwinsTransitive
<1>6. CASE ~p.overflow
  <2>1. ~b.overflow /\ b = Push(r) /\ a = SkipArray(Push(r), s, n)
    BY <1>4, <1>6, PushFields
  <2>2. g = Pop(WritePodSpan(Push(p), s, n)) /\ Written(q) = Pop(WritePodSpan(Push(q), s, n))
    BY <1>4, <1>6
  <2>3. p.cap + s * n + 64 <= SizeMax
    BY <1>4
  <2> HIDE DEF g, a, b, Written
  <2>4. /\ TwinsAfter(p, g, Written(q))
        /\ TwinsAfter(p, g, Pop(a))
    BY <1>2, <1>4, <2>1, <2>2, <2>3, BracketedTwins
  <2>5. a.overflow => TwinsAfter(p, g, a)
    <3>1. ValidAfter(Push(r), a)
      BY <1>4, <2>1, PushFields, SkipArrayValid
    <3>2. /\ Pop(a).pos = a.pos /\ Pop(a).overflow = a.overflow
          /\ Pop(a).header = a.header /\ Pop(a).stored = a.stored
          /\ ValidAfter(a, Pop(a)) /\ Valid(a)
      BY <3>1, PopFields, PushPopValid DEF ValidAfter
    <3>3. QED
      BY <2>4, <3>2 DEF Twins, TwinsAfter, ValidAfter
  <2>6. QED
    BY <1>1, <1>3, <2>4, <2>5, TwinsTransitive
<1>7. QED
  BY <1>5, <1>6

LEMMA BeginTwins ==
  ASSUME NEW f, NEW m, Twins(f, m), f.cap + 64 <= SizeMax
  PROVE  /\ TwinsAfter(f, BeginWriteSequence(f), BeginWriteSequence(m))
         /\ TwinsAfter(f, BeginWriteSequence(f), BeginSkipSequence(m))
         /\ TwinsAfter(f, BeginWriteStruct(f), BeginWriteStruct(m))
         /\ TwinsAfter(f, BeginWriteStruct(f), BeginWriteArray(m))
<1> DEFINE g == EnsureHeaderWritten(f)
           k == EnsureHeaderWritten(m)
           p == ReserveAndStore(g, PrefixSize, PrefixSize)
           q == ReserveAndStore(k, PrefixSize, PrefixSize)
           r == SkipAdvance(k, PrefixSize, PrefixSize)
<1>1. TwinsAfter(f, g, k) /\ TwinsAfter(f, p, q) /\ TwinsAfter(f, p, r)
  BY HeaderTwins, PrefixTwins
<1>2. /\ BeginWriteSequence(f) = IF p.overflow THEN p ELSE Push(p)
      /\ BeginWriteSequence(m) = IF q.overflow THEN q ELSE Push(q)
      /\ BeginSkipSequence(m) = IF r.overflow THEN r ELSE Push(r)
      /\ BeginWriteStruct(f) = Push(g) /\ BeginWriteStruct(m) = Push(k)
      /\ BeginWriteArray(m) = Push(k)
  BY DEF BeginWriteSequence, BeginSkipSequence, BeginWriteStruct, BeginWriteArray
<1> HIDE DEF g, k, p, q, r
<1>3. TwinsAfter(g, Push(g), Push(k)) /\ TwinsAfter(p, Push(p), Push(q)) /\ TwinsAfter(p, Push(p), Push(r))
  BY <1>1, PushTwins DEF TwinsAfter
<1>4. TwinsAfter(f, Push(g), Push(k)) /\ TwinsAfter(f, Push(p), Push(q)) /\ TwinsAfter(f, Push(p), Push(r))
  BY <1>1, <1>3, TwinsTransitive
<1>5. p.overflow = q.overflow /\ p.overflow = r.overflow
  BY <1>1 DEF Twins, TwinsAfter
<1>6. QED
  BY <1>1, <1>2, <1>4, <1>5

LEMMA ResetTwins ==
  ASSUME NEW f, NEW m, Twins(f, m)
  PROVE  TwinsAfter(f, Reset(f), Reset(m))
<1>1. ValidAfter(f, Reset(f)) /\ ValidAfter(m, Reset(m))
  BY ResetValid DEF Twins
<1>2. /\ Reset(f).pos = 0 /\ Reset(f).overflow = FALSE /\ Reset(f).header = FALSE
      /\ Reset(f).depth = 0 /\ Reset(f).stored = {}
  BY DEF Reset, Twins, Valid, WriterType
<1>3. /\ Reset(m).pos = 0 /\ Reset(m).overflow = FALSE /\ Reset(m).header = FALSE
      /\ Reset(m).depth = 0 /\ Reset(m).stored = {}
  BY DEF Reset, Twins, Valid, WriterType
<1>4. QED
  BY <1>1, <1>2, <1>3 DEF Twins, TwinsAfter, ValidAfter

--------------------------------------------------------------------------------
(* The inductive invariant: twins, over one of the spans *)

MirrorInv == Twins(full, mixed) /\ full.cap \in Capacities

\* Every span leaves room for a call in size_t.
LEMMA RoomForACall ==
  ASSUME MirrorInv
  PROVE  /\ Twins(full, mixed) /\ full.cap + 64 <= SizeMax
         /\ \A n \in Chars : n \in Nat /\ full.cap + 2 * n + 64 <= SizeMax
         /\ \A s \in Sizes : s \in PrimitiveSizes
         /\ \A s \in Sizes, n \in Counts : n \in Nat /\ full.cap + s * n + 64 <= SizeMax
BY MirrorAssumption, MirrorMemoryAssumption DEF MirrorInv

LEMMA MirrorInit == Init => MirrorInv
<1> SUFFICES ASSUME Init PROVE MirrorInv
  OBVIOUS
<1>1. PICK c \in Capacities :
         full = FixedSpan(c) \/ \E o \in Starts : full = FixedSpanAt(c, o)
  BY DEF Init
<1>2. c \in Nat /\ \A o \in Starts : o \in Nat
  BY MirrorAssumption
<1>3. Valid(full) /\ full.fixed /\ full.cap = c
  <2>1. CASE full = FixedSpan(c)
    BY <1>2, <2>1, SpanValid
  <2>2. ASSUME NEW o \in Starts, full = FixedSpanAt(c, o) PROVE Valid(full) /\ full.fixed /\ full.cap = c
    BY <1>2, <2>2, SpanValid
  <2>3. QED
    BY <1>1, <2>1, <2>2
<1>4. mixed = full
  BY DEF Init
<1>5. QED
  BY <1>3, <1>4, TwinOfItself DEF MirrorInv

\* A pair of calls whose every form keeps twins keeps the invariant.
LEMMA BothKeepInv ==
  ASSUME MirrorInv, NEW g, NEW k, NEW l, Both(g, k, l),
         TwinsAfter(full, g, k), TwinsAfter(full, g, l)
  PROVE  MirrorInv'
<1>1. full' = g /\ (mixed' = k \/ mixed' = l)
  BY DEF Both
<1>2. Twins(full', mixed') /\ full'.cap \in Capacities
  BY <1>1 DEF TwinsAfter, MirrorInv
<1>3. QED
  BY <1>2 DEF MirrorInv, Twins, Valid, ModeFields, InSpan

LEMMA MirrorNext == MirrorInv /\ [Next]_vars => MirrorInv'
<1> SUFFICES ASSUME MirrorInv, [Next]_vars PROVE MirrorInv'
  OBVIOUS
<1> USE RoomForACall
<1>1. ASSUME NEW s \in Sizes, Primitive(s) PROVE MirrorInv'
  <2>1. Both(WritePrimitive(full, s), WritePrimitive(mixed, s), Skip(mixed, s))
    BY <1>1 DEF Primitive
  <2>2. /\ TwinsAfter(full, WritePrimitive(full, s), WritePrimitive(mixed, s))
        /\ TwinsAfter(full, WritePrimitive(full, s), Skip(mixed, s))
    BY PrimitiveTwins
  <2>3. QED
    BY <2>1, <2>2, BothKeepInv
<1>2. ASSUME NEW n \in Chars, String(n) PROVE MirrorInv'
  <2>1. Both(WriteString(full, n), WriteString(mixed, n), SkipString(mixed, n))
    BY <1>2 DEF String
  <2>2. /\ TwinsAfter(full, WriteString(full, n), WriteString(mixed, n))
        /\ TwinsAfter(full, WriteString(full, n), SkipString(mixed, n))
    BY StringTwins
  <2>3. QED
    BY <2>1, <2>2, BothKeepInv
<1>3. ASSUME NEW n \in Chars, WString(n) PROVE MirrorInv'
  <2>1. Both(WriteWString(full, n), WriteWString(mixed, n), SkipWString(mixed, n))
    BY <1>3 DEF WString
  <2>2. /\ TwinsAfter(full, WriteWString(full, n), WriteWString(mixed, n))
        /\ TwinsAfter(full, WriteWString(full, n), SkipWString(mixed, n))
    BY WStringTwins
  <2>3. QED
    BY <2>1, <2>2, BothKeepInv
<1>4. ASSUME NEW s \in Sizes, NEW n \in Counts, Array(s, n) PROVE MirrorInv'
  <2>1. Both(WriteArray(full, s, n), WriteArray(mixed, s, n), SkipArray(mixed, s, n))
    BY <1>4 DEF Array
  <2>2. /\ TwinsAfter(full, WriteArray(full, s, n), WriteArray(mixed, s, n))
        /\ TwinsAfter(full, WriteArray(full, s, n), SkipArray(mixed, s, n))
    BY ArrayTwins
  <2>3. QED
    BY <2>1, <2>2, BothKeepInv
<1>5. ASSUME NEW s \in Sizes, NEW n \in Counts, Sequence(s, n) PROVE MirrorInv'
  <2>1. Both(WriteSequence(full, s, n), WriteSequence(mixed, s, n), SkipSequence(mixed, s, n))
    BY <1>5 DEF Sequence, SequenceByElement, SequenceInBulk, SequenceWritten
  <2>2. /\ TwinsAfter(full, WriteSequence(full, s, n), WriteSequence(mixed, s, n))
        /\ TwinsAfter(full, WriteSequence(full, s, n), SkipSequence(mixed, s, n))
    BY SequenceTwins
  <2>3. QED
    BY <2>1, <2>2, BothKeepInv
<1>6. CASE BeginSequence
  <2>1. Both(BeginWriteSequence(full), BeginWriteSequence(mixed), BeginSkipSequence(mixed))
    BY <1>6 DEF BeginSequence
  <2>2. QED
    BY <2>1, BeginTwins, BothKeepInv
<1>7. CASE BeginStruct
  <2>1. Both(BeginWriteStruct(full), BeginWriteStruct(mixed), BeginWriteArray(mixed))
    BY <1>7 DEF BeginStruct
  <2>2. QED
    BY <2>1, BeginTwins, BothKeepInv
<1>8. CASE End
  <2>1. Both(Pop(full), Pop(mixed), Pop(mixed))
    BY <1>8 DEF End, EndWrite
  <2>2. QED
    BY <2>1, PopTwins, BothKeepInv
<1>9. CASE StartOver
  <2>1. Both(Reset(full), Reset(mixed), Reset(mixed))
    BY <1>9 DEF StartOver
  <2>2. QED
    BY <2>1, ResetTwins, BothKeepInv
<1>10. CASE UNCHANGED vars
  BY <1>10 DEF vars, MirrorInv, Twins, Valid, ModeFields, InSpan
<1>11. QED
  BY <1>1, <1>2, <1>3, <1>4, <1>5, <1>6, <1>7, <1>8, <1>9, <1>10 DEF Next

LEMMA MirrorInvariant == Spec => []MirrorInv
BY MirrorInit, MirrorNext, PTL DEF Spec

--------------------------------------------------------------------------------
(***************************************************************************)
(* The skip calls of XCdrWriter mirror its write calls: after any sequence *)
(* of calls on any span, the writer that skipped some fields has the       *)
(* position, error flag and open contexts of the one that wrote them all.  *)
(***************************************************************************)
THEOREM SkipsMirrorWrites == Spec => []Mirrors
<1>1. MirrorInv => Mirrors
  BY DEF MirrorInv, Twins, Mirrors
<1>2. QED
  BY <1>1, MirrorInvariant, PTL

(***************************************************************************)
(* A writer that skipped some fields has stored to no byte of the span     *)
(* that writing all of them would leave alone.                             *)
(***************************************************************************)
THEOREM SkipsStoreNoMore == Spec => []StoresNoMore
<1>1. MirrorInv => StoresNoMore
  BY DEF MirrorInv, Twins, StoresNoMore
<1>2. QED
  BY <1>1, MirrorInvariant, PTL

--------------------------------------------------------------------------------
(***************************************************************************)
(* The inductive invariant of a followed writer: as long as there was no   *)
(* error, the reader is where the writer's data goes on, be it behind the  *)
(* header that is still to be written, with as many contexts open.         *)
(***************************************************************************)
Follows(r, x) ==
  r \in ReaderType
    /\ IF r.ok THEN r.pos = DataPlace(x) /\ r.depth = x.depth ELSE ~r.native

FollowInv ==
  /\ MirrorInv
  /\ reader \in ReaderType
  /\ ~full.overflow /\ ~strayed => Follows(reader, full)

LEMMA FollowInit == Init => FollowInv
<1> SUFFICES ASSUME Init PROVE FollowInv
  OBVIOUS
<1>1. MirrorInv
  BY MirrorInit
<1>2. full.pos \in Nat /\ full.depth = 0
  <2>1. full \in WriterType
    BY <1>1 DEF MirrorInv, Twins, Valid
  <2>2. full.depth = 0
    BY DEF Init, FixedSpan, FixedSpanAt, Growing
  <2>3. QED
    BY <2>1, <2>2 DEF WriterType
<1>3. PICK native \in BOOLEAN :
         reader = [Wrap(HeaderSize, native) EXCEPT !.pos = IF full.header THEN full.pos ELSE @]
  BY DEF Init
<1>4. reader = [Wrap(HeaderSize, native) EXCEPT !.pos = DataPlace(full)]
  <2>1. Wrap(HeaderSize, native).pos = HeaderSize
    BY WrapTyped
  <2>2. QED
    BY <1>3, <2>1 DEF DataPlace
<1>5. DataPlace(full) \in Nat
  BY <1>2 DEF DataPlace, HeaderSize
<1>6. reader \in ReaderType /\ reader.ok /\ reader.pos = DataPlace(full) /\ reader.depth = full.depth
  <2> DEFINE r == Wrap(HeaderSize, native)
  <2>1. r \in ReaderType /\ r.ok /\ r.depth = 0
    BY WrapTyped
  <2> HIDE DEF r
  <2>2. QED
    BY <1>2, <1>4, <1>5, <2>1 DEF ReaderType, r
<1>7. QED
  BY <1>1, <1>6 DEF FollowInv, Follows

(***************************************************************************)
(* Behind a call of the writer that met no error the reader has the bytes  *)
(* of that field and no others left; once it has read them it has followed.*)
(***************************************************************************)
LEMMA ReaderThere ==
  ASSUME FollowInv, ~strayed, reader.ok, NEW p, NEW d, NEW g, full' = g, Valid(g),
         Wrote(full, g, p, d)
  PROVE  /\ Reader \in ReaderType /\ Reader.ok /\ Reader.pos = DataPlace(full)
         /\ Reader.depth = full.depth /\ Reader.size = p
         /\ \A y : ReadAll(Reader, y, d) => Follows(y, g)
<1>1. Reader = [reader EXCEPT !.size = p]
  BY DEF Reader, Wrote
<1>2. p \in Nat /\ DataPlace(g) = p /\ g.depth = d
  BY DEF Wrote, Valid, WriterType, DataPlace
<1>3. reader \in ReaderType /\ reader.pos = DataPlace(full) /\ reader.depth = full.depth
  BY DEF FollowInv, Follows, Wrote
<1> DEFINE r == Reader
<1>4. /\ r \in ReaderType /\ r.ok /\ r.pos = DataPlace(full)
      /\ r.depth = full.depth /\ r.size = p
  BY <1>1, <1>2, <1>3 DEF ReaderType
<1> HIDE DEF r
<1>5. \A y : ReadAll(r, y, d) => Follows(y, g)
  BY <1>2, <1>4 DEF ReadAll, Follows
<1>6. QED
  BY <1>4, <1>5 DEF r

LEMMA ReadsKeepInv ==
  ASSUME FollowInv, MirrorInv', NEW g, full' = g, NEW forms, Reads(forms),
         strayed => strayed', ~g.overflow => ~full.overflow,
         ~g.overflow /\ ~strayed' /\ reader.ok => \A r \in forms : Follows(r, g)
  PROVE  FollowInv'
<1> DEFINE rd == reader'
<1>1. CASE g.overflow \/ strayed' \/ ~reader.ok
  <2>1. rd = reader
    BY <1>1 DEF Reads
  <2>2. rd \in ReaderType
    BY <2>1 DEF FollowInv
  <2>3. ~g.overflow /\ ~strayed' => Follows(rd, g)
    BY <1>1, <2>1 DEF FollowInv, Follows
  <2>4. QED
    BY <2>2, <2>3 DEF FollowInv, Follows, DataPlace
<1>2. CASE ~(g.overflow \/ strayed' \/ ~reader.ok)
  <2>1. PICK r \in forms : rd = [r EXCEPT !.got = 0]
    BY <1>2 DEF Reads
  <2>2. Follows(r, g)
    BY <1>2, <2>1
  <2>3. Follows(rd, g)
    BY <2>1, <2>2 DEF Follows, ReaderType
  <2>4. rd \in ReaderType
    BY <2>3 DEF Follows
  <2>5. QED
    BY <2>3, <2>4 DEF FollowInv, Follows, DataPlace
<1>3. QED
  BY <1>1, <1>2

\* The calls that move the writer by a field of its own.
LEMMA FieldKeepsFollow ==
  ASSUME FollowInv, MirrorInv', NEW p, NEW d, NEW g, full' = g, NEW forms, Reads(forms),
         strayed => strayed',
         ~g.overflow => Wrote(full, g, p, d),
         ~g.overflow /\ ~strayed' /\ reader.ok /\ Reader \in ReaderType /\ Reader.ok
           /\ Reader.pos = DataPlace(full) /\ Reader.depth = full.depth /\ Reader.size = p
           => \A y \in forms : ReadAll(Reader, y, d)
  PROVE  FollowInv'
<1>1. Valid(g)
  BY DEF MirrorInv, Twins
<1>2. ~g.overflow => ~full.overflow
  BY DEF Wrote
<1>3. ASSUME ~g.overflow, ~strayed', reader.ok
      PROVE  \A y \in forms : Follows(y, g)
  BY <1>1, <1>3, ReaderThere
<1>4. QED
  BY <1>2, <1>3, ReadsKeepInv

LEMMA FollowNext == FollowInv /\ [Next]_vars => FollowInv'
<1> SUFFICES ASSUME FollowInv, [Next]_vars PROVE FollowInv'
  OBVIOUS
<1>1. MirrorInv /\ MirrorInv'
  BY MirrorNext DEF FollowInv
<1> DEFINE at == DataPlace(full)
<1>2. /\ Valid(full) /\ full.fixed /\ full.cap + 64 <= SizeMax /\ Valid(full')
      /\ full.pos \in Nat /\ full.depth \in Nat /\ at \in Nat
  BY <1>1, RoomForACall DEF MirrorInv, Twins, Valid, WriterType, DataPlace, HeaderSize
<1>3. \A m \in Nat : m <= NumberMax => Prefix(m) = WireAt(at, m)
  <2> SUFFICES ASSUME NEW m \in Nat, m <= NumberMax PROVE Prefix(m) = WireAt(at, m)
    OBVIOUS
  <2>1. AsUint32(m) = m
    BY LengthsStored
  <2>2. QED
    BY <2>1 DEF Prefix, WireAt, DataPlace
<1> HIDE DEF at
<1>0. /\ \A n \in Chars : n + 1 <= NumberMax /\ 2 * (n + 1) <= NumberMax
      /\ \A n \in Counts : n <= NumberMax
      /\ NoNumber \in Nat /\ NoNumber <= NumberMax
  BY MirrorNumberAssumption, MirrorAssumption, NumberAssumption DEF NoNumber
<1>4. /\ \A n \in Chars : n \in Nat
      /\ \A s \in Sizes : s \in PrimitiveSizes
      /\ \A s \in Sizes, n \in Counts : n \in Nat /\ full.cap + s * n + 64 <= SizeMax
  BY <1>1, RoomForACall
<1>5. ASSUME NEW s \in Sizes, Primitive(s) PROVE FollowInv'
  <2> DEFINE g == WritePrimitive(full, s)
             p == DataAlign(at, s) + s
             form == ReadPrimitive(Reader, s)
  <2>1. full' = g /\ strayed' = strayed /\ Reads({form})
    BY <1>5 DEF Primitive, Both
  <2>2. ~g.overflow => Wrote(full, g, p, full.depth)
    BY <1>2, <1>4, PrimitivePlace DEF at
  <2>3. Reader \in ReaderType /\ Reader.ok /\ Reader.pos = at /\ Reader.depth = full.depth
          /\ Reader.size = p => ReadAll(Reader, form, full.depth)
    BY <1>4, PrimitiveRead
  <2> HIDE DEF g, p, form
  <2>4. QED
    BY <1>1, <2>1, <2>2, <2>3, FieldKeepsFollow DEF at
<1>6. ASSUME NEW n \in Chars, String(n) PROVE FollowInv'
  <2> DEFINE g == WriteString(full, n)
             p == PrefixEnd(at) + (n + 1)
             form == ReadString(Reader, Prefix(n + 1), NoNumber)
  <2>1. full' = g /\ strayed' = strayed /\ Reads({form})
    BY <1>6 DEF String, Both
  <2>2. ~g.overflow => Wrote(full, g, p, full.depth)
    BY <1>2, <1>4, StringPlace DEF at
  <2>3. Reader \in ReaderType /\ Reader.ok /\ Reader.pos = at /\ Reader.depth = full.depth
          /\ Reader.size = p => ReadAll(Reader, form, full.depth)
    BY <1>0, <1>3, <1>4, StringRead
  <2> HIDE DEF g, p, form
  <2>4. QED
    BY <1>1, <2>1, <2>2, <2>3, FieldKeepsFollow DEF at
<1>7. ASSUME NEW n \in Chars, WString(n) PROVE FollowInv'
  <2> DEFINE g == WriteWString(full, n)
             p == PrefixEnd(at) + 2 * (n + 1)
             form == ReadWString(Reader, Prefix(2 * (n + 1)), NoNumber)
  <2>1. full' = g /\ strayed' = strayed /\ Reads({form})
    BY <1>7 DEF WString, Both
  <2>2. ~g.overflow => Wrote(full, g, p, full.depth)
    BY <1>2, <1>4, WStringPlace DEF at
  <2>3. Reader \in ReaderType /\ Reader.ok /\ Reader.pos = at /\ Reader.depth = full.depth
          /\ Reader.size = p => ReadAll(Reader, form, full.depth)
    BY <1>0, <1>3, <1>4, WStringRead
  <2> HIDE DEF g, p, form
  <2>4. QED
    BY <1>1, <2>1, <2>2, <2>3, FieldKeepsFollow DEF at
<1>8. ASSUME NEW s \in Sizes, NEW n \in Counts, Array(s, n) PROVE FollowInv'
  <2> DEFINE g == WriteArray(full, s, n)
             p == ElementsEnd(at, s, n)
             forms == {ReadEach(BeginReadArray(Reader), s, n)}
                        \cup IF n = 0 THEN {}
                             ELSE {ReadFixedSpan(Reader, s, n), ReadStdArray(Reader, s, n)}
  <2>1. full' = g /\ strayed' = strayed /\ Reads(forms)
    BY <1>8 DEF Array, Both
  <2>2. ~g.overflow => Wrote(full, g, p, full.depth)
    BY <1>2, <1>4, ArrayPlace DEF at
  <2>3. Reader \in ReaderType /\ Reader.ok /\ Reader.pos = at /\ Reader.depth = full.depth
          /\ Reader.size = p => \A y \in forms : ReadAll(Reader, y, full.depth)
    BY <1>4, ArrayRead
  <2> HIDE DEF g, p, forms
  <2>4. QED
    BY <1>1, <2>1, <2>2, <2>3, FieldKeepsFollow DEF at
<1>9. ASSUME NEW s \in Sizes, NEW n \in Counts, SequenceByElement(s, n) PROVE FollowInv'
  <2> DEFINE g == WriteSequence(full, s, n)
             p == ElementsEnd(PrefixEnd(at), s, n)
             form == ReadSequenceByElement(Reader, s, Prefix(n), NoNumber)
  <2>1. full' = g /\ strayed' = strayed /\ Reads({form})
    BY <1>9 DEF SequenceByElement, SequenceWritten, Both
  <2>2. ~g.overflow => Wrote(full, g, p, full.depth)
    BY <1>2, <1>4, SequencePlace DEF at
  <2>3. Reader \in ReaderType /\ Reader.ok /\ Reader.pos = at /\ Reader.depth = full.depth
          /\ Reader.size = p => ReadAll(Reader, form, full.depth)
    BY <1>0, <1>3, <1>4, SequenceRead
  <2> HIDE DEF g, p, form
  <2>4. QED
    BY <1>1, <2>1, <2>2, <2>3, FieldKeepsFollow DEF at
<1>10. ASSUME NEW s \in Sizes, NEW n \in Counts, SequenceInBulk(s, n) PROVE FollowInv'
  <2> DEFINE g == WriteSequence(full, s, n)
             p == ElementsEnd(PrefixEnd(at), s, n)
             forms == {ReadSpan(Reader, s, Prefix(n), NoNumber),
                       ReadVector(Reader, s, Prefix(n), NoNumber)}
  <2>1. full' = g /\ Reads(forms) /\ strayed' = (strayed \/ (n = 0 /\ DataAlign(g.pos, s) # g.pos))
    BY <1>10 DEF SequenceInBulk, SequenceWritten, Both
  <2>2. ~g.overflow => Wrote(full, g, p, full.depth)
    BY <1>2, <1>4, SequencePlace DEF at
  <2>3. ~g.overflow /\ ~strayed' => n # 0 \/ DataAlign(p, s) = p
    BY <2>1, <2>2 DEF Wrote
  <2>4. Reader \in ReaderType /\ Reader.ok /\ Reader.pos = at /\ Reader.depth = full.depth
          /\ Reader.size = p /\ (n # 0 \/ DataAlign(p, s) = p)
          => \A y \in forms : ReadAll(Reader, y, full.depth)
    BY <1>0, <1>3, <1>4, SequenceRead
  <2> HIDE DEF g, p, forms
  <2>5. QED
    BY <1>1, <2>1, <2>2, <2>3, <2>4, FieldKeepsFollow DEF at
<1>11. CASE BeginSequence
  <2> DEFINE g == BeginWriteSequence(full)
             p == PrefixEnd(at)
             form == BeginReadSequence(Reader, Prefix(NoNumber), NoNumber)
  <2>1. full' = g /\ strayed' = strayed /\ Reads({form})
    BY <1>11 DEF BeginSequence, Both
  <2>2. ~g.overflow => Wrote(full, g, p, full.depth + 1)
    BY <1>2, BeginPlace DEF at
  <2>3. Reader \in ReaderType /\ Reader.ok /\ Reader.pos = at /\ Reader.depth = full.depth
          /\ Reader.size = p => ReadAll(Reader, form, full.depth + 1)
    BY <1>0, <1>3, BeginRead DEF NoNumber
  <2> HIDE DEF g, p, form
  <2>4. QED
    BY <1>1, <2>1, <2>2, <2>3, FieldKeepsFollow DEF at
<1>12. CASE BeginStruct
  <2> DEFINE g == BeginWriteStruct(full)
             forms == {BeginReadStruct(Reader), BeginReadArray(Reader)}
  <2>1. full' = g /\ strayed' = strayed /\ Reads(forms)
    BY <1>12 DEF BeginStruct, Both
  <2>2. ~g.overflow => Wrote(full, g, at, full.depth + 1)
    BY <1>2, BeginPlace DEF at
  <2>3. Reader \in ReaderType /\ Reader.ok /\ Reader.pos = at /\ Reader.depth = full.depth
          /\ Reader.size = at => \A y \in forms : ReadAll(Reader, y, full.depth + 1)
    BY BeginRead
  <2> HIDE DEF g, forms
  <2>4. QED
    BY <1>1, <2>1, <2>2, <2>3, FieldKeepsFollow DEF at
<1>13. CASE End
  <2> DEFINE g == Pop(full)
             form == IF full.depth = 0 THEN reader ELSE EndRead(Reader)
  <2>1. full' = g /\ strayed' = strayed /\ Reads({form})
    BY <1>13 DEF End, EndWrite, Both
  <2>2. /\ g.overflow = full.overflow /\ DataPlace(g) = at
        /\ g.depth = IF full.depth = 0 THEN 0 ELSE full.depth - 1
    BY <1>2, PopFields DEF DataPlace, at
  <2>3. ASSUME ~g.overflow, ~strayed', reader.ok PROVE Follows(form, g)
    <3>1. reader \in ReaderType /\ reader.pos = at /\ reader.depth = full.depth
      BY <2>1, <2>2, <2>3 DEF FollowInv, Follows, at
    <3>2. CASE full.depth = 0
      BY <2>2, <2>3, <3>1, <3>2 DEF Follows
    <3>3. CASE full.depth # 0
      <4> DEFINE r == Reader
      <4>1. g.pos \in Nat
        BY <1>2, PopFields
      <4>2. r = [reader EXCEPT !.size = g.pos]
        BY <2>1 DEF Reader
      <4>3. r \in ReaderType /\ r.ok /\ r.pos = at /\ r.depth = full.depth
        BY <2>3, <3>1, <4>1, <4>2 DEF ReaderType
      <4> HIDE DEF r
      <4>4. Reached(r, EndRead(r), at, full.depth - 1)
        BY <3>3, <4>3, EndReadReaches
      <4>5. QED
        BY <2>2, <3>3, <4>4 DEF Reached, Follows, r
    <3>4. QED
      BY <3>2, <3>3
  <2> HIDE DEF g, form
  <2>4. QED
    BY <1>1, <2>1, <2>2, <2>3, ReadsKeepInv
<1>14. CASE StartOver
  <2> DEFINE x == full'
             r == reader'
  <2>1. x = Reset(full) /\ r = Wrap(HeaderSize, reader.native)
    BY <1>14 DEF StartOver, Both, ResetReader
  <2>2. x.header = FALSE /\ x.depth = 0
    BY <1>2, <2>1 DEF Reset, Valid, WriterType
  <2>3. r \in ReaderType /\ r.ok /\ r.pos = HeaderSize /\ r.depth = 0
    BY <2>1, WrapTyped DEF FollowInv, ReaderType
  <2>4. DataPlace(x) = HeaderSize
    BY <2>2 DEF DataPlace
  <2>5. Follows(r, x)
    BY <2>2, <2>3, <2>4 DEF Follows
  <2>6. QED
    BY <1>1, <2>3, <2>5 DEF FollowInv, Follows, DataPlace
<1>15. CASE UNCHANGED vars
  BY <1>1, <1>15 DEF vars, FollowInv, Follows, DataPlace
<1>16. QED
  BY <1>5, <1>6, <1>7, <1>8, <1>9, <1>10, <1>11, <1>12, <1>13, <1>14, <1>15
     DEF Next, Sequence

(***************************************************************************)
(* XCdrReader finds every field where XCdrWriter put it: whatever fields   *)
(* were written over a span of any size, their numbers fitting 32-bit      *)
(* prefixes (MirrorNumberAssumption), in whichever of its forms the reader *)
(* takes each, it is where the writer is, with as many contexts open, and  *)
(* only a system of the other endianness refuses it anything.              *)
(* The exception is a bulk read of an empty sequence of wider elements.    *)
(***************************************************************************)
THEOREM ReaderAlwaysFollows == Spec => []ReaderFollows
<1>1. FollowInv => ReaderFollows
  BY DEF FollowInv, Follows, ReaderFollows, DataPlace
<1>2. QED
  BY <1>1, FollowInit, FollowNext, PTL DEF Spec
================================================================================
