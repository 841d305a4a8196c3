----------------------------- MODULE XcdrWriterOps -----------------------------
(***************************************************************************)
(* XCdrWriter as a record and its public operations as functions from the  *)
(* record before a call to the record after it. Field values are           *)
(* abstracted to the set of buffer offsets that a call stores to; every    *)
(* position, size, early return and error flag is kept.                    *)
(*                                                                         *)
(*   fixed     is_fixed_mode_: writes go to a caller's span                *)
(*   cap       fixed_span_.size()                                          *)
(*   pos       write_position_ (moves in fixed mode only)                  *)
(*   size      buffer_.size() (moves in growing mode only)                 *)
(*   overflow  overflow_error_                                             *)
(*   header    header_written_                                             *)
(*   depth     context_stack_.size(); the entries are never read           *)
(*   stored    the offsets stored to since construction or reset (history) *)
(***************************************************************************)
EXTENDS XcdrAlign

CONSTANT SizeMax   \* SIZE_MAX: sums and products of size_t wrap above it

ASSUME SizeMaxAssumption == SizeMax \in Nat \ {0}

\* size_t addition of two representable values.
Plus(x, y) == IF x + y <= SizeMax THEN x + y ELSE x + y - (SizeMax + 1)

Offsets(from, n) == from .. (from + n - 1)

WriterType ==
  [fixed : BOOLEAN, cap : Nat, pos : Nat, size : Nat, overflow : BOOLEAN,
   header : BOOLEAN, depth : Nat, stored : SUBSET Nat]

--------------------------------------------------------------------------------
(* Construction *)

Growing ==
  [fixed |-> FALSE, cap |-> 0, pos |-> 0, size |-> 0, overflow |-> FALSE,
   header |-> FALSE, depth |-> 0, stored |-> {}]

FixedSpan(capacity) == [Growing EXCEPT !.fixed = TRUE, !.cap = capacity]

\* The header is taken to be in the span already.
FixedSpanAt(capacity, start) ==
  [FixedSpan(capacity) EXCEPT
     !.header   = TRUE,
     !.overflow = start > capacity,
     !.pos      = IF start > capacity THEN 0 ELSE start]

--------------------------------------------------------------------------------
(* Positions, stores and the context stack *)

Cursor(w) == IF w.fixed THEN w.pos ELSE w.size

MoveTo(w, c) == IF w.fixed THEN [w EXCEPT !.pos = c] ELSE [w EXCEPT !.size = c]

Fits(w, end) == w.fixed => end <= w.cap

Fail(w) == [w EXCEPT !.overflow = TRUE]

\* A store of the n bytes that end at the cursor.
StoreLast(w, n) == [w EXCEPT !.stored = @ \cup Offsets(Cursor(w) - n, n)]

Push(w) == [w EXCEPT !.depth = @ + 1]

\* Mutant: pop() without the emptiness test.
PopUnchecked(w) == [w EXCEPT !.depth = @ - 1]

Pop(w) == IF w.depth = 0 THEN w ELSE [w EXCEPT !.depth = @ - 1]

\* The header goes to the front of the span or of the buffer, once.
EnsureHeaderWritten(w) ==
  IF w.overflow \/ w.header THEN w
  ELSE IF Fits(w, HeaderSize)
       THEN [StoreLast(MoveTo(w, HeaderSize), HeaderSize) EXCEPT !.header = TRUE]
       ELSE [Fail(w) EXCEPT !.header = TRUE]

\* Mutant: the bounds check forgets the padding.
AlignAndReservePaddingUnchecked(w, alignment, n) ==
  LET end == Plus(DataAlign(Cursor(w), alignment), n)
  IN IF w.overflow THEN w
     ELSE IF ~Fits(w, Plus(Cursor(w), n)) THEN Fail(w)
     ELSE [MoveTo(w, end) EXCEPT !.stored = @ \cup (Cursor(w) .. (end - n - 1))]

(***************************************************************************)
(* Reserve aligned room. A fixed span gets zeros in the padding only, a    *)
(* growing buffer gets them in everything resize() adds.                   *)
(***************************************************************************)
AlignAndReserve(w, alignment, n) ==
  LET aligned == DataAlign(Cursor(w), alignment)
      end     == Plus(aligned, n)
      zeroed  == IF w.fixed THEN aligned ELSE end
  IN IF w.overflow THEN w
     ELSE IF ~Fits(w, end) THEN Fail(w)
     ELSE [MoveTo(w, end) EXCEPT !.stored = @ \cup (Cursor(w) .. (zeroed - 1))]

\* resize() of a growing buffer: what it adds is zero, and gone is what it cuts
\* off, if the sum that led to the new size has wrapped.
Resize(w, end) ==
  [MoveTo(w, end) EXCEPT !.stored = {o \in @ : o < end} \cup (Cursor(w) .. (end - 1))]

\* Mutant: the advance forgets to align.
SkipAdvanceUnaligned(w, alignment, n) ==
  LET end == Plus(Cursor(w), n)
  IN IF w.overflow THEN w
     ELSE IF ~Fits(w, end) THEN Fail(w)
     ELSE IF w.fixed THEN MoveTo(w, end) ELSE Resize(w, end)

\* Mutant: the padding is zeroed before the bounds check, as if by a write.
SkipAdvanceZeroesFirst(w, alignment, n) ==
  LET aligned == DataAlign(Cursor(w), alignment)
      end     == Plus(aligned, n)
      padded  == [w EXCEPT !.stored = @ \cup (Cursor(w) .. (aligned - 1))]
  IN IF w.overflow THEN w
     ELSE IF ~Fits(w, end) THEN Fail(padded)
     ELSE MoveTo(padded, end)

\* The same advance with nothing stored to a fixed span.
SkipAdvance(w, alignment, n) ==
  LET end == Plus(DataAlign(Cursor(w), alignment), n)
  IN IF w.overflow THEN w
     ELSE IF ~Fits(w, end) THEN Fail(w)
     ELSE IF w.fixed THEN MoveTo(w, end) ELSE Resize(w, end)

\* Mutant: the padding is left as the span held it.
ReserveAndStorePaddingKept(w, alignment, n) ==
  LET r == AlignAndReserve(w, alignment, n)
  IN IF r.overflow THEN r ELSE StoreLast([r EXCEPT !.stored = w.stored], n)

\* Reserve and, unless that failed, store the n bytes reserved.
ReserveAndStore(w, alignment, n) ==
  LET r == AlignAndReserve(w, alignment, n)
  IN IF r.overflow THEN r ELSE StoreLast(r, n)

--------------------------------------------------------------------------------
(* Writing *)

WritePrimitive(w, s) == ReserveAndStore(EnsureHeaderWritten(w), s, s)

\* Mutant: the characters follow whether or not the prefix fitted.
WriteStringPrefixUnchecked(w, chars) ==
  LET p   == ReserveAndStore(EnsureHeaderWritten(w), PrefixSize, PrefixSize)
      end == Cursor(p) + chars + 1
  IN IF ~Fits(p, end) THEN Fail(p) ELSE StoreLast(MoveTo(p, end), chars + 1)

\* The prefix is stored before the characters are known to fit.
WriteString(w, chars) ==
  LET p   == ReserveAndStore(EnsureHeaderWritten(w), PrefixSize, PrefixSize)
      end == Cursor(p) + chars + 1
  IN IF p.overflow THEN p
     ELSE IF ~Fits(p, end) THEN Fail(p)
     ELSE StoreLast(MoveTo(p, end), chars + 1)

(***************************************************************************)
(* char16_t units (terminator included) go out one by one until one does   *)
(* not fit; behind a 4-aligned prefix aligning each to 2 moves nothing.    *)
(***************************************************************************)
UnitsThatFit(w, units) ==
  IF Fits(w, Cursor(w) + 2 * units) THEN units ELSE (w.cap - Cursor(w)) \div 2

WriteWString(w, chars) ==
  LET p == ReserveAndStore(EnsureHeaderWritten(w), PrefixSize, PrefixSize)
      k == UnitsThatFit(p, chars + 1)
  IN IF p.overflow THEN p
     ELSE [StoreLast(MoveTo(p, Cursor(p) + 2 * k), 2 * k)
             EXCEPT !.overflow = k < chars + 1]

BeginWriteArray(w) == Push(EnsureHeaderWritten(w))

BeginWriteStruct(w) == Push(EnsureHeaderWritten(w))

\* No context is pushed when the prefix does not fit.
BeginWriteSequence(w) ==
  LET p == ReserveAndStore(EnsureHeaderWritten(w), PrefixSize, PrefixSize)
  IN IF p.overflow THEN p ELSE Push(p)

\* Every end_write_* pops whatever is on top.
EndWrite(w) == Pop(w)

\* An empty span neither aligns nor writes.
WritePodSpan(w, s, count) ==
  IF count = 0 THEN w ELSE ReserveAndStore(EnsureHeaderWritten(w), s, s * count)

WriteArray(w, s, count) == EndWrite(WritePodSpan(BeginWriteArray(w), s, count))

WriteSequence(w, s, count) == EndWrite(WritePodSpan(BeginWriteSequence(w), s, count))

--------------------------------------------------------------------------------
(* Skipping: the same positions, nothing stored to a fixed span *)

Skip(w, s) == SkipAdvance(EnsureHeaderWritten(w), s, s)

SkipString(w, chars) ==
  SkipAdvance(SkipAdvance(EnsureHeaderWritten(w), PrefixSize, PrefixSize), 1, chars + 1)

SkipWString(w, chars) ==
  LET p == SkipAdvance(EnsureHeaderWritten(w), PrefixSize, PrefixSize)
      k == UnitsThatFit(p, chars + 1)
      zeroed == IF p.fixed THEN {} ELSE Offsets(Cursor(p), 2 * k)
  IN IF p.overflow THEN p
     ELSE [MoveTo(p, Cursor(p) + 2 * k)
             EXCEPT !.overflow = k < chars + 1, !.stored = @ \cup zeroed]

BeginSkipSequence(w) ==
  LET p == SkipAdvance(EnsureHeaderWritten(w), PrefixSize, PrefixSize)
  IN IF p.overflow THEN p ELSE Push(p)

\* Guarded against a product above SIZE_MAX; a zero count does not align.
SkipArray(w, s, count) ==
  LET h == EnsureHeaderWritten(w)
  IN IF h.overflow \/ count = 0 THEN h
     ELSE IF count > SizeMax \div s THEN Fail(h)
     ELSE SkipAdvance(h, s, s * count)

\* Unlike WriteSequence, a failure leaves the stack as it is.
SkipSequence(w, s, count) ==
  LET b == BeginSkipSequence(w)
      a == IF b.overflow THEN b ELSE SkipArray(b, s, count)
  IN IF a.overflow THEN a ELSE EndWrite(a)

--------------------------------------------------------------------------------
(* Inspection and reuse *)

HasError(w) == w.overflow

BytesWritten(w) == w.pos

\* data(): the span or the buffer up to here.
DataSize(w) == Cursor(w)

\* Mutant: the context stack survives.
ResetKeepsContexts(w) ==
  [w EXCEPT !.size = 0, !.header = FALSE, !.overflow = FALSE, !.pos = 0, !.stored = {}]

\* Also what flush() leaves behind once it has moved the buffer out.
Reset(w) ==
  [w EXCEPT !.size = 0, !.header = FALSE, !.overflow = FALSE, !.pos = 0,
            !.depth = 0, !.stored = {}]
================================================================================
