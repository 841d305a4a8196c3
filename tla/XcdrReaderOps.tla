----------------------------- MODULE XcdrReaderOps -----------------------------
(***************************************************************************)
(* XCdrReader as a record and its calls as functions from the record       *)
(* before a call to the record after it. The bytes are abstracted to what  *)
(* steers the reader: `wire` maps an offset to the number a 4-byte prefix  *)
(* stored there holds; a prefix read anywhere else finds `noise`, what the *)
(* bytes there happen to say.                                              *)
(*                                                                         *)
(*   size   buffer_.size()                                                 *)
(*   pos    position_                                                      *)
(*   depth  context_stack_.size(); the entries are never read              *)
(*   native the buffer has the system's endianness                         *)
(*   ok     the status of the last call; the steps of a call after a       *)
(*          refused one do not happen                                      *)
(*   got    the number the last prefix held                                *)
(***************************************************************************)
EXTENDS LengthPrefix

\* wrap(): a buffer below the header size is refused, the header is consumed.
Wrap(size, native) ==
  [size |-> size, pos |-> IF size >= HeaderSize THEN HeaderSize ELSE 0, depth |-> 0,
   native |-> native, ok |-> size >= HeaderSize, got |-> 0]

\* reset(): from the start of another buffer; no context survives.
ResetReader(r, size) == Wrap(size, r.native)

Refuse(r) == [r EXCEPT !.ok = FALSE]

PushRead(r) == [r EXCEPT !.depth = @ + 1]

EndRead(r) ==
  IF ~r.ok THEN r
  ELSE IF r.depth = 0 THEN Refuse(r)
  ELSE [r EXCEPT !.depth = @ - 1]

\* Mutant: aligned to the buffer, not to the data behind the header.
AlignPositionAbsolute(r, a) ==
  IF ~r.ok THEN r
  ELSE IF AlignTo(r.pos, a) > r.size THEN Refuse(r)
  ELSE [r EXCEPT !.pos = AlignTo(r.pos, a)]

\* Mutant: the padding is not checked against the buffer.
AlignPositionUnchecked(r, a) ==
  IF ~r.ok THEN r ELSE [r EXCEPT !.pos = DataAlign(r.pos, a)]

AlignPosition(r, a) ==
  IF ~r.ok THEN r
  ELSE IF DataAlign(r.pos, a) > r.size THEN Refuse(r)
  ELSE [r EXCEPT !.pos = DataAlign(r.pos, a)]

\* Mutant: ensure_available() is left out.
TakeUnchecked(r, n) ==
  IF ~r.ok THEN r ELSE [r EXCEPT !.pos = @ + n]

\* ensure_available() and the advance behind it.
Take(r, n) ==
  IF ~r.ok THEN r
  ELSE IF r.pos + n > r.size THEN Refuse(r)
  ELSE [r EXCEPT !.pos = @ + n]

ReadPrimitive(r, s) == Take(AlignPosition(r, s), s)

NumberAt(wire, noise, at) == IF at \in DOMAIN wire THEN wire[at] ELSE noise

\* A length or count prefix; `got` is its number.
ReadPrefix(r, wire, noise) ==
  LET a == AlignPosition(r, PrefixSize)
      t == Take(a, PrefixSize)
  IN IF t.ok THEN [t EXCEPT !.got = NumberAt(wire, noise, a.pos)] ELSE t

\* The prefix stays consumed when what follows it is refused. That the last byte
\* is the terminator is left out: every writer stores one there. Among other bytes
\* this reader goes on where the code's may refuse.
ReadString(r, wire, noise) ==
  LET p == ReadPrefix(r, wire, noise)
  IN IF ~p.ok THEN p ELSE IF p.got = 0 THEN Refuse(p) ELSE Take(p, p.got)

ReadWString(r, wire, noise) ==
  LET p == ReadPrefix(r, wire, noise)
  IN IF ~p.ok THEN p
     ELSE IF p.got < 2 \/ p.got % 2 # 0 THEN Refuse(p)
     ELSE Take(p, p.got)

BeginReadArray(r) == IF r.ok THEN PushRead(r) ELSE r

BeginReadSequence(r, wire, noise) ==
  LET p == ReadPrefix(r, wire, noise)
  IN IF p.ok THEN PushRead(p) ELSE p

\* A struct counts no elements and consumes nothing.
BeginReadStruct(r) == IF r.ok THEN PushRead(r) ELSE r

\* Mutant: the elements are taken from right behind the prefix.
ReadBulkUnaligned(r, s, n) ==
  IF r.ok /\ ~r.native THEN Refuse(r) ELSE EndRead(Take(r, s * n))

\* A view of n elements: refused on foreign endianness. A failure leaves the
\* context open.
ReadBulk(r, s, n) ==
  IF r.ok /\ ~r.native THEN Refuse(r) ELSE EndRead(Take(AlignPosition(r, s), s * n))

\* A copy of n elements: their bytes are swapped where need be.
CopyBulk(r, s, n) == EndRead(Take(AlignPosition(r, s), s * n))

\* n elements one by one, as the client's loop or that over bool elements does.
ReadEach(r, s, n) ==
  LET after[k \in 0 .. n] == IF k = 0 THEN r ELSE ReadPrimitive(after[k - 1], s)
  IN EndRead(after[n])

ReadFixedSpan(r, s, n) == ReadBulk(BeginReadArray(r), s, n)

ReadStdArray(r, s, n) == CopyBulk(BeginReadArray(r), s, n)

\* Aligned to the element size whatever the count, none included.
ReadSpan(r, s, wire, noise) ==
  LET b == BeginReadSequence(r, wire, noise)
  IN ReadBulk(b, s, b.got)

\* Aligned like a span.
ReadVector(r, s, wire, noise) ==
  LET b == BeginReadSequence(r, wire, noise)
  IN CopyBulk(b, s, b.got)

\* begin_read_sequence(), one read for each element it announced, end_read_sequence().
ReadSequenceByElement(r, s, wire, noise) ==
  LET b == BeginReadSequence(r, wire, noise)
  IN ReadEach(b, s, IF b.ok THEN b.got ELSE 0)
================================================================================
