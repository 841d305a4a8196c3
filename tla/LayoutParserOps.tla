---------------------------- MODULE LayoutParserOps ----------------------------
(***************************************************************************)
(* XCdrLayoutParser: walks received bytes and has a builder allocate what  *)
(* it finds. Its own read position and the builder's offset are two        *)
(* counters that nothing compares. The generated callers ignore the status *)
(* of every call, so a call after a refused one does happen; `ok` is the   *)
(* status of the last call. The bytes are those of XcdrReaderOps: `wire`   *)
(* maps offsets to the numbers stored there, `noise` is found elsewhere.   *)
(***************************************************************************)
EXTENDS XcdrReaderOps, LayoutOps

NewParser(size) == [b |-> NewBuilder, pos |-> HeaderSize, size |-> size, ok |-> TRUE]

Refused(p) == [p EXCEPT !.ok = FALSE]

Accepted(p, b, pos) == [p EXCEPT !.b = b, !.pos = pos, !.ok = TRUE]

AlignReadOffset(p, a) == [p EXCEPT !.pos = DataAlign(@, a)]

BytesRemaining(p) == IF p.pos >= p.size THEN 0 ELSE p.size - p.pos

Available(p, n) == n <= BytesRemaining(p)

ParsePrimitive(p, s) ==
  LET a == AlignReadOffset(p, s)
  IN IF Available(a, s) THEN Accepted(a, Allocate(a.b, PrimitiveLayout(s)), a.pos + s)
     ELSE Refused(a)

\* The prefix stays consumed when the characters are refused.
ParseString(p, charSize, wire, noise) ==
  LET a == AlignReadOffset(p, PrefixSize)
      n == NumberAt(wire, noise, a.pos)
      c == [a EXCEPT !.pos = @ + PrefixSize]
  IN IF ~Available(a, PrefixSize) THEN Refused(a)
     ELSE IF n < charSize \/ ~Available(c, n) \/ n % charSize # 0 THEN Refused(c)
     ELSE Accepted(c, Allocate(c.b, StringLayout(n \div charSize - 1, charSize)), c.pos + n)

\* Neither array nor sequence elements are checked against the buffer.
ParsePrimitiveArray(p, s, count) ==
  Accepted(p, AllocateInOneShot(p.b, PrimitiveArrayLayout(s, count)),
           DataAlign(p.pos, s) + s * count)

\* A bound of 0 is none.
ParsePrimitiveSequence(p, s, bound, wire, noise) ==
  LET a == AlignReadOffset(p, PrefixSize)
      n == NumberAt(wire, noise, a.pos)
      c == [a EXCEPT !.pos = @ + PrefixSize]
  IN IF ~Available(a, PrefixSize) THEN Refused(a)
     ELSE IF bound # 0 /\ n > bound THEN Refused(c)
     ELSE Accepted(c, AllocateInOneShot(c.b, PrimitiveSequenceLayout(s, n)),
                   DataAlign(c.pos, s) + s * n)

\* A refused prefix opens no context.
BeginParseSequence(p, wire, noise) ==
  LET a == AlignReadOffset(p, PrefixSize)
  IN IF Available(a, PrefixSize)
     THEN Accepted(a, BeginSequence(a.b, NumberAt(wire, noise, a.pos)), a.pos + PrefixSize)
     ELSE Refused(a)

EndParseSequence(p) == Accepted(p, EndSequence(p.b), p.pos)

\* Nothing is aligned on entering or leaving a struct.
BeginParseStruct(p) == Accepted(p, BeginStruct(p.b), p.pos)

EndParseStruct(p) == Accepted(p, EndStruct(p.b), p.pos)
================================================================================
