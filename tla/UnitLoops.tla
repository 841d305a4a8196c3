------------------------------- MODULE UnitLoops -------------------------------
(***************************************************************************)
(* The loops of the wide string calls written out unit by unit, as a       *)
(* reference for the closed form XcdrWriterOps has of them.                *)
(***************************************************************************)
EXTENDS XcdrWriterOps

AfterPrefix(x) ==
  ReserveAndStore(EnsureHeaderWritten(x), PrefixSize, PrefixSize)

WriteUnitByUnit(x, chars) ==
  LET unit[i \in 0 .. chars + 1] ==
        IF i = 0 THEN AfterPrefix(x) ELSE ReserveAndStore(unit[i - 1], 2, 2)
  IN unit[chars + 1]

SkipUnitByUnit(x, chars) ==
  LET unit[i \in 0 .. chars + 1] ==
        IF i = 0 THEN SkipAdvance(EnsureHeaderWritten(x), PrefixSize, PrefixSize)
        ELSE SkipAdvance(unit[i - 1], 2, 2)
  IN unit[chars + 1]

\* Writers at every position of a small span or buffer.
SmallWriters ==
  {[FixedSpan(c) EXCEPT !.pos = p, !.header = h, !.overflow = e] :
     c \in {13, 16}, p \in 0 .. 13, h \in BOOLEAN, e \in BOOLEAN}
    \cup {[Growing EXCEPT !.size = n, !.header = n # 0] : n \in 0 .. 8}

(***************************************************************************)
(* Writing or skipping a wide string in one step, as XcdrWriterOps does,   *)
(* is writing or skipping its units and terminator one after the other,    *)
(* stopping where one does not fit (writer.cpp:198, 219, 361).             *)
(***************************************************************************)
ASSUME UnitLoopsAgree ==
  \A w1 \in SmallWriters, n \in 0 .. 4 :
    /\ WriteWString(w1, n) = WriteUnitByUnit(w1, n)
    /\ SkipWString(w1, n) = SkipUnitByUnit(w1, n)
================================================================================
