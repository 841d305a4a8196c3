------------------------------- MODULE XcdrWriter -------------------------------
(***************************************************************************)
(* A client drives one XCdrWriter through its public interface: any call   *)
(* in any order, in any of the three construction modes, with resets and   *)
(* flushes in between.                                                     *)
(***************************************************************************)
EXTENDS XcdrWriterOps

CONSTANTS
  Capacities,    \* sizes of the spans given to fixed writers
  Starts,        \* start offsets given to offset writers
  Sizes,         \* primitive sizes written
  Chars,         \* string lengths, terminators not counted
  Counts,        \* element counts of arrays and sequences written
  SkipCounts,    \* element counts skipped; no data stands behind them
  MaxDepth,      \* bound: open contexts
  MaxGrowth      \* bound: bytes in a growing buffer

ASSUME WriterAssumption ==
  /\ Capacities \subseteq Nat
  /\ Starts \subseteq Nat
  /\ Sizes \subseteq PrimitiveSizes
  /\ Chars \subseteq Nat
  /\ Counts \subseteq Nat
  /\ SkipCounts \subseteq Nat
  /\ MaxDepth \in Nat
  /\ MaxGrowth \in Nat

(***************************************************************************)
(* The span or buffer and the data of one write call are in memory at the  *)
(* same time, so their sizes add up to a size_t with room for padding.     *)
(***************************************************************************)
ASSUME MemoryAssumption ==
  \A c \in Capacities \cup {MaxGrowth} :
    /\ c + 64 <= SizeMax
    /\ \A n \in Chars : c + 2 * n + 64 <= SizeMax
    /\ \A s \in Sizes, n \in Counts : c + s * n + 64 <= SizeMax

VARIABLES
  w,        \* the writer
  start,    \* where this session began: 0, or an offset writer's offset
  skipped,  \* a skip call was made in this session
  open      \* begins minus ends this session, as the client counts them

vars == <<w, start, skipped, open>>

Init ==
  /\ skipped = FALSE
  /\ open = 0
  /\ \/ w = Growing /\ start = 0
     \/ \E c \in Capacities : w = FixedSpan(c) /\ start = 0
     \/ \E c \in Capacities, o \in Starts : w = FixedSpanAt(c, o) /\ start = o

--------------------------------------------------------------------------------
\* A call that leaves the client's nesting as it was.
Call(after, isSkip) ==
  /\ after.size <= MaxGrowth
  /\ w' = after
  /\ skipped' = (skipped \/ isSkip)
  /\ UNCHANGED <<start, open>>

Begin(after, isSkip) ==
  /\ after.size <= MaxGrowth
  /\ open < MaxDepth
  /\ w' = after
  /\ open' = open + 1
  /\ skipped' = (skipped \/ isSkip)
  /\ UNCHANGED start

Write ==
  \/ \E s \in Sizes : Call(WritePrimitive(w, s), FALSE)
  \/ \E n \in Chars : Call(WriteString(w, n), FALSE)
  \/ \E n \in Chars : Call(WriteWString(w, n), FALSE)
  \/ \E s \in Sizes, n \in Counts : Call(WriteArray(w, s, n), FALSE)
  \/ \E s \in Sizes, n \in Counts : Call(WriteSequence(w, s, n), FALSE)

SkipCall ==
  \/ \E s \in Sizes : Call(Skip(w, s), TRUE)
  \/ \E n \in Chars : Call(SkipString(w, n), TRUE)
  \/ \E n \in Chars : Call(SkipWString(w, n), TRUE)
  \/ \E s \in Sizes, n \in SkipCounts : Call(SkipArray(w, s, n), TRUE)
  \/ \E s \in Sizes, n \in SkipCounts : Call(SkipSequence(w, s, n), TRUE)

BeginCall ==
  \/ Begin(BeginWriteArray(w), FALSE)
  \/ Begin(BeginWriteStruct(w), FALSE)
  \/ Begin(BeginWriteSequence(w), FALSE)
  \/ Begin(BeginSkipSequence(w), TRUE)

EndCall ==
  /\ open > 0
  /\ w' = EndWrite(w)
  /\ open' = open - 1
  /\ UNCHANGED <<start, skipped>>

\* reset(), and flush() which calls it.
ResetCall ==
  /\ w' = Reset(w)
  /\ start' = 0
  /\ skipped' = FALSE
  /\ open' = 0

Next == Write \/ SkipCall \/ BeginCall \/ EndCall \/ ResetCall

Spec == Init /\ [][Next]_vars

--------------------------------------------------------------------------------
(***************************************************************************)
(* Type invariant, with the two facts that tie the modes to their fields:  *)
(* the unused position of each mode stays 0.                               *)
(***************************************************************************)
TypeOK ==
  /\ w \in WriterType
  /\ IF w.fixed THEN w.size = 0 ELSE w.pos = 0
  /\ start \in Nat
  /\ skipped \in BOOLEAN
  /\ open \in Nat

(***************************************************************************)
(* A writer over a caller's span never stores outside it and its cursor    *)
(* never leaves it, whatever the order of calls, failed ones included      *)
(* (align_and_reserve, the prefix-then-characters path of write(string)).  *)
(***************************************************************************)
StaysInSpan ==
  w.fixed => /\ w.pos <= w.cap
             /\ \A b \in w.stored : b < w.cap

(***************************************************************************)
(* data() exposes no byte the writer did not store: unless the client      *)
(* skipped over part of a fixed span, the offsets stored in the session    *)
(* are exactly those from its start to the cursor, so padding is zeroed,   *)
(* fields are contiguous and nothing beyond the cursor is touched. A       *)
(* failed write(string) still ends on its stored prefix.                   *)
(***************************************************************************)
NoGapBehindCursor ==
  ~w.fixed \/ ~skipped => w.stored = start .. (Cursor(w) - 1)

(***************************************************************************)
(* While no call has failed, the writer's context stack is as deep as the  *)
(* client's open begin_* calls: the convenience calls are balanced and no  *)
(* end_* pops a context of somebody else.                                  *)
(***************************************************************************)
ContextsMatchClient == ~w.overflow => w.depth = open

(***************************************************************************)
(* An error is final for the session: after overflow_error_ is set no call *)
(* but reset() stores a byte, moves the cursor or clears the error.        *)
(***************************************************************************)
ErrorFreezesOutput ==
  [][w.overflow => \/ ResetCall
                   \/ /\ w'.overflow
                      /\ Cursor(w') = Cursor(w)
                      /\ w'.stored = w.stored]_vars
================================================================================
