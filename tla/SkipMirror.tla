------------------------------- MODULE SkipMirror -------------------------------
(***************************************************************************)
(* What in-place compaction relies on: a writer that only skips a field    *)
(* ends up where one that writes it would, so it may start writing for     *)
(* real at any field. Two writers over spans of the same size take the     *)
(* same calls in lockstep: `full` writes every field, `mixed` writes or    *)
(* skips each one. A reader follows `full` field by field, reading each    *)
(* in any of the forms reader.hpp offers for it.                           *)
(***************************************************************************)
EXTENDS XcdrWriterOps, XcdrReaderOps

CONSTANTS
  Capacities,    \* sizes of the span both writers get
  Starts,        \* start offsets (compact_message uses the header size)
  Sizes,         \* primitive sizes
  Chars,         \* string lengths, terminators not counted
  Counts,        \* array and sequence element counts
  MaxDepth       \* bound: open contexts

ASSUME MirrorAssumption ==
  /\ Capacities \subseteq Nat
  /\ Starts \subseteq Nat
  /\ Sizes \subseteq PrimitiveSizes
  /\ Chars \subseteq Nat
  /\ Counts \subseteq Nat
  /\ MaxDepth \in Nat

\* The span and the data written to it are in memory at the same time.
ASSUME MirrorMemoryAssumption ==
  \A c \in Capacities :
    /\ c + 64 <= SizeMax
    /\ \A n \in Chars : c + 2 * n + 64 <= SizeMax
    /\ \A s \in Sizes, n \in Counts : c + s * n + 64 <= SizeMax

\* Every number fits its prefix. A reader does not get past a field of more.
ASSUME MirrorNumberAssumption ==
  /\ \A n \in Chars : 2 * (n + 1) <= NumberMax
  /\ \A n \in Counts : n <= NumberMax

VARIABLES
  full,      \* the writer that writes every field
  mixed,     \* the writer that writes or skips each
  reader,    \* reads what `full` has written; a refusal is its end
  strayed    \* it aligned behind an empty sequence of wide elements (history)

vars == <<full, mixed, reader, strayed>>

Init ==
  /\ \E c \in Capacities :
       \/ full = FixedSpan(c)
       \/ \E o \in Starts : full = FixedSpanAt(c, o)
  /\ mixed = full
  \* the reader is where the writers start
  /\ \E native \in BOOLEAN :
       reader = [Wrap(HeaderSize, native) EXCEPT !.pos = IF full.header THEN full.pos ELSE @]
  /\ strayed = FALSE

\* One call for both writers: full takes the writing form, mixed either form.
Both(afterFull, mixedWrites, mixedSkips) ==
  /\ full' = afterFull
  /\ mixed' \in {mixedWrites, mixedSkips}

\* The reader's buffer ends where `full` has got to.
Reader == [reader EXCEPT !.size = full'.pos]

\* It reads the field just written, unless an error or a stray ended its work.
\* The number of the last prefix matters to no later call.
Reads(forms) ==
  reader' \in IF full'.overflow \/ strayed' \/ ~reader.ok THEN {reader}
             ELSE {[r EXCEPT !.got = 0] : r \in forms}

\* What `full` stored of the number where the prefix of this field is due.
Prefix(number) ==
  [o \in {DataAlign(IF full.header THEN full.pos ELSE HeaderSize, PrefixSize)} |-> AsUint32(number)]

NoNumber == 0

Primitive(s) ==
  /\ Both(WritePrimitive(full, s), WritePrimitive(mixed, s), Skip(mixed, s))
  /\ UNCHANGED strayed
  /\ Reads({ReadPrimitive(Reader, s)})

String(n) ==
  /\ Both(WriteString(full, n), WriteString(mixed, n), SkipString(mixed, n))
  /\ UNCHANGED strayed
  /\ Reads({ReadString(Reader, Prefix(n + 1), NoNumber)})

WString(n) ==
  /\ Both(WriteWString(full, n), WriteWString(mixed, n), SkipWString(mixed, n))
  /\ UNCHANGED strayed
  /\ Reads({ReadWString(Reader, Prefix(2 * (n + 1)), NoNumber)})

\* C++ has no array of no elements to read in bulk.
Array(s, n) ==
  /\ Both(WriteArray(full, s, n), WriteArray(mixed, s, n), SkipArray(mixed, s, n))
  /\ UNCHANGED strayed
  /\ Reads({ReadEach(BeginReadArray(Reader), s, n)}
             \cup IF n = 0 THEN {} ELSE {ReadFixedSpan(Reader, s, n), ReadStdArray(Reader, s, n)})

SequenceWritten(s, n) ==
  Both(WriteSequence(full, s, n), WriteSequence(mixed, s, n), SkipSequence(mixed, s, n))

SequenceByElement(s, n) ==
  /\ SequenceWritten(s, n)
  /\ UNCHANGED strayed
  /\ Reads({ReadSequenceByElement(Reader, s, Prefix(n), NoNumber)})

\* Where the prefix ends is no place for an element of an empty sequence.
SequenceInBulk(s, n) ==
  /\ SequenceWritten(s, n)
  /\ strayed' = (strayed \/ (n = 0 /\ DataAlign(full'.pos, s) # full'.pos))
  /\ Reads({ReadSpan(Reader, s, Prefix(n), NoNumber), ReadVector(Reader, s, Prefix(n), NoNumber)})

Sequence(s, n) == SequenceByElement(s, n) \/ SequenceInBulk(s, n)

Nestable == full.depth < MaxDepth /\ mixed.depth < MaxDepth

\* The elements, if any, are fields of their own.
BeginSequence ==
  /\ Nestable
  /\ Both(BeginWriteSequence(full), BeginWriteSequence(mixed), BeginSkipSequence(mixed))
  /\ UNCHANGED strayed
  /\ Reads({BeginReadSequence(Reader, Prefix(NoNumber), NoNumber)})

\* begin_write_struct and begin_write_array serve both forms.
BeginStruct ==
  /\ Nestable
  /\ Both(BeginWriteStruct(full), BeginWriteStruct(mixed), BeginWriteArray(mixed))
  /\ UNCHANGED strayed
  /\ Reads({BeginReadStruct(Reader), BeginReadArray(Reader)})

\* The writers ignore an end without a begin, which their reader is spared.
End ==
  /\ Both(EndWrite(full), EndWrite(mixed), EndWrite(mixed))
  /\ UNCHANGED strayed
  /\ Reads({IF full.depth = 0 THEN reader ELSE EndRead(Reader)})

\* The span is used again; the header in it is still there for the reader.
StartOver ==
  /\ full.header
  /\ Fits(full, HeaderSize)
  /\ Both(Reset(full), Reset(mixed), Reset(mixed))
  /\ strayed' = FALSE
  /\ reader' = ResetReader(reader, HeaderSize)

Next ==
  \/ \E s \in Sizes : Primitive(s)
  \/ \E n \in Chars : String(n) \/ WString(n)
  \/ \E s \in Sizes, n \in Counts : Array(s, n) \/ Sequence(s, n)
  \/ BeginSequence
  \/ BeginStruct
  \/ End
  \/ StartOver

Spec == Init /\ [][Next]_vars

--------------------------------------------------------------------------------
(***************************************************************************)
(* The skip calls mirror the write calls (writer.hpp:209): whatever mix of *)
(* skips and writes got it there, the mixed writer is at the same position *)
(* with the same error flag, and without an error it has the same contexts *)
(* open.                                                                   *)
(***************************************************************************)
Mirrors ==
  /\ mixed.pos = full.pos
  /\ mixed.overflow = full.overflow
  /\ mixed.header = full.header
  /\ ~full.overflow => mixed.depth = full.depth

(***************************************************************************)
(* The mixed writer touches no byte that writing everything would not:     *)
(* bytes it skipped keep what the span held.                               *)
(***************************************************************************)
StoresNoMore == mixed.stored \subseteq full.stored

(***************************************************************************)
(* Writer and reader agree on where everything is (reader.hpp:315), call   *)
(* by call and in every form of reading: a reader of what the writer has   *)
(* written so far is where the writer is, with as many contexts open, and  *)
(* on its own system it is never refused. Not promised of a reader that    *)
(* went past an empty sequence of elements wider than its prefix in bulk.  *)
(***************************************************************************)
ReaderFollows ==
  full.header /\ ~full.overflow /\ ~strayed =>
    IF reader.ok THEN reader.pos = full.pos /\ reader.depth = full.depth
    ELSE ~reader.native
================================================================================
