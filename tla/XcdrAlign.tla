------------------------------- MODULE XcdrAlign -------------------------------
(***************************************************************************)
(* The alignment arithmetic every part of xcdr_buffers shares: writer,     *)
(* reader, layouts and layout parser all align positions relative to the   *)
(* first byte after the 4-byte encapsulation header.                       *)
(***************************************************************************)
EXTENDS Integers

HeaderSize == 4

\* Length prefix of strings and of sequences.
PrefixSize == 4

\* The sizes (= alignments) of the primitive kinds.
PrimitiveSizes == {1, 2, 4, 8, 16}

(***************************************************************************)
(* Padding before a datum of the given alignment. The code computes        *)
(* (a - p % a) & (a - 1); the mask is the remainder because a is a power   *)
(* of two.                                                                 *)
(***************************************************************************)
CalculateAlignment(position, alignment) ==
  (alignment - (position % alignment)) % alignment

AlignTo(position, alignment) == position + CalculateAlignment(position, alignment)

(***************************************************************************)
(* Align an absolute buffer position: the remainder is taken relative to   *)
(* the data start. Positions below the header (an offset writer that       *)
(* starts there) make the code's size_t difference wrap; as 2^64 is a      *)
(* multiple of every alignment the result is that of integer arithmetic.   *)
(***************************************************************************)
DataAlign(position, alignment) ==
  HeaderSize + AlignTo(position - HeaderSize, alignment)
================================================================================
