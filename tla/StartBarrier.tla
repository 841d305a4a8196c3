----------------------------- MODULE StartBarrier ------------------------------
(***************************************************************************)
(* What a benchmark step promises about its start: samples are published   *)
(* only after a release, and the release is given only after every party   *)
(* has reported. Reports are not taken back.                               *)
(***************************************************************************)
EXTENDS Naturals

CONSTANT Parties

VARIABLES reported, released, published

vars == <<reported, released, published>>

Init == reported = {} /\ released = FALSE /\ published = 0

Report ==
  /\ \E p \in Parties \ reported : reported' = reported \union {p}
  /\ UNCHANGED <<released, published>>

Release ==
  /\ reported = Parties
  /\ released' = TRUE
  /\ UNCHANGED <<reported, published>>

Publish ==
  /\ released
  /\ published' = published + 1
  /\ UNCHANGED <<reported, released>>

Next == Report \/ Release \/ Publish

Spec == Init /\ [][Next]_vars
================================================================================
