---------------------------- MODULE MC_LoanLifecycle ---------------------------
(***************************************************************************)
(* Model-checking instance of LoanLifecycle: a handle, re-created with a   *)
(* tight or a wide bound, lengths below, at and above them.                *)
(***************************************************************************)
EXTENDS LoanLifecycle, TLC

MCConstraints ==
  {[bound |-> 1, limit |-> 0], [bound |-> 3, limit |-> 1]}

Symmetry == Permutations(Messages) \cup Permutations(Blocks)
================================================================================
