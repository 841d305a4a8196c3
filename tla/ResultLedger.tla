------------------------------ MODULE ResultLedger ------------------------------
(***************************************************************************)
(* What a resumable benchmark matrix promises: a case is open until it has *)
(* a complete result, and from then on keeps that very result, whatever    *)
(* happens to the drivers, until somebody withdraws it.                    *)
(***************************************************************************)
CONSTANTS
  Cases,      \* what is to be measured
  Complete,   \* the results that count
  Open        \* no result

VARIABLE result

Init == result = [c \in Cases |-> Open]

Accept(c) ==
  /\ result[c] = Open
  /\ \E r \in Complete : result' = [result EXCEPT ![c] = r]

Withdraw(c) == result' = [result EXCEPT ![c] = Open]

Next == \E c \in Cases : Accept(c) \/ Withdraw(c)

Spec == Init /\ [][Next]_result
================================================================================
