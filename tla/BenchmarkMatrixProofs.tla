-------------------------- MODULE BenchmarkMatrixProofs --------------------------
(***************************************************************************)
(* The resumable matrix, proved for any number of cases and steps and for  *)
(* any number of mishaps: the inductive invariant MatrixInv, and from it   *)
(* that visible results are complete, that the driver's last message is    *)
(* true, and that the matrix implements the ledger.                        *)
(***************************************************************************)
EXTENDS BenchmarkMatrix, TLAPS

InRunOne == {"sweep", "succeeded", "moved", "failed"}

\* The current case has no marker yet, and its files are as far as run_one is.
CaseInv ==
  /\ driver \in InRunOne => at \notin done /\ ~dry
  /\ driver = "sweep" =>
       sweepFailures = tmp[at].errors /\ tmp[at].errors <= tmp[at].steps
  /\ driver = "succeeded" => tmp[at] \in Complete
  /\ driver = "moved" => csv[at] \in Complete

MarkersMean == \A c \in done : csv[c] \in Complete

\* The cases the loops have left behind are done, or known to have failed.
Walked ==
  driver \in InRunOne \union {"case"} /\ ~dry =>
    \A c \in Cases : c < at => c \in done \union failures

MatrixInv == TypeOK /\ CaseInv /\ MarkersMean /\ VisibleResultsComplete /\ Walked

LEMMA MatrixInvInit == Init => MatrixInv
<1> SUFFICES ASSUME Init PROVE MatrixInv OBVIOUS
<1>1. TypeOK
  <2>1. at \in Cases /\ sweepFailures \in 0 .. Steps /\ mishaps \in 0 .. MaxMishaps
    BY MatrixAssumption DEF Init, Cases
  <2>2. tmp \in Files /\ csv \in Files /\ failed \in Files
    BY DEF Init, Files
  <2> QED BY <2>1, <2>2 DEF Init, TypeOK, DriverStates
<1>2. CaseInv /\ Walked
  BY DEF Init, CaseInv, Walked, InRunOne
<1>3. MarkersMean /\ VisibleResultsComplete
  BY DEF Init, MarkersMean, VisibleResultsComplete
<1> QED
  BY <1>1, <1>2, <1>3 DEF MatrixInv

(***************************************************************************)
(* The loops go on within the matrix.                                      *)
(***************************************************************************)
LEMMA NextCaseWithin ==
  ASSUME at \in Cases, NextCase
  PROVE  /\ at' \in Cases
         /\ driver' \in {"case", "exited"}
         /\ driver' = "case" => at' = at + 1
         /\ driver' = "exited" => at = CaseCount
BY MatrixAssumption DEF NextCase, Cases

LEMMA StartDriverKeeps ==
  ASSUME MatrixInv, NEW dryRun \in BOOLEAN, StartDriver(dryRun)
  PROVE  MatrixInv'
BY MatrixAssumption
DEF MatrixInv, TypeOK, CaseInv, MarkersMean, VisibleResultsComplete, Walked,
    DriverStates, Files, Cases, InRunOne, StartDriver, files

LEMMA SkipCaseKeeps ==
  ASSUME MatrixInv, SkipCase
  PROVE  MatrixInv'
<1> USE DEF SkipCase, files
<1>1. at' \in Cases /\ driver' \in {"case", "exited"} /\ (driver' = "case" => at' = at + 1)
  BY NextCaseWithin DEF MatrixInv, TypeOK
<1>2. TypeOK'
  BY <1>1 DEF MatrixInv, TypeOK, DriverStates, Files
<1>3. Walked'
  BY <1>1, MatrixAssumption DEF MatrixInv, TypeOK, Walked, Cases, InRunOne
<1> QED
  BY <1>1, <1>2, <1>3
  DEF MatrixInv, CaseInv, MarkersMean, VisibleResultsComplete, InRunOne

LEMMA StartSweepKeeps ==
  ASSUME MatrixInv, StartSweep
  PROVE  MatrixInv'
<1>1. PICK take \in Takes :
        tmp' = [tmp EXCEPT ![at] = [steps |-> 0, errors |-> 0, take |-> take]]
  BY DEF StartSweep
<1>2. [steps |-> 0, errors |-> 0, take |-> take] \in Contents
  BY MatrixAssumption DEF Contents
<1>3. tmp'[at] = [steps |-> 0, errors |-> 0, take |-> take] /\ tmp' \in Files
  BY <1>1, <1>2 DEF MatrixInv, TypeOK, Files
<1>4. TypeOK'
  BY <1>2, <1>3, MatrixAssumption DEF StartSweep, MatrixInv, TypeOK, DriverStates
<1> QED
  BY <1>3, <1>4
  DEF StartSweep, MatrixInv, TypeOK, CaseInv, MarkersMean, VisibleResultsComplete, Walked, InRunOne

LEMMA MoveIntoPlaceKeeps ==
  ASSUME MatrixInv, MoveIntoPlace
  PROVE  MatrixInv'
<1> USE DEF MoveIntoPlace
<1>1. tmp[at] \in Complete /\ tmp[at] \in Contents /\ at \in Cases
  BY DEF MatrixInv, CaseInv, TypeOK
<1>2. csv' \in Files /\ tmp' \in Files
  BY <1>1 DEF MatrixInv, TypeOK, Files
<1>3. csv'[at] \in Complete /\ \A c \in Cases : c # at => csv'[c] = csv[c]
  BY <1>1 DEF MatrixInv, TypeOK, Files
<1>4. TypeOK'
  BY <1>2 DEF MatrixInv, TypeOK, DriverStates
<1>5. MarkersMean' /\ VisibleResultsComplete'
  BY <1>3 DEF MatrixInv, TypeOK, MarkersMean, VisibleResultsComplete
<1> QED
  BY <1>3, <1>4, <1>5 DEF MatrixInv, CaseInv, Walked, InRunOne

LEMMA StoreMarkerKeeps ==
  ASSUME MatrixInv, StoreMarker
  PROVE  MatrixInv'
<1> USE DEF StoreMarker, files
<1>1. at' \in Cases /\ driver' \in {"case", "exited"} /\ (driver' = "case" => at' = at + 1)
  BY NextCaseWithin DEF MatrixInv, TypeOK
<1>2. TypeOK'
  BY <1>1 DEF MatrixInv, TypeOK, DriverStates, Files
<1>3. Walked'
  BY <1>1 DEF MatrixInv, TypeOK, Walked, Cases, InRunOne
<1>4. MarkersMean'
  BY DEF MatrixInv, CaseInv, MarkersMean
<1> QED
  BY <1>1, <1>2, <1>3, <1>4 DEF MatrixInv, CaseInv, VisibleResultsComplete, InRunOne

LEMMA SetAsideKeeps ==
  ASSUME MatrixInv, SetAside
  PROVE  MatrixInv'
<1> USE DEF SetAside
<1>1. at' \in Cases /\ driver' \in {"case", "exited"} /\ (driver' = "case" => at' = at + 1)
  BY NextCaseWithin DEF MatrixInv, TypeOK
<1>2. tmp[at] \in Contents /\ at \in Cases
  BY DEF MatrixInv, TypeOK
<1>3. failed' \in Files /\ tmp' \in Files
  BY <1>2 DEF MatrixInv, TypeOK, Files
<1>4. TypeOK'
  BY <1>1, <1>2, <1>3 DEF MatrixInv, TypeOK, DriverStates
<1>5. Walked'
  BY <1>1 DEF MatrixInv, TypeOK, Walked, Cases, InRunOne
<1> QED
  BY <1>1, <1>4, <1>5 DEF MatrixInv, CaseInv, MarkersMean, VisibleResultsComplete, InRunOne

(***************************************************************************)
(* A step prints its rows: the temporary file grows, nothing else changes. *)
(***************************************************************************)
LEMMA StepKeeps ==
  ASSUME MatrixInv, driver = "sweep", tmp[at].steps < Steps,
         NEW error \in {0, 1}, StepPrints(error),
         sweepFailures' = sweepFailures + error,
         mishaps' \in 0 .. MaxMishaps,
         UNCHANGED <<driver, at, failures, dry, csv, failed, done>>
  PROVE  MatrixInv'
<1>1. tmp[at] \in Contents /\ at \in Cases
  BY DEF MatrixInv, TypeOK
<1>2. tmp'[at] = [tmp[at] EXCEPT !.steps = @ + 1, !.errors = @ + error]
  BY <1>1 DEF StepPrints, MatrixInv, TypeOK, Files
<1>3. /\ tmp'[at].steps = tmp[at].steps + 1
      /\ tmp'[at].errors = tmp[at].errors + error
      /\ tmp'[at].take = tmp[at].take
  BY <1>1, <1>2 DEF Contents
<1>4. /\ tmp[at].steps \in 0 .. Steps
      /\ tmp[at].errors \in 0 .. Steps
      /\ tmp[at].errors <= tmp[at].steps
      /\ sweepFailures = tmp[at].errors
  BY <1>1 DEF MatrixInv, CaseInv, Contents
<1>5. tmp[at].steps + 1 \in 0 .. Steps /\ tmp[at].errors + error \in 0 .. Steps
  BY <1>4, MatrixAssumption
<1>6. tmp'[at] \in Contents
  BY <1>1, <1>2, <1>5 DEF Contents
<1>7. tmp' \in Files
  BY <1>1, <1>6 DEF StepPrints, MatrixInv, TypeOK, Files
<1>8. TypeOK'
  BY <1>4, <1>5, <1>6, <1>7 DEF MatrixInv, TypeOK
<1>9. CaseInv'
  BY <1>3, <1>4, MatrixAssumption DEF MatrixInv, CaseInv, InRunOne
<1> QED
  BY <1>8, <1>9 DEF MatrixInv, MarkersMean, VisibleResultsComplete, Walked

LEMMA SweepEndsKeeps ==
  ASSUME MatrixInv, SweepEnds
  PROVE  MatrixInv'
<1> USE DEF SweepEnds, files
<1>1. tmp[at] \in Contents
  BY DEF MatrixInv, TypeOK
<1>2. driver' = "succeeded" => tmp[at] \in Complete
  BY <1>1 DEF MatrixInv, CaseInv, Complete
<1> QED
  BY <1>1, <1>2
  DEF MatrixInv, TypeOK, CaseInv, MarkersMean, VisibleResultsComplete, Walked, DriverStates, InRunOne

(***************************************************************************)
(* What ends a sweep or a driver leaves files and markers as they are.     *)
(***************************************************************************)
LEMMA MishapKeeps ==
  ASSUME MatrixInv, SweepDies \/ Interrupt \/ DeleteMarker
  PROVE  MatrixInv'
<1>1. mishaps' \in 0 .. MaxMishaps
  BY MatrixAssumption DEF MatrixInv, TypeOK, SweepDies, Interrupt, DeleteMarker, Mishap
<1>2. CASE SweepDies \/ Interrupt
  BY <1>1, <1>2
  DEF MatrixInv, TypeOK, CaseInv, MarkersMean, VisibleResultsComplete, Walked, DriverStates,
      InRunOne, SweepDies, Interrupt, files
<1>3. CASE DeleteMarker
  BY <1>1, <1>3
  DEF MatrixInv, TypeOK, CaseInv, MarkersMean, VisibleResultsComplete, Walked, DriverStates,
      InRunOne, DeleteMarker, NotRunning, files
<1> QED BY <1>2, <1>3

LEMMA MatrixInvStep == MatrixInv /\ [Next]_vars => MatrixInv'
<1> SUFFICES ASSUME MatrixInv, [Next]_vars PROVE MatrixInv' OBVIOUS
<1>1. CASE \E dryRun \in BOOLEAN : StartDriver(dryRun)
  BY <1>1, StartDriverKeeps
<1>2. CASE SkipCase \/ StartSweep \/ SweepEnds
  BY <1>2, SkipCaseKeeps, StartSweepKeeps, SweepEndsKeeps
<1>3. CASE MoveIntoPlace \/ StoreMarker \/ SetAside
  BY <1>3, MoveIntoPlaceKeeps, StoreMarkerKeeps, SetAsideKeeps
<1>4. CASE StepRuns
  <2>1. sweepFailures' = sweepFailures + 0 /\ mishaps' \in 0 .. MaxMishaps
    BY <1>4 DEF StepRuns, MatrixInv, TypeOK
  <2> QED BY <1>4, <2>1, StepKeeps DEF StepRuns
<1>5. CASE StepFails
  <2>1. mishaps' \in 0 .. MaxMishaps
    BY <1>5, MatrixAssumption DEF StepFails, Mishap, MatrixInv, TypeOK
  <2> QED BY <1>5, <2>1, StepKeeps DEF StepFails
<1>6. CASE SweepDies \/ Interrupt \/ DeleteMarker
  BY <1>6, MishapKeeps
<1>7. CASE UNCHANGED vars
  BY <1>7
  DEF vars, files, MatrixInv, TypeOK, CaseInv, MarkersMean, VisibleResultsComplete, Walked
<1> QED
  BY <1>1, <1>2, <1>3, <1>4, <1>5, <1>6, <1>7 DEF Next, Proceed

(***************************************************************************)
(* Whatever lies in the results directory as a .csv is a whole sweep       *)
(* without a failed step, for any matrix and any history of interruptions. *)
(***************************************************************************)
THEOREM VisibleResultsAlwaysComplete == Spec => []VisibleResultsComplete
<1>1. MatrixInv => VisibleResultsComplete BY DEF MatrixInv
<1> QED BY <1>1, MatrixInvInit, MatrixInvStep, PTL DEF Spec

(***************************************************************************)
(* The driver's last message is true whenever it measured: every case it   *)
(* walked past has its marker, if none is among the failures.              *)
(***************************************************************************)
LEMMA ExitStep ==
  ASSUME MatrixInv, Next, driver # "exited", driver' = "exited", failures' = {}, ~dry
  PROVE  done' = Cases
<1>1. CASE SkipCase
  <2>1. at = CaseCount /\ at \in done /\ done' = done /\ failures = {}
    BY <1>1, NextCaseWithin DEF SkipCase, MatrixInv, TypeOK
  <2>2. \A c \in Cases : c < at \/ c = at
    BY <2>1, MatrixAssumption DEF Cases
  <2>3. \A c \in Cases : c < at => c \in done
    BY <1>1, <2>1 DEF SkipCase, MatrixInv, Walked, InRunOne
  <2> QED BY <2>1, <2>2, <2>3 DEF MatrixInv, TypeOK
<1>2. CASE StoreMarker
  <2>1. at = CaseCount /\ done' = done \union {at} /\ failures = {}
    BY <1>2, NextCaseWithin DEF StoreMarker, MatrixInv, TypeOK
  <2>2. \A c \in Cases : c < at \/ c = at
    BY <2>1, MatrixAssumption DEF Cases
  <2>3. \A c \in Cases : c < at => c \in done
    BY <1>2, <2>1 DEF StoreMarker, MatrixInv, Walked, InRunOne
  <2> QED BY <2>1, <2>2, <2>3 DEF MatrixInv, TypeOK
<1>3. CASE SetAside
  BY <1>3 DEF SetAside
<1> QED
  BY <1>1, <1>2, <1>3
  DEF Next, Proceed, StartDriver, StartSweep, MoveIntoPlace, StepRuns, StepFails, SweepEnds,
      SweepDies, Interrupt, DeleteMarker

THEOREM DriverAnnouncesTruly == Spec => AnnouncedTruly
<1>1. MatrixInv /\ [Next]_vars =>
        [driver # "exited" /\ driver' = "exited" /\ failures' = {} /\ ~dry => done' = Cases]_vars
  BY ExitStep DEF vars
<1> QED BY <1>1, MatrixInvInit, MatrixInvStep, PTL DEF Spec, AnnouncedTruly

--------------------------------------------------------------------------------
(* The refinement *)

Entry(c) == IF c \in done THEN csv[c] ELSE Absent

LEMMA LedgerInit == Init => Ledger!Init
BY DEF Init, Ledger!Init

(***************************************************************************)
(* A step that changes neither markers nor marked files stutters.          *)
(***************************************************************************)
LEMMA LedgerStutter ==
  ASSUME done' = done, \A c \in done : csv'[c] = csv[c]
  PROVE  UNCHANGED [c \in Cases |-> Entry(c)]
BY DEF Entry

LEMMA LedgerStep == MatrixInv /\ [Next]_vars => [Ledger!Next]_([c \in Cases |-> Entry(c)])
<1> SUFFICES ASSUME MatrixInv, [Next]_vars
             PROVE  Ledger!Next \/ UNCHANGED [c \in Cases |-> Entry(c)]
  OBVIOUS
<1> USE DEF Entry
<1>1. CASE StoreMarker
  <2>1. PICK c \in Cases : c = at
    BY DEF MatrixInv, TypeOK
  <2>2. c \notin done /\ csv[c] \in Complete /\ csv' = csv /\ done' = done \union {c}
    BY <1>1, <2>1 DEF StoreMarker, MatrixInv, CaseInv, InRunOne, files
  <2>3. [d \in Cases |-> Entry(d)]' = [[d \in Cases |-> Entry(d)] EXCEPT ![c] = csv[c]]
    BY <2>2
  <2>4. Ledger!Accept(c)
    BY <2>2, <2>3 DEF Ledger!Accept
  <2> QED BY <2>4 DEF Ledger!Next
<1>2. CASE DeleteMarker
  <2>1. PICK c \in done : done' = done \ {c}
    BY <1>2 DEF DeleteMarker
  <2>2. c \in Cases /\ csv' = csv
    BY <1>2 DEF DeleteMarker, MatrixInv, TypeOK, files
  <2>3. [d \in Cases |-> Entry(d)]' = [[d \in Cases |-> Entry(d)] EXCEPT ![c] = Absent]
    BY <2>1, <2>2
  <2>4. Ledger!Withdraw(c)
    BY <2>3 DEF Ledger!Withdraw
  <2> QED BY <2>2, <2>4 DEF Ledger!Next
<1>3. CASE MoveIntoPlace
  <2>1. at \notin done /\ done' = done /\ csv' = [csv EXCEPT ![at] = tmp[at]]
    BY <1>3 DEF MoveIntoPlace, MatrixInv, CaseInv, InRunOne
  <2>2. \A c \in done : csv'[c] = csv[c]
    BY <2>1 DEF MatrixInv, TypeOK, Files
  <2> QED BY <2>1, <2>2, LedgerStutter
<1>4. CASE /\ ~StoreMarker /\ ~DeleteMarker /\ ~MoveIntoPlace
  <2>1. done' = done /\ csv' = csv
    BY <1>4
    DEF Next, Proceed, StartDriver, SkipCase, StartSweep, StepRuns, StepFails, SweepEnds, SetAside,
        SweepDies, Interrupt, files, vars
  <2> QED BY <2>1, LedgerStutter
<1> QED BY <1>1, <1>2, <1>3, <1>4

(***************************************************************************)
(* The matrix implements the ledger: a marker stands for one complete      *)
(* result, and nothing but the deletion of the marker takes it away.       *)
(***************************************************************************)
THEOREM MatrixImplementsLedger == Spec => ImplementsLedger
<1> USE DEF Entry
<1> QED
  BY LedgerInit, LedgerStep, MatrixInvInit, MatrixInvStep, PTL
  DEF Spec, ImplementsLedger, Ledger!Spec
================================================================================
