----------------------------- MODULE BenchmarkMatrix -----------------------------
(***************************************************************************)
(* The matrix driver (run_matrix.sh; run_pilot.sh has the same run_one)    *)
(* and the sweep it starts for each case (run_sweep() of                   *)
(* inter_proc_benchmark.py). The driver goes through the cases in order,   *)
(* skips those with a marker, runs a sweep into a temporary file, and      *)
(* either moves the file into place and stores the marker, or sets it      *)
(* aside as failed. The driver is started again as often as it takes.      *)
(*                                                                         *)
(* Files and markers outlive the driver. A step of a sweep may fail, the   *)
(* sweep may die, and driver and sweep may be interrupted together, as by  *)
(* the terminal they run in, between any two of these steps. Somebody may  *)
(* delete the marker of a case to have it measured again, between drivers. *)
(*                                                                         *)
(* Assumed of the environment: no sweep outlives its driver, as one would  *)
(* whose driver alone is killed, and the file system does what mv and      *)
(* touch ask for. The driver looks at the exit status of the sweep only.   *)
(***************************************************************************)
EXTENDS Naturals

CONSTANTS
  CaseCount,    \* sweep invocations of the matrix
  Steps,        \* steps of one sweep
  Takes,        \* what tells the measurements of two sweeps apart
  Absent,       \* no such file
  MaxMishaps    \* bound: failed steps, deaths, interruptions, deleted markers

ASSUME MatrixAssumption ==
  /\ CaseCount \in Nat \ {0}
  /\ Steps \in Nat
  /\ Takes # {}
  /\ MaxMishaps \in Nat

\* What a file holds: rows of so many steps, error rows of so many of them.
Contents == [steps : 0 .. Steps, errors : 0 .. Steps, take : Takes]

ASSUME AbsentAssumption == Absent \notin Contents

Complete == {c \in Contents : c.steps = Steps /\ c.errors = 0}

Cases == 1 .. CaseCount

VARIABLES
  driver,         \* where run_one of the current case is; "off" if no driver runs
  at,             \* the case the loops are at
  failures,       \* FAILURES of this run of the driver
  dry,            \* DRY_RUN
  sweepFailures,  \* run_sweep()'s own count of failed steps
  tmp,            \* name.csv.tmp of each case
  csv,            \* name.csv
  failed,         \* name.csv.failed
  done,           \* the cases with a name.done
  mishaps         \* how many there were

files == <<tmp, csv, failed>>
vars == <<driver, at, failures, dry, sweepFailures, files, done, mishaps>>

Init ==
  /\ driver = "off"
  /\ at = 1
  /\ failures = {}
  /\ dry = FALSE
  /\ sweepFailures = 0
  /\ tmp = [c \in Cases |-> Absent]
  /\ csv = [c \in Cases |-> Absent]
  /\ failed = [c \in Cases |-> Absent]
  /\ done = {}
  /\ mishaps = 0

Mishap == mishaps < MaxMishaps /\ mishaps' = mishaps + 1

NotRunning == driver \in {"off", "exited"}

--------------------------------------------------------------------------------
(* The driver *)

StartDriver(dryRun) ==
  /\ NotRunning
  /\ driver' = "case"
  /\ at' = 1
  /\ failures' = {}
  /\ dry' = dryRun
  /\ UNCHANGED <<sweepFailures, files, done, mishaps>>

\* On to the next iteration of the loops; behind the last the driver exits.
NextCase ==
  IF at = CaseCount THEN driver' = "exited" /\ at' = at
  ELSE driver' = "case" /\ at' = at + 1

\* Mutant: a case that failed once is skipped as well, and reported again.
SkipDoneOrFailed ==
  /\ driver = "case"
  /\ at \in done \/ dry \/ failed[at] # Absent
  /\ failures' = IF at \in done \/ dry THEN failures ELSE failures \union {at}
  /\ NextCase
  /\ UNCHANGED <<dry, sweepFailures, files, done, mishaps>>

\* The marker exists, or the command is only printed.
SkipCase ==
  /\ driver = "case"
  /\ at \in done \/ dry
  /\ NextCase
  /\ UNCHANGED <<failures, dry, sweepFailures, files, done, mishaps>>

\* Mutant: the marker is not looked at.
StartSweepAnyway ==
  /\ driver = "case"
  /\ ~dry
  /\ \E take \in Takes : tmp' = [tmp EXCEPT ![at] = [steps |-> 0, errors |-> 0, take |-> take]]
  /\ sweepFailures' = 0
  /\ driver' = "sweep"
  /\ UNCHANGED <<at, failures, dry, csv, failed, done, mishaps>>

\* The redirection truncates what an earlier run left in the temporary file.
StartSweep ==
  /\ driver = "case"
  /\ at \notin done /\ ~dry
  /\ \E take \in Takes : tmp' = [tmp EXCEPT ![at] = [steps |-> 0, errors |-> 0, take |-> take]]
  /\ sweepFailures' = 0
  /\ driver' = "sweep"
  /\ UNCHANGED <<at, failures, dry, csv, failed, done, mishaps>>

\* mv name.csv.tmp name.csv, taken to succeed: its status is ignored.
MoveIntoPlace ==
  /\ driver = "succeeded"
  /\ csv' = [csv EXCEPT ![at] = tmp[at]]
  /\ tmp' = [tmp EXCEPT ![at] = Absent]
  /\ driver' = "moved"
  /\ UNCHANGED <<at, failures, dry, sweepFailures, failed, done, mishaps>>

\* touch name.done
StoreMarker ==
  /\ driver = "moved"
  /\ done' = done \union {at}
  /\ NextCase
  /\ UNCHANGED <<failures, dry, sweepFailures, files, mishaps>>

\* Mutant: the failure is not remembered for the summary.
SetAsideSilently ==
  /\ driver = "failed"
  /\ failed' = [failed EXCEPT ![at] = tmp[at]]
  /\ tmp' = [tmp EXCEPT ![at] = Absent]
  /\ NextCase
  /\ UNCHANGED <<failures, dry, sweepFailures, csv, done, mishaps>>

\* mv name.csv.tmp name.csv.failed; an older name.csv stays where it is.
SetAside ==
  /\ driver = "failed"
  /\ failed' = [failed EXCEPT ![at] = tmp[at]]
  /\ tmp' = [tmp EXCEPT ![at] = Absent]
  /\ failures' = failures \union {at}
  /\ NextCase
  /\ UNCHANGED <<dry, sweepFailures, csv, done, mishaps>>

--------------------------------------------------------------------------------
(* run_sweep(): each step prints its rows, a failed one an error row as well *)

StepPrints(error) ==
  tmp' = [tmp EXCEPT ![at].steps = @ + 1, ![at].errors = @ + error]

StepRuns ==
  /\ driver = "sweep"
  /\ tmp[at].steps < Steps
  /\ StepPrints(0)
  /\ UNCHANGED <<driver, at, failures, dry, sweepFailures, csv, failed, done, mishaps>>

\* A failed step does not end the sweep.
StepFails ==
  /\ driver = "sweep"
  /\ tmp[at].steps < Steps
  /\ Mishap
  /\ StepPrints(1)
  /\ sweepFailures' = sweepFailures + 1
  /\ UNCHANGED <<driver, at, failures, dry, csv, failed, done>>

\* Mutant: the exit status only tells whether the sweep came to its end.
SweepEndsWell ==
  /\ driver = "sweep"
  /\ tmp[at].steps = Steps
  /\ driver' = "succeeded"
  /\ UNCHANGED <<at, failures, dry, sweepFailures, files, done, mishaps>>

SweepEnds ==
  /\ driver = "sweep"
  /\ tmp[at].steps = Steps
  /\ driver' = IF sweepFailures = 0 THEN "succeeded" ELSE "failed"
  /\ UNCHANGED <<at, failures, dry, sweepFailures, files, done, mishaps>>

\* An exception or a signal: a nonzero status, with what was printed so far.
SweepDies ==
  /\ driver = "sweep"
  /\ Mishap
  /\ driver' = "failed"
  /\ UNCHANGED <<at, failures, dry, sweepFailures, files, done>>

--------------------------------------------------------------------------------
(* The environment *)

Interrupt ==
  /\ ~NotRunning
  /\ Mishap
  /\ driver' = "off"
  /\ UNCHANGED <<at, failures, dry, sweepFailures, files, done>>

\* "delete a stale .done marker to force a re-run"
DeleteMarker ==
  /\ NotRunning
  /\ Mishap
  /\ \E c \in done : done' = done \ {c}
  /\ UNCHANGED <<driver, at, failures, dry, sweepFailures, files>>

Proceed ==
  \/ SkipCase \/ StartSweep \/ StepRuns \/ SweepEnds
  \/ MoveIntoPlace \/ StoreMarker \/ SetAside

Next ==
  \/ \E dryRun \in BOOLEAN : StartDriver(dryRun)
  \/ Proceed
  \/ StepFails \/ SweepDies \/ Interrupt \/ DeleteMarker

(***************************************************************************)
(* A driver that runs comes to its end, and somebody starts it again, for  *)
(* real every now and then. Nothing is assumed of mishaps, whose number is *)
(* bounded.                                                                *)
(***************************************************************************)
Spec == Init /\ [][Next]_vars /\ WF_vars(Proceed) /\ SF_vars(StartDriver(FALSE))

--------------------------------------------------------------------------------
DriverStates ==
  {"off", "case", "sweep", "succeeded", "moved", "failed", "exited"}

Files == [Cases -> Contents \union {Absent}]

\* With what the file of a sweep that runs can hold.
TypeOK ==
  /\ driver \in DriverStates
  /\ at \in Cases
  /\ failures \subseteq Cases
  /\ dry \in BOOLEAN
  /\ sweepFailures \in 0 .. Steps
  /\ tmp \in Files /\ csv \in Files /\ failed \in Files
  /\ done \subseteq Cases
  /\ mishaps \in 0 .. MaxMishaps
  /\ driver \in {"sweep", "succeeded", "failed"} => tmp[at] \in Contents

(***************************************************************************)
(* The analysis reads every *.csv of the results directory, markers or     *)
(* not: whatever is there under that name is a whole sweep without a       *)
(* failed step, also after an interruption between move and marker, after  *)
(* a failed repetition, and while a driver runs.                           *)
(***************************************************************************)
VisibleResultsComplete == \A c \in Cases : csv[c] # Absent => csv[c] \in Complete

Ledger ==
  INSTANCE ResultLedger WITH
    Open   <- Absent,
    result <- [c \in Cases |-> IF c \in done THEN csv[c] ELSE Absent]

(***************************************************************************)
(* The matrix is a ledger of results: a marker stands for a complete       *)
(* result, and no later run of the driver replaces that result, however    *)
(* often and wherever it was interrupted.                                  *)
(***************************************************************************)
ImplementsLedger == Ledger!Spec

(***************************************************************************)
(* A driver that exits without failures has said that all invocations have *)
(* .done markers (run_matrix.sh:204). Where it measured rather than listed *)
(* them that is so, those an earlier driver left half done included.       *)
(***************************************************************************)
AnnouncedTruly ==
  [][driver # "exited" /\ driver' = "exited" /\ failures' = {} /\ ~dry => done' = Cases]_vars

(***************************************************************************)
(* Re-running the driver is enough: once mishaps end, every case comes to  *)
(* have its result, and stays so.                                          *)
(***************************************************************************)
EveryCaseDone == <>[](done = Cases)
================================================================================
