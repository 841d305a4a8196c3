----------------------------- MODULE BenchmarkStep -----------------------------
(***************************************************************************)
(* One step of the inter-process benchmark: run_inter_pair() starts a      *)
(* subscriber and a publisher, follows the markers they print, releases    *)
(* the publisher once both ends reported each other, waits for both and    *)
(* returns the rows they wrote.                                            *)
(*                                                                         *)
(* Three processes and, in the orchestrator, one reader thread per pipe,   *)
(* all interleaved. A pipe holds PipeCapacity rows; a child that finds it  *)
(* full waits. Times are not modelled: a timer may expire at any moment,   *)
(* so whatever holds here holds for any speed of the processes.            *)
(* A child may throw, crash or hang in the middleware, samples may be      *)
(* lost, and the orchestrator may be killed.                               *)
(***************************************************************************)
EXTENDS Naturals, Sequences, Functions

CONSTANTS
  Samples,       \* bound: samples the publisher sends at most
  PipeCapacity   \* bound: rows a stdout pipe holds

ASSUME StepAssumption == Samples \in Nat /\ PipeCapacity \in Nat \ {0}

VARIABLES
  orchestrator,  \* what run_inter_pair() waits for
  child,         \* what each process does
  rc,            \* its exit code
  buffered,      \* rows it emitted and has not printed
  stdout,        \* rows in its pipe
  stderr,        \* markers in its pipe
  rowLines,      \* rows its LineCollector has read
  markerLines,   \* markers its LineCollector has read
  stdin,         \* the publisher's: "open", "go" or "closed"
  matched,       \* whether each end has discovered the other
  inFlight,      \* samples the subscriber has not taken
  sent,          \* samples published
  result         \* what run_inter_pair() returned

collected == <<rowLines, markerLines>>
middleware == <<matched, inFlight, sent>>
vars == <<orchestrator, child, rc, buffered, stdout, stderr, collected, stdin,
          middleware, result>>

Processes == {"pub", "sub"}

Waits == {"READY", "PUB_READY", "SUB_MATCHED", "release", "pub exit", "sub exit"}

\* "waitMatch" lasts until the other end is discovered, "barrier" until the
\* go-signal; "active" is the publish loop and the receive window.
Running == {"starting", "waitMatch", "barrier", "active", "flushing", "hung"}
Ended   == {"exited", "killed"}

Row(event, seq) == [event |-> event, seq |-> seq]
Reported(p)      == markerLines[p] \union Range(stderr[p])

NoResult == [ok |-> FALSE, rows |-> <<>>, process |-> "none"]

Init ==
  /\ orchestrator = "READY"
  /\ child = [p \in Processes |-> IF p = "sub" THEN "starting" ELSE "none"]
  /\ rc = [p \in Processes |-> 0]
  /\ buffered = [p \in Processes |-> <<>>]
  /\ stdout = [p \in Processes |-> <<>>]
  /\ stderr = [p \in Processes |-> <<>>]
  /\ rowLines = [p \in Processes |-> <<>>]
  /\ markerLines = [p \in Processes |-> {}]
  /\ stdin = "open"
  /\ matched = [p \in Processes |-> FALSE]
  /\ inFlight = {}
  /\ sent = 0
  /\ result = NoResult

--------------------------------------------------------------------------------
(* LineCollector: a thread per pipe, reading as long as this process lives *)

\* Mutant: rows are read only until the markers have been seen.
CollectRowUntilReleased(p) ==
  /\ orchestrator \in {"READY", "PUB_READY", "SUB_MATCHED", "release"}
  /\ stdout[p] # <<>>
  /\ rowLines' = [rowLines EXCEPT ![p] = Append(@, Head(stdout[p]))]
  /\ stdout' = [stdout EXCEPT ![p] = Tail(@)]
  /\ UNCHANGED <<orchestrator, child, rc, buffered, stderr, markerLines, stdin, middleware, result>>

CollectRow(p) ==
  /\ orchestrator # "dead"
  /\ stdout[p] # <<>>
  /\ rowLines' = [rowLines EXCEPT ![p] = Append(@, Head(stdout[p]))]
  /\ stdout' = [stdout EXCEPT ![p] = Tail(@)]
  /\ UNCHANGED <<orchestrator, child, rc, buffered, stderr, markerLines, stdin, middleware, result>>

CollectMarker(p) ==
  /\ orchestrator # "dead"
  /\ stderr[p] # <<>>
  /\ markerLines' = [markerLines EXCEPT ![p] = @ \union {Head(stderr[p])}]
  /\ stderr' = [stderr EXCEPT ![p] = Tail(@)]
  /\ UNCHANGED <<orchestrator, child, rc, buffered, stdout, rowLines, stdin, middleware, result>>

--------------------------------------------------------------------------------
(* run_inter_pair() *)

\* data_rows() of the lines read so far: the publisher's, then the subscriber's.
RowsRead == rowLines["pub"] \o rowLines["sub"]

Kill(ps) ==
  child' = [p \in Processes |->
              IF p \in ps /\ child[p] \in Running THEN "killed" ELSE child[p]]

\* SIGKILL cannot be refused: a child counts as gone once the signal is sent,
\* although the orchestrator does not wait() for it.
GiveUp(ps, process) ==
  /\ Kill(ps)
  /\ orchestrator' = "returned"
  /\ result' = [ok |-> FALSE, rows |-> RowsRead, process |-> process]
  /\ UNCHANGED <<rc, buffered, stdout, stderr, collected, stdin, middleware>>

\* wait_for() finds a marker among the lines the collector has read.
SeesReady ==
  /\ orchestrator = "READY"
  /\ "READY" \in markerLines["sub"]
  /\ child' = [child EXCEPT !["pub"] = "starting"]
  /\ orchestrator' = "PUB_READY"
  /\ UNCHANGED <<rc, buffered, stdout, stderr, collected, stdin, middleware, result>>

\* Mutant: only the publisher's marker is waited for.
SeesPubReadyAndReleases ==
  /\ orchestrator = "PUB_READY"
  /\ "PUB_READY" \in markerLines["pub"]
  /\ orchestrator' = "release"
  /\ UNCHANGED <<child, rc, buffered, stdout, stderr, collected, stdin, middleware, result>>

SeesPubReady ==
  /\ orchestrator = "PUB_READY"
  /\ "PUB_READY" \in markerLines["pub"]
  /\ orchestrator' = "SUB_MATCHED"
  /\ UNCHANGED <<child, rc, buffered, stdout, stderr, collected, stdin, middleware, result>>

SeesSubMatched ==
  /\ orchestrator = "SUB_MATCHED"
  /\ "SUB_MATCHED" \in markerLines["sub"]
  /\ orchestrator' = "release"
  /\ UNCHANGED <<child, rc, buffered, stdout, stderr, collected, stdin, middleware, result>>

ReleasePublisher ==
  /\ orchestrator = "release"
  /\ child["pub"] \in Running
  /\ stdin' = "go"
  /\ orchestrator' = "pub exit"
  /\ UNCHANGED <<child, rc, buffered, stdout, stderr, collected, middleware, result>>

\* BrokenPipeError: nobody reads the go-signal any more.
PublisherIsGone ==
  /\ orchestrator = "release"
  /\ child["pub"] \in Ended
  /\ GiveUp(Processes, "pub")

SeesPubExit ==
  /\ orchestrator = "pub exit"
  /\ child["pub"] \in Ended
  /\ orchestrator' = "sub exit"
  /\ UNCHANGED <<child, rc, buffered, stdout, stderr, collected, stdin, middleware, result>>

\* Mutant: one successful side is enough.
SeesSubExitEitherSucceeded ==
  LET ok == rc["pub"] = 0 \/ rc["sub"] = 0
  IN /\ orchestrator = "sub exit"
     /\ child["sub"] \in Ended
     /\ orchestrator' = "returned"
     /\ result' = [ok |-> ok, rows |-> RowsRead, process |-> IF ok THEN "" ELSE "orchestrator"]
     /\ UNCHANGED <<child, rc, buffered, stdout, stderr, collected, stdin, middleware>>

\* The collectors are not joined: RowsRead may lack the last rows.
SeesSubExit ==
  LET ok == rc["pub"] = 0 /\ rc["sub"] = 0
  IN /\ orchestrator = "sub exit"
     /\ child["sub"] \in Ended
     /\ orchestrator' = "returned"
     /\ result' = [ok |-> ok, rows |-> RowsRead, process |-> IF ok THEN "" ELSE "orchestrator"]
     /\ UNCHANGED <<child, rc, buffered, stdout, stderr, collected, stdin, middleware>>

\* Mutant: the subscriber is waited for without a timeout.
StepTimeoutPublisherOnly == orchestrator = "pub exit" /\ GiveUp(Processes, "orchestrator")

\* Mutant: a timeout kills the publisher and forgets the subscriber.
StepTimeoutKillsPublisher ==
  orchestrator \in {"pub exit", "sub exit"} /\ GiveUp({"pub"}, "orchestrator")

ReadyTimeout == orchestrator = "READY" /\ GiveUp({"sub"}, "sub")
PubReadyTimeout == orchestrator = "PUB_READY" /\ GiveUp(Processes, "pub")
SubMatchedTimeout == orchestrator = "SUB_MATCHED" /\ GiveUp(Processes, "sub")
StepTimeout == orchestrator \in {"pub exit", "sub exit"} /\ GiveUp(Processes, "orchestrator")

Timeout == ReadyTimeout \/ PubReadyTimeout \/ SubMatchedTimeout \/ StepTimeout

\* The orchestrator is killed: its ends of the pipes close with it.
OrchestratorKilled ==
  /\ orchestrator \in Waits
  /\ orchestrator' = "dead"
  /\ stdin' = IF stdin = "open" THEN "closed" ELSE stdin
  /\ UNCHANGED <<child, rc, buffered, stdout, stderr, collected, middleware, result>>

Orchestrate ==
  \/ SeesReady \/ SeesPubReady \/ SeesSubMatched
  \/ ReleasePublisher \/ PublisherIsGone \/ SeesPubExit \/ SeesSubExit

--------------------------------------------------------------------------------
(* The children. One that prints to a dead orchestrator is killed by SIGPIPE. *)

Report(p, marker) ==
  /\ orchestrator # "dead"
  /\ stderr' = [stderr EXCEPT ![p] = Append(@, marker)]

Becomes(p, what) == child' = [child EXCEPT ![p] = what]

Emit(p, row) == buffered' = [buffered EXCEPT ![p] = Append(@, row)]

\* The endpoints exist.
SubscriberReady ==
  /\ child["sub"] = "starting"
  /\ Report("sub", "READY")
  /\ Becomes("sub", "waitMatch")
  /\ UNCHANGED <<orchestrator, rc, buffered, stdout, collected, stdin, middleware, result>>

PublisherCreated ==
  /\ child["pub"] = "starting"
  /\ Becomes("pub", "waitMatch")
  /\ UNCHANGED <<orchestrator, rc, buffered, stdout, stderr, collected, stdin, middleware, result>>

\* Discovery is asymmetric: either end may come to know the other first.
HasEndpoint(p) == child[p] \in Running \ {"starting"}

Discover(p) ==
  /\ HasEndpoint("pub") /\ HasEndpoint("sub")
  /\ ~matched[p]
  /\ matched' = [matched EXCEPT ![p] = TRUE]
  /\ UNCHANGED <<orchestrator, child, rc, buffered, stdout, stderr, collected, stdin,
                 inFlight, sent, result>>

\* wait_for_match() ends when matched or after 10 s, with the same marker.
PublisherReady ==
  /\ child["pub"] = "waitMatch"
  /\ Report("pub", "PUB_READY")
  /\ Becomes("pub", "barrier")
  /\ UNCHANGED <<orchestrator, rc, buffered, stdout, collected, stdin, middleware, result>>

SubscriberMatched ==
  /\ child["sub"] = "waitMatch"
  /\ matched["sub"]
  /\ Report("sub", "SUB_MATCHED")
  /\ Becomes("sub", "active")
  /\ UNCHANGED <<orchestrator, rc, buffered, stdout, collected, stdin, middleware, result>>

\* Mutant: end of file is taken for the go-signal.
ReadGoOrEndOfFile ==
  /\ child["pub"] = "barrier"
  /\ stdin # "open"
  /\ Becomes("pub", "active")
  /\ UNCHANGED <<orchestrator, rc, buffered, stdout, stderr, collected, stdin, middleware, result>>

ReadGo ==
  /\ child["pub"] = "barrier"
  /\ stdin = "go"
  /\ Becomes("pub", "active")
  /\ UNCHANGED <<orchestrator, rc, buffered, stdout, stderr, collected, stdin, middleware, result>>

\* The catch block of either main(): an error row, everything flushed, exit 1.
Throw(p) ==
  /\ Emit(p, Row("error", 0))
  /\ rc' = [rc EXCEPT ![p] = 1]
  /\ Becomes(p, "flushing")
  /\ UNCHANGED <<orchestrator, stdout, stderr, collected, stdin, middleware, result>>

\* Mutant: the result of getline() is not looked at, it is called again.
StdinClosedReadAgain ==
  /\ child["pub"] = "barrier"
  /\ stdin = "closed"
  /\ UNCHANGED vars

StdinClosed ==
  /\ child["pub"] = "barrier"
  /\ stdin = "closed"
  /\ Throw("pub")

NoMatchingPublisher ==
  /\ child["sub"] = "waitMatch"
  /\ ~matched["sub"]
  /\ Throw("sub")

Exception(p) == child[p] \in {"starting", "waitMatch", "active"} /\ Throw(p)

\* Gone without a word: an abort, or a signal.
Crash(p) ==
  /\ child[p] \in Running
  /\ rc' = [rc EXCEPT ![p] = 1]
  /\ Becomes(p, "killed")
  /\ UNCHANGED <<orchestrator, buffered, stdout, stderr, collected, stdin, middleware, result>>

\* Mutant: the row is emitted with the number of the next sample.
PublishRowAhead ==
  /\ child["pub"] = "active"
  /\ sent < Samples
  /\ inFlight' = IF matched["pub"] THEN inFlight \union {sent} ELSE inFlight
  /\ sent' = sent + 1
  /\ Emit("pub", Row("publish", sent'))
  /\ UNCHANGED <<orchestrator, child, rc, stdout, stderr, collected, stdin, matched, result>>

\* What is published reaches a discovered subscriber, or is lost.
Publish ==
  /\ child["pub"] = "active"
  /\ sent < Samples
  /\ \E arrives \in SUBSET (IF matched["pub"] THEN {sent} ELSE {}) :
       inFlight' = inFlight \union arrives
  /\ sent' = sent + 1
  /\ Emit("pub", Row("publish", sent))
  /\ UNCHANGED <<orchestrator, child, rc, stdout, stderr, collected, stdin, matched, result>>

\* The row follows the publish: an exception on the way to it leaves a sample
\* without a row. (A crash or a hang there loses every buffered row anyway.)
PublishAndThrow ==
  /\ child["pub"] = "active"
  /\ sent < Samples
  /\ \E arrives \in SUBSET (IF matched["pub"] THEN {sent} ELSE {}) :
       inFlight' = inFlight \union arrives
  /\ sent' = sent + 1
  /\ Emit("pub", Row("error", 0))
  /\ rc' = [rc EXCEPT !["pub"] = 1]
  /\ Becomes("pub", "flushing")
  /\ UNCHANGED <<orchestrator, stdout, stderr, collected, stdin, matched, result>>

Receive ==
  /\ child["sub"] \in {"waitMatch", "active"}
  /\ \E seq \in inFlight :
       /\ \A other \in inFlight : seq <= other
       /\ inFlight' = inFlight \ {seq}
       /\ Emit("sub", Row("receive", seq))
  /\ UNCHANGED <<orchestrator, child, rc, stdout, stderr, collected, stdin, matched, sent, result>>

\* A sample whose frame_id cannot be decoded: an error row, but no failure.
\* Bound: one.
ReceiveForeign ==
  /\ child["sub"] \in {"waitMatch", "active"}
  /\ \A row \in Range(buffered["sub"]) : row.event # "error"
  /\ Emit("sub", Row("error", 0))
  /\ UNCHANGED <<orchestrator, child, rc, stdout, stderr, collected, stdin, middleware, result>>

\* The publish loop or the receive window has lasted its duration.
TimeIsUp(p) ==
  /\ child[p] = "active"
  /\ Becomes(p, "flushing")
  /\ UNCHANGED <<orchestrator, rc, buffered, stdout, stderr, collected, stdin, middleware, result>>

\* Mutant: the rows are not cleared behind what was printed.
FlushRowAndKeepIt(p) ==
  /\ orchestrator # "dead"
  /\ child[p] = "flushing"
  /\ buffered[p] # <<>>
  /\ Len(stdout[p]) < PipeCapacity
  /\ Len(rowLines[p]) < Samples + 3
  /\ stdout' = [stdout EXCEPT ![p] = Append(@, Head(buffered[p]))]
  /\ UNCHANGED <<orchestrator, child, rc, buffered, stderr, collected, stdin, middleware, result>>

FlushRow(p) ==
  /\ orchestrator # "dead"
  /\ child[p] = "flushing"
  /\ buffered[p] # <<>>
  /\ Len(stdout[p]) < PipeCapacity
  /\ stdout' = [stdout EXCEPT ![p] = Append(@, Head(buffered[p]))]
  /\ buffered' = [buffered EXCEPT ![p] = Tail(@)]
  /\ UNCHANGED <<orchestrator, child, rc, stderr, collected, stdin, middleware, result>>

Exit(p) ==
  /\ child[p] = "flushing"
  /\ buffered[p] = <<>>
  /\ Becomes(p, "exited")
  /\ UNCHANGED <<orchestrator, rc, buffered, stdout, stderr, collected, stdin, middleware, result>>

\* SIGPIPE, or BrokenPipeError in the Python children.
DieOfBrokenPipe(p) ==
  /\ orchestrator = "dead"
  /\ \/ child[p] \in {"starting", "waitMatch"}
     \/ child[p] = "flushing" /\ buffered[p] # <<>>
  /\ Becomes(p, "killed")
  /\ UNCHANGED <<orchestrator, rc, buffered, stdout, stderr, collected, stdin, middleware, result>>

\* A call into the middleware never comes back.
Hang(p) ==
  /\ child[p] \in Running \ {"barrier", "flushing", "hung"}
  /\ Becomes(p, "hung")
  /\ UNCHANGED <<orchestrator, rc, buffered, stdout, stderr, collected, stdin, middleware, result>>

\* What a child does of itself, timers and failures aside.
Work(p) ==
  \/ p = "pub" /\ (PublisherCreated \/ PublisherReady \/ ReadGo \/ StdinClosed \/ Publish)
  \/ p = "sub" /\ (SubscriberReady \/ SubscriberMatched \/ Receive)
  \/ TimeIsUp(p) \/ FlushRow(p) \/ Exit(p) \/ DieOfBrokenPipe(p)

\* run_inter_pair() has returned and the children are gone.
Done ==
  /\ orchestrator \in {"returned", "dead"}
  /\ \A p \in Processes : child[p] \in Ended \union {"none", "hung"}
  /\ UNCHANGED vars

Next ==
  \/ Orchestrate \/ Timeout \/ OrchestratorKilled
  \/ NoMatchingPublisher \/ PublishAndThrow \/ ReceiveForeign
  \/ \E p \in Processes :
       CollectRow(p) \/ CollectMarker(p) \/ Work(p) \/ Discover(p)
       \/ Exception(p) \/ Crash(p) \/ Hang(p)
  \/ Done

(***************************************************************************)
(* The operating system runs every thread that can run, and discovery ends *)
(* if both ends live. Nothing is assumed of timers, failures and hangs.    *)
(***************************************************************************)
Fairness ==
  /\ WF_vars(Orchestrate)
  /\ \A p \in Processes :
       /\ WF_vars(Work(p))
       /\ WF_vars(CollectRow(p)) /\ WF_vars(CollectMarker(p))
       /\ WF_vars(Discover(p))

Spec == Init /\ [][Next]_vars /\ Fairness

--------------------------------------------------------------------------------
Rows == [event : {"publish", "receive", "error"}, seq : 0 .. Samples]

\* With the rows a child can have emitted, and the order of the step.
TypeOK ==
  /\ orchestrator \in Waits \union {"returned", "dead"}
  /\ child \in [Processes -> Running \union Ended \union {"none"}]
  /\ \A p \in Processes :
       /\ rc[p] \in {0, 1}
       /\ buffered[p] \in Seq(Rows) /\ stdout[p] \in Seq(Rows) /\ rowLines[p] \in Seq(Rows)
       /\ Len(stdout[p]) <= PipeCapacity
       /\ Len(buffered[p]) + Len(stdout[p]) + Len(rowLines[p]) <= Samples + 2
       /\ Reported(p) \subseteq {"READY", "PUB_READY", "SUB_MATCHED"}
  /\ stdin \in {"open", "go", "closed"}
  /\ sent \in 0 .. Samples /\ inFlight \subseteq 0 .. (sent - 1)
  /\ child["pub"] = "none" => orchestrator \in {"READY", "returned", "dead"}
  /\ (orchestrator = "returned") <=> (result # NoResult)

(***************************************************************************)
(* The barrier across the three processes: whatever is published was       *)
(* released by the orchestrator, which had seen the subscriber report that *)
(* it knows the publisher. End of file is no release: a publisher whose    *)
(* orchestrator died at the barrier publishes nothing.                     *)
(***************************************************************************)
NoSampleUnreleased == sent > 0 => stdin = "go" /\ "SUB_MATCHED" \in Reported("sub")

\* The marker with which each end reports that it may start.
MatchMarker(p) == IF p = "pub" THEN "PUB_READY" ELSE "SUB_MATCHED"

Barrier ==
  INSTANCE StartBarrier WITH
    Parties   <- Processes,
    reported  <- {p \in Processes : MatchMarker(p) \in markerLines[p]},
    released  <- stdin = "go",
    published <- sent

(***************************************************************************)
(* The step is a start barrier for its two ends, among three processes     *)
(* that may fail at any moment: a marker counts once the orchestrator has  *)
(* read it, and the go-signal is the release.                              *)
(***************************************************************************)
ImplementsBarrier == Barrier!Spec

(***************************************************************************)
(* run_inter_pair() leaves no child behind, whichever way it returns: the  *)
(* next step of a sweep must not compete with a process of this one.       *)
(***************************************************************************)
NobodyLeftBehind ==
  orchestrator = "returned" => \A p \in Processes : child[p] \notin Running

Places(event) == {i \in DOMAIN result.rows : result.rows[i].event = event}

(***************************************************************************)
(* Rows may be missing, never wrong: what a step returns begins with the   *)
(* first publish rows in order and, behind them, has receive rows in       *)
(* order, each of a sample that was published, none twice. The joins by    *)
(* sequence number of the analysis rest on this.                           *)
(***************************************************************************)
RowsFaithful ==
  /\ \A i \in Places("publish") :
       1 .. i \subseteq Places("publish") /\ result.rows[i].seq = i - 1
  /\ \A i \in Places("receive") : result.rows[i].seq < sent
  /\ \A i, j \in Places("receive") : i < j => result.rows[i].seq < result.rows[j].seq

(***************************************************************************)
(* A step is reported as a success only if the publisher was released and  *)
(* both children came to their end by themselves, without an exception.    *)
(***************************************************************************)
SuccessIsGenuine ==
  result.ok => stdin = "go" /\ \A p \in Processes : child[p] = "exited" /\ rc[p] = 0

(***************************************************************************)
(* If its timeouts expire run_inter_pair() returns, whatever the children  *)
(* do: every wait of it is bounded.                                        *)
(***************************************************************************)
StepEnds == WF_vars(Timeout) => <>(orchestrator \in {"returned", "dead"})

(***************************************************************************)
(* When nobody waits for them any more the children come to an end, also   *)
(* where the orchestrator died: no publisher waits at the barrier and no   *)
(* child in a full pipe. A call that hangs is not the children's to end.   *)
(***************************************************************************)
ChildrenEnd ==
  \A p \in Processes :
    orchestrator \in {"returned", "dead"} ~> child[p] \in Ended \union {"none", "hung"}

NothingFails ==
  /\ \A p \in Processes : rc[p] = 0 /\ child[p] \notin {"hung", "killed"}
  /\ orchestrator # "dead"
  /\ result.process \in {"none", ""}

(***************************************************************************)
(* No process waits for another that waits for it: when nothing fails and  *)
(* no timeout expires the step still ends, with success, however small the *)
(* pipes are.                                                              *)
(***************************************************************************)
EndsUnaided == []NothingFails => <>result.ok
================================================================================
