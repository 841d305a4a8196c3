-------------------------- MODULE BenchmarkStepProofs --------------------------
(***************************************************************************)
(* A benchmark step, for any number of samples and pipes of any capacity.  *)
(* Its start: the inductive invariant BarrierInv, and from it the          *)
(* invariant NoSampleUnreleased and the refinement of StartBarrier. Its    *)
(* end: EndInv, and from it NobodyLeftBehind and SuccessIsGenuine. Its     *)
(* rows: RowsInv follows each row from the child to the collector, and     *)
(* from it come RowsFaithful and the types.                                *)
(***************************************************************************)
EXTENDS BenchmarkStep, SequenceTheorems, TLAPS

Markers == {"READY", "PUB_READY", "SUB_MATCHED"}

BarrierTypes ==
  /\ child \in [Processes -> Running \union Ended \union {"none"}]
  /\ stderr \in [Processes -> Seq(Markers)]
  /\ markerLines \in [Processes -> SUBSET Markers]
  /\ sent \in Nat

\* Both ends have reported, as far as the orchestrator has read.
BothSeen == "PUB_READY" \in markerLines["pub"] /\ "SUB_MATCHED" \in markerLines["sub"]

BarrierInv ==
  /\ BarrierTypes
  /\ orchestrator = "SUB_MATCHED" => "PUB_READY" \in markerLines["pub"]
  /\ orchestrator = "release" => BothSeen
  /\ stdin = "go" => BothSeen
  /\ child["pub"] = "active" => stdin = "go"
  /\ sent > 0 => stdin = "go"

LEMMA BarrierInvInit == Init => BarrierInv
BY DEF Init, BarrierInv, BarrierTypes, BothSeen, Processes, Markers, Running, Ended

(***************************************************************************)
(* A collector reads one more marker: those read before stay.              *)
(***************************************************************************)
LEMMA CollectMarkerKeeps ==
  ASSUME BarrierInv, NEW p \in Processes, CollectMarker(p)
  PROVE  BarrierInv'
<1>1. stderr[p] \in Seq(Markers) /\ stderr[p] # <<>>
  BY DEF CollectMarker, BarrierInv, BarrierTypes
<1>2. Head(stderr[p]) \in Markers /\ Tail(stderr[p]) \in Seq(Markers)
  BY <1>1
<1>3. \A q \in Processes : markerLines[q] \subseteq markerLines'[q]
  BY DEF CollectMarker, BarrierInv, BarrierTypes
<1>4. BarrierTypes'
  BY <1>2 DEF CollectMarker, BarrierInv, BarrierTypes, middleware
<1> QED
  BY <1>3, <1>4 DEF CollectMarker, BarrierInv, BothSeen, middleware, Processes

(***************************************************************************)
(* The orchestrator's steps, and the end of the orchestrator.              *)
(***************************************************************************)
LEMMA GiveUpKeeps ==
  ASSUME BarrierInv, NEW ps, NEW process, GiveUp(ps, process)
  PROVE  BarrierInv'
<1>1. child' \in [Processes -> Running \union Ended \union {"none"}]
  BY DEF GiveUp, Kill, BarrierInv, BarrierTypes, Ended
<1>2. child'["pub"] = "active" => child["pub"] = "active"
  BY DEF GiveUp, Kill, BarrierInv, BarrierTypes, Processes
<1> QED
  BY <1>1, <1>2
  DEF GiveUp, BarrierInv, BarrierTypes, BothSeen, collected, middleware

LEMMA OrchestrateKeeps ==
  ASSUME BarrierInv, Orchestrate \/ Timeout \/ OrchestratorKilled
  PROVE  BarrierInv'
<1>1. CASE SeesReady
  <2>1. child' \in [Processes -> Running \union Ended \union {"none"}]
    BY <1>1 DEF SeesReady, BarrierInv, BarrierTypes, Running
  <2>2. child'["pub"] # "active"
    BY <1>1 DEF SeesReady, BarrierInv, BarrierTypes, Processes
  <2> QED
    BY <1>1, <2>1, <2>2
    DEF SeesReady, BarrierInv, BarrierTypes, BothSeen, collected, middleware
<1>2. CASE SeesPubReady
  BY <1>2 DEF SeesPubReady, BarrierInv, BarrierTypes, BothSeen, collected, middleware
<1>3. CASE SeesSubMatched
  BY <1>3 DEF SeesSubMatched, BarrierInv, BarrierTypes, BothSeen, collected, middleware
<1>4. CASE ReleasePublisher
  BY <1>4 DEF ReleasePublisher, BarrierInv, BarrierTypes, BothSeen, collected, middleware
<1>5. CASE PublisherIsGone
  BY <1>5, GiveUpKeeps DEF PublisherIsGone
<1>6. CASE SeesPubExit
  BY <1>6 DEF SeesPubExit, BarrierInv, BarrierTypes, BothSeen, collected, middleware
<1>7. CASE SeesSubExit
  BY <1>7 DEF SeesSubExit, BarrierInv, BarrierTypes, BothSeen, collected, middleware
<1>8. CASE Timeout
  BY <1>8, GiveUpKeeps
  DEF Timeout, ReadyTimeout, PubReadyTimeout, SubMatchedTimeout, StepTimeout
<1>9. CASE OrchestratorKilled
  BY <1>9 DEF OrchestratorKilled, BarrierInv, BarrierTypes, BothSeen, collected, middleware
<1> QED
  BY <1>1, <1>2, <1>3, <1>4, <1>5, <1>6, <1>7, <1>8, <1>9 DEF Orchestrate

(***************************************************************************)
(* The children's steps. What a child becomes, but for ReadGo, is not the  *)
(* publish loop; ReadGo finds the go-signal.                               *)
(***************************************************************************)
LEMMA ChildStepKeeps ==
  ASSUME BarrierInv, NEW p \in Processes, NEW what \in Running \union Ended,
         Becomes(p, what),
         p = "pub" /\ what = "active" => stdin = "go",
         UNCHANGED <<orchestrator, markerLines, stdin, sent>>,
         stderr' \in [Processes -> Seq(Markers)]
  PROVE  BarrierInv'
<1>1. child' \in [Processes -> Running \union Ended \union {"none"}]
  BY DEF Becomes, BarrierInv, BarrierTypes
<1>2. child'["pub"] = "active" => stdin = "go"
  BY DEF Becomes, BarrierInv, BarrierTypes, Processes
<1> QED
  BY <1>1, <1>2 DEF BarrierInv, BarrierTypes, BothSeen

LEMMA ReportKeeps ==
  ASSUME BarrierInv, NEW p \in Processes, NEW marker \in Markers, Report(p, marker)
  PROVE  stderr' \in [Processes -> Seq(Markers)]
<1>1. Append(stderr[p], marker) \in Seq(Markers)
  BY DEF BarrierInv, BarrierTypes
<1> QED
  BY <1>1 DEF Report, BarrierInv, BarrierTypes

LEMMA ThrowKeeps ==
  ASSUME BarrierInv, NEW p \in Processes, Throw(p)
  PROVE  BarrierInv'
BY ChildStepKeeps DEF Throw, BarrierInv, BarrierTypes, collected, middleware, Running

LEMMA WorkKeeps ==
  ASSUME BarrierInv, NEW p \in Processes, Work(p)
  PROVE  BarrierInv'
<1> USE DEF collected, middleware
<1>t. stderr \in [Processes -> Seq(Markers)]
  BY DEF BarrierInv, BarrierTypes
<1>1. CASE PublisherCreated
  BY <1>1, <1>t, ChildStepKeeps DEF PublisherCreated, Processes, Running
<1>2. CASE PublisherReady
  BY <1>2, ReportKeeps, ChildStepKeeps DEF PublisherReady, Processes, Running, Markers
<1>3. CASE ReadGo
  BY <1>3, <1>t, ChildStepKeeps DEF ReadGo, Processes, Running
<1>4. CASE StdinClosed
  BY <1>4, ThrowKeeps DEF StdinClosed, Processes
<1>5. CASE Publish
  <2>1. stdin = "go" /\ sent' = sent + 1 /\ sent \in Nat
    BY <1>5 DEF Publish, BarrierInv, BarrierTypes
  <2> QED
    BY <1>5, <2>1 DEF Publish, BarrierInv, BarrierTypes, BothSeen
<1>6. CASE SubscriberReady
  BY <1>6, ReportKeeps, ChildStepKeeps DEF SubscriberReady, Processes, Running, Markers
<1>7. CASE SubscriberMatched
  BY <1>7, ReportKeeps, ChildStepKeeps DEF SubscriberMatched, Processes, Running, Markers
<1>8. CASE Receive
  BY <1>8 DEF Receive, BarrierInv, BarrierTypes, BothSeen
<1>9. CASE TimeIsUp(p)
  BY <1>9, <1>t, ChildStepKeeps DEF TimeIsUp, Running
<1>10. CASE FlushRow(p)
  BY <1>10 DEF FlushRow, BarrierInv, BarrierTypes, BothSeen
<1>11. CASE Exit(p)
  BY <1>11, <1>t, ChildStepKeeps DEF Exit, Ended
<1>12. CASE DieOfBrokenPipe(p)
  BY <1>12, <1>t, ChildStepKeeps DEF DieOfBrokenPipe, Ended
<1> QED
  BY <1>1, <1>2, <1>3, <1>4, <1>5, <1>6, <1>7, <1>8, <1>9, <1>10, <1>11, <1>12 DEF Work

LEMMA FailureKeeps ==
  ASSUME BarrierInv, NEW p \in Processes,
         NoMatchingPublisher \/ PublishAndThrow \/ ReceiveForeign
         \/ Exception(p) \/ Crash(p) \/ Hang(p)
  PROVE  BarrierInv'
<1> USE DEF collected, middleware
<1>t. stderr \in [Processes -> Seq(Markers)]
  BY DEF BarrierInv, BarrierTypes
<1>1. CASE NoMatchingPublisher
  BY <1>1, ThrowKeeps DEF NoMatchingPublisher, Processes
<1>2. CASE Exception(p)
  BY <1>2, ThrowKeeps DEF Exception
<1>3. CASE Crash(p)
  BY <1>3, <1>t, ChildStepKeeps DEF Crash, Ended
<1>4. CASE Hang(p)
  BY <1>4, <1>t, ChildStepKeeps DEF Hang, Running
<1>5. CASE ReceiveForeign
  BY <1>5 DEF ReceiveForeign, BarrierInv, BarrierTypes, BothSeen
<1>6. CASE PublishAndThrow
  <2>1. stdin = "go" /\ sent' = sent + 1 /\ sent \in Nat
    BY <1>6 DEF PublishAndThrow, BarrierInv, BarrierTypes
  <2>2. child' \in [Processes -> Running \union Ended \union {"none"}]
    BY <1>6 DEF PublishAndThrow, Becomes, BarrierInv, BarrierTypes, Running
  <2> QED
    BY <1>6, <2>1, <2>2 DEF PublishAndThrow, BarrierInv, BarrierTypes, BothSeen
<1> QED
  BY <1>1, <1>2, <1>3, <1>4, <1>5, <1>6

LEMMA BarrierInvStep == BarrierInv /\ [Next]_vars => BarrierInv'
<1> SUFFICES ASSUME BarrierInv, [Next]_vars PROVE BarrierInv'
  OBVIOUS
<1>1. CASE Orchestrate \/ Timeout \/ OrchestratorKilled
  BY <1>1, OrchestrateKeeps
<1>2. CASE NoMatchingPublisher \/ PublishAndThrow \/ ReceiveForeign
  BY <1>2, FailureKeeps DEF Processes
<1>3. ASSUME NEW p \in Processes, CollectRow(p) \/ Discover(p)
      PROVE  BarrierInv'
  BY <1>3 DEF CollectRow, Discover, BarrierInv, BarrierTypes, BothSeen, middleware, collected
<1>4. ASSUME NEW p \in Processes, CollectMarker(p)
      PROVE  BarrierInv'
  BY <1>4, CollectMarkerKeeps
<1>5. ASSUME NEW p \in Processes, Work(p)
      PROVE  BarrierInv'
  BY <1>5, WorkKeeps
<1>6. ASSUME NEW p \in Processes, Exception(p) \/ Crash(p) \/ Hang(p)
      PROVE  BarrierInv'
  BY <1>6, FailureKeeps
<1>7. CASE Done \/ UNCHANGED vars
  BY <1>7 DEF Done, vars, BarrierInv, BarrierTypes, BothSeen, collected, middleware
<1> QED
  BY <1>1, <1>2, <1>3, <1>4, <1>5, <1>6, <1>7 DEF Next

THEOREM BarrierInvHolds == Spec => []BarrierInv
BY BarrierInvInit, BarrierInvStep, PTL DEF Spec

(***************************************************************************)
(* Nothing is ever published without the go-signal, nor before the         *)
(* subscriber has reported that it knows the publisher: in every execution *)
(* of run_inter_pair() and its children, failures and kills included.      *)
(***************************************************************************)
THEOREM NoSampleEverUnreleased == Spec => []NoSampleUnreleased
<1>1. BarrierInv => NoSampleUnreleased
  BY DEF BarrierInv, BothSeen, NoSampleUnreleased, Reported
<1> QED
  BY <1>1, BarrierInvHolds, PTL

--------------------------------------------------------------------------------
(* The refinement of StartBarrier *)

LEMMA CollectMarkerIsReport ==
  ASSUME BarrierInv, NEW p \in Processes, CollectMarker(p)
  PROVE  Barrier!Report \/ UNCHANGED Barrier!vars
<1> DEFINE seen == {q \in Processes : MatchMarker(q) \in markerLines[q]}
           seenAfter == {q \in Processes : MatchMarker(q) \in markerLines'[q]}
<1>1. UNCHANGED <<stdin, sent>>
  BY DEF CollectMarker, middleware
<1>2. markerLines' = [markerLines EXCEPT ![p] = @ \union {Head(stderr[p])}]
  BY DEF CollectMarker
<1>3. seenAfter = seen \/ (p \notin seen /\ seenAfter = seen \union {p})
  BY <1>2 DEF BarrierInv, BarrierTypes
<1> QED
  BY <1>1, <1>3 DEF Barrier!Report, Barrier!vars

LEMMA StepsImplementBarrier == BarrierInv /\ [Next]_vars => [Barrier!Next]_(Barrier!vars)
<1> SUFFICES ASSUME BarrierInv, [Next]_vars PROVE [Barrier!Next]_(Barrier!vars)
  OBVIOUS
<1> USE DEF collected, middleware
<1>s. ASSUME UNCHANGED <<markerLines, stdin, sent>>
      PROVE  UNCHANGED Barrier!vars
  BY <1>s DEF Barrier!vars
<1>1. CASE ReleasePublisher
  <2>1. {p \in Processes : MatchMarker(p) \in markerLines[p]} = Processes
    BY <1>1 DEF ReleasePublisher, BarrierInv, BothSeen, MatchMarker, Processes
  <2> QED
    BY <1>1, <2>1 DEF ReleasePublisher, Barrier!Release, Barrier!Next
<1>2. CASE (Orchestrate /\ ~ReleasePublisher) \/ Timeout
  BY <1>2, <1>s
  DEF Orchestrate, SeesReady, SeesPubReady, SeesSubMatched, PublisherIsGone, SeesPubExit,
      SeesSubExit, Timeout, ReadyTimeout, PubReadyTimeout, SubMatchedTimeout, StepTimeout,
      GiveUp
<1>3. CASE OrchestratorKilled
  BY <1>3 DEF OrchestratorKilled, Barrier!vars
<1>4. ASSUME NEW p \in Processes, CollectMarker(p)
      PROVE  [Barrier!Next]_(Barrier!vars)
  BY <1>4, CollectMarkerIsReport DEF Barrier!Next
<1>5. CASE Publish \/ PublishAndThrow
  <2>1. stdin = "go"
    BY <1>5 DEF Publish, PublishAndThrow, BarrierInv
  <2> QED
    BY <1>5, <2>1 DEF Publish, PublishAndThrow, Barrier!Publish, Barrier!Next
<1>6. ASSUME NEW p \in Processes, Work(p), ~Publish
      PROVE  UNCHANGED Barrier!vars
  BY <1>6, <1>s
  DEF Work, PublisherCreated, PublisherReady, ReadGo, StdinClosed, Throw, SubscriberReady,
      SubscriberMatched, Receive, TimeIsUp, FlushRow, Exit, DieOfBrokenPipe
<1>7. CASE NoMatchingPublisher \/ ReceiveForeign
  BY <1>7, <1>s DEF NoMatchingPublisher, ReceiveForeign, Throw
<1>8. ASSUME NEW p \in Processes,
             CollectRow(p) \/ Discover(p) \/ Exception(p) \/ Crash(p) \/ Hang(p)
      PROVE  UNCHANGED Barrier!vars
  BY <1>8, <1>s DEF CollectRow, Discover, Exception, Throw, Crash, Hang
<1>9. CASE Done \/ UNCHANGED vars
  BY <1>9, <1>s DEF Done, vars
<1> QED
  BY <1>1, <1>2, <1>3, <1>4, <1>5, <1>6, <1>7, <1>8, <1>9 DEF Next

(***************************************************************************)
(* Every step of the three processes is a report, a release or a           *)
(* publication of the abstract barrier, or none of them.                   *)
(***************************************************************************)
THEOREM StepImplementsBarrier == Spec => ImplementsBarrier
<1>1. Init => Barrier!Init
  BY DEF Init, Barrier!Init
<1> QED
  BY <1>1, BarrierInvHolds, StepsImplementBarrier, PTL
  DEF Spec, ImplementsBarrier, Barrier!Spec

--------------------------------------------------------------------------------
(* The end of a step *)

EndTypes ==
  /\ orchestrator \in Waits \union {"returned", "dead"}
  /\ child \in [Processes -> Running \union Ended \union {"none"}]
  /\ rc \in [Processes -> {0, 1}]
  /\ result.ok \in BOOLEAN

(***************************************************************************)
(* What the orchestrator may rely on at each wait when it returns: which   *)
(* children there are, and that one it did not kill has an exit code.      *)
(***************************************************************************)
EndInv ==
  /\ EndTypes
  /\ orchestrator = "READY" => child["pub"] = "none"
  /\ orchestrator \in {"pub exit", "sub exit"} => stdin = "go"
  /\ orchestrator = "sub exit" => child["pub"] \in Ended
  /\ orchestrator = "returned" => \A p \in Processes : child[p] \notin Running
  /\ orchestrator \notin {"returned", "dead"} =>
       \A p \in Processes : child[p] = "killed" => rc[p] = 1
  /\ result.ok => /\ orchestrator = "returned" /\ stdin = "go"
                  /\ \A p \in Processes : child[p] = "exited" /\ rc[p] = 0

LEMMA EndInvInit == Init => EndInv
BY DEF Init, EndInv, EndTypes, Processes, Running, Ended, Waits, NoResult

\* Whoever is not killed must not be running.
LEMMA GiveUpEnds ==
  ASSUME EndInv, NEW ps, NEW process, GiveUp(ps, process),
         \A q \in Processes : q \notin ps => child[q] \notin Running
  PROVE  EndInv'
<1>1. child' \in [Processes -> Running \union Ended \union {"none"}]
  BY DEF GiveUp, Kill, EndInv, EndTypes, Ended
<1>2. \A q \in Processes : child'[q] \notin Running
  BY DEF GiveUp, Kill, EndInv, EndTypes, Running
<1>3. orchestrator' = "returned" /\ result'.ok = FALSE /\ rc' = rc
  BY DEF GiveUp
<1> QED
  BY <1>1, <1>2, <1>3 DEF EndInv, EndTypes

LEMMA OrchestrateEnds ==
  ASSUME EndInv, Orchestrate \/ Timeout \/ OrchestratorKilled
  PROVE  EndInv'
<1> USE DEF EndInv, EndTypes, Processes
<1>1. CASE SeesReady
  <2>1. /\ child' \in [Processes -> Running \union Ended \union {"none"}]
        /\ child'["pub"] = "starting" /\ child'["sub"] = child["sub"]
    BY <1>1 DEF SeesReady, Running
  <2> QED
    BY <1>1, <2>1 DEF SeesReady, Waits
<1>2. CASE SeesPubReady
  BY <1>2 DEF SeesPubReady, Waits
<1>3. CASE SeesSubMatched
  BY <1>3 DEF SeesSubMatched, Waits
<1>4. CASE ReleasePublisher
  BY <1>4 DEF ReleasePublisher, Waits
<1>5. CASE PublisherIsGone
  BY <1>5, GiveUpEnds DEF PublisherIsGone
<1>6. CASE SeesPubExit
  BY <1>6 DEF SeesPubExit, Waits
<1>7. CASE SeesSubExit
  <2>1. \A p \in Processes : child[p] \in Ended
    BY <1>7 DEF SeesSubExit
  <2>2. \A p \in Processes : rc[p] = 0 => child[p] = "exited"
    <3>1. orchestrator = "sub exit"
      BY <1>7 DEF SeesSubExit
    <3>2. \A p \in Processes : child[p] = "killed" => rc[p] = 1
      BY <3>1
    <3> HIDE DEF EndInv, EndTypes, Processes
    <3>3. 0 # 1
      OBVIOUS
    <3> QED
      BY <2>1, <3>2, <3>3, Zenon DEF Ended
  <2>3. result'.ok = (rc["pub"] = 0 /\ rc["sub"] = 0)
    BY <1>7 DEF SeesSubExit
  <2> QED
    BY <1>7, <2>1, <2>2, <2>3 DEF SeesSubExit, Ended, Running
<1>8. CASE Timeout
  <2>1. CASE ReadyTimeout
    BY <2>1, GiveUpEnds DEF ReadyTimeout, Running
  <2> QED
    BY <1>8, <2>1, GiveUpEnds DEF Timeout, PubReadyTimeout, SubMatchedTimeout, StepTimeout
<1>9. CASE OrchestratorKilled
  BY <1>9 DEF OrchestratorKilled, Waits
<1> QED
  BY <1>1, <1>2, <1>3, <1>4, <1>5, <1>6, <1>7, <1>8, <1>9 DEF Orchestrate

\* A child moves only while it runs, so not behind the orchestrator's return,
\* and ends by a signal only with an exit code or a dead orchestrator.
LEMMA ChildMoveEnds ==
  ASSUME EndInv, NEW p \in Processes, NEW what \in Running \union Ended,
         child[p] \in Running, Becomes(p, what),
         UNCHANGED <<orchestrator, stdin, result>>,
         rc' = rc \/ rc' = [rc EXCEPT ![p] = 1],
         what = "killed" => rc'[p] = 1 \/ orchestrator = "dead"
  PROVE  EndInv'
<1> USE DEF EndInv, EndTypes
<1>1. /\ child' \in [Processes -> Running \union Ended \union {"none"}]
      /\ child'[p] = what
      /\ \A q \in Processes : q # p => child'[q] = child[q]
  BY DEF Becomes
<1>2. /\ rc' \in [Processes -> {0, 1}]
      /\ \A q \in Processes : q # p => rc'[q] = rc[q]
      /\ rc'[p] = rc[p] \/ rc'[p] = 1
  OBVIOUS
<1>3. orchestrator # "returned" /\ ~result.ok
  OBVIOUS
<1>4. orchestrator = "READY" => p # "pub"
  BY DEF Running
<1>5. orchestrator = "sub exit" => p # "pub"
  BY DEF Running, Ended
<1>6. "pub" \in Processes
  BY DEF Processes
<1> QED
  BY <1>1, <1>2, <1>3, <1>4, <1>5, <1>6

LEMMA ThrowEnds ==
  ASSUME EndInv, NEW p \in Processes, child[p] \in Running, Throw(p)
  PROVE  EndInv'
BY ChildMoveEnds DEF Throw, middleware, Running

\* Steps that leave alone what the end of a step depends on.
LEMMA AsideEnds ==
  ASSUME EndInv, UNCHANGED <<orchestrator, child, rc, stdin, result>>
  PROVE  EndInv'
BY DEF EndInv, EndTypes

LEMMA WorkEnds ==
  ASSUME EndInv, NEW p \in Processes, Work(p)
  PROVE  EndInv'
<1>1. CASE PublisherCreated
  BY <1>1, ChildMoveEnds DEF PublisherCreated, Processes, Running
<1>2. CASE PublisherReady
  BY <1>2, ChildMoveEnds DEF PublisherReady, Processes, Running
<1>3. CASE ReadGo
  BY <1>3, ChildMoveEnds DEF ReadGo, Processes, Running
<1>4. CASE StdinClosed
  BY <1>4, ThrowEnds DEF StdinClosed, Processes, Running
<1>5. CASE SubscriberReady
  BY <1>5, ChildMoveEnds DEF SubscriberReady, Processes, Running
<1>6. CASE SubscriberMatched
  BY <1>6, ChildMoveEnds DEF SubscriberMatched, Processes, Running
<1>7. CASE Publish \/ Receive \/ FlushRow(p)
  BY <1>7, AsideEnds DEF Publish, Receive, FlushRow
<1>8. CASE TimeIsUp(p)
  BY <1>8, ChildMoveEnds DEF TimeIsUp, Running
<1>9. CASE Exit(p)
  BY <1>9, ChildMoveEnds DEF Exit, Running, Ended
<1>10. CASE DieOfBrokenPipe(p)
  BY <1>10, ChildMoveEnds DEF DieOfBrokenPipe, Running, Ended
<1> QED
  BY <1>1, <1>2, <1>3, <1>4, <1>5, <1>6, <1>7, <1>8, <1>9, <1>10 DEF Work

LEMMA FailureEnds ==
  ASSUME EndInv, NEW p \in Processes,
         NoMatchingPublisher \/ PublishAndThrow \/ ReceiveForeign
         \/ Exception(p) \/ Crash(p) \/ Hang(p)
  PROVE  EndInv'
<1>1. CASE NoMatchingPublisher
  BY <1>1, ThrowEnds DEF NoMatchingPublisher, Processes, Running
<1>2. CASE Exception(p)
  BY <1>2, ThrowEnds DEF Exception, Running
<1>3. CASE Crash(p)
  <2>1. rc'[p] = 1
    BY <1>3 DEF Crash, EndInv, EndTypes
  <2> QED
    BY <1>3, <2>1, ChildMoveEnds DEF Crash, Ended
<1>4. CASE Hang(p)
  BY <1>4, ChildMoveEnds DEF Hang, Running
<1>5. CASE ReceiveForeign
  BY <1>5, AsideEnds DEF ReceiveForeign
<1>6. CASE PublishAndThrow
  BY <1>6, ChildMoveEnds DEF PublishAndThrow, Processes, Running
<1> QED
  BY <1>1, <1>2, <1>3, <1>4, <1>5, <1>6

LEMMA EndInvStep == EndInv /\ [Next]_vars => EndInv'
<1> SUFFICES ASSUME EndInv, [Next]_vars PROVE EndInv'
  OBVIOUS
<1>1. CASE Orchestrate \/ Timeout \/ OrchestratorKilled
  BY <1>1, OrchestrateEnds
<1>2. CASE NoMatchingPublisher \/ PublishAndThrow \/ ReceiveForeign
  BY <1>2, FailureEnds DEF Processes
<1>3. ASSUME NEW p \in Processes, CollectRow(p) \/ CollectMarker(p) \/ Discover(p)
      PROVE  EndInv'
  BY <1>3, AsideEnds DEF CollectRow, CollectMarker, Discover
<1>4. ASSUME NEW p \in Processes, Work(p)
      PROVE  EndInv'
  BY <1>4, WorkEnds
<1>5. ASSUME NEW p \in Processes, Exception(p) \/ Crash(p) \/ Hang(p)
      PROVE  EndInv'
  BY <1>5, FailureEnds
<1>6. CASE Done \/ UNCHANGED vars
  BY <1>6, AsideEnds DEF Done, vars
<1> QED
  BY <1>1, <1>2, <1>3, <1>4, <1>5, <1>6 DEF Next

LEMMA EndInvHolds == Spec => []EndInv
BY EndInvInit, EndInvStep, PTL DEF Spec

(***************************************************************************)
(* run_inter_pair() never returns with a child of it still running, at     *)
(* whichever of its waits it returns and whatever the children did.        *)
(***************************************************************************)
THEOREM NobodyEverLeftBehind == Spec => []NobodyLeftBehind
<1>1. EndInv => NobodyLeftBehind
  BY DEF EndInv, NobodyLeftBehind
<1> QED
  BY <1>1, EndInvHolds, PTL

(***************************************************************************)
(* A success that run_inter_pair() reports is one of both children, after  *)
(* a release: no child that was killed or threw counts as having exited.   *)
(***************************************************************************)
THEOREM SuccessAlwaysGenuine == Spec => []SuccessIsGenuine
<1>1. EndInv => SuccessIsGenuine
  BY DEF EndInv, SuccessIsGenuine
<1> QED
  BY <1>1, EndInvHolds, PTL

--------------------------------------------------------------------------------
(* The rows of a step *)

\* What a child has emitted so far, wherever it is by now.
Emitted(p) == rowLines[p] \o (stdout[p] \o buffered[p])

\* A child in one of these may emit yet, and has printed nothing.
Emitting == {"none", "starting", "waitMatch", "barrier", "active"}

RowTypes ==
  /\ buffered \in [Processes -> Seq(Rows)]
  /\ stdout \in [Processes -> Seq(Rows)]
  /\ rowLines \in [Processes -> Seq(Rows)]
  /\ sent \in 0 .. Samples
  /\ inFlight \subseteq 0 .. (sent - 1)
  /\ \A p \in Processes : Len(stdout[p]) <= PipeCapacity

\* t is what the publisher has emitted after n samples: a row for each and,
\* if it threw, an error row.
PubRows(t, n) ==
  /\ Len(t) \in {n, n + 1}
  /\ \A i \in 1 .. n : t[i] = Row("publish", i - 1)
  /\ Len(t) = n + 1 => t[n + 1] = Row("error", 0)

\* t has receive rows in order, all of samples below n, and at most e others.
SubRows(t, n, e) ==
  /\ \A i \in 1 .. Len(t) : t[i].event = "error" \/ (t[i].event = "receive" /\ t[i].seq < n)
  /\ \A i, j \in 1 .. Len(t) :
       i < j /\ t[i].event = "receive" /\ t[j].event = "receive" => t[i].seq < t[j].seq
  /\ Len(t) <= n + e

HasError(t) == \E i \in 1 .. Len(t) : t[i].event = "error"

(***************************************************************************)
(* The subscriber has taken samples below some n; those at n and above are *)
(* still to come. One foreign sample and one exception add a row each.     *)
(***************************************************************************)
SubTook ==
  \E n \in 0 .. sent :
    /\ \A x \in inFlight : n <= x
    /\ SubRows(Emitted("sub"), n, 2)
    /\ child["sub"] \in Emitting =>
         /\ SubRows(Emitted("sub"), n, 1)
         /\ ~HasError(Emitted("sub")) => SubRows(Emitted("sub"), n, 0)

\* What the children have emitted, and that a child prints behind its work.
\* The sample behind which the publisher threw has no row.
ChildRows ==
  /\ RowTypes
  /\ \E n \in 0 .. sent : PubRows(Emitted("pub"), n)
  /\ child["pub"] \in Emitting => PubRows(Emitted("pub"), sent) /\ Len(Emitted("pub")) = sent
  /\ SubTook
  /\ \A p \in Processes : child[p] \in Emitting => stdout[p] = <<>> /\ rowLines[p] = <<>>

\* What run_inter_pair() has returned, and the order of its waits.
Returned ==
  /\ stdin \in {"open", "go", "closed"}
  /\ child["pub"] = "none" => orchestrator \in {"READY", "returned", "dead"}
  /\ orchestrator = "returned" => result.process # "none"
  /\ orchestrator # "returned" => result = NoResult
  /\ result.rows \in Seq(Rows)
  /\ RowsFaithful

RowsInv == EndInv /\ ChildRows /\ Returned

\* Taking the first row off one sequence and putting it behind another.
LEMMA RowMoves ==
  ASSUME NEW S, NEW s \in Seq(S), NEW t \in Seq(S), t # <<>>
  PROVE  Append(s, Head(t)) \o Tail(t) = s \o t
<1>1. Head(t) \in S /\ Tail(t) \in Seq(S) /\ Len(t) \in Nat \ {0} /\ Head(t) = t[1]
  BY HeadTailProperties, EmptySeq, LenProperties
<1>2. t = <<Head(t)>> \o Tail(t)
  <2>1. 1 \in 1 .. Len(t) /\ Len(t) \in 1 .. Len(t) /\ 1 + 1 = 2
    BY <1>1
  <2>2. SubSeq(t, 1, Len(t)) = <<t[1]>> \o SubSeq(t, 1 + 1, Len(t))
    BY <2>1, SubSeqRecursiveFirst
  <2>3. SubSeq(t, 1, Len(t)) = t /\ SubSeq(t, 2, Len(t)) = Tail(t)
    BY SubSeqFull, TailIsSubSeq
  <2>4. QED
    BY <1>1, <2>1, <2>2, <2>3
<1>3. <<Head(t)>> \in Seq(S)
  BY <1>1
<1>4. Append(s, Head(t)) = s \o <<Head(t)>>
  BY <1>1, AppendIsConcat
<1>5. QED
  BY <1>1, <1>2, <1>3, <1>4, ConcatAssociative

LEMMA RowMovesBefore ==
  ASSUME NEW S, NEW r \in Seq(S), NEW s \in Seq(S), NEW t \in Seq(S), s # <<>>
  PROVE  Append(r, Head(s)) \o (Tail(s) \o t) = r \o (s \o t)
<1> DEFINE a == Append(r, Head(s))
<1>1. Head(s) \in S /\ Tail(s) \in Seq(S)
  BY HeadTailProperties
<1>2. a \in Seq(S)
  BY <1>1, AppendProperties
<1>3. a \o Tail(s) = r \o s
  BY RowMoves
<1> DEFINE rest == Tail(s)
<1> HIDE DEF a, rest
<1>4. rest \in Seq(S)
  BY <1>1 DEF rest
<1>5. (a \o rest) \o t = a \o (rest \o t)
  BY <1>2, <1>4, ConcatAssociative
<1>6. (r \o s) \o t = r \o (s \o t)
  BY ConcatAssociative
<1>7. QED
  BY <1>3, <1>5, <1>6 DEF a, rest

LEMMA ConcatOfThree ==
  ASSUME NEW S, NEW r \in Seq(S), NEW s \in Seq(S), NEW t \in Seq(S)
  PROVE  /\ s \o t \in Seq(S) /\ r \o (s \o t) \in Seq(S)
         /\ Len(r \o (s \o t)) = Len(r) + (Len(s) + Len(t))
         /\ \A i \in 1 .. Len(r) : r[i] = (r \o (s \o t))[i]
<1> DEFINE c == s \o t
           d == r \o c
<1>1. c \in Seq(S) /\ Len(c) = Len(s) + Len(t)
  BY ConcatProperties
<1> HIDE DEF c
<1>2. \A x, y \in Seq(S) :
        /\ x \o y \in Seq(S) /\ Len(x \o y) = Len(x) + Len(y)
        /\ \A i \in 1 .. Len(x) : (x \o y)[i] = x[i]
  <2> TAKE x, y \in Seq(S)
  <2>1. Len(x) \in Nat /\ Len(y) \in Nat
    BY LenProperties
  <2>2. QED
    BY <2>1, ConcatProperties
<1>3. /\ d \in Seq(S) /\ Len(d) = Len(r) + Len(c)
      /\ \A i \in 1 .. Len(r) : d[i] = r[i]
  BY <1>1, <1>2
<1>4. QED
  BY <1>1, <1>3 DEF c, d

LEMMA RowIsRow ==
  ASSUME NEW event \in {"publish", "receive", "error"}, NEW seq \in 0 .. Samples
  PROVE  /\ Row(event, seq) \in Rows
         /\ Row(event, seq).event = event /\ Row(event, seq).seq = seq
BY DEF Row, Rows

LEMMA SeqOfRow ==
  ASSUME NEW t \in Seq(Rows), NEW i \in 1 .. Len(t)
  PROVE  t[i].seq \in Nat
<1>1. t[i] \in Rows
  BY ElementOfSeq
<1>2. QED
  BY <1>1, StepAssumption DEF Rows

LEMMA EmittedType ==
  ASSUME RowTypes, NEW p \in Processes
  PROVE  /\ stdout[p] \o buffered[p] \in Seq(Rows)
         /\ Emitted(p) \in Seq(Rows)
         /\ Len(Emitted(p)) = Len(rowLines[p]) + (Len(stdout[p]) + Len(buffered[p]))
         /\ \A i \in 1 .. Len(rowLines[p]) : rowLines[p][i] = Emitted(p)[i]
<1>1. rowLines[p] \in Seq(Rows) /\ stdout[p] \in Seq(Rows) /\ buffered[p] \in Seq(Rows)
  BY DEF RowTypes
<1>2. \A r, s, t \in Seq(Rows) :
        /\ s \o t \in Seq(Rows) /\ r \o (s \o t) \in Seq(Rows)
        /\ Len(r \o (s \o t)) = Len(r) + (Len(s) + Len(t))
        /\ \A i \in 1 .. Len(r) : r[i] = (r \o (s \o t))[i]
  BY ConcatOfThree
<1>3. QED
  BY <1>1, <1>2 DEF Emitted

\* A child that has printed nothing has all of its rows at hand.
LEMMA EmittedUnprinted ==
  ASSUME RowTypes, NEW p \in Processes, stdout[p] = <<>>, rowLines[p] = <<>>
  PROVE  Emitted(p) = buffered[p]
<1>1. buffered[p] \in Seq(Rows)
  BY DEF RowTypes
<1>2. QED
  BY <1>1, ConcatEmptySeq DEF Emitted

(***************************************************************************)
(* A row on its way from the child to its collector stays in its place.    *)
(***************************************************************************)
LEMMA CollectKeepsEmitted ==
  ASSUME RowTypes, NEW p \in Processes, CollectRow(p)
  PROVE  RowTypes' /\ \A q \in Processes : Emitted(q)' = Emitted(q)
<1>1. rowLines[p] \in Seq(Rows) /\ stdout[p] \in Seq(Rows) /\ buffered[p] \in Seq(Rows)
  BY DEF RowTypes
<1>2. stdout[p] # <<>> /\ buffered' = buffered /\ UNCHANGED <<sent, inFlight>>
  BY DEF CollectRow, middleware
<1>3. /\ Head(stdout[p]) \in Rows /\ Tail(stdout[p]) \in Seq(Rows)
      /\ Len(Tail(stdout[p])) = Len(stdout[p]) - 1 /\ Len(stdout[p]) \in Nat
  BY <1>1, <1>2, HeadTailProperties, LenProperties
<1>4. Append(rowLines[p], Head(stdout[p])) \in Seq(Rows)
  BY <1>1, <1>3, AppendProperties
<1>5. /\ rowLines' \in [Processes -> Seq(Rows)] /\ stdout' \in [Processes -> Seq(Rows)]
      /\ rowLines'[p] = Append(rowLines[p], Head(stdout[p])) /\ stdout'[p] = Tail(stdout[p])
      /\ \A q \in Processes : q # p => rowLines'[q] = rowLines[q] /\ stdout'[q] = stdout[q]
  BY <1>3, <1>4 DEF CollectRow, RowTypes
<1>6. \A q \in Processes : Len(stdout'[q]) <= PipeCapacity
  BY <1>3, <1>5, StepAssumption DEF RowTypes
<1>7. RowTypes'
  BY <1>2, <1>5, <1>6 DEF RowTypes
<1>8. Append(rowLines[p], Head(stdout[p])) \o (Tail(stdout[p]) \o buffered[p])
        = rowLines[p] \o (stdout[p] \o buffered[p])
  <2>1. \A r, s, t \in Seq(Rows) :
          s # <<>> => Append(r, Head(s)) \o (Tail(s) \o t) = r \o (s \o t)
    BY RowMovesBefore
  <2>2. QED
    BY <1>1, <1>2, <2>1
<1>9. QED
  BY <1>2, <1>5, <1>7, <1>8 DEF Emitted

LEMMA FlushKeepsEmitted ==
  ASSUME RowTypes, NEW p \in Processes, FlushRow(p)
  PROVE  RowTypes' /\ \A q \in Processes : Emitted(q)' = Emitted(q)
<1>1. stdout[p] \in Seq(Rows) /\ buffered[p] \in Seq(Rows)
  BY DEF RowTypes
<1>2. buffered[p] # <<>> /\ rowLines' = rowLines /\ UNCHANGED <<sent, inFlight>>
  BY DEF FlushRow, middleware, collected
<1>3. Head(buffered[p]) \in Rows /\ Tail(buffered[p]) \in Seq(Rows)
  BY <1>1, <1>2, HeadTailProperties
<1>4. /\ Append(stdout[p], Head(buffered[p])) \in Seq(Rows)
      /\ Len(Append(stdout[p], Head(buffered[p]))) = Len(stdout[p]) + 1
      /\ Len(stdout[p]) \in Nat
  BY <1>1, <1>3, AppendProperties, LenProperties
<1>5. /\ buffered' \in [Processes -> Seq(Rows)] /\ stdout' \in [Processes -> Seq(Rows)]
      /\ stdout'[p] = Append(stdout[p], Head(buffered[p])) /\ buffered'[p] = Tail(buffered[p])
      /\ \A q \in Processes : q # p => buffered'[q] = buffered[q] /\ stdout'[q] = stdout[q]
  BY <1>3, <1>4 DEF FlushRow, RowTypes
<1>6. \A q \in Processes : Len(stdout'[q]) <= PipeCapacity
  <2>1. Len(stdout[p]) + 1 <= PipeCapacity
    BY <1>4, StepAssumption DEF FlushRow
  <2>2. QED
    BY <1>4, <1>5, <2>1 DEF RowTypes
<1>7. RowTypes'
  BY <1>2, <1>5, <1>6 DEF RowTypes
<1>8. Append(stdout[p], Head(buffered[p])) \o Tail(buffered[p]) = stdout[p] \o buffered[p]
  BY <1>1, <1>2, RowMoves
<1>9. QED
  BY <1>2, <1>5, <1>7, <1>8 DEF Emitted

(***************************************************************************)
(* A child emits a row: it comes behind the others.                        *)
(***************************************************************************)
LEMMA EmitAppends ==
  ASSUME ChildRows, NEW p \in Processes, child[p] \in Emitting,
         NEW row \in Rows, Emit(p, row), UNCHANGED <<stdout, rowLines>>
  PROVE  /\ buffered' \in [Processes -> Seq(Rows)]
         /\ Emitted(p)' = Append(Emitted(p), row)
         /\ \A q \in Processes : q # p => Emitted(q)' = Emitted(q)
<1>1. buffered[p] \in Seq(Rows) /\ stdout[p] = <<>> /\ rowLines[p] = <<>>
  BY DEF ChildRows, RowTypes
<1>2. Append(buffered[p], row) \in Seq(Rows)
  BY <1>1, AppendProperties
<1>3. /\ buffered' \in [Processes -> Seq(Rows)]
      /\ buffered'[p] = Append(buffered[p], row)
      /\ \A q \in Processes : q # p => buffered'[q] = buffered[q]
  BY <1>2 DEF Emit, ChildRows, RowTypes
<1>4. Emitted(p) = buffered[p]
  BY <1>1, EmittedUnprinted DEF ChildRows
<1>5. Emitted(p)' = Append(buffered[p], row)
  BY <1>1, <1>2, <1>3, ConcatEmptySeq DEF Emitted
<1>6. QED
  BY <1>3, <1>4, <1>5 DEF Emitted

\* What a row more makes of a child's rows.
LEMMA PubRowsPublish ==
  ASSUME NEW n \in 0 .. Samples, n < Samples, NEW t \in Seq(Rows), PubRows(t, n), Len(t) = n
  PROVE  /\ PubRows(Append(t, Row("publish", n)), n + 1)
         /\ Len(Append(t, Row("publish", n))) = n + 1
<1> DEFINE u == Append(t, Row("publish", n))
<1>1. n \in Nat /\ Row("publish", n) \in Rows
  BY RowIsRow, StepAssumption
<1>2. /\ Len(u) = n + 1 /\ u[n + 1] = Row("publish", n)
      /\ \A i \in 1 .. n : u[i] = t[i]
  BY <1>1, AppendProperties
<1> HIDE DEF u
<1>3. \A i \in 1 .. n + 1 : u[i] = Row("publish", i - 1)
  <2> TAKE i \in 1 .. n + 1
  <2>1. CASE i = n + 1
    <3>1. i - 1 = n
      BY <1>1, <2>1
    <3>2. QED
      BY <1>2, <2>1, <3>1
  <2>2. CASE i # n + 1
    BY <1>1, <1>2, <2>2 DEF PubRows
  <2>3. QED
    BY <2>1, <2>2
<1>4. n + 1 # (n + 1) + 1
  BY <1>1
<1>5. QED
  BY <1>2, <1>3, <1>4 DEF PubRows, u

LEMMA PubRowsError ==
  ASSUME NEW n \in 0 .. Samples, NEW t \in Seq(Rows), PubRows(t, n), Len(t) = n
  PROVE  PubRows(Append(t, Row("error", 0)), n)
<1> DEFINE u == Append(t, Row("error", 0))
<1>1. n \in Nat /\ Row("error", 0) \in Rows
  BY RowIsRow, StepAssumption
<1>2. /\ Len(u) = n + 1 /\ u[n + 1] = Row("error", 0)
      /\ \A i \in 1 .. n : u[i] = t[i]
  BY <1>1, AppendProperties
<1> HIDE DEF u
<1>3. QED
  BY <1>2 DEF PubRows, u

LEMMA SubRowsWeaken ==
  ASSUME NEW t \in Seq(Rows), NEW n \in Nat, NEW e \in Nat, SubRows(t, n, e),
         NEW m \in Nat, NEW f \in Nat, n <= m, e <= f
  PROVE  SubRows(t, m, f)
<1>1. Len(t) \in Nat
  BY LenProperties
<1>2. \A i \in 1 .. Len(t) : t[i].seq < n => t[i].seq < m
  <2> TAKE i \in 1 .. Len(t)
  <2>1. t[i].seq \in Nat
    BY SeqOfRow
  <2>2. QED
    BY <2>1
<1>3. Len(t) <= n + e => Len(t) <= m + f
  BY <1>1
<1>4. QED
  BY <1>2, <1>3 DEF SubRows

LEMMA SubRowsReceive ==
  ASSUME NEW t \in Seq(Rows), NEW n \in Nat, NEW e \in Nat, SubRows(t, n, e),
         NEW x \in n .. Samples
  PROVE  /\ SubRows(Append(t, Row("receive", x)), x + 1, e)
         /\ HasError(Append(t, Row("receive", x))) <=> HasError(t)
<1> DEFINE row == Row("receive", x)
           u == Append(t, row)
<1>1. x \in 0 .. Samples /\ x \in Nat /\ Len(t) \in Nat /\ n <= x
  BY StepAssumption, LenProperties
<1>2. row \in Rows /\ row.event = "receive" /\ row.seq = x
  BY <1>1, RowIsRow
<1> HIDE DEF row
<1>3. /\ Len(u) = Len(t) + 1 /\ u[Len(t) + 1] = row
      /\ \A i \in 1 .. Len(t) : u[i] = t[i]
  BY <1>2, AppendProperties
<1> HIDE DEF u
<1>4. \A i \in 1 .. Len(u) : i \in 1 .. Len(t) \/ i = Len(t) + 1
  BY <1>1, <1>3
<1>5. \A i \in 1 .. Len(t) : t[i].seq \in Nat
  BY SeqOfRow
<1>6. \A i \in 1 .. Len(t) : t[i].event = "receive" => t[i].seq < x
  <2> TAKE i \in 1 .. Len(t)
  <2>1. t[i].event = "receive" => t[i].seq < n
    BY DEF SubRows
  <2>2. QED
    BY <1>1, <1>5, <2>1
<1>7. \A i \in 1 .. Len(u) :
        u[i].event = "error" \/ (u[i].event = "receive" /\ u[i].seq < x + 1)
  <2> TAKE i \in 1 .. Len(u)
  <2>1. CASE i = Len(t) + 1
    BY <1>1, <1>2, <1>3, <2>1
  <2>2. CASE i \in 1 .. Len(t)
    <3>1. t[i].seq < x => t[i].seq < x + 1
      BY <1>1, <1>5, <2>2
    <3>2. QED
      BY <1>3, <1>6, <2>2, <3>1 DEF SubRows
  <2>3. QED
    BY <1>4, <2>1, <2>2
<1>8. \A i, j \in 1 .. Len(u) :
        i < j /\ u[i].event = "receive" /\ u[j].event = "receive" => u[i].seq < u[j].seq
  <2> TAKE i, j \in 1 .. Len(u)
  <2> HAVE i < j /\ u[i].event = "receive" /\ u[j].event = "receive"
  <2>1. i \in 1 .. Len(t)
    BY <1>1, <1>3
  <2>2. CASE j = Len(t) + 1
    BY <1>2, <1>3, <1>6, <2>1, <2>2
  <2>3. CASE j \in 1 .. Len(t)
    BY <1>3, <2>1, <2>3 DEF SubRows
  <2>4. QED
    BY <1>4, <2>2, <2>3
<1>9. Len(u) <= (x + 1) + e
  <2>1. Len(t) <= n + e
    BY DEF SubRows
  <2>2. QED
    BY <1>1, <1>3, <2>1
<1>10. HasError(u) <=> HasError(t)
  <2>1. ASSUME NEW i \in 1 .. Len(u), u[i].event = "error" PROVE HasError(t)
    BY <1>2, <1>3, <1>4, <2>1 DEF HasError
  <2>2. ASSUME NEW i \in 1 .. Len(t), t[i].event = "error" PROVE HasError(u)
    <3>1. i \in 1 .. Len(u)
      BY <1>1, <1>3
    <3>2. QED
      BY <1>3, <2>2, <3>1 DEF HasError
  <2>3. QED
    BY <2>1, <2>2 DEF HasError
<1>11. QED
  BY <1>7, <1>8, <1>9, <1>10 DEF SubRows, u, row

LEMMA SubRowsError ==
  ASSUME NEW t \in Seq(Rows), NEW n \in Nat, NEW e \in Nat, SubRows(t, n, e)
  PROVE  /\ SubRows(Append(t, Row("error", 0)), n, e + 1)
         /\ HasError(Append(t, Row("error", 0)))
<1> DEFINE row == Row("error", 0)
           u == Append(t, row)
<1>1. row \in Rows /\ row.event = "error" /\ Len(t) \in Nat
  BY RowIsRow, LenProperties, StepAssumption
<1> HIDE DEF row
<1>2. /\ Len(u) = Len(t) + 1 /\ u[Len(t) + 1] = row
      /\ \A i \in 1 .. Len(t) : u[i] = t[i]
  BY <1>1, AppendProperties
<1> HIDE DEF u
<1>3. \A i \in 1 .. Len(u) :
        \/ i \in 1 .. Len(t) /\ u[i] = t[i]
        \/ i = Len(t) + 1 /\ u[i].event = "error"
  <2> TAKE i \in 1 .. Len(u)
  <2>1. i \in 1 .. Len(t) \/ i = Len(t) + 1
    BY <1>1, <1>2
  <2>2. QED
    BY <1>1, <1>2, <2>1
<1>4. "error" # "receive"
  OBVIOUS
<1>5. \A i \in 1 .. Len(u) :
        u[i].event = "error" \/ (u[i].event = "receive" /\ u[i].seq < n)
  BY <1>3 DEF SubRows
<1>6. \A i, j \in 1 .. Len(u) :
        i < j /\ u[i].event = "receive" /\ u[j].event = "receive" => u[i].seq < u[j].seq
  BY <1>3, <1>4 DEF SubRows
<1>7. Len(u) <= n + (e + 1)
  <2>1. Len(t) <= n + e
    BY DEF SubRows
  <2>2. QED
    BY <1>1, <1>2, <2>1
<1>8. HasError(u)
  <2>1. Len(t) + 1 \in 1 .. Len(u)
    BY <1>1, <1>2
  <2>2. QED
    BY <1>1, <1>2, <2>1 DEF HasError
<1>9. QED
  BY <1>5, <1>6, <1>7, <1>8 DEF SubRows, u, row

LEMMA RowsInvInit == Init => RowsInv
<1> SUFFICES ASSUME Init PROVE RowsInv
  OBVIOUS
<1>1. RowTypes
  BY StepAssumption, EmptySeq DEF Init, RowTypes
<1>2. \A p \in Processes : Emitted(p) = <<>>
  BY <1>1, EmittedUnprinted, ConcatEmptySeq DEF Init
<1>3. "pub" \in Processes /\ "sub" \in Processes /\ Len(<<>>) = 0 /\ sent = 0 /\ inFlight = {}
  BY EmptySeq DEF Init, Processes
<1>4. PubRows(<<>>, 0) /\ SubRows(<<>>, 0, 0) /\ SubRows(<<>>, 0, 1) /\ SubRows(<<>>, 0, 2)
  BY <1>3 DEF PubRows, SubRows
<1>5. SubTook
  BY <1>2, <1>3, <1>4 DEF SubTook
<1>6. ChildRows
  <2>1. 0 \in 0 .. sent
    BY <1>3
  <2>2. QED
    BY <1>1, <1>2, <1>3, <1>4, <1>5, <2>1 DEF ChildRows, Init
<1>7. RowsFaithful
  <2>1. DOMAIN result.rows = {}
    BY DEF Init, NoResult
  <2>2. QED
    BY <2>1 DEF RowsFaithful, Places
<1>8. QED
  BY <1>6, <1>7, EndInvInit, EmptySeq DEF RowsInv, Returned, Init, Processes, NoResult

\* Steps that leave the rows and the samples alone and start no child's work.
LEMMA AsideRows ==
  ASSUME ChildRows, UNCHANGED <<rowLines, stdout, buffered, sent, inFlight>>,
         \A p \in Processes : child'[p] \in Emitting => child[p] \in Emitting
  PROVE  ChildRows'
<1>1. \A p \in Processes : Emitted(p)' = Emitted(p)
  BY DEF Emitted
<1>2. "pub" \in Processes /\ "sub" \in Processes
  BY DEF Processes
<1>3. SubTook'
  BY <1>1, <1>2 DEF SubTook, ChildRows
<1>4. QED
  BY <1>1, <1>2, <1>3 DEF ChildRows, RowTypes

\* A child that moves on from its work, or to the end of it.
LEMMA BecomesRows ==
  ASSUME EndInv, ChildRows, UNCHANGED <<rowLines, stdout, buffered, sent, inFlight>>,
         NEW p \in Processes, NEW what, Becomes(p, what),
         what \in Emitting => child[p] \in Emitting
  PROVE  ChildRows'
<1>1. \A q \in Processes : child'[q] = IF q = p THEN what ELSE child[q]
  BY DEF Becomes, EndInv, EndTypes
<1>2. \A q \in Processes : child'[q] \in Emitting => child[q] \in Emitting
  BY <1>1
<1>3. QED
  BY <1>2, AsideRows

LEMMA MovedRows ==
  ASSUME ChildRows, NEW p \in Processes, CollectRow(p) \/ FlushRow(p)
  PROVE  ChildRows'
<1>1. RowTypes' /\ \A q \in Processes : Emitted(q)' = Emitted(q)
  BY CollectKeepsEmitted, FlushKeepsEmitted DEF ChildRows
<1>2. UNCHANGED <<child, sent, inFlight>>
  BY DEF CollectRow, FlushRow, middleware
<1>3. child[p] \notin Emitting
  BY DEF CollectRow, FlushRow, ChildRows, Emitting
<1>4. \A q \in Processes : q # p => stdout'[q] = stdout[q] /\ rowLines'[q] = rowLines[q]
  BY DEF CollectRow, FlushRow, ChildRows, RowTypes, collected
<1>5. "pub" \in Processes /\ "sub" \in Processes
  BY DEF Processes
<1>6. SubTook'
  BY <1>1, <1>2, <1>5 DEF SubTook, ChildRows
<1>7. QED
  BY <1>1, <1>2, <1>3, <1>4, <1>5, <1>6 DEF ChildRows

\* What the subscriber took lies below a sample that is only now published.
LEMMA PublishedSubTook ==
  ASSUME ChildRows, sent' = sent + 1, inFlight' \subseteq inFlight \union {sent},
         Emitted("sub")' = Emitted("sub"), child'["sub"] = child["sub"]
  PROVE  SubTook'
<1>1. sent \in Nat
  BY StepAssumption DEF ChildRows, RowTypes
<1>2. PICK n \in 0 .. sent :
        /\ \A x \in inFlight : n <= x
        /\ SubRows(Emitted("sub"), n, 2)
        /\ child["sub"] \in Emitting =>
             /\ SubRows(Emitted("sub"), n, 1)
             /\ ~HasError(Emitted("sub")) => SubRows(Emitted("sub"), n, 0)
  BY DEF ChildRows, SubTook
<1>3. n \in 0 .. sent' /\ \A x \in inFlight' : n <= x
  BY <1>1, <1>2
<1>4. QED
  BY <1>2, <1>3 DEF SubTook

LEMMA PublishRows ==
  ASSUME EndInv, ChildRows, Publish
  PROVE  ChildRows'
<1>1. /\ "pub" \in Processes /\ "sub" \in Processes /\ "pub" # "sub"
      /\ child["pub"] \in Emitting /\ sent \in 0 .. Samples /\ sent < Samples
      /\ UNCHANGED <<child, stdout, rowLines>> /\ sent' = sent + 1
  BY DEF Publish, Processes, Emitting, ChildRows, RowTypes, collected
<1>2. sent \in Nat /\ sent' \in 0 .. Samples /\ Row("publish", sent) \in Rows
  BY <1>1, RowIsRow, StepAssumption
<1>3. /\ buffered' \in [Processes -> Seq(Rows)]
      /\ Emitted("pub")' = Append(Emitted("pub"), Row("publish", sent))
      /\ Emitted("sub")' = Emitted("sub")
  BY <1>1, <1>2, EmitAppends DEF Publish
<1>4. inFlight' \subseteq inFlight \union {sent}
  BY DEF Publish
<1>5. RowTypes'
  <2>1. inFlight' \subseteq 0 .. (sent' - 1)
    BY <1>1, <1>2, <1>4 DEF ChildRows, RowTypes
  <2>2. QED
    BY <1>1, <1>2, <1>3, <2>1 DEF ChildRows, RowTypes
<1>6. PubRows(Emitted("pub"), sent)' /\ Len(Emitted("pub"))' = sent'
  <2>1. Emitted("pub") \in Seq(Rows) /\ PubRows(Emitted("pub"), sent) /\ Len(Emitted("pub")) = sent
    BY <1>1, EmittedType DEF ChildRows
  <2>2. /\ PubRows(Append(Emitted("pub"), Row("publish", sent)), sent + 1)
        /\ Len(Append(Emitted("pub"), Row("publish", sent))) = sent + 1
    BY <1>1, <2>1, PubRowsPublish
  <2>3. QED
    BY <1>1, <1>3, <2>2 DEF PubRows
<1>7. SubTook'
  BY <1>1, <1>3, <1>4, PublishedSubTook
<1>8. sent' \in 0 .. sent'
  BY <1>2
<1>9. QED
  BY <1>1, <1>5, <1>6, <1>7, <1>8 DEF ChildRows

LEMMA PublishAndThrowRows ==
  ASSUME EndInv, ChildRows, PublishAndThrow
  PROVE  ChildRows'
<1>1. /\ "pub" \in Processes /\ "sub" \in Processes /\ "pub" # "sub"
      /\ child["pub"] \in Emitting /\ sent \in 0 .. Samples /\ sent < Samples
      /\ UNCHANGED <<stdout, rowLines>> /\ sent' = sent + 1
  BY DEF PublishAndThrow, Processes, Emitting, ChildRows, RowTypes, collected
<1>2. sent \in Nat /\ sent' \in 0 .. Samples /\ Row("error", 0) \in Rows /\ sent \in 0 .. sent'
  BY <1>1, RowIsRow, StepAssumption
<1>3. /\ child'["pub"] = "flushing" /\ child'["sub"] = child["sub"]
      /\ "flushing" \notin Emitting
  BY <1>1 DEF PublishAndThrow, Becomes, EndInv, EndTypes, Emitting
<1>4. /\ buffered' \in [Processes -> Seq(Rows)]
      /\ Emitted("pub")' = Append(Emitted("pub"), Row("error", 0))
      /\ Emitted("sub")' = Emitted("sub")
  BY <1>1, <1>2, EmitAppends DEF PublishAndThrow
<1>5. inFlight' \subseteq inFlight \union {sent}
  BY DEF PublishAndThrow
<1>6. RowTypes'
  <2>1. inFlight' \subseteq 0 .. (sent' - 1)
    BY <1>1, <1>2, <1>5 DEF ChildRows, RowTypes
  <2>2. QED
    BY <1>1, <1>2, <1>4, <2>1 DEF ChildRows, RowTypes
<1>7. PubRows(Append(Emitted("pub"), Row("error", 0)), sent)
  <2>1. Emitted("pub") \in Seq(Rows) /\ PubRows(Emitted("pub"), sent) /\ Len(Emitted("pub")) = sent
    BY <1>1, EmittedType DEF ChildRows
  <2>2. QED
    BY <1>1, <2>1, PubRowsError
<1>8. \E n \in 0 .. sent' : PubRows(Emitted("pub")', n)
  BY <1>2, <1>4, <1>7
<1>9. (\E n \in 0 .. sent : PubRows(Emitted("pub"), n))'
  BY <1>8 DEF PubRows
<1>10. SubTook'
  BY <1>1, <1>3, <1>4, <1>5, PublishedSubTook
<1>11. \A p \in Processes : child'[p] \in Emitting => child[p] \in Emitting
  BY <1>3 DEF Processes
<1>12. QED
  BY <1>1, <1>3, <1>6, <1>9, <1>10, <1>11 DEF ChildRows

LEMMA ReceiveRows ==
  ASSUME EndInv, ChildRows, Receive
  PROVE  ChildRows'
<1>1. /\ "pub" \in Processes /\ "sub" \in Processes /\ "pub" # "sub"
      /\ child["sub"] \in Emitting /\ sent \in 0 .. Samples /\ sent \in Nat
      /\ UNCHANGED <<child, stdout, rowLines, sent>>
  BY StepAssumption DEF Receive, Processes, Emitting, ChildRows, RowTypes, collected
<1>2. PICK x \in inFlight :
        /\ \A other \in inFlight : x <= other
        /\ inFlight' = inFlight \ {x}
        /\ Emit("sub", Row("receive", x))
  BY DEF Receive
<1>3. inFlight \subseteq 0 .. (sent - 1) /\ inFlight \subseteq Nat /\ x \in 0 .. Samples /\ x < sent
  BY <1>1, <1>2, StepAssumption DEF ChildRows, RowTypes
<1>4. /\ buffered' \in [Processes -> Seq(Rows)]
      /\ Emitted("sub")' = Append(Emitted("sub"), Row("receive", x))
      /\ Emitted("pub")' = Emitted("pub")
  BY <1>1, <1>2, <1>3, RowIsRow, EmitAppends
<1>5. RowTypes'
  BY <1>1, <1>2, <1>3, <1>4 DEF ChildRows, RowTypes
<1>6. SubTook'
  <2>1. PICK n \in 0 .. sent :
          /\ \A y \in inFlight : n <= y
          /\ SubRows(Emitted("sub"), n, 1)
          /\ ~HasError(Emitted("sub")) => SubRows(Emitted("sub"), n, 0)
    BY <1>1 DEF ChildRows, SubTook
  <2>2. /\ n \in Nat /\ x \in n .. Samples /\ x + 1 \in 0 .. sent /\ x + 1 \in Nat
        /\ \A y \in inFlight' : x + 1 <= y
    BY <1>1, <1>2, <1>3, <2>1
  <2>3. Emitted("sub") \in Seq(Rows) /\ Emitted("sub")' \in Seq(Rows)
    <3>1. Row("receive", x) \in Rows
      BY <1>3, RowIsRow
    <3>2. Emitted("sub") \in Seq(Rows)
      BY <1>1, EmittedType DEF ChildRows
    <3>3. Append(Emitted("sub"), Row("receive", x)) \in Seq(Rows)
      BY <3>1, <3>2, AppendProperties
    <3>4. QED
      BY <1>4, <3>2, <3>3
  <2>4. /\ SubRows(Append(Emitted("sub"), Row("receive", x)), x + 1, 1)
        /\ HasError(Append(Emitted("sub"), Row("receive", x))) <=> HasError(Emitted("sub"))
    BY <2>1, <2>2, <2>3, SubRowsReceive
  <2>5. ~HasError(Emitted("sub")) =>
          SubRows(Append(Emitted("sub"), Row("receive", x)), x + 1, 0)
    BY <2>1, <2>2, <2>3, SubRowsReceive
  <2> DEFINE t == Emitted("sub")'
  <2>6. SubRows(t, x + 1, 1) /\ (~HasError(t) => SubRows(t, x + 1, 0))
    BY <1>4, <2>4, <2>5
  <2>7. SubRows(t, x + 1, 2)
    <3>1. t \in Seq(Rows)
      BY <2>3
    <3> HIDE DEF t
    <3>2. QED
      BY <2>2, <2>6, <3>1, SubRowsWeaken
  <2>8. QED
    BY <1>1, <2>2, <2>6, <2>7 DEF SubTook, t
<1>7. QED
  BY <1>1, <1>4, <1>5, <1>6 DEF ChildRows

\* An error row of the subscriber: a foreign sample's, or that of its catch block.
LEMMA ForeignRows ==
  ASSUME EndInv, ChildRows, ReceiveForeign
  PROVE  ChildRows'
<1>1. /\ "pub" \in Processes /\ "sub" \in Processes /\ "pub" # "sub"
      /\ child["sub"] \in Emitting /\ sent \in Nat
      /\ UNCHANGED <<child, stdout, rowLines, sent, inFlight>>
      /\ Row("error", 0) \in Rows
  BY StepAssumption, RowIsRow
  DEF ReceiveForeign, Processes, Emitting, ChildRows, RowTypes, collected, middleware
<1>2. /\ buffered' \in [Processes -> Seq(Rows)]
      /\ Emitted("sub")' = Append(Emitted("sub"), Row("error", 0))
      /\ Emitted("pub")' = Emitted("pub")
  BY <1>1, EmitAppends DEF ReceiveForeign
<1>3. RowTypes'
  BY <1>1, <1>2 DEF ChildRows, RowTypes
<1>4. Emitted("sub") \in Seq(Rows) /\ Emitted("sub")' \in Seq(Rows)
  <2>1. Emitted("sub") \in Seq(Rows)
    BY <1>1, EmittedType DEF ChildRows
  <2>2. Append(Emitted("sub"), Row("error", 0)) \in Seq(Rows)
    BY <1>1, <2>1, AppendProperties
  <2>3. QED
    BY <1>2, <2>1, <2>2
<1>5. ~HasError(Emitted("sub"))
  <2>1. Emitted("sub") = buffered["sub"] /\ DOMAIN buffered["sub"] = 1 .. Len(buffered["sub"])
    BY <1>1, EmittedUnprinted, LenProperties DEF ChildRows, RowTypes
  <2>2. \A i \in 1 .. Len(buffered["sub"]) : buffered["sub"][i].event # "error"
    BY <2>1 DEF ReceiveForeign, Range
  <2>3. QED
    BY <2>1, <2>2 DEF HasError
<1>6. SubTook'
  <2>1. PICK n \in 0 .. sent :
          (\A y \in inFlight : n <= y) /\ SubRows(Emitted("sub"), n, 0)
    BY <1>1, <1>5 DEF ChildRows, SubTook
  <2>2. n \in Nat
    BY <1>1
  <2>3. /\ SubRows(Append(Emitted("sub"), Row("error", 0)), n, 1)
        /\ HasError(Append(Emitted("sub"), Row("error", 0)))
    BY <1>4, <2>1, <2>2, SubRowsError
  <2> DEFINE t == Emitted("sub")'
  <2>4. SubRows(t, n, 1) /\ HasError(t)
    BY <1>2, <2>3
  <2>5. SubRows(t, n, 2)
    <3>1. t \in Seq(Rows)
      BY <1>4
    <3> HIDE DEF t
    <3>2. QED
      BY <2>2, <2>4, <3>1, SubRowsWeaken
  <2>6. QED
    BY <1>1, <2>1, <2>4, <2>5 DEF SubTook, t
<1>7. QED
  BY <1>1, <1>2, <1>3, <1>6 DEF ChildRows

LEMMA ThrowRows ==
  ASSUME EndInv, ChildRows, NEW p \in Processes, child[p] \in Emitting, Throw(p)
  PROVE  ChildRows'
<1>1. /\ "pub" \in Processes /\ "sub" \in Processes /\ "pub" # "sub"
      /\ sent \in 0 .. Samples /\ sent \in Nat
      /\ UNCHANGED <<stdout, rowLines, sent, inFlight>>
      /\ Row("error", 0) \in Rows
  BY StepAssumption, RowIsRow
  DEF Throw, Processes, ChildRows, RowTypes, collected, middleware
<1>2. \A q \in Processes : child'[q] = IF q = p THEN "flushing" ELSE child[q]
  BY DEF Throw, Becomes, EndInv, EndTypes
<1>3. "flushing" \notin Emitting
  BY DEF Emitting
<1>4. /\ buffered' \in [Processes -> Seq(Rows)]
      /\ Emitted(p)' = Append(Emitted(p), Row("error", 0))
      /\ \A q \in Processes : q # p => Emitted(q)' = Emitted(q)
  BY <1>1, EmitAppends DEF Throw
<1>5. RowTypes'
  BY <1>1, <1>4 DEF ChildRows, RowTypes
<1>6. \A q \in Processes : Emitted(q) \in Seq(Rows)
  BY EmittedType DEF ChildRows
<1>7. CASE p = "pub"
  <2>1. PubRows(Append(Emitted("pub"), Row("error", 0)), sent)
    BY <1>1, <1>6, <1>7, PubRowsError DEF ChildRows
  <2>2. (\E n \in 0 .. sent : PubRows(Emitted("pub"), n))'
    <3>1. \E n \in 0 .. sent' : PubRows(Emitted("pub")', n)
      <4>1. sent \in 0 .. sent'
        BY <1>1
      <4>2. Emitted("pub")' = Append(Emitted("pub"), Row("error", 0))
        BY <1>4, <1>7
      <4>3. PubRows(Emitted("pub")', sent)
        BY <2>1, <4>2
      <4>4. QED
        BY <4>1, <4>3
    <3>2. QED
      BY <3>1 DEF PubRows
  <2>3. SubTook'
    BY <1>1, <1>2, <1>4, <1>7 DEF SubTook, ChildRows
  <2>4. QED
    BY <1>1, <1>2, <1>3, <1>5, <1>7, <2>2, <2>3 DEF ChildRows
<1>8. CASE p = "sub"
  <2>1. PICK n \in 0 .. sent :
          (\A y \in inFlight : n <= y) /\ SubRows(Emitted("sub"), n, 1)
    BY <1>8 DEF ChildRows, SubTook
  <2>2. SubRows(Append(Emitted("sub"), Row("error", 0)), n, 1 + 1) /\ 1 + 1 = 2
    BY <1>1, <1>6, <2>1, SubRowsError
  <2> DEFINE t == Emitted("sub")'
  <2>3. SubTook'
    <3>1. SubRows(t, n, 2)
      BY <1>4, <1>8, <2>2
    <3>2. child'["sub"] \notin Emitting
      BY <1>2, <1>3, <1>8
    <3>3. QED
      BY <1>1, <2>1, <3>1, <3>2 DEF SubTook, t
  <2>4. /\ (\E k \in 0 .. sent : PubRows(Emitted("pub"), k))'
        /\ (child["pub"] \in Emitting => PubRows(Emitted("pub"), sent) /\ Len(Emitted("pub")) = sent)'
    BY <1>1, <1>2, <1>4, <1>8 DEF ChildRows
  <2>5. QED
    BY <1>1, <1>2, <1>3, <1>5, <1>8, <2>3, <2>4 DEF ChildRows
<1>9. QED
  BY <1>7, <1>8 DEF Processes

LEMMA ChildRowsStep ==
  ASSUME EndInv, ChildRows, [Next]_vars
  PROVE  ChildRows'
<1> USE DEF middleware, collected
<1>1. CASE Orchestrate
  <2>1. CASE SeesReady
    <3>1. child["pub"] \in Emitting
      BY <2>1 DEF SeesReady, EndInv, Emitting
    <3>2. \A q \in Processes : child'[q] \in Emitting => child[q] \in Emitting
      BY <2>1, <3>1 DEF SeesReady, EndInv, EndTypes
    <3>3. QED
      BY <2>1, <3>2, AsideRows DEF SeesReady
  <2>2. CASE PublisherIsGone
    <3>1. \A q \in Processes : child'[q] \in Emitting => child[q] \in Emitting
      BY <2>2 DEF PublisherIsGone, GiveUp, Kill, Emitting
    <3>2. QED
      BY <2>2, <3>1, AsideRows DEF PublisherIsGone, GiveUp
  <2>3. CASE SeesPubReady \/ SeesSubMatched \/ ReleasePublisher \/ SeesPubExit \/ SeesSubExit
    BY <2>3, AsideRows
    DEF SeesPubReady, SeesSubMatched, ReleasePublisher, SeesPubExit, SeesSubExit
  <2>4. QED
    BY <1>1, <2>1, <2>2, <2>3 DEF Orchestrate
<1>2. CASE Timeout
  <2>1. PICK ps, process : GiveUp(ps, process)
    BY <1>2 DEF Timeout, ReadyTimeout, PubReadyTimeout, SubMatchedTimeout, StepTimeout
  <2>2. \A q \in Processes : child'[q] \in Emitting => child[q] \in Emitting
    BY <2>1 DEF GiveUp, Kill, Emitting
  <2>3. QED
    BY <2>1, <2>2, AsideRows DEF GiveUp
<1>3. CASE OrchestratorKilled
  BY <1>3, AsideRows DEF OrchestratorKilled
<1>4. CASE NoMatchingPublisher
  BY <1>4, ThrowRows DEF NoMatchingPublisher, Processes, Emitting
<1>5. CASE ReceiveForeign \/ PublishAndThrow
  BY <1>5, ForeignRows, PublishAndThrowRows
<1>6. ASSUME NEW p \in Processes, CollectRow(p) \/ FlushRow(p) PROVE ChildRows'
  BY <1>6, MovedRows
<1>7. ASSUME NEW p \in Processes, CollectMarker(p) \/ Discover(p) PROVE ChildRows'
  BY <1>7, AsideRows DEF CollectMarker, Discover
<1>8. ASSUME NEW p \in Processes, Exception(p) PROVE ChildRows'
  BY <1>8, ThrowRows DEF Exception, Emitting
<1>9. ASSUME NEW p \in Processes,
             TimeIsUp(p) \/ Exit(p) \/ DieOfBrokenPipe(p) \/ Crash(p) \/ Hang(p)
      PROVE  ChildRows'
  BY <1>9, BecomesRows DEF TimeIsUp, Exit, DieOfBrokenPipe, Crash, Hang, Emitting
<1>10. CASE StdinClosed
  BY <1>10, ThrowRows DEF StdinClosed, Processes, Emitting
<1>11. CASE PublisherCreated \/ PublisherReady \/ ReadGo
  BY <1>11, BecomesRows DEF PublisherCreated, PublisherReady, ReadGo, Processes, Emitting
<1>12. CASE SubscriberReady \/ SubscriberMatched
  BY <1>12, BecomesRows DEF SubscriberReady, SubscriberMatched, Processes, Emitting
<1>13. CASE Publish \/ Receive
  BY <1>13, PublishRows, ReceiveRows
<1>14. ASSUME NEW p \in Processes, Work(p) PROVE ChildRows'
  BY <1>6, <1>9, <1>10, <1>11, <1>12, <1>13, <1>14 DEF Work
<1>15. CASE Done \/ UNCHANGED vars
  BY <1>15, AsideRows DEF Done, vars
<1>16. QED
  BY <1>1, <1>2, <1>3, <1>4, <1>5, <1>6, <1>7, <1>8, <1>9, <1>14, <1>15 DEF Next

(***************************************************************************)
(* Whatever the collectors have read by then: the rows of the publisher    *)
(* and of the subscriber, one behind the other, are the faithful rows.     *)
(***************************************************************************)
LEMMA RowsReadFaithful ==
  ASSUME ChildRows, result'.rows = RowsRead, sent' = sent
  PROVE  result'.rows \in Seq(Rows) /\ RowsFaithful'
<1> DEFINE L == rowLines["pub"]
           R == rowLines["sub"]
           pubs == Emitted("pub")
           subs == Emitted("sub")
           rows == result'.rows
<1>1. "pub" \in Processes /\ "sub" \in Processes /\ RowTypes /\ sent \in Nat
  BY StepAssumption DEF Processes, ChildRows, RowTypes
<1>2. L \in Seq(Rows) /\ R \in Seq(Rows) /\ pubs \in Seq(Rows) /\ subs \in Seq(Rows)
  BY <1>1, EmittedType DEF RowTypes
<1>3. /\ \A i \in 1 .. Len(L) : L[i] = pubs[i] /\ i \in 1 .. Len(pubs)
      /\ \A i \in 1 .. Len(R) : R[i] = subs[i] /\ i \in 1 .. Len(subs)
  <2>1. ASSUME NEW p \in Processes
        PROVE  \A i \in 1 .. Len(rowLines[p]) :
                 rowLines[p][i] = Emitted(p)[i] /\ i \in 1 .. Len(Emitted(p))
    <3>1. /\ Len(rowLines[p]) \in Nat /\ Len(stdout[p]) \in Nat /\ Len(buffered[p]) \in Nat
          /\ Len(Emitted(p)) = Len(rowLines[p]) + (Len(stdout[p]) + Len(buffered[p]))
      BY <1>1, EmittedType, LenProperties DEF RowTypes
    <3>2. \A i \in 1 .. Len(rowLines[p]) : i \in 1 .. Len(Emitted(p))
      <4>1. \A a, b, c \in Nat : \A i \in 1 .. a : i \in 1 .. a + (b + c)
        OBVIOUS
      <4>2. QED
        BY <3>1, <4>1, Zenon
    <3>3. \A i \in 1 .. Len(rowLines[p]) : rowLines[p][i] = Emitted(p)[i]
      BY <1>1, EmittedType
    <3>4. QED
      BY <3>2, <3>3
  <2>2. QED
    BY <1>1, <2>1
<1>4. PICK m \in 0 .. sent : PubRows(pubs, m)
  BY DEF ChildRows
<1>5. PICK n \in 0 .. sent : SubRows(subs, n, 2)
  BY DEF ChildRows, SubTook
<1>6. /\ rows \in Seq(Rows) /\ DOMAIN rows = 1 .. Len(L) + Len(R)
      /\ \A i \in 1 .. Len(L) + Len(R) : rows[i] = IF i <= Len(L) THEN L[i] ELSE R[i - Len(L)]
  <2>1. \A s, t \in Seq(Rows) :
          /\ s \o t \in Seq(Rows) /\ DOMAIN (s \o t) = 1 .. Len(s) + Len(t)
          /\ \A i \in 1 .. Len(s) + Len(t) : (s \o t)[i] = IF i <= Len(s) THEN s[i] ELSE t[i - Len(s)]
    BY ConcatProperties, LenProperties
  <2>2. rows = L \o R
    BY DEF RowsRead
  <2> HIDE DEF rows, L, R
  <2>3. QED
    BY <1>2, <2>1, <2>2
<1>7. Len(L) \in Nat /\ Len(R) \in Nat /\ Len(pubs) \in Nat /\ Len(subs) \in Nat
  BY <1>2, LenProperties
<1> HIDE DEF L, R, pubs, subs, rows
<1>8. ASSUME NEW i \in 1 .. Len(pubs)
      PROVE  \/ i \in 1 .. m /\ pubs[i] = Row("publish", i - 1)
             \/ i = m + 1 /\ pubs[i] = Row("error", 0)
  BY <1>1, <1>4, <1>7 DEF PubRows
<1>9. /\ \A k : Row("publish", k).event = "publish" /\ Row("publish", k).seq = k
      /\ Row("error", 0).event = "error"
  BY DEF Row
<1>10. ASSUME NEW i \in 1 .. Len(L) + Len(R)
       PROVE  \/ /\ i \in 1 .. Len(L) /\ i \in 1 .. m
                 /\ rows[i].event = "publish" /\ rows[i].seq = i - 1
              \/ rows[i].event = "error"
              \/ /\ i > Len(L) /\ i - Len(L) \in 1 .. Len(subs) /\ rows[i] = subs[i - Len(L)]
                 /\ rows[i].event = "receive" /\ rows[i].seq < n
  <2>1. CASE i <= Len(L)
    <3>1. i \in 1 .. Len(L) /\ rows[i] = pubs[i] /\ i \in 1 .. Len(pubs)
      BY <1>3, <1>6, <1>7, <2>1
    <3>2. QED
      BY <1>8, <1>9, <3>1
  <2>2. CASE ~(i <= Len(L))
    <3>1. i > Len(L) /\ i - Len(L) \in 1 .. Len(R)
      BY <1>7, <2>2
    <3>2. i - Len(L) \in 1 .. Len(subs) /\ rows[i] = subs[i - Len(L)]
      BY <1>3, <1>6, <2>2, <3>1
    <3>3. QED
      BY <1>5, <3>1, <3>2 DEF SubRows
  <2>3. QED
    BY <2>1, <2>2
<1> DEFINE Of(event) == {i \in 1 .. Len(L) + Len(R) : rows[i].event = event}
<1>11. \A event : Places(event)' = Of(event)
  BY <1>6 DEF Places, rows
<1>12. ASSUME NEW i \in Of("publish") PROVE 1 .. i \subseteq Of("publish") /\ rows[i].seq = i - 1
  <2>1. i \in 1 .. Len(L) + Len(R) /\ i \in 1 .. Len(L) /\ i \in 1 .. m /\ rows[i].seq = i - 1
    BY <1>10
  <2>2. ASSUME NEW j \in 1 .. i PROVE j \in Of("publish")
    <3>1. /\ j \in 1 .. Len(L) /\ j \in 1 .. m /\ j \in 1 .. Len(L) + Len(R)
          /\ j <= Len(L) /\ j # m + 1
      BY <1>1, <1>7, <2>1
    <3>2. rows[j] = pubs[j] /\ j \in 1 .. Len(pubs)
      BY <1>3, <1>6, <3>1
    <3>3. QED
      BY <1>8, <1>9, <3>1, <3>2
  <2>3. QED
    BY <2>1, <2>2
<1>13. ASSUME NEW i \in Of("receive") PROVE rows[i].seq < sent
  <2>1. rows[i].seq < n /\ i \in 1 .. Len(L) + Len(R)
    BY <1>10
  <2>2. rows[i].seq \in Nat
    <3>1. Len(rows) = Len(L) + Len(R)
      BY <1>6, <1>7, LenProperties
    <3>2. QED
      BY <1>6, <2>1, <3>1, SeqOfRow
  <2>3. QED
    BY <1>1, <2>1, <2>2
<1>14. ASSUME NEW i \in Of("receive"), NEW j \in Of("receive"), i < j
       PROVE  rows[i].seq < rows[j].seq
  <2>1. /\ i - Len(L) \in 1 .. Len(subs) /\ rows[i] = subs[i - Len(L)]
        /\ rows[i].event = "receive" /\ i \in 1 .. Len(L) + Len(R)
    BY <1>10
  <2>2. /\ j - Len(L) \in 1 .. Len(subs) /\ rows[j] = subs[j - Len(L)]
        /\ rows[j].event = "receive" /\ j \in 1 .. Len(L) + Len(R)
    BY <1>10
  <2>3. i - Len(L) < j - Len(L)
    BY <1>7, <1>14, <2>1, <2>2
  <2>4. QED
    BY <1>5, <2>1, <2>2, <2>3 DEF SubRows
<1>15. QED
  BY <1>6, <1>11, <1>12, <1>13, <1>14 DEF RowsFaithful, rows

LEMMA GiveUpReturns ==
  ASSUME ChildRows, Returned, NEW ps, NEW process, GiveUp(ps, process), process # "none"
  PROVE  Returned'
<1>1. /\ orchestrator' = "returned" /\ result'.process # "none" /\ result'.rows = RowsRead
      /\ UNCHANGED <<stdin, sent>>
  BY DEF GiveUp, middleware
<1>2. result'.rows \in Seq(Rows) /\ RowsFaithful'
  BY <1>1, RowsReadFaithful
<1>3. QED
  BY <1>1, <1>2 DEF Returned

\* Steps in which the orchestrator does not move.
LEMMA AsideReturned ==
  ASSUME Returned, UNCHANGED <<orchestrator, result, stdin>>,
         child'["pub"] = "none" => child["pub"] = "none",
         sent \in Nat, sent' = sent \/ sent' = sent + 1
  PROVE  Returned'
<1>1. \A i \in DOMAIN result.rows : result.rows[i].seq < sent => result.rows[i].seq < sent'
  <2> TAKE i \in DOMAIN result.rows
  <2>1. result.rows[i].seq \in Nat
    BY SeqOfRow, LenProperties DEF Returned
  <2>2. QED
    BY <2>1
<1>2. RowsFaithful'
  <2>1. \A event : Places(event)' = Places(event) /\ Places(event) \subseteq DOMAIN result.rows
    BY DEF Places
  <2>2. \A i \in Places("receive") : result.rows[i].seq < sent'
    BY <1>1, <2>1 DEF Returned, RowsFaithful
  <2>3. QED
    BY <2>1, <2>2 DEF RowsFaithful, Returned
<1>3. QED
  BY <1>2 DEF Returned

\* Steps in which the orchestrator moves on to another wait, or is killed.
LEMMA WaitReturned ==
  ASSUME Returned, UNCHANGED <<result, sent>>,
         orchestrator # "returned", orchestrator' # "returned",
         stdin' \in {"open", "go", "closed"},
         child'["pub"] = "none" => orchestrator' \in {"READY", "returned", "dead"}
  PROVE  Returned'
<1>1. RowsFaithful'
  BY DEF Returned, RowsFaithful, Places
<1>2. QED
  BY <1>1 DEF Returned

LEMMA BecomesStarted ==
  ASSUME EndInv, NEW p \in Processes, NEW what, Becomes(p, what), what # "none"
  PROVE  child'["pub"] = "none" => child["pub"] = "none"
BY DEF Becomes, EndInv, EndTypes, Processes

LEMMA ReturnedStep ==
  ASSUME EndInv, ChildRows, Returned, [Next]_vars
  PROVE  Returned'
<1> USE DEF middleware, collected
<1>s. sent \in Nat /\ (orchestrator \in Waits => orchestrator # "returned")
  <2>1. sent \in 0 .. Samples
    BY DEF ChildRows, RowTypes
  <2>2. orchestrator \in Waits => orchestrator # "returned"
    BY DEF Waits
  <2>3. QED
    BY <2>1, <2>2, StepAssumption
<1>1. CASE Orchestrate
  <2>1. CASE SeesReady
    <3>1. child'["pub"] = "starting"
      BY <2>1 DEF SeesReady, EndInv, EndTypes, Processes
    <3>2. QED
      BY <2>1, <3>1, WaitReturned DEF SeesReady, Returned
  <2>2. CASE PublisherIsGone
    BY <2>2, GiveUpReturns DEF PublisherIsGone
  <2>3. CASE SeesPubReady \/ SeesSubMatched \/ ReleasePublisher \/ SeesPubExit
    BY <2>3, WaitReturned
    DEF SeesPubReady, SeesSubMatched, ReleasePublisher, SeesPubExit, Returned
  <2>4. CASE SeesSubExit
    <3>1. /\ orchestrator' = "returned" /\ result'.process # "none" /\ result'.rows = RowsRead
          /\ UNCHANGED <<stdin, sent>>
      BY <2>4 DEF SeesSubExit
    <3>2. result'.rows \in Seq(Rows) /\ RowsFaithful'
      BY <3>1, RowsReadFaithful
    <3>3. QED
      BY <3>1, <3>2 DEF Returned
  <2>5. QED
    BY <1>1, <2>1, <2>2, <2>3, <2>4 DEF Orchestrate
<1>2. CASE Timeout
  BY <1>2, GiveUpReturns
  DEF Timeout, ReadyTimeout, PubReadyTimeout, SubMatchedTimeout, StepTimeout
<1>3. CASE OrchestratorKilled
  BY <1>3, <1>s, WaitReturned DEF OrchestratorKilled, Returned
<1>4. ASSUME NEW p \in Processes, Throw(p) PROVE Returned'
  BY <1>4, <1>s, BecomesStarted, AsideReturned DEF Throw
<1>5. CASE NoMatchingPublisher
  BY <1>4, <1>5 DEF NoMatchingPublisher, Processes
<1>6. CASE ReceiveForeign \/ PublishAndThrow
  <2>1. PublishAndThrow => (child'["pub"] = "none" => child["pub"] = "none")
    BY BecomesStarted DEF PublishAndThrow, Processes
  <2>2. QED
    BY <1>6, <1>s, <2>1, AsideReturned DEF ReceiveForeign, PublishAndThrow
<1>7. ASSUME NEW p \in Processes,
             CollectRow(p) \/ CollectMarker(p) \/ Discover(p) \/ FlushRow(p)
      PROVE  Returned'
  BY <1>7, <1>s, AsideReturned DEF CollectRow, CollectMarker, Discover, FlushRow
<1>8. ASSUME NEW p \in Processes,
             TimeIsUp(p) \/ Exit(p) \/ DieOfBrokenPipe(p) \/ Crash(p) \/ Hang(p)
      PROVE  Returned'
  <2>1. child'["pub"] = "none" => child["pub"] = "none"
    BY <1>8, BecomesStarted DEF TimeIsUp, Exit, DieOfBrokenPipe, Crash, Hang
  <2>2. QED
    BY <1>8, <1>s, <2>1, AsideReturned DEF TimeIsUp, Exit, DieOfBrokenPipe, Crash, Hang
<1>9. CASE PublisherCreated \/ PublisherReady \/ ReadGo \/ SubscriberReady \/ SubscriberMatched
  <2>1. child'["pub"] = "none" => child["pub"] = "none"
    BY <1>9, BecomesStarted
    DEF PublisherCreated, PublisherReady, ReadGo, SubscriberReady, SubscriberMatched, Processes
  <2>2. QED
    BY <1>9, <1>s, <2>1, AsideReturned
    DEF PublisherCreated, PublisherReady, ReadGo, SubscriberReady, SubscriberMatched
<1>10. CASE Publish \/ Receive
  BY <1>10, <1>s, AsideReturned DEF Publish, Receive
<1>11. ASSUME NEW p \in Processes, Work(p) PROVE Returned'
  BY <1>4, <1>7, <1>8, <1>9, <1>10, <1>11 DEF Work, StdinClosed, Processes
<1>12. ASSUME NEW p \in Processes, Exception(p) PROVE Returned'
  BY <1>4, <1>12 DEF Exception
<1>13. CASE Done \/ UNCHANGED vars
  BY <1>13, <1>s, AsideReturned DEF Done, vars
<1>14. QED
  BY <1>1, <1>2, <1>3, <1>5, <1>6, <1>7, <1>8, <1>11, <1>12, <1>13 DEF Next

LEMMA RowsInvHolds == Spec => []RowsInv
<1>1. RowsInv /\ [Next]_vars => RowsInv'
  BY EndInvStep, ChildRowsStep, ReturnedStep DEF RowsInv
<1>2. QED
  BY <1>1, RowsInvInit, PTL DEF Spec

(***************************************************************************)
(* Whichever way run_inter_pair() returns, and however many rows were      *)
(* still in the pipes then: the rows it returns are those of the samples,  *)
(* in their order, none twice and none of a sample never published.        *)
(***************************************************************************)
THEOREM RowsAlwaysFaithful == Spec => []RowsFaithful
<1>1. RowsInv => RowsFaithful
  BY DEF RowsInv, Returned
<1>2. QED
  BY <1>1, RowsInvHolds, PTL

LEMMA FewRows ==
  ASSUME ChildRows, NEW p \in Processes
  PROVE  Len(buffered[p]) + Len(stdout[p]) + Len(rowLines[p]) <= Samples + 2
<1>1. /\ Len(rowLines[p]) \in Nat /\ Len(stdout[p]) \in Nat /\ Len(buffered[p]) \in Nat
      /\ Len(Emitted(p)) = Len(rowLines[p]) + (Len(stdout[p]) + Len(buffered[p]))
  BY EmittedType, LenProperties DEF ChildRows, RowTypes
<1>2. Len(Emitted(p)) <= Samples + 2
  <2>1. sent \in Nat /\ sent <= Samples /\ Samples \in Nat
    BY StepAssumption DEF ChildRows, RowTypes
  <2>2. CASE p = "pub"
    <3>1. PICK n \in 0 .. sent : Len(Emitted("pub")) \in {n, n + 1}
      BY DEF ChildRows, PubRows
    <3>2. QED
      BY <2>1, <2>2, <3>1
  <2>3. CASE p = "sub"
    <3>1. PICK n \in 0 .. sent : Len(Emitted("sub")) <= n + 2
      BY DEF ChildRows, SubTook, SubRows
    <3>2. n + 2 <= Samples + 2 /\ n + 2 \in Nat /\ Len(Emitted("sub")) \in Nat
      BY <1>1, <2>1, <2>3
    <3>3. QED
      BY <2>1, <2>3, <3>1, <3>2
  <2>4. QED
    BY <2>2, <2>3 DEF Processes
<1>3. \A a, b, c, m \in Nat : a + (b + c) <= m => c + b + a <= m
  OBVIOUS
<1>4. Samples + 2 \in Nat
  BY StepAssumption
<1>5. QED
  BY <1>1, <1>2, <1>3, <1>4, Zenon

(***************************************************************************)
(* The types of a step, the order of its waits, and that no child ever has *)
(* more rows than its samples and two error rows.                          *)
(***************************************************************************)
THEOREM StepTypeCorrect == Spec => []TypeOK
<1>1. ASSUME RowsInv, BarrierInv PROVE TypeOK
  <2>1. /\ orchestrator \in Waits \union {"returned", "dead"}
        /\ child \in [Processes -> Running \union Ended \union {"none"}]
        /\ rc \in [Processes -> {0, 1}]
    BY <1>1 DEF RowsInv, EndInv, EndTypes
  <2>2. RowTypes /\ Returned
    BY <1>1 DEF RowsInv, ChildRows
  <2>3. ASSUME NEW p \in Processes
        PROVE  /\ rc[p] \in {0, 1}
               /\ buffered[p] \in Seq(Rows) /\ stdout[p] \in Seq(Rows)
               /\ rowLines[p] \in Seq(Rows) /\ Len(stdout[p]) <= PipeCapacity
    BY <2>1, <2>2 DEF RowTypes
  <2>4. ASSUME NEW p \in Processes PROVE Reported(p) \subseteq Markers
    <3>1. stderr[p] \in Seq(Markers) /\ markerLines[p] \subseteq Markers
      BY <1>1 DEF BarrierInv, BarrierTypes
    <3>2. \A i \in DOMAIN stderr[p] : stderr[p][i] \in Markers
      BY <3>1, ElementOfSeq, LenProperties
    <3>3. QED
      BY <3>1, <3>2 DEF Reported, Range
  <2>5. orchestrator = "returned" <=> result # NoResult
    BY <2>2 DEF Returned, NoResult
  <2>6. ASSUME NEW p \in Processes
        PROVE  Len(buffered[p]) + Len(stdout[p]) + Len(rowLines[p]) <= Samples + 2
    BY <1>1, FewRows DEF RowsInv
  <2>7. /\ stdin \in {"open", "go", "closed"}
        /\ sent \in 0 .. Samples /\ inFlight \subseteq 0 .. (sent - 1)
        /\ child["pub"] = "none" => orchestrator \in {"READY", "returned", "dead"}
    BY <2>2 DEF RowTypes, Returned
  <2>8. QED
    BY <2>1, <2>3, <2>4, <2>5, <2>6, <2>7 DEF TypeOK, Markers
<1>2. QED
  BY <1>1, RowsInvHolds, BarrierInvHolds, PTL

================================================================================
