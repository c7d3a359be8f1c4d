----------------------- MODULE RunCancellationProofs -----------------------
(***************************************************************************)
(* The runtime with its cancellation marks is the runtime: what             *)
(* ChatRuntimeProofs shows for any body holds for the real one; and what    *)
(* the marks are for: an abort reaches the run it names, and no other.      *)
(***************************************************************************)
EXTENDS RunCancellation, ChatRuntimeProofs

\* A body that is over has a result, one that job->execute() may return.
BodyInv ==
    /\ phase \in [Jobs -> Phases]
    /\ bodyResult \in [Jobs -> BodyResults \cup {NoResult}]
    /\ \A j \in Jobs : phase[j] = "over" => bodyResult[j] \in BodyResults

CancelInv == Inv /\ BodyInv

\* No two calls carry the same run id.
LEMMA RunsAreUnique == UniqueRuns
  BY CancellationAssumption DEF UniqueRuns

\* A step of a body is none of the runtime.
LEMMA BodySteps ==
    ASSUME BodyInv, NEW j \in Jobs, Body(j)
    PROVE  BodyInv' /\ UNCHANGED vars
<1> USE CancellationAssumption DEF BodyInv, BodyAt, Phases, NoResult, Answers
<1>1. UNCHANGED vars
  BY DEF Body, CheckMarks, RunEmbedded, LeaveEmbedded, EnterDeepSeek, EnterLocal, RunRouted,
        RemoteEnds, GenerationEnds, RetryEnds
<1>2. CASE CheckMarks(j)
  BY <1>2 DEF CheckMarks
<1>3. CASE RunEmbedded(j)
  BY <1>3 DEF RunEmbedded
<1>4. CASE LeaveEmbedded(j)
  BY <1>4 DEF LeaveEmbedded
<1>5. CASE EnterDeepSeek(j)
  BY <1>5 DEF EnterDeepSeek
<1>6. CASE EnterLocal(j)
  BY <1>6 DEF EnterLocal
<1>7. CASE RunRouted(j)
  BY <1>7 DEF RunRouted
<1>8. CASE RemoteEnds(j)
  BY <1>8 DEF RemoteEnds
<1>9. CASE GenerationEnds(j)
  BY <1>9 DEF GenerationEnds
<1>10. CASE RetryEnds(j)
  BY <1>10 DEF RetryEnds
<1> QED BY <1>1, <1>2, <1>3, <1>4, <1>5, <1>6, <1>7, <1>8, <1>9, <1>10 DEF Body

\* A step of the composition that is no body's is a step of the runtime.
LEMMA RuntimeSteps ==
    ASSUME Inv, BodyInv, CancelNext, \A j \in Jobs : ~Body(j)
    PROVE  Next /\ BodyInv'
<1> USE CancellationAssumption, ConstantsAssumption
    DEF BodyInv, BodyBegins, BodyReturned, Phases, NoResult, history, marks
<1>1. ASSUME NEW j \in Jobs, CallerRunsBody(j)
      PROVE  Next /\ BodyInv'
  BY <1>1 DEF CallerRunsBody, Next, Caller
<1>2. ASSUME NEW j \in Jobs, CallerReturnsBody(j)
      PROVE  Next /\ BodyInv'
  BY <1>2 DEF CallerReturnsBody, Next, Caller
<1>3. ASSUME NEW j \in Jobs,
             CallerTimeoutMarks(j) \/ CallerTimeoutCancels(j) \/ CallerTimeoutClears(j)
               \/ CallerOther(j)
      PROVE  Next /\ BodyInv'
  BY <1>3 DEF CallerTimeoutMarks, CallerTimeoutCancels, CallerTimeoutClears, CallerOther,
        cancelVars, Next, Caller
<1>4. ASSUME WorkerRunsBody PROVE Next /\ BodyInv'
  BY <1>4 DEF WorkerRunsBody, Next, Worker
<1>5. ASSUME WorkerReturnsBody PROVE Next /\ BodyInv'
  <2>1. wjob \in Jobs
    BY <1>5 DEF WorkerReturnsBody, Inv, TypeInv, TypeOK, WorkerPlace
  <2> QED BY <2>1, <1>5 DEF WorkerReturnsBody, Next, Worker
<1>6. ASSUME WorkerAsksCancelled PROVE Next /\ BodyInv'
  <2>1. IsRunCancelled(RunOf[wjob]) \in BOOLEAN
    BY DEF IsRunCancelled
  <2> QED BY <2>1, <1>6 DEF WorkerAsksCancelled, cancelVars, Next, Worker
<1>7. ASSUME WorkerClears \/ WorkerOther PROVE Next /\ BodyInv'
  BY <1>7 DEF WorkerClears, WorkerOther, cancelVars, Next, Worker
<1>8. ASSUME NEW a \in Aborters,
             (\E r \in RunIds : AbortLooksUp(a, r)) \/ AbortMarks(a) \/ AbortCancels(a)
               \/ AbortOther(a)
      PROVE  Next /\ BodyInv'
  BY <1>8 DEF AbortLooksUp, AbortMarks, AbortCancels, AbortOther, cancelVars, Next, Aborter
<1>9. ASSUME StopCancels \/ StopClears \/ ManagerOther PROVE Next /\ BodyInv'
  BY <1>9 DEF StopCancels, StopClears, ManagerOther, cancelVars, Next, Manager
<1> HIDE DEF BodyInv
<1> QED BY <1>1, <1>2, <1>3, <1>4, <1>5, <1>6, <1>7, <1>8, <1>9 DEF CancelNext

\* The composition starts where the runtime does.
LEMMA CancelInvInit == CancelInit => Init /\ CancelInv
  BY InvInit DEF CancelInit, CancelInv, BodyInv, Phases, NoResult

\* Each of its steps is a step of the runtime, or leaves it alone.
LEMMA CancelStep == CancelInv /\ [CancelNext]_allVars => [Next]_vars /\ CancelInv'
<1> SUFFICES ASSUME CancelInv, [CancelNext]_allVars PROVE [Next]_vars /\ BodyInv'
  BY InvStep, RunsAreUnique DEF CancelInv
<1>1. CASE UNCHANGED allVars
  BY <1>1 DEF allVars, cancelVars, BodyInv, CancelInv
<1>2. CASE \E j \in Jobs : Body(j)
  BY <1>2, BodySteps DEF CancelInv
<1>3. CASE CancelNext /\ \A j \in Jobs : ~Body(j)
  BY <1>3, RuntimeSteps DEF CancelInv
<1> QED BY <1>1, <1>2, <1>3

\* The composition implements ChatRuntime.
THEOREM CancellationImplementsRuntime == CancelSpec => Spec
<1> QED BY CancelInvInit, CancelStep, PTL DEF CancelSpec, Spec

\* So every job is in one pair of hands there too, and runs at most once
\* (CChatRuntime.cpp:41-436 with ChatRuntimeOrchestrationCoordinator.cpp:184-216).
COROLLARY CancellationKeepsOwnership == CancelSpec => []Ownership
  BY CancellationImplementsRuntime, OwnershipHolds, RunsAreUnique, PTL

\* And Execute keeps its promise with the real bodies (CChatRuntime.cpp:97-233).
COROLLARY CancellationKeepsPromise == CancelSpec => PromiseKept
  BY CancellationImplementsRuntime, RuntimeKeepsPromise, RunsAreUnique, PTL
-----------------------------------------------------------------------------
(***************************************************************************)
(* The marks.                                                              *)
(***************************************************************************)

\* A body past the two places that clear marks.
PastPhases == {"remote", "generating", "retrying", "over"}

\* What a step of the body of job j may do to the marks, the flag and its result.
BodyMove(j) ==
    /\ UNCHANGED <<vars, tracked, cancelAsked, owed>>
    /\ embedded' \subseteq embedded /\ embedded \ {RunOf[j]} \subseteq embedded'
    /\ deepSeek' \subseteq deepSeek
    /\ phase[j] \in PastPhases => embedded' = embedded /\ phase'[j] \in PastPhases
    /\ phase[j] # "off" /\ phase'[j] # "off"
    /\ \A k \in Jobs \ {j} : phase'[k] = phase[k] /\ bodyResult'[k] = bodyResult[k]
    /\ bodyResult'[j] = "cancelled" =>
           \/ bodyResult[j] = "cancelled" \/ Marked(RunOf[j]) \/ local[RunOf[j]] = "cancelled"
    /\ local' \in [RunIds -> LocalFlags]
    /\ \A r \in RunIds \ {RunOf[j]} : local'[r] = local[r]
    /\ \/ local'[RunOf[j]] = local[RunOf[j]]
             /\ (phase'[j] = "generating" <=> phase[j] = "generating")
       \/ local'[RunOf[j]] = "running" /\ phase'[j] = "generating"
       \/ local'[RunOf[j]] = "absent" /\ phase'[j] # "generating"

\* A body takes the steps that the abstract one may take.
LEMMA BodyMoves ==
    ASSUME CancelInv, local \in [RunIds -> LocalFlags], NEW j \in Jobs, Body(j)
    PROVE  BodyMove(j)
<1> USE CancellationAssumption, ConstantsAssumption
    DEF CancelInv, BodyInv, BodyMove, BodyAt, PastPhases, Answers, NoResult, LocalFlags, DropFlag
<1>1. CASE CheckMarks(j)
  BY <1>1 DEF CheckMarks
<1>2. CASE RunEmbedded(j)
  BY <1>2 DEF RunEmbedded, Marked
<1>3. CASE LeaveEmbedded(j)
  BY <1>3 DEF LeaveEmbedded
<1>4. CASE EnterDeepSeek(j)
  BY <1>4 DEF EnterDeepSeek
<1>5. CASE EnterLocal(j)
  BY <1>5 DEF EnterLocal
<1>6. CASE RunRouted(j)
  BY <1>6 DEF RunRouted
<1>7. CASE RemoteEnds(j)
  BY <1>7 DEF RemoteEnds, Marked
<1>8. CASE GenerationEnds(j)
  BY <1>8 DEF GenerationEnds
<1>9. CASE RetryEnds(j)
  BY <1>9 DEF RetryEnds
<1> QED BY <1>1, <1>2, <1>3, <1>4, <1>5, <1>6, <1>7, <1>8, <1>9 DEF Body

\* Whoever aborts is on record, and so is what an abort wrote.
AsksRecorded ==
    /\ \A a \in Aborters : apc[a] # "idle" => arun[a] \in cancelAsked
    /\ \A r \in RunIds : runsById[r] = "Cancelled" => r \in cancelAsked

\* The job an aborter removed is of its run, and completed when onAbort is called.
RemovedAgree ==
    \A a \in Aborters :
        apc[a] # "idle" /\ ajob[a] # NoJob =>
            /\ ajob[a] \in Jobs /\ RunOf[ajob[a]] = arun[a]
            /\ apc[a] # "complete" => completed[ajob[a]]

\* A body runs on the thread that executes it.
BodiesPlaced ==
    \A j \in Jobs :
        phase[j] # "off" => pc[j] = "executing" \/ (wjob = j /\ wpc = "executing")

\* The marks, flags and histories keep their types (ServiceManager.h, the sets and the
\* map of the local model).
LEMMA MarksTypeStep ==
    ASSUME CancelInv, CancelTypeOK, AsksRecorded, BodyInv', [CancelNext]_allVars
    PROVE  CancelTypeOK'
<1> USE CancellationAssumption, ConstantsAssumption
    DEF CancelTypeOK, CancelInv, Inv, TypeInv, TypeOK, BodyInv, marks, history
<1>1. ASSUME NEW j \in Jobs, Body(j) PROVE CancelTypeOK'
  BY <1>1, BodyMoves DEF BodyMove
<1>2. ASSUME NEW r, CancelActive(r) PROVE local' \in [RunIds -> LocalFlags]
  BY <1>2 DEF CancelActive, LocalFlags
<1>3. ASSUME NEW j \in Jobs, CallerRunsBody(j) \/ CallerReturnsBody(j) \/ CallerOther(j)
      PROVE  CancelTypeOK'
  BY <1>3 DEF CallerRunsBody, CallerReturnsBody, CallerOther, BodyBegins, BodyReturned,
        cancelVars
<1>4. ASSUME NEW j \in Jobs,
             CallerTimeoutMarks(j) \/ CallerTimeoutCancels(j) \/ CallerTimeoutClears(j)
      PROVE  CancelTypeOK'
  BY <1>2, <1>4 DEF CallerTimeoutMarks, CallerTimeoutCancels, CallerTimeoutClears, ClearMarks
<1>5. ASSUME WorkerRunsBody \/ WorkerReturnsBody \/ WorkerAsksCancelled \/ WorkerOther
      PROVE  CancelTypeOK'
  BY <1>5 DEF WorkerRunsBody, WorkerReturnsBody, WorkerAsksCancelled, WorkerOther, BodyBegins,
        BodyReturned, cancelVars
<1>6. ASSUME WorkerClears PROVE CancelTypeOK'
  BY <1>6 DEF WorkerClears, ClearMarks
<1>7. ASSUME NEW a \in Aborters, NEW r \in RunIds, AbortLooksUp(a, r) PROVE CancelTypeOK'
  BY <1>7 DEF AbortLooksUp
<1>8. ASSUME NEW a \in Aborters, AbortMarks(a) PROVE CancelTypeOK'
  <2>1. arun[a] \in RunIds
    BY <1>8 DEF AbortMarks, AbortNotify, AsksRecorded
  <2> QED BY <2>1, <1>8 DEF AbortMarks, MarkDeepSeek
<1>9. ASSUME NEW a \in Aborters, AbortCancels(a) \/ AbortOther(a) PROVE CancelTypeOK'
  BY <1>2, <1>9 DEF AbortCancels, AbortOther, cancelVars
<1>10. ASSUME StopCancels \/ StopClears \/ ManagerOther PROVE CancelTypeOK'
  BY <1>2, <1>10 DEF StopCancels, StopClears, ManagerOther, cancelVars
<1>11. CASE UNCHANGED allVars
  BY <1>11 DEF allVars, cancelVars
<1> HIDE DEF CancelTypeOK
<1> QED BY <1>1, <1>3, <1>4, <1>5, <1>6, <1>7, <1>8, <1>9, <1>10, <1>11 DEF CancelNext

\* An abort is on record before it writes anything (CChatRuntime.cpp:237-295).
LEMMA RecordsStep ==
    ASSUME CancelInv, AsksRecorded, RemovedAgree, [CancelNext]_allVars
    PROVE  AsksRecorded' /\ RemovedAgree'
<1> USE CancellationAssumption, ConstantsAssumption
    DEF runtimeVars, jobVars, workerVars, abortVars, stopVars, Untracked
<1>0. /\ runsById \in [RunIds -> Status \cup {"none"}] /\ RunOf \in [Jobs -> RunIds]
      /\ completed \in [Jobs -> BOOLEAN] /\ wjob \in Jobs \cup {NoJob}
      /\ apc \in [Aborters -> AbortPlaces] /\ arun \in [Aborters -> RunIds \cup {NoRun}]
      /\ ajob \in [Aborters -> Jobs \cup {NoJob}]
  BY DEF CancelInv, Inv, TypeInv, TypeOK
<1>1. ASSUME UNCHANGED <<apc, arun, ajob>>, cancelAsked \subseteq cancelAsked',
             \A r \in RunIds : runsById'[r] = "Cancelled" => runsById[r] = "Cancelled",
             \A j \in Jobs : completed[j] => completed'[j]
      PROVE  AsksRecorded' /\ RemovedAgree'
  BY <1>0, <1>1 DEF AsksRecorded, RemovedAgree
<1>2. ASSUME UNCHANGED vars, cancelAsked' = cancelAsked
      PROVE  AsksRecorded' /\ RemovedAgree'
  BY <1>2 DEF vars, AsksRecorded, RemovedAgree
<1>3. ASSUME NEW j \in Jobs, Body(j) PROVE AsksRecorded' /\ RemovedAgree'
  BY <1>2, <1>3 DEF Body, BodyAt, CheckMarks, RunEmbedded, LeaveEmbedded, EnterDeepSeek,
        EnterLocal, RunRouted, RemoteEnds, GenerationEnds, RetryEnds
<1>4. ASSUME NEW j \in Jobs, Caller(j), cancelAsked' = cancelAsked
      PROVE  AsksRecorded' /\ RemovedAgree'
  <2>1. UNCHANGED <<apc, arun, ajob, completed>>
    BY <1>4 DEF Caller, ExecuteInline, RejectUnavailable, RejectFull, Enqueue, ReturnResult,
          Promote, CallerEnd, GiveUp, TimeoutMark, TimeoutCancel, TimeoutErase, TimeoutCleanup
  <2>2. \/ runsById' = runsById
        \/ \E r \in RunIds, s \in {"none", "Queued"} : runsById' = [runsById EXCEPT ![r] = s]
    BY <1>0, <1>4 DEF Caller, ExecuteInline, RejectUnavailable, RejectFull, Enqueue, ReturnResult,
          Promote, CallerEnd, GiveUp, TimeoutMark, TimeoutCancel, TimeoutErase, TimeoutCleanup,
          ForgetRun, ForgetEntries
  <2> QED BY <1>0, <1>1, <1>4, <2>1, <2>2
<1>5. ASSUME Worker, cancelAsked' = cancelAsked
      PROVE  AsksRecorded' /\ RemovedAgree'
  <2>1. UNCHANGED <<apc, arun, ajob>>
    BY <1>5 DEF Worker, WorkerPop, WorkerBegin, WorkerEnd, WorkerCheckCancelled, WorkerFinish,
          WorkerNotify, WorkerComplete, WorkerExit
  <2>2. \A j \in Jobs : completed[j] => completed'[j]
    BY <1>0, <1>5 DEF Worker, WorkerPop, WorkerBegin, WorkerEnd, WorkerCheckCancelled,
          WorkerFinish, WorkerNotify, WorkerComplete, WorkerExit, Complete
  <2>3. \/ runsById' = runsById
        \/ \E r \in RunIds, s \in {"none", "Started"} : runsById' = [runsById EXCEPT ![r] = s]
    <3>1. ASSUME NEW late \in BOOLEAN, WorkerPop(late)
          PROVE  \E r \in RunIds, s \in {"none", "Started"} : runsById' = [runsById EXCEPT ![r] = s]
      <4>1. PICK k \in Jobs : runsById' = [runsById EXCEPT ![RunOf[k]] = StatusOnPop(RunOf[k])]
        BY <3>1, HeadTail DEF WorkerPop, CancelInv, Inv, TypeInv, TypeOK
      <4>2. StatusOnPop(RunOf[k]) \in {"none", "Started"} /\ RunOf[k] \in RunIds
        BY <1>0 DEF StatusOnPop
      <4> QED BY <4>1, <4>2
    <3>2. ASSUME WorkerFinish
          PROVE  \E r \in RunIds, s \in {"none", "Started"} : runsById' = [runsById EXCEPT ![r] = s]
      <4>1. wjob \in Jobs
        BY <3>2 DEF WorkerFinish, CancelInv, Inv, TypeInv, TypeOK, WorkerPlace
      <4> QED BY <1>0, <3>2, <4>1 DEF WorkerFinish, ForgetEntries
    <3> QED BY <1>5, <3>1, <3>2 DEF Worker, WorkerBegin, WorkerEnd, WorkerCheckCancelled,
              WorkerNotify, WorkerComplete, WorkerExit
  <2> QED BY <1>0, <1>1, <1>5, <2>1, <2>2, <2>3
<1>6. ASSUME NEW a \in Aborters, NEW r \in RunIds, AbortLooksUp(a, r)
      PROVE  AsksRecorded' /\ RemovedAgree'
  <2>1. /\ cancelAsked' = cancelAsked \cup {r} /\ completed' = completed
        /\ arun' = [arun EXCEPT ![a] = r]
        /\ \A b \in Aborters \ {a} : apc'[b] = apc[b] /\ ajob'[b] = ajob[b]
        /\ \A s \in RunIds \ {r} : runsById'[s] = runsById[s]
    BY <1>6 DEF AbortLooksUp, AbortBegin
  <2>2. ajob'[a] # NoJob => ajob'[a] \in Jobs /\ RunOf[ajob'[a]] = r /\ apc'[a] = "complete"
    BY <1>0, <1>6 DEF AbortLooksUp, AbortBegin, AfterAbort, CancelInv, Inv, Ownership,
          EntriesAgree, TypeInv, TypeOK
  <2> QED BY <1>0, <2>1, <2>2 DEF AsksRecorded, RemovedAgree
<1>7. ASSUME NEW a \in Aborters, AbortMarks(a) \/ AbortOther(a)
      PROVE  AsksRecorded' /\ RemovedAgree'
  <2>1. /\ UNCHANGED <<runsById, arun, ajob, cancelAsked>> /\ apc[a] # "idle"
        /\ \E place \in {"notify", "cancel"} : apc' = [apc EXCEPT ![a] = place]
        /\ \A j \in Jobs : completed[j] => completed'[j]
        /\ apc[a] = "complete" => completed'[ajob[a]]
    <3>1. CASE AbortMarks(a)
      BY <3>1 DEF AbortMarks, AbortNotify
    <3>2. CASE AbortOther(a)
      <4>1. ajob[a] \in Jobs
        BY <3>2 DEF AbortOther, AbortComplete, CancelInv, Inv, Ownership, PlacesAgree
      <4> QED BY <1>0, <3>2, <4>1 DEF AbortOther, AbortComplete, Complete, cancelVars
    <3> QED BY <1>7, <3>1, <3>2
  <2> QED BY <1>0, <2>1 DEF AsksRecorded, RemovedAgree
<1>8. ASSUME NEW a \in Aborters, AbortCancels(a)
      PROVE  AsksRecorded' /\ RemovedAgree'
  <2>1. /\ UNCHANGED <<runsById, completed, cancelAsked>>
        /\ apc' = [apc EXCEPT ![a] = "idle"]
        /\ \A b \in Aborters \ {a} : arun'[b] = arun[b] /\ ajob'[b] = ajob[b]
    BY <1>8 DEF AbortCancels, AbortCancel
  <2> QED BY <1>0, <2>1 DEF AsksRecorded, RemovedAgree
<1>9. ASSUME Manager, cancelAsked \subseteq cancelAsked'
      PROVE  AsksRecorded' /\ RemovedAgree'
  <2>1. UNCHANGED <<apc, arun, ajob>>
    BY <1>9 DEF Manager, StartWorker, StopBegin, StopCancelActive, StopComplete, StopJoin, StopEnd
  <2>2. \A j \in Jobs : completed[j] => completed'[j]
    BY <1>0, <1>9 DEF Manager, StartWorker, StopBegin, StopCancelActive, StopComplete, StopJoin,
          StopEnd, Complete
  <2>3. \A r \in RunIds : runsById'[r] = "Cancelled" => runsById[r] = "Cancelled"
    BY <1>0, <1>9 DEF Manager, StartWorker, StopBegin, StopCancelActive, StopComplete, StopJoin,
          StopEnd
  <2> QED BY <1>1, <1>9, <2>1, <2>2, <2>3
<1>10. CASE UNCHANGED allVars
  BY <1>2, <1>10 DEF allVars, cancelVars
<1>11. ASSUME NEW j \in Jobs,
              \/ CallerRunsBody(j) \/ CallerReturnsBody(j) \/ CallerTimeoutMarks(j)
              \/ CallerTimeoutCancels(j) \/ CallerTimeoutClears(j) \/ CallerOther(j)
       PROVE  AsksRecorded' /\ RemovedAgree'
  <2>1. cancelAsked' = cancelAsked
    BY <1>11 DEF CallerRunsBody, CallerReturnsBody, CallerTimeoutMarks, CallerTimeoutCancels,
          CallerTimeoutClears, CallerOther, BodyBegins, BodyReturned, history, cancelVars
  <2>2. Caller(j)
    <3>1. CASE CallerReturnsBody(j)
      BY <3>1 DEF CallerReturnsBody, BodyReturned, CancelInv, BodyInv, Caller
    <3> QED BY <1>11, <3>1 DEF CallerRunsBody, CallerTimeoutMarks, CallerTimeoutCancels,
              CallerTimeoutClears, CallerOther, Caller
  <2> QED BY <1>4, <2>1, <2>2
<1>12. ASSUME \/ WorkerRunsBody \/ WorkerReturnsBody \/ WorkerAsksCancelled \/ WorkerClears
              \/ WorkerOther
       PROVE  AsksRecorded' /\ RemovedAgree'
  <2>1. cancelAsked' = cancelAsked
    BY <1>12 DEF WorkerRunsBody, WorkerReturnsBody, WorkerAsksCancelled, WorkerClears,
          WorkerOther, BodyBegins, BodyReturned, history, cancelVars
  <2>2. Worker
    <3>1. CASE WorkerReturnsBody
      <4>1. wjob \in Jobs
        BY <3>1 DEF WorkerReturnsBody, CancelInv, Inv, TypeInv, TypeOK, WorkerPlace
      <4> QED BY <3>1, <4>1 DEF WorkerReturnsBody, BodyReturned, CancelInv, BodyInv, Worker
    <3>2. CASE WorkerAsksCancelled
      <4>1. IsRunCancelled(RunOf[wjob]) \in BOOLEAN
        BY DEF IsRunCancelled
      <4> QED BY <3>2, <4>1 DEF WorkerAsksCancelled, Worker
    <3> QED BY <1>12, <3>1, <3>2 DEF WorkerRunsBody, WorkerClears, WorkerOther, Worker
  <2> QED BY <1>5, <2>1, <2>2
<1>13. ASSUME StopCancels \/ StopClears \/ ManagerOther
       PROVE  AsksRecorded' /\ RemovedAgree'
  <2>1. Manager /\ cancelAsked \subseteq cancelAsked'
    BY <1>13 DEF StopCancels, StopClears, ManagerOther, Manager, history, cancelVars
  <2> QED BY <1>9, <2>1
<1> QED BY <1>3, <1>6, <1>7, <1>8, <1>10, <1>11, <1>12, <1>13 DEF CancelNext

\* A body begins and ends with the thread that runs it, and the flag of the local model with
\* the generation (LlamaTextGenerationRuntime.cpp:811, 846).
LEMMA PlacedStep ==
    ASSUME CancelInv, CancelTypeOK, BodiesPlaced, LocalFlagWhileGenerating, [CancelNext]_allVars
    PROVE  BodiesPlaced' /\ LocalFlagWhileGenerating'
<1> USE CancellationAssumption, ConstantsAssumption
    DEF runtimeVars, jobVars, workerVars, abortVars, stopVars, Go
<1>0. /\ pc \in [Jobs -> CallerPlaces] /\ phase \in [Jobs -> Phases]
      /\ local \in [RunIds -> LocalFlags] /\ RunOf \in [Jobs -> RunIds]
      /\ wjob = NoJob <=> wpc \in {"off", "idle", "exited"}
      /\ wjob \in Jobs \cup {NoJob}
      /\ \A j \in Jobs : Owned(j) => ~completed[j] /\ pc[j] \notin {"idle", "executing"}
      /\ \A j \in Jobs : InQueue(j) => wjob # j
      /\ \A j, k \in Jobs : RunOf[j] = RunOf[k] => j = k
  BY DEF CancelInv, Inv, TypeInv, TypeOK, BodyInv, CancelTypeOK, WorkerPlace, Ownership,
        OwnedOnce, SoleOwner, WorkerHas
<1>1. ASSUME \A j \in Jobs : phase'[j] = "generating" <=> phase[j] = "generating",
             local' = local \/ \E r : CancelActive(r)
      PROVE  LocalFlagWhileGenerating'
  <2>1. \A r \in RunIds : local'[r] = "absent" <=> local[r] = "absent"
    BY <1>0, <1>1 DEF CancelActive
  <2> QED BY <1>0, <1>1, <2>1 DEF LocalFlagWhileGenerating
<1>2. ASSUME phase' = phase,
             \A j \in Jobs : phase[j] # "off" /\ pc[j] = "executing" => pc'[j] = "executing",
             wpc = "executing" => wpc' = "executing" /\ wjob' = wjob
      PROVE  BodiesPlaced'
  BY <1>2 DEF BodiesPlaced
<1>3. ASSUME NEW j \in Jobs, Body(j) PROVE BodiesPlaced' /\ LocalFlagWhileGenerating'
  <2>1. BodyMove(j)
    BY <1>3, BodyMoves DEF CancelTypeOK
  <2>2. BodiesPlaced'
    BY <2>1 DEF BodyMove, BodiesPlaced, vars
  <2>3. ASSUME NEW k \in Jobs PROVE local'[RunOf[k]] # "absent" <=> phase'[k] = "generating"
    <3>1. CASE k = j
      BY <2>1, <3>1 DEF BodyMove, LocalFlagWhileGenerating
    <3>2. CASE k # j
      <4>1. RunOf[k] # RunOf[j] /\ RunOf[k] \in RunIds
        BY <1>0, <3>2
      <4> QED BY <2>1, <3>2, <4>1 DEF BodyMove, LocalFlagWhileGenerating
    <3> QED BY <3>1, <3>2
  <2> QED BY <2>2, <2>3 DEF LocalFlagWhileGenerating
<1>4. ASSUME NEW j \in Jobs, CallerRunsBody(j) PROVE BodiesPlaced' /\ LocalFlagWhileGenerating'
  <2>1. /\ pc' = [pc EXCEPT ![j] = "executing"] /\ phase' = [phase EXCEPT ![j] = "check"]
        /\ UNCHANGED <<wpc, wjob, local>>
    BY <1>4 DEF CallerRunsBody, ExecuteInline, Promote, BodyBegins, marks
  <2>2. phase[j] = "off"
    <3>1. pc[j] # "executing"
      BY <1>4 DEF CallerRunsBody, ExecuteInline, Promote, WaitTimedOut
    <3>2. wjob # j
      <4>1. CASE ExecuteInline(j)
        BY <1>0, <4>1 DEF ExecuteInline, Owned, WorkerHas
      <4>2. CASE Promote(j)
        <5>1. PICK k \in Contents(queue) : RunOf[k] = RunOf[j]
          BY <4>2 DEF Promote, StillQueued, CancelInv, Inv, Ownership, EntriesAgree,
                QueuedStatusMatchesQueue
        <5>2. k \in Jobs
          BY ContentsType DEF CancelInv, Inv, TypeInv, TypeOK
        <5> QED BY <1>0, <5>1, <5>2 DEF InQueue
      <4> QED BY <1>4, <4>1, <4>2 DEF CallerRunsBody
    <3> QED BY <3>1, <3>2 DEF BodiesPlaced
  <2>3. BodiesPlaced'
    BY <1>0, <2>1 DEF BodiesPlaced
  <2>4. LocalFlagWhileGenerating'
    <3>1. phase[j] # "generating" /\ phase'[j] # "generating"
      BY <1>0, <2>1, <2>2
    <3> QED BY <1>0, <1>1, <2>1, <3>1
  <2> QED BY <2>3, <2>4
<1>5. ASSUME NEW j \in Jobs, CallerReturnsBody(j)
      PROVE  BodiesPlaced' /\ LocalFlagWhileGenerating'
  <2>1. /\ pc[j] = "executing" /\ pc' = [pc EXCEPT ![j] = "done"]
        /\ phase[j] = "over" /\ phase' = [phase EXCEPT ![j] = "off"]
        /\ UNCHANGED <<wpc, wjob, local>>
    BY <1>5 DEF CallerReturnsBody, CallerEnd, Returns, BodyReturned, marks
  <2>2. BodiesPlaced'
    BY <1>0, <2>1 DEF BodiesPlaced
  <2>3. LocalFlagWhileGenerating'
    <3>1. phase[j] # "generating" /\ phase'[j] # "generating"
      BY <1>0, <2>1
    <3> QED BY <1>0, <1>1, <2>1, <3>1
  <2> QED BY <2>2, <2>3
<1>6. ASSUME NEW j \in Jobs,
             \/ CallerTimeoutMarks(j) \/ CallerTimeoutCancels(j) \/ CallerTimeoutClears(j)
             \/ CallerOther(j)
      PROVE  BodiesPlaced' /\ LocalFlagWhileGenerating'
  <2>1. /\ pc[j] # "executing" /\ \E place : pc' = [pc EXCEPT ![j] = place]
        /\ UNCHANGED <<wpc, wjob, phase>>
    BY <1>6 DEF CallerTimeoutMarks, TimeoutMark, CallerTimeoutCancels, TimeoutCancel,
          CallerTimeoutClears, TimeoutCleanup, CallerOther, RejectUnavailable, RejectFull,
          Enqueue, ReturnResult, WaitEnded, GiveUp, WaitTimedOut, TimeoutErase, Returns, cancelVars
  <2>2. local' = local \/ \E r : CancelActive(r)
    BY <1>6 DEF CallerTimeoutMarks, CallerTimeoutCancels, CallerTimeoutClears, CallerOther,
          cancelVars
  <2>3. BodiesPlaced'
    BY <1>0, <1>2, <2>1
  <2>4. LocalFlagWhileGenerating'
    BY <1>1, <2>1, <2>2
  <2> QED BY <2>3, <2>4
<1>7. ASSUME WorkerRunsBody PROVE BodiesPlaced' /\ LocalFlagWhileGenerating'
  <2>1. /\ wpc = "popped" /\ wpc' = "executing" /\ wjob' = wjob /\ wjob \in Jobs
        /\ phase' = [phase EXCEPT ![wjob] = "check"] /\ UNCHANGED <<pc, local>>
    BY <1>0, <1>7 DEF WorkerRunsBody, WorkerBegin, BodyBegins, marks
  <2>2. phase[wjob] = "off"
    BY <1>0, <2>1 DEF BodiesPlaced, Owned, WorkerHas
  <2>3. BodiesPlaced'
    BY <1>0, <2>1 DEF BodiesPlaced
  <2>4. LocalFlagWhileGenerating'
    <3>1. phase[wjob] # "generating" /\ phase'[wjob] # "generating"
      BY <1>0, <2>1, <2>2
    <3> QED BY <1>0, <1>1, <2>1, <3>1
  <2> QED BY <2>3, <2>4
<1>8. ASSUME WorkerReturnsBody PROVE BodiesPlaced' /\ LocalFlagWhileGenerating'
  <2>1. /\ wpc = "executing" /\ wjob \in Jobs /\ wjob' = wjob /\ wpc' = "check"
        /\ phase[wjob] = "over" /\ phase' = [phase EXCEPT ![wjob] = "off"]
        /\ UNCHANGED <<pc, local>>
    BY <1>0, <1>8 DEF WorkerReturnsBody, WorkerEnd, BodyReturned, marks
  <2>2. BodiesPlaced'
    BY <1>0, <2>1 DEF BodiesPlaced
  <2>3. LocalFlagWhileGenerating'
    <3>1. phase[wjob] # "generating" /\ phase'[wjob] # "generating"
      BY <1>0, <2>1
    <3> QED BY <1>0, <1>1, <2>1, <3>1
  <2> QED BY <2>2, <2>3
<1>9. ASSUME WorkerAsksCancelled \/ WorkerClears \/ WorkerOther
      PROVE  BodiesPlaced' /\ LocalFlagWhileGenerating'
  <2>1. wpc # "executing" /\ UNCHANGED <<pc, phase, local>>
    BY <1>9 DEF WorkerAsksCancelled, WorkerClears, WorkerOther, WorkerCheckCancelled, WorkerNotify,
          WorkerPop, WorkerFinish, WorkerComplete, WorkerExit, cancelVars
  <2>2. BodiesPlaced'
    BY <2>1 DEF BodiesPlaced
  <2>3. LocalFlagWhileGenerating'
    BY <1>1, <2>1
  <2> QED BY <2>2, <2>3
<1>10. ASSUME NEW a \in Aborters,
              \/ \E r \in RunIds : AbortLooksUp(a, r)
              \/ AbortMarks(a) \/ AbortCancels(a) \/ AbortOther(a)
       PROVE  BodiesPlaced' /\ LocalFlagWhileGenerating'
  <2>1. UNCHANGED <<pc, wpc, wjob, phase>>
    BY <1>10 DEF AbortLooksUp, AbortBegin, AbortMarks, AbortNotify, AbortCancels, AbortCancel,
          AbortOther, AbortComplete, cancelVars
  <2>2. local' = local \/ \E r : CancelActive(r)
    BY <1>10 DEF AbortLooksUp, AbortMarks, AbortCancels, AbortOther, cancelVars, marks
  <2>3. BodiesPlaced'
    BY <2>1 DEF BodiesPlaced
  <2>4. LocalFlagWhileGenerating'
    BY <1>1, <2>1, <2>2
  <2> QED BY <2>3, <2>4
<1>11. ASSUME StopCancels \/ StopClears \/ ManagerOther \/ UNCHANGED allVars
       PROVE  BodiesPlaced' /\ LocalFlagWhileGenerating'
  <2>1. UNCHANGED <<pc, phase>> /\ (wpc = "executing" => wpc' = wpc /\ wjob' = wjob)
    BY <1>0, <1>11 DEF StopCancels, StopCancelActive, StopClears, StopEnd, ManagerOther,
          StartWorker, StopBegin, StopComplete, StopJoin, cancelVars, allVars, vars, history,
          CancelInv, Inv, TypeInv, WorkerPlace
  <2>2. local' = local \/ \E r : CancelActive(r)
    BY <1>11 DEF StopCancels, StopClears, ManagerOther, cancelVars, allVars
  <2>3. BodiesPlaced'
    BY <1>2, <2>1
  <2>4. LocalFlagWhileGenerating'
    BY <1>1, <2>1, <2>2
  <2> QED BY <2>3, <2>4
<1> QED BY <1>3, <1>4, <1>5, <1>6, <1>7, <1>8, <1>9, <1>10, <1>11 DEF CancelNext

\* A mark without an abort belongs to a caller on its timeout path
\* (ServiceLifecycleStartupCoordinator.cpp:389-443).
LEMMA LeakStep ==
    ASSUME CancelInv, CancelTypeOK, AsksRecorded, NoLeakedMark, [CancelNext]_allVars
    PROVE  NoLeakedMark'
<1> USE CancellationAssumption, ConstantsAssumption
    DEF runtimeVars, jobVars, workerVars, abortVars, stopVars, Go
<1>0. /\ pc \in [Jobs -> CallerPlaces] /\ RunOf \in [Jobs -> RunIds]
      /\ deepSeek \subseteq {r \in RunIds : DeepSeekRun(r)}
      /\ \A j, k \in Jobs : RunOf[j] = RunOf[k] => j = k
  BY DEF CancelInv, Inv, TypeInv, TypeOK, CancelTypeOK
<1>1. ASSUME embedded' \subseteq embedded, deepSeek' \subseteq deepSeek,
             cancelAsked \subseteq cancelAsked',
             \A j \in Jobs : pc[j] \in {"cancel", "erase", "cleanup"} =>
                                 pc'[j] \in {"cancel", "erase", "cleanup"}
      PROVE  NoLeakedMark'
  BY <1>1 DEF NoLeakedMark
<1>2. ASSUME NEW j \in Jobs, Body(j) PROVE NoLeakedMark'
  BY <1>1, <1>2, BodyMoves DEF BodyMove, vars, CancelTypeOK
<1>3. ASSUME NEW j \in Jobs, CallerTimeoutMarks(j) PROVE NoLeakedMark'
  <2>1. /\ pc[j] = "mark" /\ pc' = [pc EXCEPT ![j] = "cancel"] /\ cancelAsked' = cancelAsked
        /\ embedded' \subseteq embedded \cup {RunOf[j]}
        /\ deepSeek' \subseteq deepSeek \cup {RunOf[j]}
    BY <1>3 DEF CallerTimeoutMarks, TimeoutMark, history
  <2> QED BY <1>0, <2>1 DEF NoLeakedMark
<1>4. ASSUME NEW j \in Jobs, CallerTimeoutClears(j) PROVE NoLeakedMark'
  <2>1. /\ pc' = [pc EXCEPT ![j] = "done"] /\ cancelAsked' = cancelAsked
        /\ ClearMarks(RunOf[j])
    BY <1>4 DEF CallerTimeoutClears, TimeoutCleanup, Returns, history
  <2>2. embedded' = embedded \ {RunOf[j]} /\ deepSeek' = deepSeek \ {RunOf[j]}
    BY <1>0, <2>1 DEF ClearMarks
  <2> QED BY <1>0, <2>1, <2>2 DEF NoLeakedMark
<1>5. ASSUME NEW j \in Jobs,
             \/ CallerRunsBody(j) \/ CallerReturnsBody(j) \/ CallerTimeoutCancels(j)
             \/ CallerOther(j)
      PROVE  NoLeakedMark'
  <2>1. UNCHANGED <<embedded, deepSeek, cancelAsked>>
    BY <1>5 DEF CallerRunsBody, CallerReturnsBody, CallerTimeoutCancels, CallerOther, BodyBegins,
          BodyReturned, marks, history, cancelVars
  <2>2. \E place : /\ pc' = [pc EXCEPT ![j] = place]
                   /\ pc[j] \in {"cancel", "erase", "cleanup"} =>
                          place \in {"cancel", "erase", "cleanup"}
    BY <1>5 DEF CallerRunsBody, ExecuteInline, Promote, WaitTimedOut, CallerReturnsBody, CallerEnd,
          CallerTimeoutCancels, TimeoutCancel, CallerOther, RejectUnavailable, RejectFull, Enqueue,
          ReturnResult, WaitEnded, GiveUp, TimeoutErase, Returns
  <2> QED BY <1>0, <1>1, <2>1, <2>2
<1>6. ASSUME \/ WorkerRunsBody \/ WorkerReturnsBody \/ WorkerAsksCancelled \/ WorkerClears
             \/ WorkerOther
      PROVE  NoLeakedMark'
  <2>1. pc' = pc /\ cancelAsked' = cancelAsked /\ embedded' \subseteq embedded
        /\ deepSeek' \subseteq deepSeek
    BY <1>6 DEF WorkerRunsBody, WorkerBegin, WorkerReturnsBody, WorkerEnd, WorkerAsksCancelled,
          WorkerCheckCancelled, WorkerClears, WorkerNotify, WorkerOther, WorkerPop, WorkerFinish,
          WorkerComplete, WorkerExit, BodyBegins, BodyReturned, ClearMarks, marks, history,
          cancelVars
  <2> QED BY <1>1, <2>1
<1>7. ASSUME NEW a \in Aborters, AbortMarks(a) PROVE NoLeakedMark'
  <2>1. /\ arun[a] \in cancelAsked /\ pc' = pc /\ cancelAsked' = cancelAsked
        /\ embedded' \subseteq embedded \cup {arun[a]}
        /\ deepSeek' \subseteq deepSeek \cup {arun[a]}
    BY <1>7 DEF AbortMarks, AbortNotify, MarkDeepSeek, AsksRecorded
  <2> QED BY <2>1 DEF NoLeakedMark
<1>8. ASSUME \E a \in Aborters :
                 \/ \E r \in RunIds : AbortLooksUp(a, r)
                 \/ AbortCancels(a) \/ AbortOther(a)
      PROVE  NoLeakedMark'
  <2>1. UNCHANGED <<pc, embedded, deepSeek>> /\ cancelAsked \subseteq cancelAsked'
    BY <1>8 DEF AbortLooksUp, AbortBegin, AbortCancels, AbortCancel, AbortOther, AbortComplete,
          marks, cancelVars
  <2> QED BY <1>1, <2>1
<1>9. ASSUME StopCancels \/ StopClears \/ ManagerOther \/ UNCHANGED allVars
      PROVE  NoLeakedMark'
  <2>1. /\ pc' = pc /\ cancelAsked \subseteq cancelAsked'
        /\ embedded' \subseteq embedded /\ deepSeek' \subseteq deepSeek
    BY <1>9 DEF StopCancels, StopCancelActive, StopClears, StopEnd, ManagerOther, StartWorker,
          StopBegin, StopComplete, StopJoin, history, cancelVars, allVars, vars
  <2> QED BY <1>1, <2>1
<1> QED BY <1>2, <1>3, <1>4, <1>5, <1>6, <1>7, <1>8, <1>9 DEF CancelNext
-----------------------------------------------------------------------------
\* Of a caller that is not on its timeout path, nothing says "cancelled".
Alive(j) == pc[j] \in {"idle", "waiting", "executing"}

Calm(j) ==
    /\ outcome[j] # "cancelled"
    /\ Alive(j) =>
           /\ result[j] # "cancelled" /\ bodyResult[j] # "cancelled"
           /\ local[RunOf[j]] # "cancelled"
           /\ wjob = j => wresult # "cancelled"

\* Without an abort or a stop for its run, a job stays calm.
CancelsAsked == \A j \in Jobs : RunOf[j] \notin cancelAsked => Calm(j)

\* Every step keeps the jobs calm that nobody asked to cancel.
LEMMA CalmStep ==
    ASSUME CancelInv, CancelTypeOK, AsksRecorded, RemovedAgree, NoLeakedMark, CancelsAsked,
           [CancelNext]_allVars
    PROVE  CancelsAsked'
<1> USE CancellationAssumption, ConstantsAssumption
    DEF runtimeVars, jobVars, workerVars, abortVars, stopVars, Go
<1>0. /\ pc \in [Jobs -> CallerPlaces] /\ RunOf \in [Jobs -> RunIds]
      /\ outcome \in [Jobs -> Results \cup {NoResult}]
      /\ result \in [Jobs -> Results \cup {NoResult}]
      /\ bodyResult \in [Jobs -> BodyResults \cup {NoResult}]
      /\ local \in [RunIds -> LocalFlags] /\ wjob \in Jobs \cup {NoJob}
      /\ wjob = NoJob <=> wpc \in {"off", "idle", "exited"}
      /\ \A j, k \in Jobs : RunOf[j] = RunOf[k] => j = k
  BY DEF CancelInv, BodyInv, Inv, TypeInv, TypeOK, WorkerPlace, CancelTypeOK
<1> SUFFICES ASSUME NEW j \in Jobs, RunOf[j] \notin cancelAsked'
             PROVE  Calm(j)'
  BY DEF CancelsAsked
<1>1. cancelAsked \subseteq cancelAsked'
  BY DEF CancelNext, Body, BodyAt, CheckMarks, RunEmbedded, LeaveEmbedded, EnterDeepSeek,
        EnterLocal, RunRouted, RemoteEnds, GenerationEnds, RetryEnds, CallerRunsBody,
        CallerReturnsBody, CallerTimeoutMarks, CallerTimeoutCancels, CallerTimeoutClears,
        CallerOther, WorkerRunsBody, WorkerReturnsBody, WorkerAsksCancelled, WorkerClears,
        WorkerOther, AbortLooksUp, AbortMarks, AbortCancels, AbortOther, StopCancels, StopClears,
        ManagerOther, BodyBegins, BodyReturned, history, cancelVars, allVars
<1>2. RunOf[j] \notin cancelAsked /\ Calm(j)
  BY <1>1 DEF CancelsAsked
<1>3. Alive(j) => ~Marked(RunOf[j])
  BY <1>0, <1>2 DEF NoLeakedMark, Marked, Alive
<1>4. /\ \A a \in Aborters : apc[a] # "idle" => arun[a] # RunOf[j]
      /\ runsById[RunOf[j]] # "Cancelled"
  BY <1>0, <1>2 DEF AsksRecorded
<1>5. ASSUME NEW r, CancelActive(r), r # RunOf[j] PROVE local'[RunOf[j]] = local[RunOf[j]]
  BY <1>0, <1>5 DEF CancelActive
<1>6. ASSUME UNCHANGED <<outcome, result, bodyResult>>, local'[RunOf[j]] = local[RunOf[j]],
             Alive(j)' => Alive(j),
             wjob' = j /\ Alive(j)' /\ wresult' = "cancelled" => wjob = j /\ wresult = "cancelled"
      PROVE  Calm(j)'
  BY <1>2, <1>6 DEF Calm
<1>7. ASSUME NEW k \in Jobs, Body(k) PROVE Calm(j)'
  <2>1. BodyMove(k)
    BY <1>7, BodyMoves DEF CancelTypeOK
  <2>2. UNCHANGED <<outcome, result, pc, wjob, wresult>>
    BY <2>1 DEF BodyMove, vars
  <2>3. Alive(j) => bodyResult'[j] # "cancelled" /\ local'[RunOf[j]] # "cancelled"
    <3>1. CASE k = j
      BY <1>2, <1>3, <2>1, <3>1 DEF BodyMove, Calm
    <3>2. CASE k # j
      <4>1. RunOf[k] # RunOf[j] /\ RunOf[j] \in RunIds
        BY <1>0, <3>2
      <4> QED BY <1>2, <2>1, <3>2, <4>1 DEF BodyMove, Calm
    <3> QED BY <3>1, <3>2
  <2> QED BY <1>2, <2>2, <2>3 DEF Calm, Alive
<1>8. ASSUME NEW k \in Jobs, CallerRunsBody(k) PROVE Calm(j)'
  <2>1. /\ UNCHANGED <<outcome, result, bodyResult, local, wjob, wresult>>
        /\ pc[k] \in {"idle", "waiting"} /\ pc' = [pc EXCEPT ![k] = "executing"]
    BY <1>8 DEF CallerRunsBody, ExecuteInline, Promote, WaitTimedOut, BodyBegins, marks
  <2> QED BY <1>0, <1>6, <2>1 DEF Alive
<1>9. ASSUME NEW k \in Jobs, CallerReturnsBody(k) PROVE Calm(j)'
  <2>1. /\ UNCHANGED <<result, local, wjob, wresult>>
        /\ pc[k] = "executing" /\ pc' = [pc EXCEPT ![k] = "done"]
        /\ outcome' = [outcome EXCEPT ![k] = bodyResult[k]]
        /\ bodyResult' = [bodyResult EXCEPT ![k] = NoResult]
    BY <1>9 DEF CallerReturnsBody, CallerEnd, Returns, BodyReturned, marks
  <2> QED BY <1>0, <1>2, <2>1 DEF Calm, Alive
<1>10. ASSUME NEW k \in Jobs,
              CallerTimeoutMarks(k) \/ CallerTimeoutCancels(k) \/ CallerTimeoutClears(k)
       PROVE  Calm(j)'
  <2>1. /\ UNCHANGED <<result, bodyResult, wjob, wresult>>
        /\ outcome' = outcome \/ outcome' = [outcome EXCEPT ![k] = "timedOut"]
        /\ pc'[k] \in {"cancel", "erase", "done"} /\ \A i \in Jobs \ {k} : pc'[i] = pc[i]
        /\ local' = local \/ CancelActive(RunOf[k])
    BY <1>0, <1>10 DEF CallerTimeoutMarks, TimeoutMark, CallerTimeoutCancels, TimeoutCancel,
          CallerTimeoutClears, TimeoutCleanup, Returns
  <2>2. k # j => local'[RunOf[j]] = local[RunOf[j]]
    BY <1>0, <1>5, <2>1
  <2>3. outcome'[j] # "cancelled"
    BY <1>0, <1>2, <2>1 DEF Calm
  <2> QED BY <1>2, <2>1, <2>2, <2>3 DEF Calm, Alive
<1>11. ASSUME NEW k \in Jobs, ReturnResult(k), CallerOther(k) PROVE Calm(j)'
  <2>1. /\ UNCHANGED <<result, bodyResult, local, wjob, wresult>>
        /\ pc[k] = "waiting" /\ pc' = [pc EXCEPT ![k] = "done"]
        /\ outcome' = [outcome EXCEPT ![k] = result[k]]
    BY <1>11 DEF CallerOther, ReturnResult, WaitEnded, Returns, cancelVars
  <2> QED BY <1>0, <1>2, <2>1 DEF Calm, Alive
<1>12. ASSUME NEW k \in Jobs, CallerOther(k), ~ReturnResult(k) PROVE Calm(j)'
  <2>1. /\ UNCHANGED <<result, bodyResult, local, wjob, wresult>>
        /\ \/ outcome' = outcome
           \/ \E r \in {"unavailable", "queueFull"} : outcome' = [outcome EXCEPT ![k] = r]
        /\ \E place : /\ pc' = [pc EXCEPT ![k] = place]
                      /\ place \in {"waiting", "executing"} => pc[k] = "idle"
                      /\ place # "idle"
    BY <1>12 DEF CallerOther, RejectUnavailable, RejectFull, Enqueue, GiveUp, TimeoutErase,
          Returns, cancelVars
  <2>2. outcome'[j] # "cancelled" /\ (Alive(j)' => Alive(j))
    BY <1>0, <1>2, <2>1 DEF Calm, Alive
  <2> QED BY <1>2, <2>1, <2>2 DEF Calm
<1>13. ASSUME WorkerReturnsBody PROVE Calm(j)'
  <2>1. /\ UNCHANGED <<outcome, result, local, pc, wjob>> /\ wjob \in Jobs
        /\ wresult' \in {"timedOut", bodyResult[wjob]}
        /\ bodyResult' = [bodyResult EXCEPT ![wjob] = NoResult]
    BY <1>0, <1>13 DEF WorkerReturnsBody, WorkerEnd, BodyReturned, marks
  <2> QED BY <1>0, <1>2, <2>1 DEF Calm, Alive, NoResult
<1>14. ASSUME WorkerAsksCancelled PROVE Calm(j)'
  <2>1. /\ UNCHANGED <<outcome, result, bodyResult, local, pc, wjob>>
        /\ wresult' = IF IsRunCancelled(RunOf[wjob]) THEN "cancelled" ELSE wresult
    BY <1>14 DEF WorkerAsksCancelled, WorkerCheckCancelled, cancelVars
  <2>2. Alive(j) /\ wjob = j => ~IsRunCancelled(RunOf[wjob])
    BY <1>3 DEF IsRunCancelled, Marked
  <2> QED BY <1>6, <2>1, <2>2 DEF Alive
<1>15. ASSUME NEW late \in BOOLEAN, WorkerPop(late), WorkerOther PROVE Calm(j)'
  <2>1. UNCHANGED <<outcome, result, bodyResult, local, pc>>
    BY <1>15 DEF WorkerOther, WorkerPop, cancelVars
  <2>2. wjob' = j => wresult' # "cancelled"
    BY <1>4, <1>15 DEF WorkerPop, NoResult
  <2> QED BY <1>6, <2>1, <2>2 DEF Alive
<1>16. ASSUME WorkerComplete, WorkerOther PROVE Calm(j)'
  <2>1. /\ UNCHANGED <<outcome, bodyResult, local, pc>> /\ wjob \in Jobs /\ wjob' = NoJob
        /\ result' = [result EXCEPT ![wjob] = wresult]
    BY <1>0, <1>16 DEF WorkerOther, WorkerComplete, Complete, cancelVars
  <2> QED BY <1>0, <1>2, <2>1 DEF Calm, Alive
<1>17. ASSUME \/ WorkerRunsBody \/ WorkerClears
              \/ WorkerOther /\ (WorkerFinish \/ WorkerExit)
       PROVE  Calm(j)'
  <2>1. UNCHANGED <<outcome, result, bodyResult, local, pc, wjob, wresult>>
    BY <1>17 DEF WorkerRunsBody, WorkerBegin, WorkerClears, WorkerNotify, WorkerOther, WorkerFinish,
          WorkerExit, BodyBegins, marks, cancelVars
  <2> QED BY <1>6, <2>1 DEF Alive
<1>18. ASSUME NEW a \in Aborters,
              (\E r \in RunIds : AbortLooksUp(a, r)) \/ AbortMarks(a) \/ AbortCancels(a)
       PROVE  Calm(j)'
  <2>1. UNCHANGED <<outcome, result, bodyResult, pc, wjob, wresult>>
    BY <1>18 DEF AbortLooksUp, AbortBegin, AbortMarks, AbortNotify, AbortCancels, AbortCancel
  <2>2. local'[RunOf[j]] = local[RunOf[j]]
    <3>1. CASE AbortCancels(a)
      BY <1>4, <1>5, <3>1 DEF AbortCancels, AbortCancel
    <3> QED BY <1>18, <3>1 DEF AbortLooksUp, AbortMarks, marks
  <2> QED BY <1>6, <2>1, <2>2 DEF Alive
<1>19. ASSUME NEW a \in Aborters, AbortOther(a) PROVE Calm(j)'
  <2>1. /\ UNCHANGED <<outcome, bodyResult, local, pc, wjob, wresult>>
        /\ apc[a] = "complete" /\ ajob[a] \in Jobs
        /\ result' = [result EXCEPT ![ajob[a]] = "cancelled"]
    BY <1>19 DEF AbortOther, AbortComplete, Complete, cancelVars, CancelInv, Inv, Ownership,
          PlacesAgree
  <2>2. ajob[a] # j
    BY <1>4, <2>1 DEF RemovedAgree
  <2> QED BY <1>0, <1>2, <2>1, <2>2 DEF Calm, Alive
<1>20. ASSUME StopCancels PROVE Calm(j)'
  <2>1. /\ UNCHANGED <<outcome, result, bodyResult, pc, wjob, wresult>>
        /\ CancelActive(stopRun) /\ stopRun # RunOf[j]
    BY <1>0, <1>20 DEF StopCancels, StopCancelActive
  <2> QED BY <1>5, <1>6, <2>1 DEF Alive
<1>21. ASSUME ManagerOther, StopComplete PROVE Calm(j)'
  <2>1. /\ UNCHANGED <<outcome, bodyResult, local, pc, wjob, wresult>>
        /\ \E k : result' = [result EXCEPT ![k] = "unavailable"]
    BY <1>21 DEF ManagerOther, StopComplete, Complete, cancelVars
  <2>2. result'[j] \in {result[j], "unavailable"}
    BY <1>0, <2>1
  <2> QED BY <1>2, <2>1, <2>2 DEF Calm, Alive
<1>22. ASSUME \/ StopClears \/ UNCHANGED allVars
              \/ ManagerOther /\ (StartWorker \/ StopBegin \/ StopJoin)
       PROVE  Calm(j)'
  <2>1. UNCHANGED <<outcome, result, bodyResult, local, pc, wjob, wresult>>
    BY <1>22 DEF StopClears, StopEnd, ManagerOther, StartWorker, StopBegin, StopJoin, cancelVars,
          allVars, vars
  <2> QED BY <1>6, <2>1 DEF Alive
<1>23. CASE WorkerOther
  BY <1>15, <1>16, <1>17, <1>23 DEF WorkerOther
<1>24. CASE ManagerOther
  BY <1>21, <1>22, <1>24 DEF ManagerOther
<1> HIDE DEF Calm
<1> QED BY <1>7, <1>8, <1>9, <1>10, <1>11, <1>12, <1>13, <1>14, <1>17, <1>18, <1>19, <1>20,
           <1>22, <1>23, <1>24
        DEF CancelNext
-----------------------------------------------------------------------------
\* What becomes of a job that an abort hit on the worker: it is marked until the worker
\* asks, cancelled from then on, or its caller is gone.
HitStays(j) ==
    \/ wjob = j /\ wpc = "executing" /\ phase[j] \in PastPhases /\ RunOf[j] \in embedded
    \/ wjob = j /\ wpc = "check" /\ RunOf[j] \in embedded
    \/ wjob = j /\ wpc \in {"finish", "notify", "complete"} /\ wresult = "cancelled"
    \/ completed[j] /\ result[j] = "cancelled"
    \/ pc[j] = "done"

OwedAnswer(j) ==
    /\ outcome[j] \in {NoResult, "cancelled", "timedOut"}
    /\ pc[j] # "executing"
    /\ HitStays(j)

OwedInv == \A j \in owed : OwedAnswer(j)

\* The mark survives until the worker asks for it (CChatRuntime.cpp:375-383).
LEMMA OwedStep ==
    ASSUME CancelInv, AnswersTrue, CancelTypeOK, AsksRecorded, RemovedAgree, BodiesPlaced, OwedInv,
           [CancelNext]_allVars
    PROVE  OwedInv'
<1> USE CancellationAssumption, ConstantsAssumption
    DEF runtimeVars, jobVars, workerVars, abortVars, stopVars, Go
<1>0. /\ pc \in [Jobs -> CallerPlaces] /\ RunOf \in [Jobs -> RunIds]
      /\ outcome \in [Jobs -> Results \cup {NoResult}]
      /\ result \in [Jobs -> Results \cup {NoResult}]
      /\ completed \in [Jobs -> BOOLEAN]
      /\ phase \in [Jobs -> Phases] /\ wjob \in Jobs \cup {NoJob}
      /\ wjob = NoJob <=> wpc \in {"off", "idle", "exited"}
      /\ mpc \in {"join", "down"} <=> wpc = "off"
      /\ owed \subseteq Jobs
      /\ \A j, k \in Jobs : RunOf[j] = RunOf[k] => j = k
  BY DEF CancelInv, BodyInv, Inv, TypeInv, TypeOK, WorkerPlace, CancelTypeOK
<1>1. \A j \in Jobs : /\ wjob = j => ~completed[j] /\ pc[j] \notin {"idle", "executing"}
                      /\ completed[j] => pc[j] # "idle"
                      /\ wjob = j => ~InQueue(j) /\ ~StopHas(j)
                      /\ StopHas(j) => ~completed[j]
  BY DEF CancelInv, Inv, Ownership, OwnedOnce, SoleOwner, Owned, WorkerHas
<1>2. \A a \in Aborters, j \in Jobs :
          apc[a] = "notify" /\ ajob[a] # NoJob /\ arun[a] = RunOf[j] => wjob # j
  BY <1>0, <1>1 DEF RemovedAgree
<1> SUFFICES ASSUME NEW j \in Jobs, j \in owed', OwedInv PROVE OwedAnswer(j)'
  <2>1. owed' \subseteq Jobs
    BY <1>0 DEF CancelNext, Body, BodyAt, CheckMarks, RunEmbedded, LeaveEmbedded, EnterDeepSeek,
          EnterLocal, RunRouted, RemoteEnds, GenerationEnds, RetryEnds, CallerRunsBody,
          CallerReturnsBody, CallerTimeoutMarks, CallerTimeoutCancels, CallerTimeoutClears,
          CallerOther, WorkerRunsBody, WorkerReturnsBody, WorkerAsksCancelled, WorkerClears,
          WorkerOther, AbortLooksUp, AbortMarks, AbortCancels, AbortOther, StopCancels,
          StopClears, ManagerOther, BodyBegins, BodyReturned, history, cancelVars, allVars
  <2> QED BY <2>1 DEF OwedInv
<1>3. j \in owed => OwedAnswer(j)
  BY DEF OwedInv
\* Only what the job itself is touched by matters.
<1>4. ASSUME owed' = owed, outcome'[j] = outcome[j], pc'[j] = pc[j], phase'[j] = phase[j],
             completed'[j] = completed[j], result'[j] = result[j],
             UNCHANGED <<wjob, wpc, wresult>>,
             RunOf[j] \in embedded => RunOf[j] \in embedded'
      PROVE  OwedAnswer(j)'
  BY <1>3, <1>4 DEF OwedAnswer, HitStays
<1>5. ASSUME NEW k \in Jobs, Body(k) PROVE OwedAnswer(j)'
  <2>1. BodyMove(k) /\ UNCHANGED <<owed, outcome, pc, completed, result, wjob, wpc, wresult>>
    BY <1>5, BodyMoves DEF BodyMove, vars, CancelTypeOK
  <2>2. CASE k # j
    <3>1. RunOf[k] # RunOf[j] /\ phase'[j] = phase[j]
      BY <1>0, <2>1, <2>2 DEF BodyMove
    <3> QED BY <1>4, <2>1, <3>1 DEF BodyMove
  <2>3. CASE k = j
    <3>1. pc[j] = "executing" \/ (wjob = j /\ wpc = "executing")
      BY <2>1, <2>3 DEF BodyMove, BodiesPlaced
    <3> QED BY <1>3, <2>1, <2>3, <3>1 DEF BodyMove, OwedAnswer, HitStays
  <2> QED BY <2>2, <2>3
<1>6. ASSUME NEW k \in Jobs, CallerRunsBody(k) PROVE OwedAnswer(j)'
  <2>1. /\ UNCHANGED <<owed, outcome, completed, result, wjob, wpc, wresult, embedded>>
        /\ pc' = [pc EXCEPT ![k] = "executing"] /\ phase' = [phase EXCEPT ![k] = "check"]
    BY <1>6 DEF CallerRunsBody, ExecuteInline, Promote, BodyBegins, marks, history
  <2>2. k # j
    <3> SUFFICES ASSUME k = j PROVE FALSE
      OBVIOUS
    <3>1. OwedAnswer(j)
      BY <1>3, <2>1
    <3>2. CASE ExecuteInline(k)
      BY <1>1, <3>1, <3>2 DEF ExecuteInline, OwedAnswer, HitStays
    <3>3. CASE Promote(k)
      <4>1. PICK i \in Contents(queue) : RunOf[i] = RunOf[k]
        BY <3>3 DEF Promote, StillQueued, CancelInv, Inv, Ownership, EntriesAgree,
              QueuedStatusMatchesQueue
      <4>2. InQueue(k)
        BY <1>0, <4>1, ContentsType DEF CancelInv, Inv, TypeInv, TypeOK, InQueue
      <4> QED BY <1>1, <3>1, <3>3, <4>2 DEF Promote, WaitTimedOut, OwedAnswer, HitStays
    <3> QED BY <1>6, <3>2, <3>3 DEF CallerRunsBody
  <2> QED BY <1>0, <1>4, <2>1, <2>2
<1>7. ASSUME NEW k \in Jobs, CallerReturnsBody(k) PROVE OwedAnswer(j)'
  <2>1. /\ UNCHANGED <<owed, completed, result, wjob, wpc, wresult, embedded>>
        /\ pc[k] = "executing" /\ pc' = [pc EXCEPT ![k] = "done"]
        /\ phase' = [phase EXCEPT ![k] = "off"]
        /\ outcome' = [outcome EXCEPT ![k] = bodyResult[k]]
    BY <1>7 DEF CallerReturnsBody, CallerEnd, Returns, BodyReturned, marks, history
  <2>2. k # j
    BY <1>3, <2>1 DEF OwedAnswer
  <2> QED BY <1>0, <1>4, <2>1, <2>2
<1>8. ASSUME NEW k \in Jobs, CallerTimeoutMarks(k) \/ CallerTimeoutCancels(k)
      PROVE  OwedAnswer(j)'
  <2>1. /\ UNCHANGED <<owed, outcome, completed, result, wjob, wpc, wresult, phase>>
        /\ embedded \subseteq embedded' /\ pc[k] \in {"mark", "cancel"}
        /\ \E place \in {"cancel", "erase"} : pc' = [pc EXCEPT ![k] = place]
    BY <1>8 DEF CallerTimeoutMarks, TimeoutMark, CallerTimeoutCancels, TimeoutCancel, history
  <2> QED BY <1>0, <1>3, <2>1 DEF OwedAnswer, HitStays
<1>9. ASSUME NEW k \in Jobs, CallerTimeoutClears(k) PROVE OwedAnswer(j)'
  <2>1. /\ UNCHANGED <<owed, completed, result, wjob, wpc, wresult, phase>>
        /\ embedded' = embedded \ {RunOf[k]} /\ pc' = [pc EXCEPT ![k] = "done"]
        /\ outcome' = [outcome EXCEPT ![k] = "timedOut"]
    BY <1>9 DEF CallerTimeoutClears, TimeoutCleanup, Returns, ClearMarks, history
  <2>2. CASE k = j
    BY <1>0, <2>1, <2>2 DEF OwedAnswer, HitStays
  <2>3. CASE k # j
    <3>1. RunOf[k] # RunOf[j]
      BY <1>0, <2>3
    <3> QED BY <1>0, <1>4, <2>1, <2>3, <3>1
  <2> QED BY <2>2, <2>3
<1>10. ASSUME NEW k \in Jobs, CallerOther(k) PROVE OwedAnswer(j)'
  <2>1. UNCHANGED <<owed, completed, result, wjob, wpc, wresult, embedded, phase>>
    BY <1>10 DEF CallerOther, RejectUnavailable, RejectFull, Enqueue, ReturnResult, GiveUp,
          TimeoutErase, cancelVars
  <2>2. CASE ReturnResult(k)
    <3>1. /\ completed[k] /\ pc' = [pc EXCEPT ![k] = "done"] /\ pc[k] = "waiting"
          /\ outcome' = [outcome EXCEPT ![k] = result[k]]
      BY <2>2 DEF ReturnResult, WaitEnded, Returns
    <3> QED BY <1>0, <1>1, <1>3, <2>1, <3>1 DEF OwedAnswer, HitStays
  <2>3. CASE ~ReturnResult(k)
    <3>1. /\ pc[k] # "done"
          /\ \E place \in {"done", "waiting", "mark", "cleanup"} : pc' = [pc EXCEPT ![k] = place]
          /\ \/ outcome' = outcome
             \/ pc[k] = "idle" /\ \A i \in Jobs : i # k => outcome'[i] = outcome[i]
      <4>1. CASE RejectUnavailable(k) \/ RejectFull(k)
        <5>1. /\ pc[k] = "idle" /\ pc' = [pc EXCEPT ![k] = "done"]
              /\ outcome' = [outcome EXCEPT ![k] = outcome'[k]]
          BY <1>0, <4>1 DEF RejectUnavailable, RejectFull, Returns
        <5> QED BY <1>0, <5>1
      <4>2. CASE Enqueue(k)
        BY <4>2 DEF Enqueue
      <4>3. CASE GiveUp(k)
        BY <4>3 DEF GiveUp, WaitTimedOut
      <4>4. CASE TimeoutErase(k)
        BY <4>4 DEF TimeoutErase
      <4> QED BY <1>10, <2>3, <4>1, <4>2, <4>3, <4>4 DEF CallerOther
    <3>2. pc[j] # "idle"
      BY <1>1, <1>3, <2>1 DEF OwedAnswer, HitStays
    <3>3. outcome'[j] = outcome[j]
      BY <1>0, <3>1, <3>2
    <3>4. pc'[j] # "executing" /\ (pc[j] = "done" => pc'[j] = "done")
      BY <1>0, <1>3, <2>1, <3>1 DEF OwedAnswer
    <3> QED BY <1>3, <2>1, <3>3, <3>4 DEF OwedAnswer, HitStays
  <2> QED BY <2>2, <2>3
<1>11. ASSUME WorkerRunsBody PROVE OwedAnswer(j)'
  <2>1. /\ UNCHANGED <<owed, outcome, pc, completed, result, wjob, embedded>>
        /\ wpc = "popped"
    BY <1>11 DEF WorkerRunsBody, WorkerBegin, BodyBegins, marks, history
  <2> QED BY <1>3, <2>1 DEF OwedAnswer, HitStays
<1>12. ASSUME WorkerReturnsBody PROVE OwedAnswer(j)'
  <2>1. /\ UNCHANGED <<owed, outcome, pc, completed, result, wjob, embedded>>
        /\ wpc = "executing" /\ wpc' = "check"
    BY <1>12 DEF WorkerReturnsBody, WorkerEnd, BodyReturned, marks, history
  <2> QED BY <1>3, <2>1 DEF OwedAnswer, HitStays
<1>13. ASSUME WorkerAsksCancelled PROVE OwedAnswer(j)'
  <2>1. /\ UNCHANGED <<owed, outcome, pc, completed, result, wjob>>
        /\ wpc = "check" /\ wpc' = "finish"
        /\ wresult' = IF IsRunCancelled(RunOf[wjob]) THEN "cancelled" ELSE wresult
    BY <1>13 DEF WorkerAsksCancelled, WorkerCheckCancelled, cancelVars
  <2>2. wjob = j /\ RunOf[j] \in embedded => wresult' = "cancelled"
    BY <2>1 DEF IsRunCancelled
  <2> QED BY <1>3, <2>1, <2>2 DEF OwedAnswer, HitStays
<1>14. ASSUME WorkerClears PROVE OwedAnswer(j)'
  <2>1. /\ UNCHANGED <<owed, outcome, pc, completed, result, wjob, wresult>>
        /\ wpc = "notify" /\ wpc' = "complete"
    BY <1>14 DEF WorkerClears, WorkerNotify, history
  <2> QED BY <1>3, <2>1 DEF OwedAnswer, HitStays
<1>15. ASSUME WorkerOther PROVE OwedAnswer(j)'
  <2>1. UNCHANGED <<owed, outcome, pc>>
    BY <1>15 DEF WorkerOther, WorkerPop, WorkerFinish, WorkerComplete, WorkerExit, cancelVars
  <2>2. CASE WorkerComplete
    <3>1. /\ wpc = "complete" /\ wjob \in Jobs
          /\ result' = [result EXCEPT ![wjob] = wresult]
          /\ completed' = [completed EXCEPT ![wjob] = TRUE]
      BY <1>0, <2>2 DEF WorkerComplete, Complete
    <3>2. OwedAnswer(j)
      BY <1>3, <2>1
    <3>3. CASE wjob = j
      <4>1. wresult = "cancelled" \/ pc[j] = "done"
        BY <1>1, <3>1, <3>2, <3>3 DEF OwedAnswer, HitStays
      <4>2. completed'[j] /\ result'[j] = wresult
        BY <1>0, <3>1, <3>3
      <4> QED BY <2>1, <3>2, <4>1, <4>2 DEF OwedAnswer, HitStays
    <3>4. CASE wjob # j
      <4>1. completed'[j] = completed[j] /\ result'[j] = result[j]
        BY <1>0, <3>1, <3>4
      <4> QED BY <2>1, <3>2, <3>4, <4>1 DEF OwedAnswer, HitStays
    <3> QED BY <3>3, <3>4
  <2>3. CASE WorkerFinish
    <3>1. wpc = "finish" /\ wpc' = "notify" /\ UNCHANGED <<wjob, wresult, completed, result>>
      BY <2>3 DEF WorkerFinish
    <3> QED BY <1>3, <2>1, <3>1 DEF OwedAnswer, HitStays
  <2>4. CASE (\E late \in BOOLEAN : WorkerPop(late)) \/ WorkerExit
    <3>1. wpc = "idle" /\ UNCHANGED <<completed, result>>
      BY <2>4 DEF WorkerPop, WorkerExit
    <3> QED BY <1>3, <2>1, <3>1 DEF OwedAnswer, HitStays
  <2> QED BY <1>15, <2>2, <2>3, <2>4 DEF WorkerOther
<1>16. ASSUME NEW a \in Aborters, AbortMarks(a) PROVE OwedAnswer(j)'
  <2>1. /\ UNCHANGED <<outcome, pc, phase, completed, result, wjob, wpc, wresult>>
        /\ apc[a] = "notify"
        /\ owed' = owed \cup {i \in Jobs : RunOf[i] = arun[a] /\ PastClears(i)}
        /\ embedded' = IF ajob[a] # NoJob THEN embedded \ {arun[a]} ELSE embedded \cup {arun[a]}
    BY <1>16 DEF AbortMarks, AbortNotify
  <2>2. ajob[a] # NoJob => RunOf[j] # arun[a] \/ wjob # j
    BY <1>2, <2>1
  <2>3. CASE j \in owed
    BY <1>3, <2>1, <2>2, <2>3 DEF OwedAnswer, HitStays
  <2>4. CASE j \notin owed
    <3>1. RunOf[j] = arun[a] /\ PastClears(j)
      BY <2>1, <2>4
    <3>2. RunOf[j] \in embedded' /\ wjob = j /\ pc[j] # "executing"
      BY <1>1, <2>1, <2>2, <3>1 DEF PastClears
    <3>3. outcome[j] \in {NoResult, "timedOut"}
      BY <3>2 DEF AnswersTrue, CallersTrue, LeftBehind, Owned, WorkerHas
    <3> QED BY <2>1, <3>1, <3>2, <3>3 DEF PastClears, PastPhases, OwedAnswer, HitStays
  <2> QED BY <2>3, <2>4
<1>17. ASSUME NEW a \in Aborters, (\E r \in RunIds : AbortLooksUp(a, r)) \/ AbortCancels(a)
       PROVE  OwedAnswer(j)'
  <2>1. UNCHANGED <<owed, outcome, pc, phase, completed, result, wjob, wpc, wresult, embedded>>
    BY <1>17 DEF AbortLooksUp, AbortBegin, AbortCancels, AbortCancel, marks
  <2> QED BY <1>4, <2>1
<1>18. ASSUME NEW a \in Aborters, AbortOther(a) PROVE OwedAnswer(j)'
  <2>1. /\ UNCHANGED <<owed, outcome, pc, phase, wjob, wpc, wresult, embedded>>
        /\ result' = [result EXCEPT ![ajob[a]] = "cancelled"]
        /\ completed' = [completed EXCEPT ![ajob[a]] = TRUE]
    BY <1>18 DEF AbortOther, AbortComplete, Complete, cancelVars
  <2> QED BY <1>0, <1>3, <2>1 DEF OwedAnswer, HitStays
<1>19. ASSUME StopClears PROVE OwedAnswer(j)'
  <2>1. /\ UNCHANGED <<owed, outcome, pc, completed, result, wjob, wpc>> /\ wpc = "off"
    BY <1>0, <1>19 DEF StopClears, StopEnd, history
  <2> QED BY <1>3, <2>1 DEF OwedAnswer, HitStays
<1>20. ASSUME ManagerOther, StopComplete PROVE OwedAnswer(j)'
  <2>1. /\ UNCHANGED <<owed, outcome, pc, phase, wjob, wpc, wresult, embedded>>
        /\ result' = [result EXCEPT ![Head(abandoned)] = "unavailable"]
        /\ completed' = [completed EXCEPT ![Head(abandoned)] = TRUE]
    BY <1>20 DEF ManagerOther, StopComplete, Complete, cancelVars
  <2>2. StopHas(Head(abandoned))
    BY <1>20, HeadTail DEF StopComplete, StopHas, CancelInv, Inv, TypeInv, TypeOK
  <2>3. CASE Head(abandoned) = j
    <3>1. ~completed[j] /\ wjob # j
      BY <1>1, <2>2, <2>3
    <3> QED BY <1>3, <2>1, <3>1 DEF OwedAnswer, HitStays
  <2>4. CASE Head(abandoned) # j
    BY <1>0, <1>4, <2>1, <2>4
  <2> QED BY <2>3, <2>4
<1>21. ASSUME \/ StopCancels \/ UNCHANGED allVars
              \/ ManagerOther /\ (StartWorker \/ StopBegin \/ StopJoin)
       PROVE  OwedAnswer(j)'
  <2>1. /\ UNCHANGED <<owed, outcome, pc, phase, completed, result, wjob, wresult, embedded>>
        /\ wpc' = wpc \/ wpc \in {"off", "exited"}
    BY <1>0, <1>21 DEF StopCancels, StopCancelActive, ManagerOther, StartWorker, StopBegin,
          StopJoin, cancelVars, allVars, vars
  <2> QED BY <1>0, <1>3, <2>1 DEF OwedAnswer, HitStays
<1>22. CASE ManagerOther
  BY <1>20, <1>21, <1>22 DEF ManagerOther
<1> HIDE DEF OwedInv
<1> QED BY <1>5, <1>6, <1>7, <1>8, <1>9, <1>10, <1>11, <1>12, <1>13, <1>14, <1>15, <1>16, <1>17,
           <1>18, <1>19, <1>21, <1>22
        DEF CancelNext
-----------------------------------------------------------------------------
(***************************************************************************)
(* The invariant of the marks, and what follows from it.                   *)
(***************************************************************************)
MarksInv ==
    /\ CancelInv /\ AnswersTrue
    /\ CancelTypeOK
    /\ AsksRecorded /\ RemovedAgree
    /\ BodiesPlaced /\ LocalFlagWhileGenerating
    /\ NoLeakedMark /\ CancelsAsked /\ OwedInv

\* At the start nothing is marked.
LEMMA MarksInit == CancelInit => MarksInv
<1> SUFFICES ASSUME CancelInit PROVE MarksInv
  OBVIOUS
<1> USE CancellationAssumption, ConstantsAssumption
<1>1. CancelInv /\ AnswersTrue
  BY CancelInvInit DEF CancelInit, Init, AnswersTrue, CallersTrue, LeftBehind, WorkerTrue
<1>2. CancelTypeOK
  BY DEF CancelInit, CancelTypeOK, LocalFlags, Phases
<1>3. AsksRecorded /\ RemovedAgree
  BY DEF CancelInit, Init, AsksRecorded, RemovedAgree, Untracked
<1>4. BodiesPlaced /\ LocalFlagWhileGenerating
  BY DEF CancelInit, BodiesPlaced, LocalFlagWhileGenerating
<1>5. NoLeakedMark /\ OwedInv
  BY DEF CancelInit, NoLeakedMark, OwedInv
<1>6. CancelsAsked
  BY DEF CancelInit, Init, CancelsAsked, Calm, Alive, NoResult
<1> QED BY <1>1, <1>2, <1>3, <1>4, <1>5, <1>6 DEF MarksInv

\* Every step keeps what is known of the marks.
LEMMA MarksStep == MarksInv /\ [CancelNext]_allVars => MarksInv'
<1> SUFFICES ASSUME MarksInv, [CancelNext]_allVars PROVE MarksInv'
  OBVIOUS
<1>1. [Next]_vars /\ CancelInv'
  BY CancelStep DEF MarksInv
<1>2. AnswersTrue'
  BY <1>1, AnswersStep DEF MarksInv, CancelInv, RefInv
<1>3. CancelTypeOK'
  BY <1>1, MarksTypeStep DEF MarksInv, CancelInv
<1>4. AsksRecorded' /\ RemovedAgree'
  BY RecordsStep DEF MarksInv
<1>5. BodiesPlaced' /\ LocalFlagWhileGenerating'
  BY PlacedStep DEF MarksInv
<1>6. NoLeakedMark'
  BY LeakStep DEF MarksInv
<1>7. CancelsAsked'
  BY CalmStep DEF MarksInv
<1>8. OwedInv'
  BY OwedStep DEF MarksInv
<1> QED BY <1>1, <1>2, <1>3, <1>4, <1>5, <1>6, <1>7, <1>8 DEF MarksInv

\* Whatever happens, it holds.
LEMMA MarksHold == CancelSpec => []MarksInv
  BY MarksInit, MarksStep, PTL DEF CancelSpec

\* The marks, the flags and the places of the bodies have their types; only DeepSeek
\* runs carry the DeepSeek mark (ServiceLifecycleStartupCoordinator.cpp:398-433).
THEOREM MarksTyped == CancelSpec => []CancelTypeOK
<1>1. MarksInv => CancelTypeOK
  BY DEF MarksInv
<1> QED BY <1>1, MarksHold, PTL

\* A run nobody aborted carries a mark only while its caller is on its timeout path
\* (CChatRuntime.cpp:198-229, ServiceLifecycleStartupCoordinator.cpp:389-443).
THEOREM MarksDoNotLeak == CancelSpec => []NoLeakedMark
<1>1. MarksInv => NoLeakedMark
  BY DEF MarksInv
<1> QED BY <1>1, MarksHold, PTL

\* Execute answers "cancelled" only for a run that somebody aborted or that StopWorker
\* cancelled (CChatRuntime.cpp:237-295, 375-383).
THEOREM CancelsAreAsked == CancelSpec => []NoSpuriousCancel
<1>1. MarksInv => NoSpuriousCancel
  BY DEF MarksInv, CancelsAsked, Calm, NoSpuriousCancel
<1> QED BY <1>1, MarksHold, PTL

\* An abort that hits the worker past the last place that clears the mark is honoured:
\* the caller gets no answer of the model (CChatRuntime.cpp:375-383).
THEOREM AbortsAreHonoured == CancelSpec => []AbortOnWorkerHonoured
<1>1. MarksInv => AbortOnWorkerHonoured
  BY DEF MarksInv, OwedInv, OwedAnswer, AbortOnWorkerHonoured
<1> QED BY <1>1, MarksHold, PTL

\* The local model holds a cancel flag exactly for the run that generates: whatever ends
\* a generation drops its flag (LlamaTextGenerationRuntime.cpp:500-517).
THEOREM FlagsFollowBodies == CancelSpec => []LocalFlagWhileGenerating
<1>1. MarksInv => LocalFlagWhileGenerating
  BY DEF MarksInv
<1> QED BY <1>1, MarksHold, PTL
=============================================================================
