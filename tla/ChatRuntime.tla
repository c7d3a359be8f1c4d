----------------------------- MODULE ChatRuntime -----------------------------
(***************************************************************************)
(* CChatRuntime (core/runtime/CChatRuntime.{h,cpp}): the bounded queue that *)
(* serialises the model runs of all chat.send calls on one worker thread.   *)
(*                                                                         *)
(* Threads: one caller per Execute call (a job), the worker, the threads    *)
(* that call Abort (Aborters) and the thread that starts and stops the      *)
(* runtime.  A step is one critical section of m_queueMutex or of a job's   *)
(* completionMutex, or the call of one callback; every interleaving of such *)
(* steps is a behaviour.  What job->execute() does is left open here: it    *)
(* ends with any result.  RunCancellation.tla fills it in.                  *)
(*                                                                         *)
(* Time is a choice: the wait budget of a caller (line 155) may run out at  *)
(* any moment, and a popped job may be found late (line 323).               *)
(*                                                                         *)
(* An operator marked "Fault" is a wrong version of the definition after   *)
(* it; no behaviour uses it.  It shows which property notices that error.   *)
(***************************************************************************)
EXTENDS Naturals, Sequences, FiniteSets

CONSTANTS
    Jobs,              \* the Execute calls, each made at most once
    RunIds,            \* run identifiers carried by the requests
    RunOf,             \* RunOf[j]: the runId of the request of job j
    Aborters,          \* threads that call Abort, over and over
    QueueCapacity,     \* m_cfg.queueCapacity
    AsyncSettings,     \* the values m_cfg.asyncQueueEnabled may be started with
    BodyResults,       \* what job->execute() may return
    NoJob, NoRun       \* a null shared_ptr<ChatRuntimeJob>, an empty run id

ASSUME ConstantsAssumption ==
    /\ RunOf \in [Jobs -> RunIds]
    /\ QueueCapacity \in Nat
    /\ AsyncSettings \subseteq BOOLEAN
    /\ BodyResults \subseteq {"ok", "failed", "cancelled"}
    /\ NoJob \notin Jobs
    /\ NoRun \notin RunIds

VARIABLES
    asyncQueueEnabled, \* m_cfg.asyncQueueEnabled, fixed by Initialize
    queue,        \* m_queue
    jobsByRunId,  \* m_jobsByRunId, NoJob where there is no entry
    runsById,     \* m_runsById: the status of the entry, "none" without one
    available,    \* m_workerAvailable
    stopRequested,\* m_workerStopRequested
    activeRunId,  \* m_activeRunId
    pc,           \* where each caller is
    completed,    \* job->completed
    result,       \* job->result
    outcome,      \* what Execute returned to its caller
    executors,    \* history: who has called job->execute()
    wpc, wjob, wresult,      \* the worker thread: place, `job`, `result`
    apc, arun, ajob,         \* each aborter: place, run, `queuedJob` it removed
    mpc, abandoned, stopRun  \* StopWorker: place and its two local copies

runtimeVars ==
    <<asyncQueueEnabled, queue, jobsByRunId, runsById, available, stopRequested, activeRunId>>
jobVars     == <<pc, completed, result, outcome, executors>>
workerVars  == <<wpc, wjob, wresult>>
abortVars   == <<apc, arun, ajob>>
stopVars    == <<mpc, abandoned, stopRun>>
vars == <<runtimeVars, jobVars, workerVars, abortVars, stopVars>>

Results     == {"ok", "failed", "cancelled", "timedOut", "unavailable", "queueFull"}
NoResult    == "none"
Status      == {"Queued", "Started", "Cancelled", "Failed"}
Untracked   == "none"
Threads     == {"worker", "caller"}

CallerPlaces  == {"idle", "waiting", "executing", "mark", "cancel", "erase", "cleanup",
                  "done"}
WorkerPlaces  == {"off", "idle", "popped", "executing", "check", "finish", "notify",
                  "complete", "exited"}
AbortPlaces   == {"idle", "complete", "notify", "cancel"}
StopPlaces    == {"up", "cancel", "complete", "join", "down"}
-----------------------------------------------------------------------------
(***************************************************************************)
(* Helpers.                                                                *)
(***************************************************************************)
Contents(q) == {q[i] : i \in 1..Len(q)}
InQueue(j)  == j \in Contents(queue)

\* std::erase_if on the deque, and find + erase: the queue without the jobs in D.
Erase(q, D) ==
    LET kept[i \in 0..Len(q)] ==
            IF i = 0 THEN << >>
            ELSE IF q[i] \in D THEN kept[i - 1] ELSE Append(kept[i - 1], q[i])
    IN  kept[Len(q)]

JobsOf(r) == {j \in Jobs : RunOf[j] = r}

\* Fault: the job index keeps its entry.
ForgetStatusOnly(r) ==
    /\ runsById' = [runsById EXCEPT ![r] = Untracked]
    /\ UNCHANGED jobsByRunId

ForgetEntries(r) ==
    /\ runsById' = [runsById EXCEPT ![r] = Untracked]
    /\ jobsByRunId' = [jobsByRunId EXCEPT ![r] = NoJob]

\* Fault: the job stays in the queue.
ForgetEntriesOnly(r) == ForgetEntries(r) /\ UNCHANGED queue

\* The three erasures a timed-out caller makes under the queue lock.
ForgetRun(r) == ForgetEntries(r) /\ queue' = Erase(queue, JobsOf(r))

\* A caller whose wait timed out keeps job->completionMutex until Execute returns.
HoldsCompletion(j) == pc[j] \in {"executing", "mark", "cancel", "erase", "cleanup"}

\* job->result and job->completed are set under job->completionMutex.
Complete(j, r) ==
    /\ ~HoldsCompletion(j)
    /\ result' = [result EXCEPT ![j] = r]
    /\ completed' = [completed EXCEPT ![j] = TRUE]

Go(j, place)     == pc' = [pc EXCEPT ![j] = place]
Returns(j, r)    == Go(j, "done") /\ outcome' = [outcome EXCEPT ![j] = r]
Executes(j, thread) == executors' = [executors EXCEPT ![j] = @ \cup {thread}]
-----------------------------------------------------------------------------
Init ==
    /\ asyncQueueEnabled \in AsyncSettings
    /\ queue = << >>
    /\ jobsByRunId = [r \in RunIds |-> NoJob]
    /\ runsById = [r \in RunIds |-> Untracked]
    /\ available = FALSE
    /\ stopRequested = FALSE
    /\ activeRunId = NoRun
    /\ pc = [j \in Jobs |-> "idle"]
    /\ completed = [j \in Jobs |-> FALSE]
    /\ result = [j \in Jobs |-> NoResult]
    /\ outcome = [j \in Jobs |-> NoResult]
    /\ executors = [j \in Jobs |-> {}]
    /\ wpc = "off" /\ wjob = NoJob /\ wresult = NoResult
    /\ apc = [a \in Aborters |-> "idle"]
    /\ arun = [a \in Aborters |-> NoRun]
    /\ ajob = [a \in Aborters |-> NoJob]
    /\ mpc = "down" /\ abandoned = << >> /\ stopRun = NoRun
-----------------------------------------------------------------------------
(***************************************************************************)
(* Execute: the caller of job j.                                           *)
(***************************************************************************)

\* The synchronous path: no queue, the caller runs the body itself.
ExecuteInline(j) ==
    /\ pc[j] = "idle" /\ ~asyncQueueEnabled
    /\ Go(j, "executing")
    /\ Executes(j, "caller")
    /\ UNCHANGED <<runtimeVars, completed, result, outcome, workerVars, abortVars, stopVars>>

\* Fault: the stop request is looked at, and it is reset when StopWorker returns.
NotStopping == ~stopRequested

Accepting == available

\* Fault: one job too many.
HasRoomOffByOne == Len(queue) <= QueueCapacity

HasRoom == Len(queue) < QueueCapacity

\* Fault: the newest job is served first.
PushFront(j) == queue' = <<j>> \o queue

PushBack(j) == queue' = Append(queue, j)

RejectUnavailable(j) ==
    /\ pc[j] = "idle" /\ asyncQueueEnabled
    /\ ~Accepting
    /\ Returns(j, "unavailable")
    /\ UNCHANGED <<runtimeVars, completed, result, executors, workerVars, abortVars, stopVars>>

RejectFull(j) ==
    /\ pc[j] = "idle" /\ asyncQueueEnabled
    /\ Accepting
    /\ ~HasRoom
    /\ Returns(j, "queueFull")
    /\ UNCHANGED <<runtimeVars, completed, result, executors, workerVars, abortVars, stopVars>>

Enqueue(j) ==
    /\ pc[j] = "idle" /\ asyncQueueEnabled
    /\ Accepting
    /\ HasRoom
    /\ PushBack(j)
    /\ jobsByRunId' = [jobsByRunId EXCEPT ![RunOf[j]] = j]
    /\ runsById' = [runsById EXCEPT ![RunOf[j]] = "Queued"]
    /\ Go(j, "waiting")
    /\ UNCHANGED <<asyncQueueEnabled, available, stopRequested, activeRunId, completed, result,
                   outcome, executors, workerVars, abortVars, stopVars>>

\* Fault: a wait without its predicate, woken by another job's notify or by nobody.
AnyWakeup(j) == pc[j] = "waiting"

WaitEnded(j) == pc[j] = "waiting" /\ completed[j]

\* Execute returns job->result.
ReturnResult(j) ==
    /\ WaitEnded(j)
    /\ Returns(j, result[j])
    /\ UNCHANGED <<runtimeVars, completed, result, executors, workerVars, abortVars, stopVars>>

WaitTimedOut(j) == pc[j] = "waiting" /\ ~completed[j]

\* Fault: any entry will do.
HasEntry(j) == runsById[RunOf[j]] # Untracked

StillQueued(j) == runsById[RunOf[j]] = "Queued"

\* The caller takes the job out of the queue and runs it on its own thread.
Promote(j) ==
    /\ WaitTimedOut(j)
    /\ StillQueued(j)
    /\ ForgetRun(RunOf[j])
    /\ Go(j, "executing")
    /\ Executes(j, "caller")
    /\ UNCHANGED <<asyncQueueEnabled, available, stopRequested, activeRunId, completed, result,
                   outcome, workerVars, abortVars, stopVars>>

\* job->execute() returns on the caller's thread.
CallerEnd(j, r) ==
    /\ pc[j] = "executing"
    /\ Returns(j, r)
    /\ UNCHANGED <<runtimeVars, completed, result, executors, workerVars, abortVars, stopVars>>

\* Fault: a run without an entry is taken for answered, and waited for again.
GiveUpStarted(j) ==
    /\ WaitTimedOut(j)
    /\ HasEntry(j) /\ ~StillQueued(j)
    /\ Go(j, "mark")
    /\ UNCHANGED <<runtimeVars, completed, result, outcome, executors, workerVars, abortVars,
                   stopVars>>

\* The run is not queued any more: the caller will answer chat_runtime_timed_out.
GiveUp(j) ==
    /\ WaitTimedOut(j)
    /\ ~StillQueued(j)
    /\ Go(j, "mark")
    /\ UNCHANGED <<runtimeVars, completed, result, outcome, executors, workerVars, abortVars,
                   stopVars>>

\* onQueueTimeout.
TimeoutMark(j) ==
    /\ pc[j] = "mark"
    /\ Go(j, "cancel")
    /\ UNCHANGED <<runtimeVars, completed, result, outcome, executors, workerVars, abortVars,
                   stopVars>>

\* cancelActiveRuntime.
TimeoutCancel(j) ==
    /\ pc[j] = "cancel"
    /\ Go(j, "erase")
    /\ UNCHANGED <<runtimeVars, completed, result, outcome, executors, workerVars, abortVars,
                   stopVars>>

TimeoutErase(j) ==
    /\ pc[j] = "erase"
    /\ ForgetRun(RunOf[j])
    /\ Go(j, "cleanup")
    /\ UNCHANGED <<asyncQueueEnabled, available, stopRequested, activeRunId, completed, result,
                   outcome, executors, workerVars, abortVars, stopVars>>

\* onQueueTimeoutCleanup, then Execute returns chat_runtime_timed_out.
TimeoutCleanup(j) ==
    /\ pc[j] = "cleanup"
    /\ Returns(j, "timedOut")
    /\ UNCHANGED <<runtimeVars, completed, result, executors, workerVars, abortVars, stopVars>>
-----------------------------------------------------------------------------
(***************************************************************************)
(* WorkerLoop.                                                             *)
(***************************************************************************)

\* Fault: a popped run still counts as queued.
SameStatus(r) == runsById[r]

StatusOnPop(r) == IF runsById[r] = Untracked THEN Untracked ELSE "Started"

\* Pop the front job; decide, still under the lock, whether it was cancelled or
\* is late.  `late` stands for the comparison with queueWaitTimeoutMs.
WorkerPop(late) ==
    /\ wpc = "idle" /\ queue # << >>
    /\ LET j == Head(queue)
           status == runsById[RunOf[j]]
           tracked == status # Untracked
           verdict == IF status = "Cancelled" THEN "cancelled"
                      ELSE IF tracked /\ late THEN "timedOut" ELSE NoResult
       IN  /\ queue' = Tail(queue)
           /\ runsById' = [runsById EXCEPT ![RunOf[j]] = StatusOnPop(RunOf[j])]
           /\ wjob' = j
           /\ wresult' = verdict
           /\ wpc' = IF verdict = NoResult THEN "popped" ELSE "finish"
    /\ UNCHANGED <<asyncQueueEnabled, jobsByRunId, available, stopRequested, activeRunId,
                   jobVars, abortVars, stopVars>>

\* m_activeRunId is set in a critical section of its own, then execute() begins.
WorkerBegin ==
    /\ wpc = "popped"
    /\ activeRunId' = RunOf[wjob]
    /\ Executes(wjob, "worker")
    /\ wpc' = "executing"
    /\ UNCHANGED <<asyncQueueEnabled, queue, jobsByRunId, runsById, available, stopRequested,
                   pc, completed, result, outcome, wjob, wresult, abortVars, stopVars>>

\* execute() returned r; the result is replaced when it took longer than
\* executionTimeoutMs (`overran`).
WorkerEnd(r, overran) ==
    /\ wpc = "executing"
    /\ wresult' = IF overran THEN "timedOut" ELSE r
    /\ wpc' = "check"
    /\ UNCHANGED <<runtimeVars, jobVars, wjob, abortVars, stopVars>>

\* isRunCancelled (`cancelled`) overrides the result; ~ClearActiveRunId follows.
WorkerCheckCancelled(cancelled) ==
    /\ wpc = "check"
    /\ wresult' = IF cancelled THEN "cancelled" ELSE wresult
    /\ activeRunId' = NoRun
    /\ wpc' = "finish"
    /\ UNCHANGED <<asyncQueueEnabled, queue, jobsByRunId, runsById, available, stopRequested,
                   jobVars, wjob, abortVars, stopVars>>

\* The terminal status is written to an entry that is erased at once.
WorkerFinish ==
    /\ wpc = "finish"
    /\ ForgetEntries(RunOf[wjob])
    /\ wpc' = "notify"
    /\ UNCHANGED <<asyncQueueEnabled, queue, available, stopRequested, activeRunId, jobVars,
                   wjob, wresult, abortVars, stopVars>>

\* onWorkerCompleted.
WorkerNotify ==
    /\ wpc = "notify"
    /\ wpc' = "complete"
    /\ UNCHANGED <<runtimeVars, jobVars, wjob, wresult, abortVars, stopVars>>

WorkerComplete ==
    /\ wpc = "complete"
    /\ Complete(wjob, wresult)
    /\ wpc' = "idle" /\ wjob' = NoJob /\ wresult' = NoResult
    /\ UNCHANGED <<runtimeVars, pc, outcome, executors, abortVars, stopVars>>

WorkerExit ==
    /\ wpc = "idle" /\ stopRequested /\ queue = << >>
    /\ wpc' = "exited"
    /\ UNCHANGED <<runtimeVars, jobVars, wjob, wresult, abortVars, stopVars>>
-----------------------------------------------------------------------------
(***************************************************************************)
(* Abort.                                                                  *)
(***************************************************************************)

\* Fault: the job stays in the queue.
LeaveQueued(j) == UNCHANGED queue

Unqueue(j) == queue' = Erase(queue, {j})

\* Fault: the caller of the removed job is forgotten.
AlwaysNotify(removed) == "notify"

AfterAbort(removed) == IF removed THEN "complete" ELSE "notify"

\* The critical section: mark the run cancelled, and take its job out of the
\* queue when it is still there.
AbortBegin(a, r) ==
    /\ apc[a] = "idle"
    /\ LET j == jobsByRunId[r]
           removed == j # NoJob /\ InQueue(j)
       IN  /\ IF removed THEN Unqueue(j) ELSE UNCHANGED queue
           /\ jobsByRunId' = [jobsByRunId EXCEPT ![r] = IF removed THEN NoJob ELSE @]
           /\ runsById' = [runsById EXCEPT ![r] =
                  IF removed \/ @ = Untracked THEN Untracked ELSE "Cancelled"]
           /\ ajob' = [ajob EXCEPT ![a] = IF removed THEN j ELSE NoJob]
           /\ apc' = [apc EXCEPT ![a] = AfterAbort(removed)]
           /\ arun' = [arun EXCEPT ![a] = r]
    /\ UNCHANGED <<asyncQueueEnabled, available, stopRequested, activeRunId, jobVars,
                   workerVars, stopVars>>

\* The caller of a removed job gets chat_runtime_cancelled.
AbortComplete(a) ==
    /\ apc[a] = "complete"
    /\ Complete(ajob[a], "cancelled")
    /\ apc' = [apc EXCEPT ![a] = "notify"]
    /\ UNCHANGED <<runtimeVars, pc, outcome, executors, workerVars, arun, ajob, stopVars>>

\* onAbort.
AbortNotify(a) ==
    /\ apc[a] = "notify"
    /\ apc' = [apc EXCEPT ![a] = "cancel"]
    /\ UNCHANGED <<runtimeVars, jobVars, workerVars, arun, ajob, stopVars>>

\* cancelActiveRuntime; Abort returns.
AbortCancel(a) ==
    /\ apc[a] = "cancel"
    /\ apc' = [apc EXCEPT ![a] = "idle"]
    /\ arun' = [arun EXCEPT ![a] = NoRun]
    /\ ajob' = [ajob EXCEPT ![a] = NoJob]
    /\ UNCHANGED <<runtimeVars, jobVars, workerVars, stopVars>>
-----------------------------------------------------------------------------
(***************************************************************************)
(* StartWorker and StopWorker, called by one thread.  A failed thread       *)
(* creation leaves the runtime as it is while "down".                       *)
(***************************************************************************)
StartWorker ==
    /\ mpc = "down" /\ asyncQueueEnabled
    /\ stopRequested' = FALSE
    /\ available' = TRUE
    /\ wpc' = "idle"
    /\ mpc' = "up"
    /\ UNCHANGED <<asyncQueueEnabled, queue, jobsByRunId, runsById, activeRunId, jobVars, wjob,
                   wresult, abortVars, abandoned, stopRun>>

\* Fault: the worker is not told.
OnlyUnavailable == available' = FALSE /\ UNCHANGED stopRequested

RequestStop == available' = FALSE /\ stopRequested' = TRUE

\* Fault: the queue is dropped together with its callers.
AbandonNothing == UNCHANGED abandoned

AbandonQueue == abandoned' = queue

\* The first critical section: no new jobs, and the queued ones are taken over.
StopBegin ==
    /\ mpc = "up"
    /\ RequestStop
    /\ stopRun' = activeRunId
    /\ AbandonQueue
    /\ queue' = << >>
    /\ jobsByRunId' = [r \in RunIds |-> NoJob]
    /\ runsById' = [r \in RunIds |->
           IF runsById[r] # Untracked /\ \E j \in Contents(queue) : RunOf[j] = r
           THEN "Failed" ELSE runsById[r]]
    /\ mpc' = "cancel"
    /\ UNCHANGED <<asyncQueueEnabled, activeRunId, jobVars, workerVars, abortVars>>

\* cancelActiveRuntime for the run that was active, then notify_all.
StopCancelActive ==
    /\ mpc = "cancel"
    /\ stopRun' = NoRun
    /\ mpc' = "complete"
    /\ UNCHANGED <<runtimeVars, jobVars, workerVars, abortVars, abandoned>>

\* The abandoned jobs are completed one after the other.
StopComplete ==
    /\ mpc = "complete" /\ abandoned # << >>
    /\ Complete(Head(abandoned), "unavailable")
    /\ abandoned' = Tail(abandoned)
    /\ UNCHANGED <<runtimeVars, pc, outcome, executors, workerVars, abortVars, mpc, stopRun>>

StopJoin ==
    /\ mpc = "complete" /\ abandoned = << >>
    /\ wpc = "exited"
    /\ wpc' = "off"
    /\ mpc' = "join"
    /\ UNCHANGED <<runtimeVars, jobVars, wjob, wresult, abortVars, abandoned, stopRun>>

\* The last critical section: everything is cleared.
StopEnd ==
    /\ mpc = "join"
    /\ queue' = << >>
    /\ jobsByRunId' = [r \in RunIds |-> NoJob]
    /\ runsById' = [r \in RunIds |-> Untracked]
    /\ stopRequested' = FALSE
    /\ mpc' = "down"
    /\ UNCHANGED <<asyncQueueEnabled, available, activeRunId, jobVars, workerVars, abortVars,
                   abandoned, stopRun>>
-----------------------------------------------------------------------------
Caller(j) ==
    \/ ExecuteInline(j) \/ RejectUnavailable(j) \/ RejectFull(j) \/ Enqueue(j)
    \/ ReturnResult(j)
    \/ Promote(j) \/ \E r \in BodyResults : CallerEnd(j, r)
    \/ GiveUp(j) \/ TimeoutMark(j) \/ TimeoutCancel(j) \/ TimeoutErase(j) \/ TimeoutCleanup(j)

Worker ==
    \/ \E late \in BOOLEAN : WorkerPop(late)
    \/ WorkerBegin
    \/ \E r \in BodyResults, overran \in BOOLEAN : WorkerEnd(r, overran)
    \/ \E cancelled \in BOOLEAN : WorkerCheckCancelled(cancelled)
    \/ WorkerFinish \/ WorkerNotify \/ WorkerComplete \/ WorkerExit

Aborter(a) ==
    \/ \E r \in RunIds : AbortBegin(a, r)
    \/ AbortComplete(a) \/ AbortNotify(a) \/ AbortCancel(a)

Manager ==
    StartWorker \/ StopBegin \/ StopCancelActive \/ StopComplete \/ StopJoin \/ StopEnd

Next ==
    \/ \E j \in Jobs : Caller(j)
    \/ Worker
    \/ \E a \in Aborters : Aborter(a)
    \/ Manager

Spec == Init /\ [][Next]_vars
-----------------------------------------------------------------------------
(***************************************************************************)
(* Fairness.  Every thread keeps taking its steps (no mutex is held for     *)
(* ever); nobody has to call Execute, Abort, StartWorker or StopWorker.     *)
(* Bodies: job->execute() returns.  Timeouts: a wait budget runs out.       *)
(***************************************************************************)
CallerProgress(j) ==
    ReturnResult(j) \/ TimeoutMark(j) \/ TimeoutCancel(j) \/ TimeoutErase(j) \/ TimeoutCleanup(j)
CallerEnds(j) == \E r \in BodyResults : CallerEnd(j, r)
WorkerEnds == \E r \in BodyResults, overran \in BOOLEAN : WorkerEnd(r, overran)
WorkerProgress ==
    \/ \E late \in BOOLEAN : WorkerPop(late)
    \/ \E cancelled \in BOOLEAN : WorkerCheckCancelled(cancelled)
    \/ WorkerBegin \/ WorkerFinish \/ WorkerNotify \/ WorkerComplete \/ WorkerExit
StopProgress == StopCancelActive \/ StopComplete \/ StopJoin \/ StopEnd

ThreadFairness ==
    /\ \A j \in Jobs : WF_vars(CallerProgress(j))
    /\ WF_vars(WorkerProgress)
    /\ \A a \in Aborters : WF_vars(AbortComplete(a) \/ AbortNotify(a) \/ AbortCancel(a))
    /\ WF_vars(StopProgress)
BodyFairness == WF_vars(WorkerEnds) /\ \A j \in Jobs : WF_vars(CallerEnds(j))
TimeoutFairness == \A j \in Jobs : WF_vars(Promote(j) \/ GiveUp(j))

\* Bodies end, and no caller need ever time out.
FairSpec == Spec /\ ThreadFairness /\ BodyFairness

\* Waits run out; a body on the worker thread may hang for ever.
HangingSpec ==
    Spec /\ ThreadFairness /\ TimeoutFairness /\ \A j \in Jobs : WF_vars(CallerEnds(j))
-----------------------------------------------------------------------------
(***************************************************************************)
(* Properties.                                                             *)
(***************************************************************************)
\* Every variable has its type; the queue never holds more than queueCapacity jobs
\* (CChatRuntime.cpp:117).
TypeOK ==
    /\ asyncQueueEnabled \in AsyncSettings
    /\ queue \in Seq(Jobs) /\ Len(queue) <= QueueCapacity
    /\ jobsByRunId \in [RunIds -> Jobs \cup {NoJob}]
    /\ runsById \in [RunIds -> Status \cup {Untracked}]
    /\ available \in BOOLEAN
    /\ stopRequested \in BOOLEAN
    /\ activeRunId \in RunIds \cup {NoRun}
    /\ pc \in [Jobs -> CallerPlaces]
    /\ completed \in [Jobs -> BOOLEAN]
    /\ result \in [Jobs -> Results \cup {NoResult}]
    /\ outcome \in [Jobs -> Results \cup {NoResult}]
    /\ executors \in [Jobs -> SUBSET Threads]
    /\ wpc \in WorkerPlaces
    /\ wjob \in Jobs \cup {NoJob}
    /\ wresult \in Results \cup {NoResult}
    /\ apc \in [Aborters -> AbortPlaces]
    /\ arun \in [Aborters -> RunIds \cup {NoRun}]
    /\ ajob \in [Aborters -> Jobs \cup {NoJob}]
    /\ mpc \in StopPlaces
    /\ abandoned \in Seq(Jobs)
    /\ stopRun \in RunIds \cup {NoRun}

\* The refinement mapping to ChatJobs: a caller that waits, runs the body or is on
\* its timeout path is pending.
AbstractCall ==
    [j \in Jobs |-> IF pc[j] = "idle" THEN "new" ELSE IF pc[j] = "done" THEN "answered"
                   ELSE "pending"]

Promise == INSTANCE ChatJobs WITH call <- AbstractCall, answer <- outcome, ranOn <- executors

\* CChatRuntime implements what Execute promises its callers (ChatJobs.tla).
PromiseKept == Promise!Spec

\* Who is bound to complete job j: the queue (that is, the worker, Abort or
\* StopWorker later), the worker, an aborter, or StopWorker.
WorkerHas(j)     == wjob = j
AborterHas(a, j) == apc[a] = "complete" /\ ajob[a] = j
StopHas(j)       == j \in Contents(abandoned)
Owned(j) == InQueue(j) \/ WorkerHas(j) \/ StopHas(j) \/ \E a \in Aborters : AborterHas(a, j)

\* A caller waits only for a job somebody still has to complete, or has: no
\* erasure from the queue, by Abort, by StopWorker, by the worker or by another
\* caller that times out, strands a waiter (CChatRuntime.cpp:50-81, 164-181,
\* 209-219, 255-280, 315-316).
NoStrandedCaller ==
    \A j \in Jobs : pc[j] = "waiting" /\ ~completed[j] => Owned(j)

\* At most one of them has it, so job->result is written by one thread only, and
\* a job that a caller promoted to its own thread is in nobody else's hands.
SoleOwner ==
    \A j \in Jobs :
        /\ Owned(j) => ~completed[j] /\ pc[j] # "executing"
        /\ InQueue(j) => ~WorkerHas(j) /\ ~StopHas(j)
        /\ WorkerHas(j) => ~StopHas(j)
        /\ \A a, b \in Aborters :
               AborterHas(a, j) =>
                   /\ ~InQueue(j) /\ ~WorkerHas(j) /\ ~StopHas(j)
                   /\ AborterHas(b, j) => a = b

\* The model runs at most once for each Execute call, whatever the order of the
\* worker's pop, the caller's timeout, the aborts and the stop.
AtMostOnce == \A j \in Jobs : executors[j] # Threads

\* m_runsById says Queued exactly for the runs in m_queue: the promotion of a
\* timed-out job (line 168) rests on it.
QueuedStatusMatchesQueue ==
    \A r \in RunIds :
        runsById[r] = "Queued" <=> \E j \in Contents(queue) : RunOf[j] = r

\* No entry of m_runsById or m_jobsByRunId outlives its run: it belongs to a job
\* in the queue or on the worker, or the runtime is stopping and about to clear it.
NoStaleEntry ==
    \A r \in RunIds :
        runsById[r] # Untracked \/ jobsByRunId[r] # NoJob =>
            \/ \E j \in Contents(queue) : RunOf[j] = r
            \/ wjob # NoJob /\ RunOf[wjob] = r
            \/ mpc \notin {"up", "down"}

\* What makes the above inductive.  The places of the threads agree with what they
\* hold; the two maps agree with the queue; nothing is owned twice, nor before it is
\* called; and whoever may still start a job finds it unstarted.
Distinct(q) == \A k, l \in 1..Len(q) : q[k] = q[l] => k = l

WorkerPlace ==
    /\ wjob = NoJob <=> wpc \in {"off", "idle", "exited"}
    /\ mpc \in {"join", "down"} <=> wpc = "off"

PlacesAgree ==
    /\ WorkerPlace
    /\ \A a \in Aborters : apc[a] = "complete" => ajob[a] \in Jobs
    /\ available => mpc = "up"
    /\ mpc # "up" => queue = << >>
    /\ mpc \notin {"cancel", "complete"} => abandoned = << >>

EntriesAgree ==
    /\ \A r \in RunIds : jobsByRunId[r] # NoJob => RunOf[jobsByRunId[r]] = r
    /\ \A j \in Jobs : InQueue(j) => jobsByRunId[RunOf[j]] = j
    /\ QueuedStatusMatchesQueue

OwnedOnce ==
    /\ Distinct(queue) /\ Distinct(abandoned)
    /\ SoleOwner
    /\ \A j \in Jobs : Owned(j) \/ completed[j] => pc[j] # "idle"

MayStart(j) ==
    \/ InQueue(j) \/ StopHas(j) \/ \E a \in Aborters : AborterHas(a, j)
    \/ WorkerHas(j) /\ wpc = "popped"

RunsOnce ==
    /\ \A j \in Jobs : pc[j] = "idle" \/ MayStart(j) => executors[j] = {}
    /\ \A j \in Jobs : WorkerHas(j) => "caller" \notin executors[j]
    /\ AtMostOnce

\* The inductive invariant: Execute, WorkerLoop, Abort and StopWorker hand each job
\* over to exactly one of them (CChatRuntime.cpp:41-436).
Ownership == PlacesAgree /\ EntriesAgree /\ OwnedOnce /\ RunsOnce /\ NoStrandedCaller

\* When StopWorker has returned, every caller has its answer, unless an Abort that
\* took the job first is about to give it.
StoppedMeansAnswered ==
    mpc = "down" =>
        \A j \in Jobs : pc[j] = "waiting" =>
            completed[j] \/ \E a \in Aborters : AborterHas(a, j)

\* Once a job is completed its result stands and nobody starts running it: an
\* aborted or abandoned job never reaches the model.
CompletedIsFinal ==
    [][\A j \in Jobs : completed[j] => UNCHANGED <<completed[j], result[j], executors[j]>>]_vars

\* The worker serves the jobs in the order in which they were queued: what is in
\* the queue after a step was there before, in the same order, or is appended.
QueueOrderKept ==
    [][\A k, l \in 1..Len(queue') :
          k < l => \/ l = Len(queue') /\ ~InQueue(queue'[l])
                   \/ \E m, n \in 1..Len(queue) :
                          m < n /\ queue[m] = queue'[k] /\ queue[n] = queue'[l]]_vars

\* Every Execute call returns.
EveryExecuteReturns == \A j \in Jobs : pc[j] # "idle" ~> pc[j] = "done"

\* StopWorker returns, although it joins a worker that may be running a model and
\* takes completion mutexes that callers may hold.
StopReturns == mpc \notin {"up", "down"} ~> mpc = "down"
=============================================================================
