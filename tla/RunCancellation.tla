--------------------------- MODULE RunCancellation ---------------------------
(***************************************************************************)
(* How an abort or a timeout reaches a run that is already executing.       *)
(*                                                                         *)
(* ChatRuntime is composed with the body that job->execute() runs           *)
(* (ChatRuntimeOrchestrationCoordinator::ExecuteChatRuntimeRequestBody, then *)
(* ChatProviderRuntimeService::ExecuteProviderPath) and with the callbacks  *)
(* of CChatRuntime::Dependencies, which share three per-run marks: the      *)
(* embedded and the DeepSeek cancellation marks of ServiceManager and the   *)
(* cancel flag of the local model runtime.  Each step here is a step of     *)
(* ChatRuntime with its effect on the marks, or a step of a body.           *)
(*                                                                         *)
(* The codes chat_runtime_cancelled, embedded_run_cancelled and the local   *)
(* model's cancelled code are all "cancelled": no answer is shown for them. *)
(***************************************************************************)
EXTENDS ChatRuntime

CONSTANTS ProviderOf   \* the provider of each run: "deepseek", "local" or "routed"

Providers == {"deepseek", "local", "routed"}

ASSUME CancellationAssumption ==
    /\ ProviderOf \in [RunIds -> Providers]
    /\ {"ok", "cancelled"} \subseteq BodyResults
    /\ \A j, k \in Jobs : RunOf[j] = RunOf[k] => j = k

VARIABLES
    embedded,    \* m_embeddedCancelledRuns
    deepSeek,    \* m_deepSeekCancelledRuns
    local,       \* m_cancelFlagsByRunId of the local model: absent, running, cancelled
    phase,       \* where the body of each job is
    bodyResult,  \* what it returned, or will return
    tracked,     \* each aborter: runProvider was found in m_runsById
    cancelAsked, \* history: the runs Abort was called for, or StopWorker cancelled
    owed         \* history: jobs an Abort hit on the worker, past the embedded phase

cancelVars == <<embedded, deepSeek, local, phase, bodyResult, tracked, cancelAsked, owed>>
allVars == <<vars, cancelVars>>

Phases == {"off", "check", "embedded", "leaving", "provider", "remote", "generating",
           "retrying", "over"}
LocalFlags == {"absent", "running", "cancelled"}

\* What a body answers when it is not cancelled.
Answers == BodyResults \ {"cancelled"}

DeepSeekRun(r) == ProviderOf[r] = "deepseek"

\* MarkEmbeddedRunCancelled, MarkDeepSeekRunCancelled and their Clear twins, as the
\* callbacks of ServiceLifecycleStartupCoordinator.cpp:389-443 combine them.
\* Fault: only one of the two clears.
ClearEmbeddedOnly(r) == embedded' = embedded \ {r} /\ UNCHANGED deepSeek

ClearMarks(r) ==
    /\ embedded' = embedded \ {r}
    /\ deepSeek' = IF DeepSeekRun(r) THEN deepSeek \ {r} ELSE deepSeek

\* Fault: the embedded mark is not asked for.
IsDeepSeekCancelled(r) == DeepSeekRun(r) /\ r \in deepSeek

\* Fault: the mark of any run will do.
IsAnyRunCancelled(r) == embedded # {} \/ deepSeek # {}

IsRunCancelled(r) == r \in embedded \/ (DeepSeekRun(r) /\ r \in deepSeek)

\* cancelActiveRuntime: LlamaTextGenerationRuntime::Cancel finds only a run that
\* is generating.
CancelActive(r) ==
    local' = IF r \in RunIds /\ local[r] = "running"
             THEN [local EXCEPT ![r] = "cancelled"] ELSE local
-----------------------------------------------------------------------------
(***************************************************************************)
(* The body of job j.                                                      *)
(***************************************************************************)
BodyAt(j, from, to, r) ==
    /\ phase[j] = from
    /\ phase' = [phase EXCEPT ![j] = to]
    /\ bodyResult' = [bodyResult EXCEPT ![j] = r]
    /\ UNCHANGED <<vars, tracked, cancelAsked, owed>>

\* Fault: the mark of any run will do.
AnyMarked(r) == embedded \cup deepSeek # {}

Marked(r) == r \in embedded \cup deepSeek

\* Both marks are looked at once; then an inline tool may answer at once.
CheckMarks(j) ==
    /\ IF Marked(RunOf[j])
       THEN BodyAt(j, "check", "over", "cancelled")
       ELSE \/ BodyAt(j, "check", "embedded", NoResult)
            \/ \E r \in Answers : BodyAt(j, "check", "over", r)
    /\ UNCHANGED <<embedded, deepSeek, local>>

\* PiEmbeddedService::ExecuteRun: it polls the embedded mark between tool calls,
\* and may not handle the message at all (NoResult).
RunEmbedded(j) ==
    /\ \/ \E r \in Answers \cup {NoResult} : BodyAt(j, "embedded", "leaving", r)
       \/ RunOf[j] \in embedded /\ BodyAt(j, "embedded", "leaving", "cancelled")
    /\ UNCHANGED <<embedded, deepSeek, local>>

\* ClearEmbeddedRunCancelled after it, whoever set the mark.
LeaveEmbedded(j) ==
    /\ IF bodyResult[j] = NoResult
       THEN BodyAt(j, "leaving", "provider", NoResult)
       ELSE BodyAt(j, "leaving", "over", bodyResult[j])
    /\ embedded' = embedded \ {RunOf[j]}
    /\ UNCHANGED <<deepSeek, local>>

EnterDeepSeek(j) ==
    /\ DeepSeekRun(RunOf[j])
    /\ \/ BodyAt(j, "provider", "remote", NoResult)
       \/ "failed" \in BodyResults /\ BodyAt(j, "provider", "over", "failed")  \* no API key
    /\ deepSeek' = deepSeek \ {RunOf[j]}
    /\ UNCHANGED <<embedded, local>>

EnterLocal(j) ==
    /\ ProviderOf[RunOf[j]] = "local"
    /\ BodyAt(j, "provider", "generating", NoResult)
    /\ local' = [local EXCEPT ![RunOf[j]] = "running"]
    /\ UNCHANGED <<embedded, deepSeek>>

RunRouted(j) ==
    /\ ProviderOf[RunOf[j]] = "routed"
    /\ \E r \in Answers : BodyAt(j, "provider", "over", r)
    /\ UNCHANGED <<embedded, deepSeek, local>>

\* The remote chat polls the DeepSeek mark while it reads, not after its last read.
RemoteEnds(j) ==
    /\ \/ \E r \in Answers : BodyAt(j, "remote", "over", r)
       \/ RunOf[j] \in deepSeek /\ BodyAt(j, "remote", "over", "cancelled")
    /\ UNCHANGED <<embedded, deepSeek, local>>

\* Fault: the early return of a cancelled run skips the erasure.
DropUncancelledFlag(r) ==
    local' = IF local[r] = "cancelled" THEN local ELSE [local EXCEPT ![r] = "absent"]

DropFlag(r) == local' = [local EXCEPT ![r] = "absent"]

\* So does the local model with its flag, before each token.  An answer that echoes
\* the question is generated again, for the run id "<run>-retry", which no Abort names.
GenerationEnds(j) ==
    /\ \/ \E r \in Answers : BodyAt(j, "generating", "over", r)
       \/ BodyAt(j, "generating", "retrying", NoResult)
       \/ local[RunOf[j]] = "cancelled" /\ BodyAt(j, "generating", "over", "cancelled")
    /\ DropFlag(RunOf[j])
    /\ UNCHANGED <<embedded, deepSeek>>

RetryEnds(j) ==
    /\ \E r \in Answers : BodyAt(j, "retrying", "over", r)
    /\ UNCHANGED <<embedded, deepSeek, local>>

Body(j) ==
    \/ CheckMarks(j) \/ RunEmbedded(j) \/ LeaveEmbedded(j)
    \/ EnterDeepSeek(j) \/ EnterLocal(j) \/ RunRouted(j)
    \/ RemoteEnds(j) \/ GenerationEnds(j) \/ RetryEnds(j)
-----------------------------------------------------------------------------
(***************************************************************************)
(* The steps of ChatRuntime that begin or end a body, or read or write a    *)
(* mark.                                                                   *)
(***************************************************************************)
marks == <<embedded, deepSeek, local>>
history == <<tracked, cancelAsked, owed>>

BodyBegins(j) ==
    /\ phase' = [phase EXCEPT ![j] = "check"]
    /\ UNCHANGED <<marks, bodyResult, history>>

BodyReturned(j) ==
    /\ phase[j] = "over"
    /\ phase' = [phase EXCEPT ![j] = "off"]
    /\ bodyResult' = [bodyResult EXCEPT ![j] = NoResult]
    /\ UNCHANGED <<marks, history>>

CallerRunsBody(j) == (ExecuteInline(j) \/ Promote(j)) /\ BodyBegins(j)

CallerReturnsBody(j) == CallerEnd(j, bodyResult[j]) /\ BodyReturned(j)

CallerTimeoutMarks(j) ==
    /\ TimeoutMark(j)
    /\ embedded' = embedded \cup {RunOf[j]}
    /\ deepSeek' = IF DeepSeekRun(RunOf[j]) THEN deepSeek \cup {RunOf[j]} ELSE deepSeek
    /\ UNCHANGED <<local, phase, bodyResult, history>>

CallerTimeoutCancels(j) ==
    /\ TimeoutCancel(j)
    /\ CancelActive(RunOf[j])
    /\ UNCHANGED <<embedded, deepSeek, phase, bodyResult, history>>

CallerTimeoutClears(j) ==
    /\ TimeoutCleanup(j)
    /\ ClearMarks(RunOf[j])
    /\ UNCHANGED <<local, phase, bodyResult, history>>

CallerOther(j) ==
    /\ \/ RejectUnavailable(j) \/ RejectFull(j) \/ Enqueue(j) \/ ReturnResult(j) \/ GiveUp(j)
       \/ TimeoutErase(j)
    /\ UNCHANGED cancelVars

WorkerRunsBody == WorkerBegin /\ BodyBegins(wjob)

WorkerReturnsBody ==
    /\ wpc = "executing"
    /\ \E overran \in BOOLEAN : WorkerEnd(bodyResult[wjob], overran)
    /\ BodyReturned(wjob)

WorkerAsksCancelled ==
    /\ wpc = "check"
    /\ WorkerCheckCancelled(IsRunCancelled(RunOf[wjob]))
    /\ UNCHANGED cancelVars

WorkerClears ==
    /\ WorkerNotify
    /\ ClearMarks(RunOf[wjob])
    /\ UNCHANGED <<local, phase, bodyResult, history>>

WorkerOther ==
    /\ (\E late \in BOOLEAN : WorkerPop(late)) \/ WorkerFinish \/ WorkerComplete \/ WorkerExit
    /\ UNCHANGED cancelVars

AbortLooksUp(a, r) ==
    /\ AbortBegin(a, r)
    /\ tracked' = [tracked EXCEPT ![a] = runsById[r] # Untracked]
    /\ cancelAsked' = cancelAsked \cup {r}
    /\ UNCHANGED <<marks, phase, bodyResult, owed>>

\* The job the worker runs, once the body has passed the two places that clear marks.
PastClears(j) ==
    /\ wjob = j
    /\ \/ wpc = "check"
       \/ wpc = "executing" /\ phase[j] \in {"remote", "generating", "retrying", "over"}

\* Fault: the provider of the run is not looked at.
MarkAnyDeepSeek(r, known) == deepSeek \cup {r}

MarkDeepSeek(r, known) == IF known /\ DeepSeekRun(r) THEN deepSeek \cup {r} ELSE deepSeek

\* onAbort marks; when the job was still queued it clears both marks again.
AbortMarks(a) ==
    LET r == arun[a]
        removed == ajob[a] # NoJob
    IN  /\ AbortNotify(a)
        /\ embedded' = IF removed THEN embedded \ {r} ELSE embedded \cup {r}
        /\ deepSeek' = IF removed THEN deepSeek \ {r} ELSE MarkDeepSeek(r, tracked[a])
        /\ owed' = owed \cup {j \in Jobs : RunOf[j] = r /\ PastClears(j)}
        /\ UNCHANGED <<local, phase, bodyResult, tracked, cancelAsked>>

AbortCancels(a) ==
    /\ AbortCancel(a)
    /\ CancelActive(arun[a])
    /\ tracked' = [tracked EXCEPT ![a] = FALSE]
    /\ UNCHANGED <<embedded, deepSeek, phase, bodyResult, cancelAsked, owed>>

AbortOther(a) == AbortComplete(a) /\ UNCHANGED cancelVars

StopCancels ==
    /\ StopCancelActive
    /\ CancelActive(stopRun)
    /\ cancelAsked' = cancelAsked \cup ({stopRun} \cap RunIds)
    /\ UNCHANGED <<embedded, deepSeek, phase, bodyResult, tracked, owed>>

\* StopWorker returns and ExecuteNonGatewayRuntimeCleanup drops all marks.
StopClears ==
    /\ StopEnd
    /\ embedded' = {} /\ deepSeek' = {}
    /\ UNCHANGED <<local, phase, bodyResult, history>>

ManagerOther == (StartWorker \/ StopBegin \/ StopComplete \/ StopJoin) /\ UNCHANGED cancelVars
-----------------------------------------------------------------------------
CancelInit ==
    /\ Init
    /\ embedded = {} /\ deepSeek = {}
    /\ local = [r \in RunIds |-> "absent"]
    /\ phase = [j \in Jobs |-> "off"]
    /\ bodyResult = [j \in Jobs |-> NoResult]
    /\ tracked = [a \in Aborters |-> FALSE]
    /\ cancelAsked = {} /\ owed = {}

CancelNext ==
    \/ \E j \in Jobs :
           \/ Body(j)
           \/ CallerRunsBody(j) \/ CallerReturnsBody(j)
           \/ CallerTimeoutMarks(j) \/ CallerTimeoutCancels(j) \/ CallerTimeoutClears(j)
           \/ CallerOther(j)
    \/ WorkerRunsBody \/ WorkerReturnsBody \/ WorkerAsksCancelled \/ WorkerClears \/ WorkerOther
    \/ \E a \in Aborters :
           \/ \E r \in RunIds : AbortLooksUp(a, r)
           \/ AbortMarks(a) \/ AbortCancels(a) \/ AbortOther(a)
    \/ StopCancels \/ StopClears \/ ManagerOther

CancelSpec == CancelInit /\ [][CancelNext]_allVars
-----------------------------------------------------------------------------
(***************************************************************************)
(* Properties.                                                             *)
(***************************************************************************)
\* Every variable has its type; only DeepSeek runs carry the DeepSeek mark
\* (ServiceLifecycleStartupCoordinator.cpp:398-433).
CancelTypeOK ==
    /\ embedded \subseteq RunIds
    /\ deepSeek \subseteq {r \in RunIds : DeepSeekRun(r)}
    /\ local \in [RunIds -> LocalFlags]
    /\ phase \in [Jobs -> Phases]
    /\ bodyResult \in [Jobs -> BodyResults \cup {NoResult}]
    /\ tracked \in [Aborters -> BOOLEAN]
    /\ cancelAsked \subseteq RunIds
    /\ owed \subseteq Jobs

\* A run is answered "cancelled" only when somebody called Abort for that very run,
\* or StopWorker cancelled it: the marks of other runs, of timed-out runs and stale
\* ones never cancel it (ServiceLifecycleStartupCoordinator.cpp:391-443).
NoSpuriousCancel ==
    \A j \in Jobs : outcome[j] = "cancelled" => RunOf[j] \in cancelAsked

\* An onAbort that finds the run on the worker past the embedded phase is honoured:
\* Execute does not return the model's answer any more, even when the body missed
\* the mark (the override at CChatRuntime.cpp:375-383).
AbortOnWorkerHonoured ==
    \A j \in owed : outcome[j] \in {NoResult, "cancelled", "timedOut"}

\* Marks do not outlive their run: without an Abort, a run is marked only while its
\* caller is between onQueueTimeout and onQueueTimeoutCleanup, and never at rest.
NoLeakedMark ==
    \A r \in (embedded \cup deepSeek) \ cancelAsked :
        \E j \in Jobs : RunOf[j] = r /\ pc[j] \in {"cancel", "erase", "cleanup"}

\* Only a body that is generating has a flag in the local model runtime.
LocalFlagWhileGenerating ==
    \A j \in Jobs : local[RunOf[j]] # "absent" <=> phase[j] = "generating"
=============================================================================
