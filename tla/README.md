# BlazeClaw: models of the chat core and of the gateway's services

TLA+ models of the parts of BlazeClaw (`blazeclaw/BlazeClawMfc/src`) in which several
threads, or several calls in a row, have to agree: the queue that serialises model runs, the
cancellation of a run, the chat methods of the gateway, its network connections, the
configuration file with its reloader, the extensions and their tools, and what the gateway
keeps about nodes, approvals and the recipients of tool events. TLC checks them on small
instances; TLAPS proves their safety properties for every instance.

Paths below are relative to `blazeclaw/BlazeClawMfc/src`.

## 1. The system

BlazeClaw is a Windows desktop agent: an MFC user interface, an embedded *gateway* that
speaks a JSON method protocol, and a *core* that runs chat requests against local or
remote models.

| Component | State | Operations | What makes it correct |
|---|---|---|---|
| `core/runtime/CChatRuntime` | queue of jobs, job and status by run id, active run, stop flag; per job a result and a condition variable | `Execute`, `WorkerLoop`, `Abort`, `StartWorker`, `StopWorker` | each call is answered, the model runs at most once for it, in order; nobody is stranded by a timeout, an abort or a stop |
| cancellation: `ServiceLifecycleStartupCoordinator`, `ChatRuntimeOrchestrationCoordinator`, `ChatProviderRuntimeService`, `ServiceManager`, `LlamaTextGenerationRuntime` | embedded and DeepSeek marks by run id, cancel flags of generating runs | the callbacks of the runtime, the phases of a body | an abort of a running model wins; a mark never reaches another run, or outlives its own |
| chat methods: `GatewayHost.Handlers.Runtime.ChatPipeline` | runs by id, waiting events by session, delivered runs, idempotency keys | `chat.send`, `chat.abort`, `chat.inject`, `chat.events.poll` | every run is ended once, its end is delivered, nothing is remembered for ever |
| `TransportRecipientRegistry` and its copy in `GatewayHost` | recipients by run, runs by session | grants, late joins, finalisation, pruning, under the chat methods | the tables agree, an ended run lets its recipients go |
| `GatewayWebSocketTransport` | connections, read buffers, outbound queues | accept, handshake, frame pump, broadcast | one connection's failure or backlog is its own, order is kept, each message is answered once |
| configuration: `GatewayManagedConfigReloader`, `ServiceManager::ApplyManagedRuntimeConfigDiff`, the dialogs and `ExitInstance` that write `blazeclaw.conf` | the file; hash seen last; configuration, generation, provider and local model in force | `Pump` every second, start, dialogs, exit, edits by people | what is in force changes only as a text with a newer generation says; the local model in service is the loaded one |
| extensions: `ExtensionLifecycleManager`, `PluginHostAdapter`, `GatewayToolRegistry`, `PluginRuntimeStateService` | extension states, loaded adapters, tools and executors, active registry and surfaces | start, activate, reload, skill refresh, stop | only tools of active extensions can be called, a stop leaves nothing behind |
| node services: pairing, pending actions, wake | pairings, queues per node, times of wakes | request, approve, reject, remove; enqueue, pull, ack, drain, wake, invoke | who is paired was approved with the scope it takes; an action leaves its queue for a reason |
| `ApprovalTokenStore` with `EmailScheduleExecutor` and the remediation methods | a JSON file | save, load, prune, remove | an update is never lost, nothing is sent that was not approved |
| `SubagentRegistryService` | run records, announce queue, a JSON file | register, complete, announce, reconcile, restore | the program only configures it and takes snapshots |
| `ChatTranscriptStore`, history | files | append, read | one entry per key |
| user interface | windows | threads that send, abort and poll | environment of the rest |

The remaining components (schemas, codecs, policies, embeddings, administration methods,
bootstrap, skills) are in the list `components` of `PROJECT.json`.

Threads. The UI thread; a detached thread per `chat.send` (`app/ChatView.cpp:734`); a
detached poll thread (`app/CBridge.cpp:290`); the gateway pump, every 16 ms
(`app/BlazeClawMfcApp.cpp:717-752`), which runs the config reloader and the network; the
worker of `CChatRuntime`. `chat.send` calls `m_chatRuntimeCallback`, which blocks in
`CChatRuntime::Execute`; that queues a job, and the worker, or the caller itself after the
wait budget, runs the body. The body asks the cancellation marks and streams deltas back
into the gateway's tables, which the client empties by polling. `GatewayHost` has no lock.

What is hard, with the line where it bites and the property that covers it, is the list
`hazards` in `PROJECT.json`.

## 2. Modules

| Module | Models |
|---|---|
| `ChatRuntime` | `CChatRuntime`: callers, worker, aborters, manager |
| `ChatJobs` | what `Execute` promises, without queue or locks (abstract) |
| `RunCancellation` | `ChatRuntime` composed with the bodies and the callbacks |
| `ChatGateway` | the chat methods of the gateway |
| `ChatPolling` | `ChatGateway` with the order in which polls take the active runs |
| `TransportRecipients` | the recipients of tool events, under the chat methods |
| `WebSocketTransport` | the network connections of the gateway |
| `ManagedConfig` | `blazeclaw.conf`, its writers, its reloader, and what is in force |
| `Extensions` | extensions, tools, executors and surfaces under start, reload and stop |
| `NodeServices` | pairing, waiting actions, wakes |
| `ApprovalTokens` | the approvals file with its two store objects and the calls that use it |
| `*Proofs` | the theorems of section 4 |
| `MC*` | constants, symmetry and bounds for TLC; `MCServices` puts the four modules of services side by side |

Some definitions come with a twin marked `Fault`: a wrong version no behaviour uses. It
documents which property notices that error.

### ChatRuntime

A step is one critical section of `m_queueMutex` or of a job's `completionMutex`, or one
call of a callback. Each caller, aborter, the worker and the manager has a place
(`pc`, `apc`, `wpc`, `mpc`). The queue and the two maps are the code's, `completed` and
`result` are the fields of the job. The caller that timed out holds `completionMutex` from
the end of its wait to its return (`HoldsCompletion`), which is why whoever completes the
job has to wait. The wait budget and the lateness of a popped job are choices: the code
compares clocks, and any outcome is possible on a loaded machine. `executors` and
`outcome` are history variables. `asyncQueueEnabled` is the member of `m_cfg` that `Initialize`
(9-13) sets before anything runs; without it a caller runs the body itself (99-102).

| Action | Code in `CChatRuntime.cpp` |
|---|---|
| `ExecuteInline`, `RejectUnavailable`, `RejectFull`, `Enqueue` | 99-152 |
| `ReturnResult`, `Promote`, `CallerEnd` | 154-189, 232 |
| `GiveUp`, `TimeoutMark`, `TimeoutCancel`, `TimeoutErase`, `TimeoutCleanup` | 191-232 |
| `WorkerPop` .. `WorkerExit` | 299-436 |
| `AbortBegin`, `AbortComplete`, `AbortNotify`, `AbortCancel` | 237-295 |
| `StartWorker` | 15-39 |
| `StopBegin` .. `StopEnd` | 41-94 |

Not modelled: `StopWorker` before any `StartWorker`, `StartWorker` on a joinable thread,
the two at the same time (the application has one manager thread).

### RunCancellation

Every step is a step of `ChatRuntime` together with what its callback does to the marks,
or a step of a body. A body goes through the check of both marks, the embedded agent,
which clears the embedded mark when it ends whoever set it
(`ChatRuntimeOrchestrationCoordinator.cpp:98`), and one provider: DeepSeek, which clears
its own mark on entry and polls it while reading; the local model, which has a cancel flag
while it generates, and generates again under the id `<run>-retry` when the answer echoes
the question; or another provider that nobody can interrupt. An abort that lands before
the last of these clears is lost; `AbortOnWorkerHonoured` is about those after it.

### ChatGateway

A step is one call of a method, except `chat.send`, which is in flight between its start
and its end (`SendToRuntime`, `DeltaArrives`, `SendEnds`). The texts are abstracted to
none, text and `NO_REPLY`, the cursors of a run to "at the end" and "deltas left", and
time to choices: a poll may find nothing due, show more, or find the run stalled
(2637-2647). The answer of the runtime is any of success, silent reply, failure, and a
failure that recovery turns into a success; the latter leaves `failed` set, so the client
sees an error (1806 against 1897). Not modelled here: `chat.history` and the transcript,
task deltas, and races inside a handler. The recipients of tool events are a module of their own,
`TransportRecipients`; the order in which they make a poll replay is an arbitrary choice here.
Which active runs a poll reconciles, and in which order, is a choice here too, which is all
that the safety properties need.

### ChatPolling

Every step is one of `ChatGateway`, with the times the code looks at to put the active runs in
order: the start of the run and its last progress (`startedAt`, `progress`), and the time at
which a send began (`began`), to which both go back when the send ends. A poll takes the runs
with the oldest progress first (`OldestFirst`, ChatPipeline 2579-2594 and 2910). Times are only
compared, so the module keeps their ranks and forgets those nobody reads (`Clock`), which makes
the model finite.

What the module makes visible. A run that is aborted, or ended by a poll, while its send is in
flight, and whose end the retention limit then drops, is active again when the send ends
(1770, 1816) but never ends again (2820). It keeps the oldest progress and takes one of the
reconciliations of every poll. Twelve such runs in a session (one, in the instance) keep all
later runs of it from being answered, until one of them is aborted. `EveryRunAnswered` names
this exception (`Stuck`, `Starved`); without it TLC finds the behaviour.

### WebSocketTransport

`GatewayWebSocketTransport`. The pump thread accepts what waits, then visits every connection
once; a visit is a sequence of steps: the timeouts, one read of any part of what has arrived,
one step per frame, one write of any part of the queue. The order of the visits is a choice
(an `unordered_map`). Frames are numbered, so that an answer names the frame that completed its
message; fragments and queues are counted in frames.

| Action | Code in `gateway/GatewayWebSocketTransport.cpp` |
|---|---|
| `AcceptPendingNetworkConnections`, `EndPass` | the two loops of `PumpNetworkOnce` |
| `HandshakeTimeout`, `IdleTimeout` | the first half of a visit |
| `ReceiveFails`, `ReceiveEnd`, `Receive` | reading, with the limit of the read buffer |
| `NoHandshake`, `TryCompleteNetworkHandshake` | the upgrade request |
| `ControlFrame`, `BadFrame`, `Fragment`, `Message` | the frames of a ready connection |
| `FlushNetworkOutbound`, `SendFails` | writing |
| `BroadcastOutboundFrame`, `Stop`, `Start` | other threads |

Broadcasts by other threads are a data race in the C++; they are modelled as steps between
those of the pump. Not modelled: `AcceptConnection`, `ProcessInboundFrame` and
`DrainOutboundFrames` for in-memory connections, which nothing calls; the contents of requests
and frames.

What the module makes visible. The copies that `DrainOutboundFrames` would take are never taken,
so a connection carries at most 256 application frames in its life and is then closed (in
`TransportTypeOK`, as a bound on the application frames of a connection). A ready connection that
failed stays in the map, and ends every later pass when it is visited, so that `KeepsUp` must
except it; one that failed before it was ready goes with the handshake's timeout. The handshake is
answered before the challenge is queued, so a connection whose queue broadcasts have filled by
then fails as a ready one. Frames behind a close frame in the same buffer are still answered. A
broadcast stops at the first connection that is full.

### Extensions

The list of tools and the map of executors are separate, and the extensions, the host and the
skills all write the list. `StartEarlyRuntime`, `StartList`, `StartActivate` are the start of
`GatewayHost`, `ReloadList` and `ReloadActivate` the deferred reload,
`SetSkillsCatalogState` a refresh of the skills, `NotifyPluginGlobalStopPrelude` and `Stop` the
stop. Between the two readings of the catalog in a start or a reload, people may swap it
(`EditCatalog`). The pinned surfaces of `PluginRuntimeStateService` follow the active registry.

Assumed for what is said of active extensions: extensions, skills on disk and the host name their
tools apart (`DifferentTools`). Not modelled: the execution of tools and its
history, versions and counters, the adapters only tests register. What the module makes
visible: the catalog tools of an extension that failed to activate stay listed and enabled
without an executor, and `EnsureOpsToolsRuntimeRegistered` returns early when both ops tools
are listed that way; where it does run, it enables tools the catalog turned off, and their
executors survive a stop, so `StopLeavesNothing` speaks of the tools an extension has enabled.

### NodeServices

Pairing requests and pairings, the actions that wait for a node, the time of a node's last
wake, under `node.pair.*`, `device.pair.*`, `node.pending.*` and `node.invoke`. An action of the
module is a successful call; a refused one changes nothing. `call` remembers the last call
served, for the properties.

What the module makes visible. `node.invoke` never queues: a forced second wake makes
`reconnected2` true, so the branch that enqueues and nudges is not reached. A repetition after
the acknowledgement queues again, since the key went with the action. A node that declares
itself anew between the list and the approval has its new surface approved; the scope is
checked against the new one (`PairingsSound`). Removing a pairing leaves its actions.
`ClearNodeWakeState` has no caller. Not modelled: `device.token.rotate` and `revoke`, which use
a map of their own, names, canvas capabilities, the catalog.

### ApprovalTokens

The two store objects over `approvals.json`. An operation of a store is `ReadStore`,
`WriteTemp`, `Rename` under its own mutex and the one found by the path; a call (`Prepare`,
`Approve`, `RemediationPlan`, `ExecuteRemediation`, `StartServices`) is a list of operations,
with `Deliver` in the middle of an approval. The process may die anywhere (`Crash`), and the disk
may fail at each step: a file that cannot be opened reads as an empty one (`ReadStoreJson`), and
the operation goes on and writes; the temporary file cannot be opened or renamed (`WriteFails`,
`AfterFailure`); and a write that was cut off may nevertheless be renamed into place, because
errors of the stream are not examined, after which the file cannot be parsed and reads as empty.
`blind`, `closed`, `kept` and `sent` are history variables: who writes over a file that it could
not read, the tokens whose callers were told that they are used or cancelled (`Told`), those of
them whose removal failed, and what was delivered.

What the module makes visible. One failed read in front of a save, or of the initialisation,
erases all other sessions of a sound file (`ApprovalTokenStore.cpp:43-50`, `71-73`, `147-149`);
`NoLostUpdate` excepts that writer and the torn file, and nothing else. The result of a removal
is not looked at (`EmailScheduleExecutor.cpp:1787`, `1831`): after one that failed the caller is
told `cancelled` or `ok`, and the token still sends; `SentAsApproved` excepts those tokens. Until
the caller is told, a token is good: two overlapping approvals, or a crash after the delivery,
deliver twice; the tests cover sequential use only
(`GatewayWeatherEmailRegressionTests.cpp:1239-1254`), and nothing promises more. A token is type,
millisecond and lifetime, so two calls of one millisecond share it, the message of the later one
replaces the other, and the yes to the first sends the second. Not modelled:
`SaveToken` and `LoadToken`, which nobody calls, and the retries inside a delivery.

### TransportRecipients

The registry has two tables, entries by run and runs by session; `GatewayHost` keeps a third,
the recipients by run that are asked before a tool event is shown. `SendBegins`, `SendRefused`
and `SendEnds` are `chat.send`, which registers, is in flight while the runtime works, and
finalises by the time at which it began; `Abort` and `Poll` are the other two methods, with
their late joins, their finalisation and their pruning; `Disconnect` and `TimePasses` are the
environment. `moved` and `loose` are history variables: runs registered under two sessions, and
runs whose life was not one accepted send followed by its end.

What the module makes visible. A refused send leaves its grant: the entry is never finalised
and goes only by its time limit, which late joins of the session push forward, and the set of
the run in the third table stays for ever. A run that a poll or an abort ends while its send is
in flight becomes active again when the send ends, and recipients that join then are never
erased. A run id used under a second session leaves the id in the first session's set. The gate
of tool events asks the third table, which expiry does not touch. A client that gives its id but
says it is not connected gets around the late-join rule. `PruneDisconnected` is only reached
through `DrainOutboundFrames`, which nothing calls; the module lets it happen.

### ManagedConfig

A text of the file is absent, empty (a stream truncates before it writes) or a
configuration; a hash stands for its text. A configuration keeps the entries on which the
code branches: provider, key and profiles, generation, section of the local model. The pump
thread takes two steps per pump, the hash and the load, because the file is read twice
(`GatewayManagedConfigReloader.cpp:86`, `105`); the apply is one step, on that thread. The
UI thread runs one handler at a time: read, set, truncate, write. People edit the file at
any time, loads of a local model succeed or fail freely, the process may die anywhere.
`judged` is a history variable.

Not modelled: the queue of expected internal writes. The tests feed it, but the program
only ever queues the hash of a migration's name
(`GatewayRuntimeBootstrapCoordinator.cpp:609-612`), which is the hash of no file. Nor the
chat model and the choice of the inference engine it implies, the sections an apply copies
without a condition, and the environment variable that overrides the generation at start.

What the module makes visible. Configuring DeepSeek does not activate it
(`config_activate`, a finding). A provider chosen in Settings is refused by the running
program, rejected by the reloader because the generation is the old one, and overwritten at
exit with the provider in use. From the moment the key is taken out of the file, every edit
is rejected until the generation grows. An edit between the load at boot and the start of
the reloader is never noticed. A dialog that is rewriting the file between the two reads of
a pump makes it apply the empty text and remember the full one.

## 3. Runs

| Run | Instance | Shows |
|---|---|---|
| `runtime_safety` | 3 calls, queue of 2 or none, 1 aborter | ownership, order, nobody stranded by a stop, no stale entry |
| `runtime_liveness` | 2 calls with the queue or without, 1 aborter, fair threads, bodies that end | every `Execute` and `StopWorker` returns, `ChatJobs` is implemented |
| `runtime_hang` | 2 calls with one run id, a body that may hang | the wait budget brings every caller back |
| `cancellation` | 2 DeepSeek runs on the queue | marks stay with their run, that of a timeout goes with its caller unless the run was also aborted, late aborts win |
| `cancellation_sync` | one run per provider, in parallel | the cancel flag of a local run lives exactly while it generates |
| `gateway_safety` | 2 sends, with two keys or one, 1 injection, queue of 4 | one end per run, none swallowed, nothing forgotten, aborts stick, keys follow runs |
| `gateway_liveness` | 2 sends, aborts, a client that polls; one run reconciled and one event handed out per poll | every run is answered, except behind runs that can progress no more |
| `config` | 2 starts, 2 edits out of 5 texts, 1 dialog, crashes | the guard on generations holds for every writer, the local model in service is the right one, a text that stays is judged |
| `config_activate` | 1 start, no edit, 1 dialog | the finding: the activation is refused, expected to be violated |
| `transport` | 2 connections, 7 pairs of clients, queues of 3 | output is in order, each message answered once, a close loses nothing, the pump keeps up |
| `services` | 2 nodes; 2 threads on the approvals; 2 runs, 2 sessions and 2 sends; 7 catalogs | pairings and waiting actions, approvals, recipients, extensions |

Bounds. Three calls and a queue of two fill the queue, leave one call waiting behind it,
and let a timeout, an abort and the worker compete for three different jobs; one aborter
may abort any number of times, and any run, at any moment. The runtime's liveness instances are one
call smaller because TLC does not reduce them by symmetry. In the gateway, four waiting
events are fewer than two sends and an injection produce, so the retention limit bites; a
delivered set of one is cleared while ends are in flight; one reconciliation per poll
makes runs wait for each other, and `gateway_liveness` has a queue of two, which drops ends.
`MaxDeltas = 1`: a second delta does what the first did.

The five texts of the configuration are no file, two with the local provider (a model that is
eligible, one that is not) and two with DeepSeek under generations 1 and 2, so
an edit can lower the generation, keep it, or raise it together with provider, key and
section; dialogs add the empty text of a truncated file; two edits give the reloader a text to
load that is not the one it hashed.

In the transport, queues of three frames (the challenge, two answers or an event), two fragments
and a read buffer of two are exceeded by clients that send four frames; the second connection
is broken by its client or by the pump while the first is served, and one broadcast may come
at any point. The seven pairs of clients contain every kind of frame. A queue that is full
before the challenge takes more broadcasts than one: that branch of the handshake is
covered by the proofs, which leave `MaxEvents` and `MaxOutbound` open, and not by this run.

In `services`, a behaviour exercises the pairing, the waiting actions, these with the wakes (and
one action), the approvals, the recipients or the extensions, and leaves the others alone: they
share no state. Three actions for a queue of two push the oldest out, a lifetime of zero lets the
first expire at the next tick, and a wake throttle of two is longer than the waits for a
reconnection of zero and one. The
approvals have one mail, tokens that expire within the two instants, every disk fault, two
threads, and one start of the services per process. The recipients have runs that can be
exchanged, of which one at most is irregular (sent again, refused, or moved to another session,
after which one thread sends at a time); time limits are zero, so every instant may expire what an
earlier one registered. Threads, runs and sessions are symmetric. The view hides what no step
depends on and no property asks for: the last call, the messages sent once they were found
approved, the recipients of tool events of a run on whose life nothing is claimed.

Deadlock is checked for the runtime. It is not for the configuration, where the program
may be down for good, nor for the gateway, where all sends may have returned and every run be
forgotten with nothing left to do, nor for the transport, whose clients may have sent all, nor
for the services, whose bounds on time and ids come to an end.

Fairness. Threads of the runtime take their steps (no mutex is held for ever), nobody has to call
anything. `FairSpec` adds that bodies end and assumes no timeout at all; `HangingSpec` assumes
that waits run out and lets the worker's body hang. In the gateway, sends end because `Execute`
returns (the property of the runtime), and the client polls (`FairPolling`). A run that polls
reconcile again and again is completed by one of them (strong fairness per run), since each poll
shows at least eight characters of a finite text after 180 ms, and a run that shows nothing for 45
s is failed (2637-2647); which runs a poll reconciles is no matter of fairness but of
`OldestFirst`. In `ManagedConfig` the pump thread goes on pumping and the UI thread finishes the
handler it is in. In the transport (`LiveSpec`) the pump goes on, as the timer of 16 ms has it,
and each connection again and again has a visit that reads or writes all there is: strong
fairness, because a visit may also read a part or find a full socket. Nothing else is fair.

What fails when a run id is used twice. `CChatRuntime` does not refuse it, and the gateway
records a key only when its send ends (2293-2295), so a client that repeats a key during
the first send gets there. With two calls in flight under one run id, `AtMostOnce`,
`SoleOwner`, `QueuedStatusMatchesQueue` (parts of `Ownership`), `StoppedMeansAnswered` and
`PromiseKept` are violated; `TypeOK`, `CompletedIsFinal`, `NoStaleEntry` and
`QueueOrderKept` still hold, and `runtime_hang` shows the callers come back. In the
gateway a reused key violates `OneTerminalQueued`, `NothingSwallowed`, `NoForgottenRun`
and `AbortSticks`: a poll while the second send is in flight can put the run's end behind
an already delivered one, which the poll then skips, and the client is never answered.
`gateway_safety` lets clients repeat keys and states these four for behaviours in which they do
not (`UniqueKeys`); `GatewayTypeOK` and `KeyMeansTracked` hold in all.
No document of the repository promises otherwise, so these are assumptions of the runs
and not findings. Three more facts the models make visible: the end of a run may fall to
the retention limit when other runs of the session are busy, after which the run and its
key stay (`NoForgottenRun` names the exception); an abort, or a poll, during a send may be
followed by a second end when the send returns, after the first was delivered; and runs that
lost their end may keep later ones from being answered (`ChatPolling`).

## 4. Proofs

All theorems are for every value of the constants that satisfies the named assumption of the
module. Each inductive invariant was checked by TLC before it was proved.

| Module | Theorems | Inductive invariant |
|---|---|---|
| `ChatRuntimeProofs` | `TypeCorrect`, `OwnershipHolds`, `SafetyHolds`, `StopAnswersEverybody`, `CompletionIsFinal` | `Inv == TypeInv /\ Ownership` |
| | `EntriesErased` | `EntryInv` |
| | `OrderIsKept` | `OrderInv` |
| | `RuntimeKeepsPromise`: `ChatRuntime` implements `ChatJobs` | `RefInv`: `Inv` and `AnswersTrue` |
| `RunCancellationProofs` | `CancellationImplementsRuntime`, `CancellationKeepsOwnership`, `CancellationKeepsPromise` | none but the runtime's |
| | `CancelsAreAsked`, `AbortsAreHonoured`, `MarksDoNotLeak`, `FlagsFollowBodies` | `MarksInv` |
| `ManagedConfigProofs` | `GenerationCorrect`, `ActivationCorrect`, `ServiceKept`, `ProviderCorrect` | types with each property |
| `ServicesProofs` | `NodesCorrect`, `ActionsKept` (of `NodeServices`) | `NodesInv` |
| | `SendingApproved`, `UpdatesKept`, `WritersExclude` (of `ApprovalTokens`) | `ApprovalInv` |
| `TransportRecipientsProofs` | `TablesKeptInStep`, `EndedRunsForgotten` | `RecipientsInv` |
| `WebSocketTransportProofs` | `TransportTypes`, `OrderHolds`, `AnswersHold`, `CloseHolds` | `TransportInv == TypesSound /\ StreamInv` |
| `ExtensionsProofs` | `OnlyActiveRun`, `ActiveCallable`, `StopClears` | `ExtensionsInv` |
| `ChatGatewayProofs` | `GatewayTypes`, `KeysHeld` | `TypesInv` |
| | `EndQueuedOnce`, `EndsDelivered`, `RunsNotForgotten`, `AbortsStick` | `TypesInv` and `EndsInv` |
| | `PollingIsGateway`: `ChatPolling` implements `ChatGateway` | none |

`ChatRuntime`. `TypeCorrect`, `EntriesErased` and `OrderIsKept` need only the constants'
assumption; the others assume `UniqueRuns`: no two calls carry the same run id. `AtMostOnce`
alone is not inductive: that nobody runs a job twice depends on who may still start it, which
depends on who holds it (`OwnedOnce`), which depends on the maps (`EntriesAgree`: a caller that
times out decides by the status) and on where each thread is (`PlacesAgree`: the worker holds a
job exactly in certain places, the abandoned list is empty outside `StopWorker`). The proof has
one step per action; the lemmas before it say what `Erase`, `Append`, `Head` and `Tail` do to the
contents, the order and the distinctness of a queue. `Erase` is a recursive function, so its
facts are proved by taking the least counterexample. For the refinement, `AnswersTrue` says that
the result a job carries is one its body, an abort or a stop gave.

`RunCancellation`. Every step of the composition is a step of the runtime or a stutter, so the
results about the runtime hold with the real bodies too (`CancellationAssumption`: unique run
ids). `MarksInv` relates the marks to the places of the bodies: what was asked is recorded
before a mark is set, a mark that stays has somebody left to remove it, and the cancel flag of
a local run exists exactly in the places of its body that generate.

`ManagedConfig`. The argument is `ServiceSteps`: only boot and an applied text change what is in
force, whatever dialogs, people and crashes do to the file.

`NodeServices`. `NodesSound` is inductive once it is said that ids in use are smaller than the
next one and that the scopes of an approval contain the one its surface takes. That a queue
never exceeds its limit follows from an injection of its newest actions into their ranks.

`ApprovalTokens`. An update is not lost because a writer that has read the file holds the mutex
of the path until it has renamed (`OneWriter`), so that what it read is what is there
(`UpToDate`), unless it could not read and is `blind`. Only an approved, unexpired token gets to
`Deliver` because its list of operations is cut off at the load that refuses it (`CallSound`), and
no session of the file belongs to a token that was closed and could be removed (`FileSound`):
who is told so has renamed a file without it, or read one that does not have it (`ToldKeeps`).

`TransportRecipients`. That an ended run has let go takes the life of each run that is not
`loose` as one automaton: granted and in flight, active, ended and erased (`LivesOK`), and that
nobody else sends it (`OneSend`).

`WebSocketTransport`. The properties are about the stream of a connection: what its client has
got and what is queued behind that. Each step of the pump, a client, a broadcast or a stop is
brought to one of a few forms once (`StepsHold`): to each connection it is new, or leaves the
stream as it is (a write moves frames from one half to the other), or appends to it, or ends
it. The invariant then needs the steps no more. Answers are in order because what is unread
has numbers above all that was read (`ReadInOrder`, `NumbersBelow`); exactly one answer follows
from that order and from there being one (`AllAnswered`); the bound on application frames from
the copies that are counted and never drained (`CopiesCount`); and a connection that is closing
has its close frame in the stream (`CloseQueued`), so that one removed with an empty queue has
handed it over.

`Extensions`. Activation takes the entries of the catalog one after the other, a recursive
function whose facts are proved by taking the least counterexample. After each turn (`Turns`)
an active extension has its tools listed, run by itself and claimed, and every executor of an
extension belongs to one that is active; a later extension, whether it succeeds, fails at once
or is rolled back half way, writes only tools that are claimed by nobody. That lasts while the
gateway is up (`WhileUp`): host and skills overwrite executors, but never with an extension's.
That they leave the tools of active extensions alone is not something the code enforces; it is
the hypothesis `DifferentTools` of `ActiveCallable`, true of the catalogs as shipped and of the
instance (`ToolsDiffer`). `OnlyActiveRun` and `StopClears` do without it. What the first reading
of the catalog lists is left open: activation lists again what it activates.

`ChatGateway`. `GatewayTypes` and `KeysHeld` hold for all clients, the other four for clients
that never reuse a key (`UniqueKeys`, which the properties themselves assume): without it two
sends share a run and the properties are false (section 3). Where an end may be queued depends
on the whole life of its run, so the invariant `Ends` follows it: only a send that has reached
the runtime brings a run about (`SendsKnown`), a queued end is that of a tracked run that was
ended (`EndsKnown`), a delivered one is not tracked any more (`DeliveredGone`), and an ended run
has its end queued or dropped (`OnTheWay`). Every handler but the poll is the same kind of step,
a queue that becomes `base` with `new` behind it (`Changes`), so one lemma, `EndsPush`, serves
them all; `Polls` says what a poll does, and `EndsPoll` that it keeps the invariant. The lemmas
before say what joining, cutting, filtering and flattening queues do to the ends they hold. What
`Delivery` takes from a queue is a recursive function, and `FlattenSeq` is one too: their facts
are proved by taking the least counterexample.

Only model-checked: liveness (TLAPS has no `ENABLED`): `EveryExecuteReturns`, `StopReturns`,
`EveryRunAnswered`, `EditsNoticed`, `KeepsUp`. Every invariant and
action property of the runs is a theorem.

## 5. Not modelled

- The in-memory connections of the transport, the execution of tools, the nudge of a node and
  other code that only tests, or nothing, reaches.
- Races inside a handler of `GatewayHost`: its maps are used by three threads without a lock
  (`GatewayHost.h:646`). The outcome of such a race in C++ is undefined; the models take a
  handler, or the part between two blocking calls, as one step.
- The raw pointer to the local model that a run keeps while a reload destroys the object
  (`ServiceManager.cpp:2790`): the same reason.
- `SubagentRegistryService`: the program configures it and takes snapshots; what would change
  its records is reached from a fixture check alone.
- The transcript: an entry is appended after a check that its key is not there, without a lock.
  The entries of a run have different keys, so only two sends with one key race.
- `PiEmbeddedService` (a sequential loop over the model's answers), `AgentsModelRoutingService`,
  `EmbeddedPythonRuntimeHost`, recovery, budgets and sequencing policies (decisions of one
  call), schemas and codecs (no state), inference, process execution, embeddings, speech.
- The desktop windows. They are the environment of the modules, and three things were seen in
  reading them: `CChatView` and `CBridge` both poll the events of session `main`, so that each
  event reaches one of the two; a `PostMessage` that fails leaves `chatSending` or
  `m_pollInFlight` set for ever; `m_pushLastFrameSeq` is not reset by a reconnection. No page of
  the program sends push frames.
