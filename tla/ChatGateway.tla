----------------------------- MODULE ChatGateway -----------------------------
(***************************************************************************)
(* The chat methods of GatewayHost (GatewayHost.Handlers.Runtime.           *)
(* ChatPipeline.cpp): chat.send, chat.abort, chat.inject and                *)
(* chat.events.poll, over the runs by id, the events that wait for the next *)
(* poll of a session, the idempotency keys and the delivered runs.          *)
(*                                                                         *)
(* chat.send blocks in m_chatRuntimeCallback (that is, in CChatRuntime)     *)
(* while the other methods are called by other threads.  A step is what a   *)
(* handler does between two such points: the start of a send, a streamed    *)
(* delta, the end of a send, or one whole call of another method.           *)
(* GatewayHost has no lock, so the accesses inside a step race in the real  *)
(* program; that is out of the model.                                      *)
(*                                                                         *)
(* The run id of a send is its idempotency key, and that is the request id  *)
(* when the client gives none (ChatRunStages.cpp:143, 555).  Texts are      *)
(* abstracted to "none", "text" and "silent" (NO_REPLY), the two cursors of *)
(* a run to `full` (streamCursor is at the end) and `left` (provider deltas *)
(* are left), the deltas that one step pushes to one.  Time is a choice,    *)
(* and so is the order in which a poll takes the runs: ChatPolling adds it. *)
(***************************************************************************)
EXTENDS Naturals, Sequences, FiniteSets, SequencesExt

CONSTANTS
    Sends,         \* the chat.send calls, each made at most once
    RunIds,        \* run ids, which are the idempotency keys
    Keyings,       \* what keys clients may give their sends
    Sessions, SessionOf,   \* SessionOf[r]: the session key that comes with r
    Injections,    \* run ids of chat.inject, fresh each time
    MaxEvents,     \* kMaxChatEventsPerSession
    MaxDelivered,  \* size at which m_chatTerminalDeliveredRunIds is cleared
    MaxReconciled, \* maxActiveRunsPerPoll
    Limits,        \* limits that a poll may ask for
    Results,       \* how the runtime may answer; "recovered" is a failure that
                   \* RecoveryPolicyEngine turns into a success
    MaxDeltas      \* bound: streamed deltas of one send

ASSUME GatewayAssumption ==
    /\ Keyings \subseteq [Sends -> RunIds]
    /\ SessionOf \in [RunIds -> Sessions]
    /\ RunIds \cap Injections = {}
    /\ {MaxEvents, MaxDelivered, MaxReconciled} \subseteq Nat \ {0}
    /\ Limits \subseteq Nat \ {0} /\ Limits # {}
    /\ Results \subseteq {"text", "silent", "failed", "recovered"}
    /\ MaxDeltas \in Nat

VARIABLES
    runOf,     \* runOf[s]: the key the client gives send s, chosen beforehand
    runs,      \* m_chatRunsById
    events,    \* m_chatEventsBySession
    delivered, \* m_chatTerminalDeliveredRunIds
    keys,      \* the keys of m_chatRunByIdempotency
    pc,        \* where each send is
    deltas,    \* streamedDeltaCount of each send
    injected,  \* injections made
    lost,      \* history: runs that had a terminal event pushed out of a queue
    stopped    \* history: runs aborted while no send of theirs was in flight

vars == <<runOf, runs, events, delivered, keys, pc, deltas, injected, lost, stopped>>

Untracked == [text |-> "untracked"]
Terminal  == {"final", "error", "aborted", "needs_approval"}
States    == {"queued", "started", "delta"} \cup Terminal
Runs      == [active: BOOLEAN, failed: BOOLEAN, ended: BOOLEAN, full: BOOLEAN, left: BOOLEAN,
              text: {"none", "text", "silent"}, state: {"final", "error", "needs_approval"}]
Event     == [run: RunIds \cup Injections, state: States]

Tracked(r)  == runs[r] # Untracked
InFlight(r) == \E s \in Sends : runOf[s] = r /\ pc[s] \in {"runtime", "direct"}
IsTerminal(e) == e.state \in Terminal
Orders(S, n) == {q \in [1..n -> S] : \A k, l \in 1..n : q[k] = q[l] => k = l}
EventsOf(r, states) == [i \in 1..Len(states) |-> [run |-> r, state |-> states[i]]]
-----------------------------------------------------------------------------
\* Fault: one event too many stays.
RetainOffByOne(q) == IF Len(q) > MaxEvents + 1 THEN Tail(q) ELSE q

Retain(q) == IF Len(q) > MaxEvents THEN SubSeq(q, Len(q) - MaxEvents + 1, Len(q)) ELSE q

\* The runs whose end is dropped when `all` is cut to the limit.
Dropped(all) ==
    {all[i].run : i \in {k \in 1..(Len(all) - Len(Retain(all))) : IsTerminal(all[k])}}

\* PushEventWithRetentionLimit for each of the new events.
Push(ss, new) ==
    /\ events' = [events EXCEPT ![ss] = Retain(@ \o new)]
    /\ lost' = lost \cup Dropped(events[ss] \o new)

\* Fault: a run may be ended again.
MayEndAgain(run) == TRUE

NotEnded(run) == ~run.ended

Ended(run) == [run EXCEPT !.ended = TRUE, !.active = FALSE]

Silent(run) == run.text = "silent"
Unfinished(run) == run.left \/ ~run.full
-----------------------------------------------------------------------------
(***************************************************************************)
(* chat.send.                                                              *)
(***************************************************************************)
Init ==
    /\ runOf \in Keyings
    /\ runs = [r \in RunIds |-> Untracked]
    /\ events = [ss \in Sessions |-> << >>]
    /\ delivered = {} /\ keys = {}
    /\ pc = [s \in Sends |-> "idle"]
    /\ deltas = [s \in Sends |-> 0]
    /\ injected = {}
    /\ lost = {} /\ stopped = {}

Go(s, place) == pc' = [pc EXCEPT ![s] = place]

\* The key is known: the stored answer is replayed, or {"deduped":true}.
SendDeduped(s) ==
    /\ pc[s] = "idle" /\ runOf[s] \in keys
    /\ Go(s, "refused")
    /\ UNCHANGED <<runOf, runs, events, delivered, keys, deltas, injected, lost, stopped>>

Talking(ss) ==
    {r \in RunIds : SessionOf[r] = ss /\ Tracked(r) /\ runs[r].active /\ runs[r].text = "text"}

\* A client that joins a run shows up again with its key: it is sent what the active
\* runs of the session that it receives have said so far, in the registry's order.
Replays(s) ==
    IF ~Tracked(runOf[s]) THEN {<< >>}
    ELSE LET talking == Talking(SessionOf[runOf[s]])
         IN  {[i \in DOMAIN order |-> [run |-> order[i], state |-> "delta"]] :
                  order \in UNION {Orders(talking, n) : n \in 0..Cardinality(talking)}}

\* Validation refuses it, or the send policy does after a late join was served.
SendDenied(s) ==
    /\ pc[s] = "idle"
    /\ Go(s, "refused")
    /\ \E replay \in Replays(s) \cup {<< >>} :
           /\ runOf[s] \in keys => replay = << >>
           /\ Push(SessionOf[runOf[s]], replay)
    /\ UNCHANGED <<runOf, runs, delivered, keys, deltas, injected, stopped>>

\* The send will not call the runtime: a forced error, or tools orchestrated here.
SendDirect(s) ==
    /\ pc[s] = "idle" /\ runOf[s] \notin keys
    /\ Go(s, "direct")
    /\ \E replay \in Replays(s) : Push(SessionOf[runOf[s]], replay)
    /\ UNCHANGED <<runOf, runs, delivered, keys, deltas, injected, stopped>>

NewRun == [active |-> TRUE, failed |-> FALSE, ended |-> FALSE, full |-> TRUE, left |-> FALSE,
           text |-> "none", state |-> "final"]

\* The run is tracked from here on, and m_chatRuntimeCallback blocks.
SendToRuntime(s) ==
    /\ pc[s] = "idle" /\ runOf[s] \notin keys
    /\ Go(s, "runtime")
    /\ \E replay \in Replays(s) :
           Push(SessionOf[runOf[s]], replay \o EventsOf(runOf[s], <<"queued", "started">>))
    /\ runs' = [runs EXCEPT ![runOf[s]] = NewRun]
    /\ UNCHANGED <<runOf, delivered, keys, deltas, injected, stopped>>

\* onAssistantDelta publishes a delta; a run that is not tracked any more is not touched.
DeltaArrives(s) ==
    LET r == runOf[s]
    IN  /\ pc[s] = "runtime" /\ deltas[s] < MaxDeltas
        /\ deltas' = [deltas EXCEPT ![s] = @ + 1]
        /\ Push(SessionOf[r], EventsOf(r, <<"delta">>))
        /\ runs' = IF Tracked(r)
                   THEN [runs EXCEPT ![r] = [@ EXCEPT !.text = "text", !.full = TRUE]]
                   ELSE runs
        /\ UNCHANGED <<runOf, delivered, keys, pc, injected, stopped>>

TextOf(result) == CASE result = "silent" -> "silent" [] result = "failed" -> "none" [] OTHER -> "text"

\* The runtime answered while the run is still tracked.  A failure that recovery
\* turns into a success is found out after this.
Update(run, result, streamed) ==
    LET failed == result \in {"failed", "recovered"}
    IN  [run EXCEPT !.active = TRUE, !.failed = failed,
                    !.text = IF failed THEN "none" ELSE TextOf(result),
                    !.full = streamed \/ failed,
                    !.left = ~streamed /\ ~failed,
                    !.state = IF failed THEN "error" ELSE "final"]

\* It is not tracked any more, or never was (a direct send).  `full` and `left` depend
\* on how the deltas of the answer fit its text.
Inserted(result, full, left, state) ==
    [active |-> TRUE, failed |-> result = "failed", ended |-> FALSE, full |-> full, left |-> left,
     text |-> TextOf(result), state |-> IF result = "failed" THEN "error" ELSE state]

FitsText(result, streamed, direct, full, left) ==
    /\ result = "failed" => full /\ ~left
    /\ result = "silent" => ~full
    /\ streamed => ~left /\ (result = "text" \/ result = "recovered" => ~full)
    /\ result = "recovered" => ~left /\ (~streamed => full)
    /\ result \in {"text", "silent"} /\ ~streamed /\ ~direct => left
    /\ result = "text" /\ ~streamed /\ ~left => full

\* Fault: the run stays among those whose end was delivered.
StayDelivered(r) == delivered

Undelivered(r) == delivered \ {r}

\* The fast path: the answer is all there, so the end of the run is queued at once.
FastPath(run, result) ==
    ~run.failed /\ result # "silent" /\ run.full /\ NotEnded(run)

\* The answer is emitted, the run updated or inserted, its end queued when that is
\* known, and the key recorded.
SendEnds(s, result) ==
    LET r == runOf[s]
        direct == pc[s] = "direct"
        streamed == deltas[s] > 0
    IN  /\ pc[s] \in {"runtime", "direct"}
        /\ Go(s, "returned")
        /\ direct => result # "recovered"
        /\ \E full, left \in BOOLEAN, state \in {"final", "needs_approval"} :
               /\ FitsText(result, streamed, direct, full, left)
               /\ state = "needs_approval" => direct
               /\ LET run == IF ~Tracked(r) THEN Inserted(result, full, left, state)
                             ELSE IF direct THEN runs[r] ELSE Update(runs[r], result, streamed)
                      ends == FastPath(run, result)
                      says == ~streamed /\ result \in {"text", "recovered"}
                  IN  /\ runs' = [runs EXCEPT ![r] = IF ends THEN Ended(run) ELSE run]
                      /\ Push(SessionOf[r],
                              EventsOf(r, (IF direct THEN <<"queued", "started">> ELSE << >>)
                                          \o (IF says THEN <<"delta">> ELSE << >>)
                                          \o (IF ends THEN <<run.state>> ELSE << >>)))
        /\ delivered' = Undelivered(r)
        /\ keys' = keys \cup {r}
        /\ UNCHANGED <<runOf, deltas, injected, stopped>>
-----------------------------------------------------------------------------
(***************************************************************************)
(* chat.inject and chat.abort.                                             *)
(***************************************************************************)
Inject(i, ss) ==
    /\ i \in Injections \ injected
    /\ Push(ss, EventsOf(i, <<"final">>))
    /\ injected' = injected \cup {i}
    /\ UNCHANGED <<runOf, runs, delivered, keys, pc, deltas, stopped>>

\* Fault: what the run had queued is still sent.
KeepEvents(q, r) == q

WithoutEvents(q, r) ==
    FlattenSeq([i \in DOMAIN q |-> IF q[i].run = r THEN << >> ELSE <<q[i]>>])

\* Abort names the run, or asks for any active run of the session.  The run is
\* ended, even when its end was queued before, and its queued events are replaced.
Abort(r, named) ==
    /\ Tracked(r) /\ (named \/ runs[r].active)
    /\ LET ss == SessionOf[r]
           all == WithoutEvents(events[ss], r) \o EventsOf(r, <<"aborted">>)
       IN  events' = [events EXCEPT ![ss] = Retain(all)] /\ lost' = lost \cup Dropped(all)
    /\ runs' = [runs EXCEPT ![r] = [Ended(@) EXCEPT !.full = TRUE]]
    /\ stopped' = IF InFlight(r) THEN stopped ELSE stopped \cup {r}
    /\ UNCHANGED <<runOf, delivered, keys, pc, deltas, injected>>
-----------------------------------------------------------------------------
(***************************************************************************)
(* chat.events.poll.                                                       *)
(***************************************************************************)
StreamCompleted(run) == run.failed \/ Silent(run) \/ ~Unfinished(run)

\* What processRun may make of a run, with the events it pushes: nothing is due yet,
\* the next part of the answer is shown, or the run has stalled for too long.
Shown(run, l, f) == [run |-> [run EXCEPT !.left = l, !.full = f], says |-> <<"delta">>]

Reveals(run) ==
    {[run |-> run, says |-> << >>]}
    \cup (IF ~run.failed /\ Unfinished(run)
          THEN {[run |-> [run EXCEPT !.failed = TRUE], says |-> << >>]} ELSE {})
    \cup IF run.failed \/ Silent(run) \/ ~Unfinished(run) THEN {}
         ELSE IF run.left
         THEN {[run |-> [run EXCEPT !.left = FALSE], says |-> << >>]}
              \cup {Shown(run, l, f) : l, f \in BOOLEAN}
         ELSE {Shown(run, FALSE, f) : f \in BOOLEAN}

Finish(o) ==
    IF StreamCompleted(o.run) /\ NotEnded(o.run)
    THEN [run |-> Ended(o.run),
          says |-> Append(o.says, IF o.run.failed THEN "error" ELSE o.run.state)]
    ELSE o

\* processRun for run r.
ProcessRun(r) ==
    {[id |-> r, run |-> o.run, says |-> EventsOf(r, o.says)] :
         o \in {Finish(p) : p \in Reveals(runs[r])}}

\* At most maxActiveRunsPerPoll of the active runs, in any order: which of them, and in
\* what order, ChatPolling says.
Active(ss) == {r \in RunIds : SessionOf[r] = ss /\ Tracked(r) /\ runs[r].active}

Reconciliations(ss) ==
    LET n == IF Cardinality(Active(ss)) < MaxReconciled THEN Cardinality(Active(ss))
             ELSE MaxReconciled
        steps == UNION {ProcessRun(r) : r \in Active(ss)}
    IN  {done \in [1..n -> steps] : \A k, l \in 1..n : done[k].id = done[l].id => k = l}

Reconciled(done) ==
    [r \in RunIds |-> IF \E k \in DOMAIN done : done[k].id = r
                     THEN done[CHOOSE k \in DOMAIN done : done[k].id = r].run
                     ELSE runs[r]]

\* One event leaves the queue: it is sent, or skipped when the end of its run has
\* been sent already.  The set of delivered runs is cleared when it is too large.
Deliver(batch, e) ==
    IF batch.room = 0 THEN [batch EXCEPT !.rest = Append(@, e)]
    ELSE IF ~IsTerminal(e) THEN [batch EXCEPT !.room = @ - 1]
    ELSE IF e.run \in batch.delivered \cup batch.ended THEN batch
    ELSE LET now == batch.delivered \cup {e.run}
         IN  [batch EXCEPT !.room = @ - 1, !.ended = @ \cup {e.run},
                           !.delivered = IF Cardinality(now) > MaxDelivered THEN {} ELSE now]

\* What a poll delivers, in a set of its own (TLC then computes it once).
Delivery(q, limit) ==
    LET batches[i \in 0..Len(q)] ==
            IF i = 0 THEN {[rest |-> << >>, room |-> limit, ended |-> {}, delivered |-> delivered]}
            ELSE {Deliver(batch, q[i]) : batch \in batches[i - 1]}
    IN  batches[Len(q)]

\* Fault: the run is not forgotten, or its key is not.
KeepRun(some, S) == some
KeepKeys(S) == keys

Forget(some, S) == [r \in RunIds |-> IF r \in S THEN Untracked ELSE some[r]]
ForgetKeys(S) == keys \ {r \in S : r \in RunIds /\ Tracked(r)}

\* What the reconciled runs push, and what is then sent.
PollWith(ss, limit, done) ==
    /\ UNCHANGED <<runOf, pc, deltas, injected, stopped>>
    /\ LET all == events[ss] \o FlattenSeq([k \in DOMAIN done |-> done[k].says])
       IN  \E batch \in Delivery(Retain(all), limit) :
               /\ events' = [events EXCEPT ![ss] = batch.rest]
               /\ lost' = lost \cup Dropped(all)
               /\ delivered' = batch.delivered
               /\ runs' = Forget(Reconciled(done), batch.ended)
               /\ keys' = ForgetKeys(batch.ended)

Poll(ss, limit) == \E done \in Reconciliations(ss) : PollWith(ss, limit, done)
-----------------------------------------------------------------------------
Client(s) ==
    \/ SendDeduped(s) \/ SendDenied(s) \/ SendDirect(s) \/ SendToRuntime(s)
    \/ DeltaArrives(s) \/ \E result \in Results : SendEnds(s, result)

Next ==
    \/ \E s \in Sends : Client(s)
    \/ \E i \in Injections, ss \in Sessions : Inject(i, ss)
    \/ \E r \in RunIds, named \in BOOLEAN : Abort(r, named)
    \/ \E ss \in Sessions, limit \in Limits : Poll(ss, limit)

Spec == Init /\ [][Next]_vars
-----------------------------------------------------------------------------
(***************************************************************************)
(* Properties.  All but GatewayTypeOK and KeyMeansTracked need that no two  *)
(* sends carry the same key (UniqueKeys).                                   *)
(***************************************************************************)
\* A client that never reuses an idempotency key.
UniqueKeys == \A s, t \in Sends : runOf[s] = runOf[t] => s = t

\* Every variable has its type; a session never has more than kMaxChatEventsPerSession
\* events waiting, and the set of delivered runs is bounded (ChatPipeline.cpp:2932).
GatewayTypeOK ==
    /\ runOf \in Keyings
    /\ runs \in [RunIds -> Runs \cup {Untracked}]
    /\ \A ss \in Sessions : events[ss] \in Seq(Event) /\ Len(events[ss]) <= MaxEvents
    /\ delivered \subseteq RunIds \cup Injections /\ Cardinality(delivered) <= MaxDelivered
    /\ keys \subseteq RunIds
    /\ pc \in [Sends -> {"idle", "runtime", "direct", "returned", "refused"}]
    /\ deltas \in [Sends -> 0..MaxDeltas]
    /\ injected \subseteq Injections
    /\ lost \cup stopped \subseteq RunIds \cup Injections

Queued(r, states) ==
    {p \in Sessions \X (1..MaxEvents) :
        LET q == events[p[1]]
        IN  p[2] <= Len(q) /\ q[p[2]].run = r /\ q[p[2]].state \in states}

\* A run never has two ends waiting for the client, whatever the order of the end of its
\* send, the polls meanwhile and an abort (ChatPipeline.cpp:2215-2220, 2506, 2820).
OneTerminalQueued ==
    UniqueKeys => \A r \in RunIds : Cardinality(Queued(r, Terminal)) <= 1

\* The end of a run that waits for the client is one the next polls deliver: its run is
\* not among those whose end was delivered before (ChatPipeline.cpp:2291, 2924-2928).
NothingSwallowed == UniqueKeys => \A r \in delivered : Queued(r, Terminal) = {}

\* A tracked run is still on its way to an end: its send is in flight, or polls will
\* reconcile it, or its end is queued.  The exception is a run whose end fell victim to
\* the retention limit: nothing ever removes it (ChatPipeline.cpp:2573-2577, 2992-3003).
NoForgottenRun ==
    UniqueKeys => \A r \in RunIds : Tracked(r) =>
        \/ InFlight(r) \/ r \in lost
        \/ runs[r].active /\ ~runs[r].ended
        \/ Queued(r, Terminal) # {}

\* A send is answered {"deduped":true} only while the run that owns the key is tracked:
\* its end has not been delivered (ChatPipeline.cpp:430-442, 2293-2295, 2995-2998).
KeyMeansTracked == \A r \in keys : Tracked(r)

\* An abort after the send has returned is the last word on the run: nothing but
\* "aborted" waits for the client, and no poll adds to it (ChatPipeline.cpp:2472-2517).
AbortSticks ==
    UniqueKeys => \A r \in stopped : Tracked(r) =>
        runs[r].ended /\ Queued(r, States \ {"aborted"}) = {}
=============================================================================
