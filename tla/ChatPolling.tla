----------------------------- MODULE ChatPolling -----------------------------
(***************************************************************************)
(* ChatGateway with the order in which polls take the active runs of a      *)
(* session: those with the oldest progress first, at most                   *)
(* maxActiveRunsPerPoll of them (ChatPipeline.cpp:2579-2594, 2910).  The    *)
(* order depends on startedAtMs and lastProgressAtMs of the runs, and a run *)
(* that ends goes back to the time at which its send began.                 *)
(*                                                                         *)
(* Times are only compared, so they are numbered anew after every step: 0   *)
(* is no time, and the time of a step is later than all others.  Two steps  *)
(* never fall into one millisecond; the runs of one poll share theirs.      *)
(***************************************************************************)
EXTENDS ChatGateway

VARIABLES
    began,     \* began[s]: nowMs of send s, taken when its handler starts
    startedAt, \* startedAt[r]: startedAtMs
    progress   \* progress[r]: lastProgressAtMs

times == <<began, startedAt, progress>>
pollingVars == <<vars, times>>

Now == 1 + Cardinality(Sends) + 2 * Cardinality(RunIds)

\* The three times become b, st and p: without those of runs that are not tracked, and
\* without the progress of runs that are not active, which nothing reads.
Clock(b, st, p) ==
    LET known  == {r \in RunIds : runs'[r] # Untracked}
        active == {r \in known : runs'[r].active}
        used   == {b[s] : s \in Sends}
                  \cup {st[r] : r \in known} \cup {p[r] : r \in active}
        Nth(t) == Cardinality({u \in used : 0 < u /\ u <= t})
    IN  /\ began' = [s \in Sends |-> Nth(b[s])]
        /\ startedAt' = [r \in RunIds |-> IF r \in known THEN Nth(st[r]) ELSE 0]
        /\ progress' = [r \in RunIds |-> IF r \in active THEN Nth(p[r]) ELSE 0]
-----------------------------------------------------------------------------
PollingInit ==
    /\ Init
    /\ began = [s \in Sends |-> 0]
    /\ startedAt = [r \in RunIds |-> 0]
    /\ progress = [r \in RunIds |-> 0]

TimedDirect(s) ==
    /\ SendDirect(s)
    /\ Clock([began EXCEPT ![s] = Now], startedAt, progress)

TimedToRuntime(s) ==
    /\ SendToRuntime(s)
    /\ Clock([began EXCEPT ![s] = Now], [startedAt EXCEPT ![runOf[s]] = Now],
             [progress EXCEPT ![runOf[s]] = Now])

TimedDelta(s) ==
    /\ DeltaArrives(s)
    /\ Clock(began, startedAt, [progress EXCEPT ![runOf[s]] = Now])

\* The run is updated or inserted with the time at which the send began.  A direct send
\* leaves a run that is tracked as it is.
TimedEnd(s, result) ==
    LET r == runOf[s]
    IN  /\ SendEnds(s, result)
        /\ Clock([began EXCEPT ![s] = 0],
                 IF Tracked(r) THEN startedAt ELSE [startedAt EXCEPT ![r] = began[s]],
                 IF Tracked(r) /\ pc[s] = "direct" THEN progress
                 ELSE [progress EXCEPT ![r] = began[s]])

TimedAbort(r, named) ==
    /\ Abort(r, named)
    /\ Clock(began, startedAt, [progress EXCEPT ![r] = Now])

\* The comparison of the sort: older progress, or a later start.
Ahead(q, r) ==
    \/ progress[q] < progress[r]
    \/ progress[q] = progress[r] /\ startedAt[q] > startedAt[r]

\* Fault: the runs with the newest progress come first.
NewestFirst(ss, done) ==
    \A k \in DOMAIN done, r \in Active(ss) :
        Ahead(done[k].id, r) => \E l \in 1..(k - 1) : done[l].id = r

\* Every active run ahead of one that is reconciled has been reconciled before it.
OldestFirst(ss, done) ==
    \A k \in DOMAIN done, r \in Active(ss) :
        Ahead(r, done[k].id) => \E l \in 1..(k - 1) : done[l].id = r

\* A run that shows something or is ended has made progress.
Progressed(done) ==
    [r \in RunIds |-> IF \E k \in DOMAIN done : done[k].id = r /\ done[k].says # << >>
                     THEN Now ELSE progress[r]]

TimedPollWith(ss, limit, done) ==
    /\ OldestFirst(ss, done)
    /\ PollWith(ss, limit, done)
    /\ Clock(began, startedAt, Progressed(done))

TimedPoll(ss, limit) == \E done \in Reconciliations(ss) : TimedPollWith(ss, limit, done)

TimedClient(s) ==
    \/ (SendDeduped(s) \/ SendDenied(s)) /\ UNCHANGED times
    \/ TimedDirect(s) \/ TimedToRuntime(s) \/ TimedDelta(s)
    \/ \E result \in Results : TimedEnd(s, result)

PollingNext ==
    \/ \E s \in Sends : TimedClient(s)
    \/ \E i \in Injections, ss \in Sessions : Inject(i, ss) /\ UNCHANGED times
    \/ \E r \in RunIds, named \in BOOLEAN : TimedAbort(r, named)
    \/ \E ss \in Sessions, limit \in Limits : TimedPoll(ss, limit)

PollingSpec == PollingInit /\ [][PollingNext]_pollingVars
-----------------------------------------------------------------------------
(***************************************************************************)
(* Liveness.                                                               *)
(***************************************************************************)
\* A poll that shows the last of run r: r is among the runs it reconciles.
PollCompletes(r, limit) ==
    \E done \in Reconciliations(SessionOf[r]) :
        /\ \E k \in DOMAIN done : done[k].id = r /\ StreamCompleted(done[k].run)
        /\ TimedPollWith(SessionOf[r], limit, done)

\* Every send that is in flight ends (the wait budget of CChatRuntime::Execute), and the
\* client keeps polling.  Each poll that reconciles a run shows more of its finite text or
\* finds it stalled, so one of those that reconcile it again and again completes it.
\* Which runs a poll reconciles is not a matter of fairness.
FairPolling ==
    /\ PollingSpec
    /\ \A s \in Sends : WF_pollingVars(\E result \in Results : TimedEnd(s, result))
    /\ \A ss \in Sessions : WF_pollingVars(\E limit \in Limits : TimedPoll(ss, limit))
    /\ \A r \in RunIds : SF_pollingVars(\E limit \in Limits : PollCompletes(r, limit))

\* An active run that polls reconcile and that never changes: its end was queued, and
\* dropped by the retention limit, before its send ended and made it active again.
Stuck(q) == q \in lost /\ runs[q].ended /\ StreamCompleted(runs[q])

\* The polls of the session never come to run r: as many stuck runs as a poll reconciles
\* are before it.
Starved(r) ==
    /\ Tracked(r) /\ runs[r].active
    /\ LET before == {q \in Active(SessionOf[r]) \ {r} : Stuck(q) /\ ~Ahead(r, q)}
       IN  Cardinality(before) >= MaxReconciled

\* The run of a send that has returned waits to be answered, unless the retention limit
\* dropped its end, or stuck runs keep the polls from it.
Waits(s) ==
    LET r == runOf[s]
    IN  pc[s] = "returned" /\ Tracked(r) /\ r \notin lost /\ ~Starved(r)

\* No run of a returned send waits for ever: again and again each has been answered and
\* forgotten, has lost its end to the retention limit, or stands behind
\* maxActiveRunsPerPoll stuck runs (ChatPipeline.cpp:1770, 1816, 2579-2594, 2820, 2910).
\* An abort of a stuck run sets free those behind it.
EveryRunAnswered == UniqueKeys => []<>(\A s \in Sends : ~Waits(s))
=============================================================================
