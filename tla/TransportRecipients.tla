------------------------ MODULE TransportRecipients ------------------------
(***************************************************************************)
(* Who is shown the tool events of a chat run: TransportRecipientRegistry    *)
(* with its two tables, and the set of recipients that GatewayHost keeps     *)
(* beside it, as chat.send, chat.abort and chat.events.poll drive them       *)
(* (gateway/TransportRecipientRegistry.cpp,                                  *)
(* gateway/GatewayHost.Handlers.Runtime.ChatPipeline.cpp).                   *)
(*                                                                         *)
(* A run may be sent under any session, and a run id may be sent again.      *)
(***************************************************************************)
EXTENDS Naturals, Functions

CONSTANTS RunIds, ChatSessions, Connections,
          Sends,            \* the threads that call chat.send
          RecipientTtl,     \* m_recipientTtlMs
          FinalizedGrace,   \* m_finalizedGraceMs
          EndOfTime,        \* bound: how long a behaviour is followed
          NoEntry, NoRun, NoSend

VARIABLES
    registry,    \* [runs, bySession]: m_recipientsByRun and m_runsBySession
    toolEvents,  \* m_chatToolEventRecipientsByRun: those asked before a tool event is shown
    chatRuns,    \* m_chatRunsById: session, active, terminalEventEnqueued
    ends,        \* runs with a terminal event among the waiting ones
    sending,     \* the chat.send each thread is in: its run, whether the runtime has it, its time
    instant,
    moved,       \* history: runs registered under two sessions
    loose        \* history: runs whose life was not one accepted send, then its end

recipientVars == <<registry, toolEvents, chatRuns, ends, sending, instant, moved, loose>>

Times == 0..EndOfTime
LastSeen == UNION {[C -> Times] : C \in SUBSET Connections}
RegistryEntries == [session : ChatSessions, seen : LastSeen, finalized : BOOLEAN, at : Times]
Run == [session : ChatSessions, active : BOOLEAN, ended : BOOLEAN]
Send == [run : RunIds, session : ChatSessions, runtime : BOOLEAN, at : Times]

ASSUME RecipientsAssumption ==
    /\ RecipientTtl \in Nat /\ FinalizedGrace \in Nat /\ EndOfTime \in Nat
    /\ NoEntry \notin RegistryEntries /\ NoRun \notin Run /\ NoSend \notin Send

RecipientsInit ==
    /\ registry = [runs |-> [r \in RunIds |-> NoEntry], bySession |-> [s \in ChatSessions |-> {}]]
    /\ toolEvents = [r \in RunIds |-> {}]
    /\ chatRuns = [r \in RunIds |-> NoRun]
    /\ ends = {} /\ moved = {} /\ loose = {}
    /\ sending = [t \in Sends |-> NoSend]
    /\ instant = 0
-----------------------------------------------------------------------------
(***************************************************************************)
(* TransportRecipientRegistry.                                             *)
(***************************************************************************)
HasEntry(reg, r) == reg.runs[r] # NoEntry

SeenOf(reg, r) == IF HasEntry(reg, r) THEN reg.runs[r].seen ELSE << >>

HasRecipients(reg, r) == DOMAIN SeenOf(reg, r) # {}

\* A recipient is put into an entry, or was seen again.
Assign(seen, c, t) == [d \in DOMAIN seen \cup {c} |-> IF d = c THEN t ELSE seen[d]]

RegisterRecipient(reg, r, s, c, t) ==
    [runs |-> [reg.runs EXCEPT ![r] =
                  [session |-> s, seen |-> Assign(SeenOf(reg, r), c, t),
                   finalized |-> FALSE, at |-> 0]],
     bySession |-> [reg.bySession EXCEPT ![s] = @ \cup {r}]]

\* The runs of the session that are still going on get the connection as well.
Joined(reg, s) == {r \in reg.bySession[s] : HasEntry(reg, r) /\ ~reg.runs[r].finalized}

RegisterLateJoin(reg, s, c, t) ==
    LET joins(r) == [reg.runs[r] EXCEPT !.seen = Assign(@, c, t)]
    IN  [reg EXCEPT !.runs = [r \in RunIds |-> IF r \in Joined(reg, s) THEN joins(r)
                                               ELSE reg.runs[r]]]

\* Fault: the run is not finalized.
LeaveUnfinalized(reg, R, t) == reg

MarkRunFinalized(reg, R, t) ==
    LET final(r) == [reg.runs[r] EXCEPT !.finalized = TRUE, !.at = t]
    IN  [reg EXCEPT !.runs = [r \in RunIds |-> IF r \in R /\ HasEntry(reg, r) THEN final(r)
                                               ELSE reg.runs[r]]]

\* Fault: the runs stay in the sets of their sessions.
WithoutRuns(reg, R) == [reg EXCEPT !.runs = [r \in RunIds |-> IF r \in R THEN NoEntry ELSE @[r]]]

\* PruneRun, and the erasures at the end of the other prunings: a run is taken out of
\* the set of the session that its entry names.
Without(reg, R) ==
    [runs |-> [r \in RunIds |-> IF r \in R THEN NoEntry ELSE reg.runs[r]],
     bySession |-> [s \in ChatSessions |->
                       reg.bySession[s]
                       \ {r \in R : HasEntry(reg, r) /\ reg.runs[r].session = s}]]

\* The recipients S of the entry stay.
Keep(entry, S) == [entry EXCEPT !.seen = Restrict(@, S)]

\* PruneDisconnected: a run that goes on keeps its entry, even without recipients.
PruneDisconnected(reg, c) ==
    LET left == [r \in RunIds |-> IF HasEntry(reg, r)
                                  THEN Keep(reg.runs[r], DOMAIN reg.runs[r].seen \ {c})
                                  ELSE NoEntry]
        gone == {r \in RunIds : /\ left[r] # NoEntry
                                /\ DOMAIN left[r].seen = {} /\ left[r].finalized}
    IN  Without([reg EXCEPT !.runs = left], gone)

Unexpired(entry, t) == {c \in DOMAIN entry.seen : t <= entry.seen[c] + RecipientTtl}

PruneExpired(reg, t) ==
    LET left == [r \in RunIds |-> IF HasEntry(reg, r)
                                  THEN Keep(reg.runs[r], Unexpired(reg.runs[r], t))
                                  ELSE NoEntry]
        gone == {r \in RunIds : /\ left[r] # NoEntry
                                /\ \/ DOMAIN left[r].seen = {}
                                   \/ left[r].finalized /\ t > left[r].at + FinalizedGrace}
    IN  Without([reg EXCEPT !.runs = left], gone)
-----------------------------------------------------------------------------
(***************************************************************************)
(* The chat methods.                                                       *)
(***************************************************************************)
Tracked(r) == chatRuns[r] # NoRun

Alive(r) == Tracked(r) /\ chatRuns[r].active

InFlight(r) == \E t \in Sends : sending[t] # NoSend /\ sending[t].run = r

RunningIn(s) == {r \in RunIds : Alive(r) /\ chatRuns[r].session = s}

\* A client says itself whether it is connected; who is joins a tracked run late.
JoinsLate(r) == IF Tracked(r) THEN BOOLEAN ELSE {FALSE}

\* What ToolEventRecipientPolicy may decide: a client with the capability is granted the
\* tool events, unless it joins a run late for which nobody is registered.
Decisions(r) ==
    {capable /\ (late => HasRecipients(registry, r)) : capable \in BOOLEAN, late \in JoinsLate(r)}

Grant(r, s, c) ==
    /\ registry' = PruneExpired(RegisterLateJoin(RegisterRecipient(registry, r, s, c, instant),
                                                 s, c, instant), instant)
    /\ toolEvents' = [q \in RunIds |-> IF q = r \/ q \in RunningIn(s)
                                       THEN toolEvents[q] \cup {c} ELSE toolEvents[q]]
    /\ moved' = IF \E u \in ChatSessions \ {s} : r \in registry.bySession[u]
                THEN moved \cup {r} ELSE moved

Receive(r, s, c) ==
    \E wantsToolEvents \in Decisions(r) :
        IF wantsToolEvents THEN Grant(r, s, c) ELSE UNCHANGED <<registry, toolEvents, moved>>

\* The send registers its client, and then the policy of sends refuses it.
SendRefused(r, s, c) ==
    /\ Receive(r, s, c)
    /\ loose' = loose \cup {r}
    /\ UNCHANGED <<chatRuns, ends, sending, instant>>

\* The run is tracked at once if the runtime gets it, otherwise when the send ends.
SendBegins(t, r, s, c, runtime) ==
    /\ sending[t] = NoSend
    /\ sending' = [sending EXCEPT ![t] = [run |-> r, session |-> s, runtime |-> runtime, at |-> instant]]
    /\ Receive(r, s, c)
    /\ chatRuns' = IF runtime
                   THEN [chatRuns EXCEPT ![r] = [session |-> s, active |-> TRUE, ended |-> FALSE]]
                   ELSE chatRuns
    /\ loose' = IF Tracked(r) \/ InFlight(r) THEN loose \cup {r} ELSE loose
    /\ UNCHANGED <<ends, instant>>

ForgetToolEvents(R) == [r \in RunIds |-> IF r \in R THEN {} ELSE toolEvents[r]]

\* The end of the runs R is queued: nobody joins them any more.  A send goes by the time
\* at which it began.
Finalized(R, t) ==
    IF R = {} THEN registry ELSE PruneExpired(MarkRunFinalized(registry, R, t), t)

\* What the run is when the send has its answer.
Answered(send) ==
    IF ~Tracked(send.run) THEN [session |-> send.session, active |-> TRUE, ended |-> FALSE]
    ELSE IF send.runtime THEN [chatRuns[send.run] EXCEPT !.active = TRUE]
    ELSE chatRuns[send.run]

\* The send returns; `complete`: all of the answer is there, so the run is ended.
SendEnds(t, complete) ==
    LET send == sending[t]
        r == send.run
    IN  /\ send # NoSend
        /\ sending' = [sending EXCEPT ![t] = NoSend]
        /\ IF complete /\ ~Answered(send).ended
           THEN /\ chatRuns' = [chatRuns EXCEPT ![r] =
                                   [Answered(send) EXCEPT !.active = FALSE, !.ended = TRUE]]
                /\ ends' = ends \cup {r}
                /\ registry' = Finalized({r}, send.at)
                /\ toolEvents' = ForgetToolEvents({r})
                /\ loose' = IF \E u \in Sends \ {t} : sending[u] # NoSend /\ sending[u].run = r
                            THEN loose \cup {r} ELSE loose
           ELSE /\ chatRuns' = [chatRuns EXCEPT ![r] = Answered(send)]
                /\ UNCHANGED <<registry, toolEvents, ends, loose>>
        /\ UNCHANGED <<instant, moved>>

\* The run is ended again when its end was queued before.
Abort(r, named) ==
    /\ Tracked(r) /\ (named \/ chatRuns[r].active)
    /\ chatRuns' = [chatRuns EXCEPT ![r] = [@ EXCEPT !.active = FALSE, !.ended = TRUE]]
    /\ ends' = ends \cup {r}
    /\ registry' = Finalized({r}, instant)
    /\ toolEvents' = ForgetToolEvents({r})
    /\ loose' = IF InFlight(r) THEN loose \cup {r} ELSE loose
    /\ UNCHANGED <<sending, instant, moved>>

\* A poll ends the active runs R of the session, then delivers the ends of the runs D.
\* What was queued may have fallen to the retention limit, or be skipped.  (An end queued
\* for an earlier session of the run counts as one of its present session.)
Poll(s, R, D) ==
    /\ R \subseteq {r \in RunningIn(s) : ~chatRuns[r].ended}
    /\ D \subseteq {r \in (ends \cup R) : Tracked(r) /\ chatRuns[r].session = s}
    /\ R \cup D # {}
    /\ registry' = Without(Finalized(R, instant), D)
    /\ toolEvents' = ForgetToolEvents(R)
    /\ chatRuns' = [r \in RunIds |->
                       IF r \in D THEN NoRun
                       ELSE IF r \in R THEN [chatRuns[r] EXCEPT !.active = FALSE, !.ended = TRUE]
                       ELSE chatRuns[r]]
    /\ ends' = (ends \cup R) \ D
    /\ loose' = loose \cup {r \in R \cup D : InFlight(r)}
    /\ UNCHANGED <<sending, instant, moved>>

\* GatewayHost::DrainOutboundFrames, for a connection that is served in memory.
Disconnect(c) ==
    /\ registry' = PruneDisconnected(registry, c)
    /\ UNCHANGED <<toolEvents, chatRuns, ends, sending, instant, moved, loose>>

TimePasses ==
    /\ instant < EndOfTime
    /\ instant' = instant + 1
    /\ UNCHANGED <<registry, toolEvents, chatRuns, ends, sending, moved, loose>>
-----------------------------------------------------------------------------
RecipientsNext ==
    \/ \E r \in RunIds, s \in ChatSessions, c \in Connections :
          SendRefused(r, s, c)
    \/ \E t \in Sends, r \in RunIds, s \in ChatSessions, c \in Connections, runtime \in BOOLEAN :
              SendBegins(t, r, s, c, runtime)
    \/ \E t \in Sends, complete \in BOOLEAN : SendEnds(t, complete)
    \/ \E r \in RunIds, named \in BOOLEAN : Abort(r, named)
    \/ \E s \in ChatSessions, R, D \in SUBSET RunIds : Poll(s, R, D)
    \/ \E c \in Connections : Disconnect(c)
    \/ TimePasses

RecipientsSpec == RecipientsInit /\ [][RecipientsNext]_recipientVars
-----------------------------------------------------------------------------
\* Every variable has its type.
RecipientsTypeOK ==
    /\ registry \in [runs : [RunIds -> RegistryEntries \cup {NoEntry}],
                     bySession : [ChatSessions -> SUBSET RunIds]]
    /\ toolEvents \in [RunIds -> SUBSET Connections]
    /\ chatRuns \in [RunIds -> Run \cup {NoRun}]
    /\ sending \in [Sends -> Send \cup {NoSend}]
    /\ ends \subseteq RunIds /\ moved \subseteq RunIds /\ loose \subseteq RunIds
    /\ instant \in Times

\* The two tables of the registry agree, whoever registers, joins, ends and prunes: an
\* entry is found through the session it names, and a session's set names no run
\* without an entry there -- except runs that were registered under two sessions
\* (TransportRecipientRegistry.cpp:6-34, 66-145).
TablesAgree ==
    /\ \A r \in RunIds :
          HasEntry(registry, r) => r \in registry.bySession[registry.runs[r].session]
    /\ \A s \in ChatSessions : \A r \in registry.bySession[s] \ moved :
          HasEntry(registry, r) /\ registry.runs[r].session = s

\* A run that one accepted send brought, and that ended after the send returned, leaves
\* nothing: when its end is queued it has no recipient of tool events and its entry is
\* finalized, so nobody joins it any more; when that end is delivered the entry is gone
\* (ChatPipeline.cpp:2276-2280, 2519-2521, 2890-2906, 3001).
EndedRunsLetGo ==
    \A r \in RunIds \ loose :
        /\ ~InFlight(r) /\ ~Alive(r)
           => /\ toolEvents[r] = {}
              /\ HasEntry(registry, r) => registry.runs[r].finalized
        /\ ~InFlight(r) /\ ~Tracked(r) => ~HasEntry(registry, r)
=============================================================================
