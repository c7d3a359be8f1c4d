--------------------- MODULE TransportRecipientsProofs ---------------------
(***************************************************************************)
(* The two tables of the registry of recipients agree, and ended runs let    *)
(* their recipients go, for any sets of runs, sessions, connections and      *)
(* threads, and any two periods of expiry.                                   *)
(***************************************************************************)
EXTENDS TransportRecipients, TLAPS

Registries == [runs : [RunIds -> RegistryEntries \cup {NoEntry}],
               bySession : [ChatSessions -> SUBSET RunIds]]

\* TablesAgree, of any registry.
Agree(reg, M) ==
    /\ \A r \in RunIds :
          HasEntry(reg, r) => r \in reg.bySession[reg.runs[r].session]
    /\ \A s \in ChatSessions : \A r \in reg.bySession[s] \ M :
          HasEntry(reg, r) /\ reg.runs[r].session = s

\* No entry comes, and none that is finalized goes on.
Shrinks(new, old) ==
    \A r \in RunIds : HasEntry(new, r) =>
        /\ HasEntry(old, r)
        /\ old.runs[r].finalized => new.runs[r].finalized

-----------------------------------------------------------------------------
(***************************************************************************)
(* The operations of the registry.                                         *)
(***************************************************************************)
LEMMA SeenFacts ==
    ASSUME NEW f \in LastSeen
    PROVE  /\ DOMAIN f \subseteq Connections
           /\ \A c \in DOMAIN f : f[c] \in Times
<1>1. PICK C \in SUBSET Connections : f \in [C -> Times]
  BY DEF LastSeen
<1> QED BY <1>1

\* A table of connections and times is one.
LEMMA SeenMade ==
    ASSUME NEW C \in SUBSET Connections, NEW f \in [C -> Times]
    PROVE  f \in LastSeen
BY DEF LastSeen

\* A connection that is seen.
LEMMA PutSeen ==
    ASSUME NEW f \in LastSeen, NEW c \in Connections, NEW t \in Times
    PROVE  Assign(f, c, t) \in LastSeen
<1> DEFINE C == {c} \cup DOMAIN f
<1>1. C \in SUBSET Connections
  BY SeenFacts
<1>2. Assign(f, c, t) \in [C -> Times]
  BY SeenFacts DEF Assign
<1> QED BY <1>1, <1>2, SeenMade

\* Connections that are dropped.
LEMMA RestrictSeen ==
    ASSUME NEW f \in LastSeen, NEW S \in SUBSET (DOMAIN f)
    PROVE  Restrict(f, S) \in LastSeen
<1>1. S \in SUBSET Connections /\ Restrict(f, S) \in [S -> Times]
  BY SeenFacts DEF Restrict
<1> QED BY <1>1, SeenMade

\* No connection.
LEMMA NoneSeen == << >> \in LastSeen
<1>1. << >> \in [{} -> Times]
  OBVIOUS
<1> QED BY <1>1, SeenMade

\* An entry keeps its session and its end when recipients leave it.
LEMMA KeepFacts ==
    ASSUME NEW e \in RegistryEntries, NEW S \in SUBSET (DOMAIN e.seen)
    PROVE  /\ Keep(e, S) \in RegistryEntries
           /\ Keep(e, S).session = e.session
           /\ Keep(e, S).finalized = e.finalized
<1>1. e.seen \in LastSeen
  BY DEF RegistryEntries
<1>2. Restrict(e.seen, S) \in LastSeen
  BY <1>1, RestrictSeen
<1> QED BY <1>2 DEF Keep, RegistryEntries

\* Runs are taken out of both tables.
LEMMA WithoutFacts ==
    ASSUME NEW reg \in Registries, NEW R \in SUBSET RunIds, NEW M
    PROVE  /\ Without(reg, R) \in Registries
           /\ Shrinks(Without(reg, R), reg)
           /\ \A r \in R : ~HasEntry(Without(reg, R), r)
           /\ Agree(reg, M) => Agree(Without(reg, R), M)
<1> DEFINE new == Without(reg, R)
<1>1. /\ new \in Registries
      /\ \A r \in RunIds : new.runs[r] = IF r \in R THEN NoEntry ELSE reg.runs[r]
      /\ \A s \in ChatSessions :
            new.bySession[s] = reg.bySession[s]
                               \ {r \in R : HasEntry(reg, r) /\ reg.runs[r].session = s}
  BY DEF Without, Registries
<1>2. \A r \in RunIds : HasEntry(reg, r) => reg.runs[r].session \in ChatSessions
  BY DEF Registries, HasEntry, RegistryEntries
<1> HIDE DEF new
<1>3. Shrinks(new, reg) /\ \A r \in R : ~HasEntry(new, r)
  BY <1>1 DEF Shrinks, HasEntry
<1>4. ASSUME Agree(reg, M) PROVE Agree(new, M)
  <2>1. ASSUME NEW r \in RunIds, HasEntry(new, r)
        PROVE  r \in new.bySession[new.runs[r].session]
    <3>1. r \notin R /\ new.runs[r] = reg.runs[r] /\ HasEntry(reg, r)
      BY <2>1, <1>1 DEF HasEntry
    <3>2. r \in reg.bySession[reg.runs[r].session]
      BY <3>1, <1>4 DEF Agree
    <3> QED BY <3>1, <3>2, <1>1, <1>2
  <2>2. ASSUME NEW s \in ChatSessions, NEW r \in new.bySession[s] \ M
        PROVE  HasEntry(new, r) /\ new.runs[r].session = s
    <3>1. r \in reg.bySession[s] \ M /\ r \in RunIds
      BY <1>1 DEF Registries
    <3>2. HasEntry(reg, r) /\ reg.runs[r].session = s
      BY <3>1, <1>4 DEF Agree
    <3>3. r \notin R
      BY <3>1, <3>2, <1>1
    <3> QED BY <3>1, <3>2, <3>3, <1>1 DEF HasEntry
  <2> QED BY <2>1, <2>2 DEF Agree
<1> QED BY <1>1, <1>3, <1>4 DEF new

\* Entries that keep their session and their end change neither agreement nor size.
LEMMA RewriteFacts ==
    ASSUME NEW reg \in Registries, NEW M,
           NEW left \in [RunIds -> RegistryEntries \cup {NoEntry}],
           \A r \in RunIds :
              /\ left[r] # NoEntry <=> HasEntry(reg, r)
              /\ HasEntry(reg, r) => /\ left[r].session = reg.runs[r].session
                                     /\ reg.runs[r].finalized => left[r].finalized
    PROVE  /\ [reg EXCEPT !.runs = left] \in Registries
           /\ Shrinks([reg EXCEPT !.runs = left], reg)
           /\ Agree(reg, M) => Agree([reg EXCEPT !.runs = left], M)
<1> DEFINE new == [reg EXCEPT !.runs = left]
<1>1. new \in Registries /\ new.runs = left /\ new.bySession = reg.bySession
  BY DEF Registries
<1> HIDE DEF new
<1>2. \A r \in RunIds : HasEntry(new, r) <=> HasEntry(reg, r)
  BY <1>1 DEF HasEntry
<1>3. Shrinks(new, reg)
  BY <1>1, <1>2 DEF Shrinks
<1>4. ASSUME Agree(reg, M) PROVE Agree(new, M)
  <2>1. \A s \in ChatSessions : reg.bySession[s] \subseteq RunIds
    BY DEF Registries
  <2> QED BY <1>1, <1>2, <1>4, <2>1 DEF Agree
<1> QED BY <1>1, <1>3, <1>4 DEF new

\* Shrinking twice is shrinking.
LEMMA ShrinksMore ==
    ASSUME NEW a, NEW b, NEW c, Shrinks(a, b), Shrinks(b, c)
    PROVE  Shrinks(a, c)
BY DEF Shrinks

\* What both prunings have in common.
LEMMA PruneFacts ==
    ASSUME NEW reg \in Registries, NEW M, NEW stay,
           NEW left,
           left = [r \in RunIds |-> IF HasEntry(reg, r) THEN Keep(reg.runs[r], stay[r])
                                    ELSE NoEntry],
           \A r \in RunIds : HasEntry(reg, r) => stay[r] \in SUBSET (DOMAIN reg.runs[r].seen),
           NEW gone \in SUBSET RunIds
    PROVE  /\ Without([reg EXCEPT !.runs = left], gone) \in Registries
           /\ Shrinks(Without([reg EXCEPT !.runs = left], gone), reg)
           /\ Agree(reg, M) => Agree(Without([reg EXCEPT !.runs = left], gone), M)
<1>1. \A r \in RunIds : HasEntry(reg, r) =>
          /\ left[r] \in RegistryEntries /\ left[r] # NoEntry
          /\ left[r].session = reg.runs[r].session
          /\ left[r].finalized = reg.runs[r].finalized
  <2> SUFFICES ASSUME NEW r \in RunIds, HasEntry(reg, r)
               PROVE  /\ left[r] \in RegistryEntries /\ left[r] # NoEntry
                      /\ left[r].session = reg.runs[r].session
                      /\ left[r].finalized = reg.runs[r].finalized
    OBVIOUS
  <2>1. left[r] = Keep(reg.runs[r], stay[r])
    OBVIOUS
  <2>2. reg.runs[r] \in RegistryEntries /\ stay[r] \in SUBSET (DOMAIN reg.runs[r].seen)
    BY DEF Registries, HasEntry
  <2> QED BY <2>1, <2>2, KeepFacts, RecipientsAssumption
<1>2. left \in [RunIds -> RegistryEntries \cup {NoEntry}]
  BY <1>1
<1>3. \A r \in RunIds : left[r] # NoEntry <=> HasEntry(reg, r)
  BY <1>1
<1> DEFINE new == [reg EXCEPT !.runs = left]
<1>4. /\ new \in Registries /\ Shrinks(new, reg)
      /\ Agree(reg, M) => Agree(new, M)
  BY <1>1, <1>2, <1>3, RewriteFacts
<1> HIDE DEF new
<1>5. /\ Without(new, gone) \in Registries /\ Shrinks(Without(new, gone), new)
      /\ Agree(new, M) => Agree(Without(new, gone), M)
  BY <1>4, WithoutFacts
<1>6. Shrinks(Without(new, gone), reg)
  BY <1>4, <1>5, ShrinksMore
<1> QED BY <1>4, <1>5, <1>6 DEF new

\* Pruning by age leaves a registry that is smaller, with its tables in agreement.
LEMMA PruneExpiredFacts ==
    ASSUME NEW reg \in Registries, NEW M, NEW t
    PROVE  /\ PruneExpired(reg, t) \in Registries /\ Shrinks(PruneExpired(reg, t), reg)
           /\ Agree(reg, M) => Agree(PruneExpired(reg, t), M)
<1> DEFINE stay == [r \in RunIds |-> Unexpired(reg.runs[r], t)]
           left == [r \in RunIds |-> IF HasEntry(reg, r)
                                     THEN Keep(reg.runs[r], stay[r]) ELSE NoEntry]
           gone == {r \in RunIds : /\ left[r] # NoEntry
                                   /\ \/ DOMAIN left[r].seen = {}
                                      \/ left[r].finalized /\ t > left[r].at + FinalizedGrace}
<1>1. \A r \in RunIds : stay[r] \in SUBSET (DOMAIN reg.runs[r].seen)
  BY DEF Unexpired
<1>2. PruneExpired(reg, t) = Without([reg EXCEPT !.runs = left], gone)
  BY DEF PruneExpired
<1>3. gone \in SUBSET RunIds
  OBVIOUS
<1> HIDE DEF stay, gone
<1>4. left = [r \in RunIds |-> IF HasEntry(reg, r) THEN Keep(reg.runs[r], stay[r])
                               ELSE NoEntry]
  OBVIOUS
<1> HIDE DEF left
<1> QED BY <1>1, <1>2, <1>3, <1>4, PruneFacts

\* So does pruning a connection that is gone.
LEMMA PruneDisconnectedFacts ==
    ASSUME NEW reg \in Registries, NEW M, NEW c
    PROVE  /\ PruneDisconnected(reg, c) \in Registries
           /\ Shrinks(PruneDisconnected(reg, c), reg)
           /\ Agree(reg, M) => Agree(PruneDisconnected(reg, c), M)
<1> DEFINE stay == [r \in RunIds |-> DOMAIN reg.runs[r].seen \ {c}]
           left == [r \in RunIds |-> IF HasEntry(reg, r)
                                     THEN Keep(reg.runs[r], stay[r]) ELSE NoEntry]
           gone == {r \in RunIds : /\ left[r] # NoEntry
                                   /\ DOMAIN left[r].seen = {} /\ left[r].finalized}
<1>1. \A r \in RunIds : stay[r] \in SUBSET (DOMAIN reg.runs[r].seen)
  OBVIOUS
<1>2. PruneDisconnected(reg, c) = Without([reg EXCEPT !.runs = left], gone)
  BY DEF PruneDisconnected
<1>3. gone \in SUBSET RunIds
  OBVIOUS
<1> HIDE DEF stay, gone
<1>4. left = [r \in RunIds |-> IF HasEntry(reg, r) THEN Keep(reg.runs[r], stay[r])
                               ELSE NoEntry]
  OBVIOUS
<1> HIDE DEF left
<1> QED BY <1>1, <1>2, <1>3, <1>4, PruneFacts

\* Finalizing adds and removes no entry.
LEMMA FinalizeFacts ==
    ASSUME NEW reg \in Registries, NEW M, NEW R, NEW t \in Times
    PROVE  /\ MarkRunFinalized(reg, R, t) \in Registries
           /\ Shrinks(MarkRunFinalized(reg, R, t), reg)
           /\ \A r \in RunIds : r \in R /\ HasEntry(MarkRunFinalized(reg, R, t), r)
                  => MarkRunFinalized(reg, R, t).runs[r].finalized
           /\ Agree(reg, M) => Agree(MarkRunFinalized(reg, R, t), M)
<1> DEFINE final(r) == [reg.runs[r] EXCEPT !.finalized = TRUE, !.at = t]
           left == [r \in RunIds |-> IF r \in R /\ HasEntry(reg, r) THEN final(r)
                                     ELSE reg.runs[r]]
<1>1. \A r \in RunIds : HasEntry(reg, r) =>
          /\ final(r) \in RegistryEntries /\ final(r).session = reg.runs[r].session
          /\ final(r).finalized
  BY DEF Registries, HasEntry, RegistryEntries
<1>2. MarkRunFinalized(reg, R, t) = [reg EXCEPT !.runs = left]
  BY DEF MarkRunFinalized
<1> HIDE DEF final
<1>3. left \in [RunIds -> RegistryEntries \cup {NoEntry}]
  BY <1>1 DEF Registries
<1>4. \A r \in RunIds :
          /\ left[r] # NoEntry <=> HasEntry(reg, r)
          /\ HasEntry(reg, r) => /\ left[r].session = reg.runs[r].session
                                 /\ reg.runs[r].finalized => left[r].finalized
                                 /\ r \in R => left[r].finalized
  BY <1>1, RecipientsAssumption DEF HasEntry
<1> HIDE DEF left
<1>5. [reg EXCEPT !.runs = left].runs = left
  BY DEF Registries
<1>6. \A r \in RunIds : HasEntry([reg EXCEPT !.runs = left], r) => HasEntry(reg, r)
  BY <1>4, <1>5 DEF HasEntry
<1> QED BY <1>2, <1>3, <1>4, <1>5, <1>6, RewriteFacts

\* A late joiner finds the runs of its session; no entry changes but for whom it names.
LEMMA LateJoinFacts ==
    ASSUME NEW reg \in Registries, NEW M, NEW s \in ChatSessions,
           NEW c \in Connections, NEW t \in Times
    PROVE  /\ RegisterLateJoin(reg, s, c, t) \in Registries
           /\ Shrinks(RegisterLateJoin(reg, s, c, t), reg)
           /\ Agree(reg, M) => Agree(RegisterLateJoin(reg, s, c, t), M)
<1> DEFINE joins(r) == [reg.runs[r] EXCEPT !.seen = Assign(@, c, t)]
           left == [r \in RunIds |-> IF r \in Joined(reg, s) THEN joins(r) ELSE reg.runs[r]]
<1>1. ASSUME NEW r \in RunIds, HasEntry(reg, r)
      PROVE  /\ joins(r) \in RegistryEntries /\ joins(r).session = reg.runs[r].session
             /\ joins(r).finalized = reg.runs[r].finalized
  <2>1. reg.runs[r] \in RegistryEntries
    BY <1>1 DEF Registries, HasEntry
  <2>2. Assign(reg.runs[r].seen, c, t) \in LastSeen
    BY <2>1, PutSeen DEF RegistryEntries
  <2> QED BY <2>1, <2>2 DEF RegistryEntries
<1>2. RegisterLateJoin(reg, s, c, t) = [reg EXCEPT !.runs = left]
  BY DEF RegisterLateJoin
<1> HIDE DEF joins
<1>3. \A r \in Joined(reg, s) : HasEntry(reg, r)
  BY DEF Joined
<1>4. left \in [RunIds -> RegistryEntries \cup {NoEntry}]
  BY <1>1, <1>3 DEF Registries
<1>5. \A r \in RunIds :
          /\ left[r] # NoEntry <=> HasEntry(reg, r)
          /\ HasEntry(reg, r) => /\ left[r].session = reg.runs[r].session
                                 /\ reg.runs[r].finalized => left[r].finalized
  BY <1>1, <1>3, RecipientsAssumption DEF HasEntry
<1> HIDE DEF left
<1> QED BY <1>2, <1>4, <1>5, RewriteFacts

\* A registered run is found under its session; under another one it may still be, and
\* then it is among M.
LEMMA RegisterFacts ==
    ASSUME NEW reg \in Registries, NEW M, NEW r \in RunIds, NEW s \in ChatSessions,
           NEW c \in Connections, NEW t \in Times
    PROVE  /\ RegisterRecipient(reg, r, s, c, t) \in Registries
           /\ \A q \in RunIds \ {r} : RegisterRecipient(reg, r, s, c, t).runs[q] = reg.runs[q]
           /\ (/\ Agree(reg, M)
               /\ \A u \in ChatSessions \ {s} : r \in reg.bySession[u] => r \in M)
              => Agree(RegisterRecipient(reg, r, s, c, t), M)
<1> DEFINE e == [session |-> s, seen |-> Assign(SeenOf(reg, r), c, t),
                 finalized |-> FALSE, at |-> 0]
           new == RegisterRecipient(reg, r, s, c, t)
<1>1. e \in RegistryEntries
  <2>1. SeenOf(reg, r) \in LastSeen
    <3>1. HasEntry(reg, r) => reg.runs[r].seen \in LastSeen
      BY DEF Registries, HasEntry, RegistryEntries
    <3> QED BY <3>1, NoneSeen DEF SeenOf
  <2>2. Assign(SeenOf(reg, r), c, t) \in LastSeen
    BY <2>1, PutSeen
  <2>3. 0 \in Times
    BY RecipientsAssumption DEF Times
  <2> QED BY <2>2, <2>3 DEF RegistryEntries
<1>2. e.session = s
  OBVIOUS
<1>3. new = [runs |-> [reg.runs EXCEPT ![r] = e],
             bySession |-> [reg.bySession EXCEPT ![s] = @ \cup {r}]]
  BY DEF RegisterRecipient
<1> HIDE DEF e, new
<1>4. /\ new \in Registries
      /\ new.runs[r] = e /\ \A q \in RunIds \ {r} : new.runs[q] = reg.runs[q]
      /\ new.bySession[s] = reg.bySession[s] \cup {r}
      /\ \A u \in ChatSessions \ {s} : new.bySession[u] = reg.bySession[u]
  BY <1>1, <1>3 DEF Registries
<1>5. ASSUME Agree(reg, M), \A u \in ChatSessions \ {s} : r \in reg.bySession[u] => r \in M
      PROVE  Agree(new, M)
  <2>1. e # NoEntry
    BY <1>1, RecipientsAssumption
  <2>2. ASSUME NEW q \in RunIds, HasEntry(new, q)
        PROVE  q \in new.bySession[new.runs[q].session]
    <3>1. CASE q = r
      BY <3>1, <1>2, <1>4
    <3>2. CASE q # r
      <4>1. HasEntry(reg, q) /\ new.runs[q] = reg.runs[q]
        BY <3>2, <2>2, <1>4 DEF HasEntry
      <4>2. q \in reg.bySession[reg.runs[q].session]
        BY <4>1, <1>5 DEF Agree
      <4>3. reg.runs[q].session \in ChatSessions
        BY <4>1 DEF Registries, HasEntry, RegistryEntries
      <4> QED BY <4>1, <4>2, <4>3, <1>4
    <3> QED BY <3>1, <3>2
  <2>3. ASSUME NEW u \in ChatSessions, NEW q \in new.bySession[u] \ M
        PROVE  HasEntry(new, q) /\ new.runs[q].session = u
    <3>1. q \in RunIds
      BY <1>4 DEF Registries
    <3>2. CASE q = r
      <4>1. u = s
        BY <3>2, <2>3, <1>4, <1>5
      <4> QED BY <4>1, <3>2, <2>1, <1>2, <1>4 DEF HasEntry
    <3>3. CASE q # r
      <4>1. q \in reg.bySession[u] \ M
        BY <3>3, <2>3, <1>4
      <4>2. HasEntry(reg, q) /\ reg.runs[q].session = u
        BY <4>1, <1>5 DEF Agree
      <4> QED BY <4>2, <3>1, <3>3, <1>4 DEF HasEntry
    <3> QED BY <3>2, <3>3
  <2> QED BY <2>2, <2>3 DEF Agree
<1> QED BY <1>4, <1>5 DEF new
-----------------------------------------------------------------------------
(***************************************************************************)
(* The invariant.  That an ended run has let go depends on how it came to    *)
(* its end: unless it is loose, it had one send, was not tracked before that *)
(* send tracked it, and its end was queued once, after the send returned.    *)
(***************************************************************************)
TablesOK == Agree(registry, moved)

OneSend(r) ==
    \A t, u \in Sends : /\ sending[t] # NoSend /\ sending[t].run = r
                        /\ sending[u] # NoSend /\ sending[u].run = r
                        => t = u

TrackedBySend(r) ==
    \A t \in Sends : sending[t] # NoSend /\ sending[t].run = r /\ ~sending[t].runtime
                     => ~Tracked(r)

LetGo(r) ==
    /\ ~InFlight(r) /\ ~Alive(r)
       => /\ toolEvents[r] = {}
          /\ HasEntry(registry, r) => registry.runs[r].finalized
    /\ ~InFlight(r) /\ ~Tracked(r) => ~HasEntry(registry, r)

EndsOnce ==
    \A r \in ends : Tracked(r) /\ (r \notin loose => ~Alive(r) /\ ~InFlight(r))

LivesOK == \A r \in RunIds \ loose : OneSend(r) /\ TrackedBySend(r) /\ LetGo(r)

RecipientsInv == RecipientsTypeOK /\ TablesOK /\ EndsOnce /\ LivesOK

\* At the start there are no runs and no recipients.
LEMMA RecipientsInitially == RecipientsInit => RecipientsInv
<1> SUFFICES ASSUME RecipientsInit PROVE RecipientsInv
  OBVIOUS
<1> USE DEF RecipientsInit
<1>1. RecipientsTypeOK
  BY RecipientsAssumption DEF RecipientsTypeOK, Times
<1>2. TablesOK
  BY DEF TablesOK, Agree, HasEntry
<1>3. EndsOnce
  BY DEF EndsOnce
<1>4. LivesOK
  BY DEF LivesOK, OneSend, TrackedBySend, LetGo, HasEntry
<1> QED BY <1>1, <1>2, <1>3, <1>4 DEF RecipientsInv

\* A grant gives entries and recipients to the run it is about, and recipients to runs
\* that are active; who else had let go still has.
LEMMA ReceiveFacts ==
    ASSUME RecipientsInv, NEW r \in RunIds, NEW s \in ChatSessions, NEW c \in Connections,
           Receive(r, s, c)
    PROVE  /\ registry' \in Registries /\ TablesOK'
           /\ toolEvents' \in [RunIds -> SUBSET Connections] /\ moved' \subseteq RunIds
           /\ \A q \in RunIds \ {r} :
                 /\ ~Alive(q) => toolEvents'[q] = toolEvents[q]
                 /\ HasEntry(registry', q) =>
                       /\ HasEntry(registry, q)
                       /\ registry.runs[q].finalized => registry'.runs[q].finalized
<1>0. /\ registry \in Registries /\ TablesOK /\ instant \in Times
      /\ toolEvents \in [RunIds -> SUBSET Connections] /\ moved \subseteq RunIds
  BY DEF RecipientsInv, RecipientsTypeOK, Registries
<1>1. CASE UNCHANGED <<registry, toolEvents, moved>>
  BY <1>0, <1>1 DEF TablesOK
<1>2. CASE Grant(r, s, c)
  <2> DEFINE a == RegisterRecipient(registry, r, s, c, instant)
             b == RegisterLateJoin(a, s, c, instant)
             d == PruneExpired(b, instant)
  <2>1. registry' = d
    BY <1>2 DEF Grant
  <2>2. /\ moved \subseteq moved' /\ moved' \subseteq RunIds
        /\ \A u \in ChatSessions \ {s} : r \in registry.bySession[u] => r \in moved'
    BY <1>0, <1>2 DEF Grant
  <2>3. Agree(registry, moved')
    BY <1>0, <2>2 DEF TablesOK, Agree
  <2>4. /\ a \in Registries /\ Agree(a, moved')
        /\ \A q \in RunIds \ {r} : a.runs[q] = registry.runs[q]
    BY <1>0, <2>2, <2>3, RegisterFacts
  <2> HIDE DEF a
  <2>5. b \in Registries /\ Shrinks(b, a) /\ Agree(b, moved')
    BY <1>0, <2>4, LateJoinFacts
  <2> HIDE DEF b
  <2>6. d \in Registries /\ Shrinks(d, b) /\ Agree(d, moved')
    BY <2>5, PruneExpiredFacts
  <2>7. Shrinks(d, a)
    BY <2>5, <2>6, ShrinksMore
  <2> HIDE DEF d
  <2>8. \A q \in RunIds \ {r} : HasEntry(registry', q) =>
            /\ HasEntry(registry, q)
            /\ registry.runs[q].finalized => registry'.runs[q].finalized
    BY <2>1, <2>4, <2>7 DEF Shrinks, HasEntry
  <2>9. /\ toolEvents' \in [RunIds -> SUBSET Connections]
        /\ \A q \in RunIds \ {r} : ~Alive(q) => toolEvents'[q] = toolEvents[q]
    BY <1>0, <1>2 DEF Grant, RunningIn
  <2>10. TablesOK'
    BY <2>1, <2>6 DEF TablesOK
  <2> QED BY <2>1, <2>2, <2>6, <2>8, <2>9, <2>10
<1> QED BY <1>1, <1>2 DEF Receive

\* The entries of ended runs are final, their recipients gone.
LEMMA FinalizedFacts ==
    ASSUME RecipientsInv, NEW R \in SUBSET RunIds, NEW t \in Times
    PROVE  /\ Finalized(R, t) \in Registries /\ Shrinks(Finalized(R, t), registry)
           /\ Agree(Finalized(R, t), moved)
           /\ \A r \in R : HasEntry(Finalized(R, t), r) => Finalized(R, t).runs[r].finalized
<1>0. /\ registry \in Registries /\ Agree(registry, moved)
  BY DEF RecipientsInv, RecipientsTypeOK, Registries, TablesOK
<1>1. CASE R = {}
  BY <1>0, <1>1 DEF Shrinks, Finalized
<1>2. CASE R # {}
  <2> DEFINE a == MarkRunFinalized(registry, R, t)
             b == PruneExpired(a, t)
  <2>1. Finalized(R, t) = b
    BY <1>2 DEF Finalized
  <2>2. /\ a \in Registries /\ Shrinks(a, registry) /\ Agree(a, moved)
        /\ \A r \in RunIds : r \in R /\ HasEntry(a, r) => a.runs[r].finalized
    BY <1>0, FinalizeFacts
  <2> HIDE DEF a
  <2>3. b \in Registries /\ Shrinks(b, a) /\ Agree(b, moved)
    BY <2>2, PruneExpiredFacts
  <2>4. Shrinks(b, registry)
    BY <2>2, <2>3, ShrinksMore
  <2> HIDE DEF b
  <2>5. \A r \in R : HasEntry(b, r) => b.runs[r].finalized
    BY <2>2, <2>3 DEF Shrinks
  <2> QED BY <2>1, <2>3, <2>4, <2>5
<1> QED BY <1>1, <1>2

\* The runs that are forgotten have no recipients, the others keep theirs.
LEMMA ForgetFacts ==
    ASSUME RecipientsInv, NEW R \in SUBSET RunIds, toolEvents' = ForgetToolEvents(R)
    PROVE  /\ toolEvents' \in [RunIds -> SUBSET Connections]
           /\ \A r \in R : toolEvents'[r] = {}
           /\ \A r \in RunIds \ R : toolEvents'[r] = toolEvents[r]
BY DEF RecipientsInv, RecipientsTypeOK, ForgetToolEvents

\* A run that let go before, about which nothing but its recipients and its entry
\* changed, still does.
LEMMA StillLetGo ==
    ASSUME NEW r \in RunIds, LetGo(r),
           InFlight(r)' => InFlight(r), InFlight(r) => InFlight(r)',
           (Tracked(r)' <=> Tracked(r)), (Alive(r)' <=> Alive(r)),
           ~Alive(r) /\ toolEvents[r] = {} => toolEvents'[r] = {},
           HasEntry(registry', r) => /\ HasEntry(registry, r)
                                     /\ registry.runs[r].finalized => registry'.runs[r].finalized
    PROVE  LetGo(r)'
BY DEF LetGo

\* A send that is refused.
LEMMA RefusedStep ==
    ASSUME RecipientsInv, NEW r \in RunIds, NEW s \in ChatSessions, NEW c \in Connections,
           SendRefused(r, s, c)
    PROVE  RecipientsInv'
<1>1. /\ registry' \in Registries /\ TablesOK'
      /\ toolEvents' \in [RunIds -> SUBSET Connections] /\ moved' \subseteq RunIds
      /\ \A q \in RunIds \ {r} :
            /\ ~Alive(q) => toolEvents'[q] = toolEvents[q]
            /\ HasEntry(registry', q) =>
                  /\ HasEntry(registry, q)
                  /\ registry.runs[q].finalized => registry'.runs[q].finalized
  <2>1. Receive(r, s, c)
    BY DEF SendRefused
  <2> QED BY <2>1, ReceiveFacts
<1>2. /\ loose' = loose \cup {r}
      /\ UNCHANGED <<chatRuns, ends, sending, instant>>
  BY DEF SendRefused
<1>3. RecipientsTypeOK'
  BY <1>1, <1>2 DEF RecipientsInv, RecipientsTypeOK, Registries
<1>4. \A q \in RunIds : /\ (Tracked(q)' <=> Tracked(q)) /\ (Alive(q)' <=> Alive(q))
                        /\ (InFlight(q)' <=> InFlight(q))
  BY <1>2 DEF Tracked, Alive, InFlight
<1>5. EndsOnce'
  BY <1>2, <1>4 DEF RecipientsInv, RecipientsTypeOK, EndsOnce
<1>6. ASSUME NEW q \in RunIds \ loose'
      PROVE  OneSend(q)' /\ TrackedBySend(q)' /\ LetGo(q)'
  <2>1. q \in RunIds \ loose /\ q # r
    BY <1>2
  <2>2. OneSend(q) /\ TrackedBySend(q) /\ LetGo(q)
    BY <2>1 DEF RecipientsInv, LivesOK
  <2>3. OneSend(q)' /\ TrackedBySend(q)'
    BY <2>2, <1>2, <1>4 DEF OneSend, TrackedBySend
  <2>4. LetGo(q)'
    BY <2>1, <2>2, <1>1, <1>4, StillLetGo
  <2> QED BY <2>3, <2>4
<1> QED BY <1>1, <1>3, <1>5, <1>6 DEF RecipientsInv, LivesOK

\* A send that is accepted.
LEMMA BeginsStep ==
    ASSUME RecipientsInv, NEW t \in Sends, NEW r \in RunIds, NEW s \in ChatSessions,
           NEW c \in Connections, NEW runtime \in BOOLEAN, SendBegins(t, r, s, c, runtime)
    PROVE  RecipientsInv'
<1>1. /\ registry' \in Registries /\ TablesOK'
      /\ toolEvents' \in [RunIds -> SUBSET Connections] /\ moved' \subseteq RunIds
      /\ \A q \in RunIds \ {r} :
            /\ ~Alive(q) => toolEvents'[q] = toolEvents[q]
            /\ HasEntry(registry', q) =>
                  /\ HasEntry(registry, q)
                  /\ registry.runs[q].finalized => registry'.runs[q].finalized
  <2>1. Receive(r, s, c)
    BY DEF SendBegins
  <2> QED BY <2>1, ReceiveFacts
<1> DEFINE send == [run |-> r, session |-> s, runtime |-> runtime, at |-> instant]
           run == [session |-> s, active |-> TRUE, ended |-> FALSE]
<1>2. /\ sending[t] = NoSend /\ sending' = [sending EXCEPT ![t] = send]
      /\ chatRuns' = IF runtime THEN [chatRuns EXCEPT ![r] = run] ELSE chatRuns
      /\ loose' = IF Tracked(r) \/ InFlight(r) THEN loose \cup {r} ELSE loose
      /\ UNCHANGED <<ends, instant>>
  BY DEF SendBegins
<1>3. /\ send \in Send /\ send # NoSend /\ send.run = r /\ send.runtime = runtime
      /\ run \in Run /\ run # NoRun /\ run.active
  <2>1. send \in Send /\ send.run = r /\ send.runtime = runtime
    BY DEF Send, RecipientsInv, RecipientsTypeOK
  <2>2. run \in Run /\ run.active
    BY DEF Run
  <2> HIDE DEF send, run
  <2> QED BY <2>1, <2>2, RecipientsAssumption
<1> HIDE DEF send, run
<1>4. RecipientsTypeOK'
  BY <1>1, <1>2, <1>3 DEF RecipientsInv, RecipientsTypeOK, Registries
<1>5. /\ sending'[t] = send /\ \A u \in Sends \ {t} : sending'[u] = sending[u]
      /\ \A q \in RunIds \ {r} : chatRuns'[q] = chatRuns[q]
      /\ chatRuns'[r] = IF runtime THEN run ELSE chatRuns[r]
  BY <1>2 DEF RecipientsInv, RecipientsTypeOK
<1>6. /\ \A q \in RunIds \ {r} : /\ (Tracked(q)' <=> Tracked(q)) /\ (Alive(q)' <=> Alive(q))
                                 /\ (InFlight(q)' <=> InFlight(q))
      /\ InFlight(r)'
      /\ (Tracked(r) => Tracked(r)') /\ (~runtime => (Tracked(r)' <=> Tracked(r)))
  BY <1>2, <1>3, <1>5 DEF Tracked, Alive, InFlight
<1>7. EndsOnce'
  <2> SUFFICES ASSUME NEW q \in ends'
               PROVE  Tracked(q)' /\ (q \notin loose' => ~Alive(q)' /\ ~InFlight(q)')
    BY DEF EndsOnce
  <2>1. q \in RunIds /\ Tracked(q) /\ (q \notin loose => ~Alive(q) /\ ~InFlight(q))
    BY <1>2 DEF RecipientsInv, RecipientsTypeOK, EndsOnce
  <2>2. CASE q = r
    BY <2>1, <2>2, <1>2, <1>6
  <2>3. CASE q # r
    BY <2>1, <2>3, <1>2, <1>6
  <2> QED BY <2>2, <2>3
<1>8. ASSUME NEW q \in RunIds \ loose'
      PROVE  OneSend(q)' /\ TrackedBySend(q)' /\ LetGo(q)'
  <2>1. q \in RunIds \ loose
    BY <1>2
  <2>2. OneSend(q) /\ TrackedBySend(q) /\ LetGo(q)
    BY <2>1 DEF RecipientsInv, LivesOK
  <2>3. CASE q # r
    <3>1. OneSend(q)' /\ TrackedBySend(q)'
      BY <2>2, <2>3, <1>3, <1>5, <1>6 DEF OneSend, TrackedBySend
    <3>2. LetGo(q)'
      BY <2>2, <2>3, <1>1, <1>6, StillLetGo
    <3> QED BY <3>1, <3>2
  <2>4. CASE q = r
    <3>1. ~Tracked(r) /\ ~InFlight(r)
      BY <2>4, <1>2
    <3>2. OneSend(r)'
      BY <3>1, <1>5 DEF OneSend, InFlight
    <3>3. TrackedBySend(r)'
      BY <3>1, <1>3, <1>5, <1>6 DEF TrackedBySend, InFlight
    <3>4. LetGo(r)'
      BY <1>6 DEF LetGo
    <3> QED BY <2>4, <3>2, <3>3, <3>4
  <2> QED BY <2>3, <2>4
<1> QED BY <1>1, <1>4, <1>7, <1>8 DEF RecipientsInv, LivesOK

\* A send that returns.
LEMMA EndsStep ==
    ASSUME RecipientsInv, NEW t \in Sends, NEW complete \in BOOLEAN, SendEnds(t, complete)
    PROVE  RecipientsInv'
<1>1. PICK send \in Send : send = sending[t] /\ send # NoSend
  BY DEF SendEnds, RecipientsInv, RecipientsTypeOK
<1>r. PICK r \in RunIds : r = send.run
  BY DEF Send
<1>g. PICK run, gone : run = Answered(send) /\ gone = [run EXCEPT !.active = FALSE, !.ended = TRUE]
  OBVIOUS
<1>2. /\ run \in Run /\ run # NoRun
      /\ ~Tracked(r) \/ send.runtime => run.active
      /\ gone \in Run /\ gone # NoRun /\ ~gone.active
  <2>1. chatRuns[r] \in Run \cup {NoRun}
    BY DEF RecipientsInv, RecipientsTypeOK
  <2>2. run \in Run /\ (~Tracked(r) \/ send.runtime => run.active)
    <3>1. CASE ~Tracked(r)
      BY <3>1, <1>r, <1>g DEF Answered, Run, Send
    <3>2. CASE Tracked(r) /\ send.runtime
      BY <3>2, <2>1, <1>r, <1>g DEF Answered, Run, Tracked
    <3>3. CASE Tracked(r) /\ ~send.runtime
      BY <3>3, <2>1, <1>r, <1>g DEF Answered, Tracked
    <3> QED BY <3>1, <3>2, <3>3
  <2>3. gone \in Run /\ ~gone.active
    BY <2>2, <1>g DEF Run
  <2> QED BY <2>2, <2>3, RecipientsAssumption
<1>3. /\ sending' = [sending EXCEPT ![t] = NoSend] /\ UNCHANGED <<instant, moved>>
      /\ \/ /\ chatRuns' = [chatRuns EXCEPT ![r] = gone]
            /\ ends' = ends \cup {r} /\ registry' = Finalized({r}, send.at)
            /\ toolEvents' = ForgetToolEvents({r})
            /\ loose' = IF \E u \in Sends \ {t} : sending[u] # NoSend /\ sending[u].run = r
                        THEN loose \cup {r} ELSE loose
         \/ /\ chatRuns' = [chatRuns EXCEPT ![r] = run]
            /\ UNCHANGED <<registry, toolEvents, ends, loose>>
  BY <1>1, <1>r, <1>g DEF SendEnds
<1>4. /\ Finalized({r}, send.at) \in Registries /\ Shrinks(Finalized({r}, send.at), registry)
      /\ Agree(Finalized({r}, send.at), moved)
      /\ HasEntry(Finalized({r}, send.at), r) => Finalized({r}, send.at).runs[r].finalized
  <2>1. {r} \in SUBSET RunIds /\ r \in {r} /\ send.at \in Times
    BY DEF Send
  <2> QED BY <2>1, FinalizedFacts
<1>5. toolEvents' = ForgetToolEvents({r}) =>
          /\ toolEvents' \in [RunIds -> SUBSET Connections] /\ toolEvents'[r] = {}
          /\ \A q \in RunIds \ {r} : toolEvents'[q] = toolEvents[q]
  <2>1. {r} \in SUBSET RunIds /\ r \in {r}
    OBVIOUS
  <2> QED BY <2>1, ForgetFacts
<1>6. InFlight(r)
  BY <1>1, <1>r DEF InFlight
<1>7. /\ sending'[t] = NoSend /\ \A u \in Sends \ {t} : sending'[u] = sending[u]
      /\ \A q \in RunIds \ {r} : chatRuns'[q] = chatRuns[q]
      /\ chatRuns'[r] \in {run, gone}
  BY <1>3, <1>6 DEF RecipientsInv, RecipientsTypeOK
<1>8. RecipientsTypeOK'
  <2>1. sending' \in [Sends -> Send \cup {NoSend}] /\ instant' \in Times /\ moved' \subseteq RunIds
    BY <1>3 DEF RecipientsInv, RecipientsTypeOK
  <2>2. chatRuns' \in [RunIds -> Run \cup {NoRun}]
    BY <1>2, <1>3 DEF RecipientsInv, RecipientsTypeOK
  <2>3. ends' \subseteq RunIds /\ loose' \subseteq RunIds
    BY <1>3 DEF RecipientsInv, RecipientsTypeOK
  <2>4. registry' \in Registries /\ toolEvents' \in [RunIds -> SUBSET Connections]
    BY <1>3, <1>4, <1>5 DEF RecipientsInv, RecipientsTypeOK, Registries
  <2> QED BY <2>1, <2>2, <2>3, <2>4 DEF RecipientsTypeOK, Registries
<1>9. TablesOK'
  BY <1>3, <1>4 DEF RecipientsInv, TablesOK
<1>10. /\ \A q \in RunIds \ {r} : /\ (Tracked(q)' <=> Tracked(q)) /\ (Alive(q)' <=> Alive(q))
                                  /\ (InFlight(q)' <=> InFlight(q))
       /\ Tracked(r)'
       /\ chatRuns'[r] = gone => ~Alive(r)'
       /\ chatRuns'[r] = run /\ run.active => Alive(r)'
  <2>1. r = sending[t].run
    BY <1>1, <1>r
  <2>2. \A q \in RunIds \ {r} : (Tracked(q)' <=> Tracked(q)) /\ (Alive(q)' <=> Alive(q))
    BY <1>7 DEF Tracked, Alive
  <2>3. \A q \in RunIds \ {r} : InFlight(q)' <=> InFlight(q)
    BY <2>1, <1>7 DEF InFlight
  <2>4. Tracked(r)' /\ (chatRuns'[r] = gone => ~Alive(r)')
        /\ (chatRuns'[r] = run /\ run.active => Alive(r)')
    BY <1>2, <1>7 DEF Tracked, Alive
  <2> QED BY <2>2, <2>3, <2>4
<1>11. EndsOnce'
  <2> SUFFICES ASSUME NEW q \in ends'
               PROVE  Tracked(q)' /\ (q \notin loose' => ~Alive(q)' /\ ~InFlight(q)')
    BY DEF EndsOnce
  <2>1. CASE q # r
    <3>1. q \in ends /\ q \in RunIds
      BY <2>1, <1>3 DEF RecipientsInv, RecipientsTypeOK
    <3>2. Tracked(q) /\ (q \notin loose => ~Alive(q) /\ ~InFlight(q))
      BY <3>1 DEF RecipientsInv, EndsOnce
    <3>3. loose \subseteq loose'
      BY <1>3
    <3> QED BY <2>1, <3>1, <3>2, <3>3, <1>10
  <2>2. CASE q = r
    <3>1. ASSUME r \notin loose' PROVE ~Alive(r)' /\ ~InFlight(r)'
      <4>1. r \notin ends
        BY <3>1, <1>3, <1>6 DEF RecipientsInv, EndsOnce
      <4>2. /\ chatRuns'[r] = gone
            /\ ~\E u \in Sends \ {t} : sending[u] # NoSend /\ sending[u].run = r
        BY <4>1, <3>1, <2>2, <1>3, <1>6 DEF RecipientsInv, RecipientsTypeOK
      <4> QED BY <4>2, <1>7, <1>10 DEF InFlight
    <3> QED BY <2>2, <3>1, <1>10
  <2> QED BY <2>1, <2>2
<1>12. ASSUME NEW q \in RunIds \ loose'
       PROVE  OneSend(q)' /\ TrackedBySend(q)' /\ LetGo(q)'
  <2>1. q \in RunIds \ loose
    BY <1>3
  <2>2. OneSend(q) /\ TrackedBySend(q) /\ LetGo(q)
    BY <2>1 DEF RecipientsInv, LivesOK
  <2>3. OneSend(q)'
    BY <2>2, <1>7 DEF OneSend
  <2>4. CASE q # r
    <3>1. TrackedBySend(q)'
      BY <2>2, <2>4, <1>7, <1>10 DEF TrackedBySend
    <3>2. HasEntry(registry', q) => /\ HasEntry(registry, q)
                                    /\ registry.runs[q].finalized => registry'.runs[q].finalized
      BY <1>3, <1>4 DEF Shrinks
    <3>3. toolEvents'[q] = toolEvents[q]
      BY <2>4, <1>3, <1>5
    <3>4. LetGo(q)'
      BY <2>2, <2>4, <3>2, <3>3, <1>10, StillLetGo
    <3> QED BY <2>3, <3>1, <3>4
  <2>5. CASE q = r
    <3>1. \A u \in Sends \ {t} : ~(sending[u] # NoSend /\ sending[u].run = r)
      <4>1. sending[t] # NoSend /\ sending[t].run = r
        BY <1>1, <1>r
      <4> QED BY <4>1, <2>2, <2>5 DEF OneSend
    <3>2. ~InFlight(r)' /\ TrackedBySend(r)'
      BY <3>1, <1>7 DEF InFlight, TrackedBySend
    <3>3. LetGo(r)'
      <4>1. CASE registry' = Finalized({r}, send.at) /\ toolEvents' = ForgetToolEvents({r})
        <5>1. toolEvents'[r] = {}
          BY <4>1, <1>5
        <5>2. HasEntry(registry', r) => registry'.runs[r].finalized
          BY <4>1, <1>4
        <5> QED BY <5>1, <5>2, <1>10 DEF LetGo
      <4>2. CASE chatRuns' = [chatRuns EXCEPT ![r] = run]
        <5>1. ~Tracked(r) \/ send.runtime
          BY <2>2, <2>5, <1>1, <1>r DEF TrackedBySend
        <5>2. chatRuns'[r] = run
          BY <4>2 DEF RecipientsInv, RecipientsTypeOK
        <5>3. Alive(r)' /\ Tracked(r)'
          BY <5>1, <5>2, <1>2, <1>10
        <5> QED BY <5>3 DEF LetGo
      <4> QED BY <4>1, <4>2, <1>3
    <3> QED BY <2>3, <2>5, <3>2, <3>3
  <2> QED BY <2>4, <2>5
<1> QED BY <1>8, <1>9, <1>11, <1>12 DEF RecipientsInv, LivesOK

\* An abort.
LEMMA AbortStep ==
    ASSUME RecipientsInv, NEW r \in RunIds, NEW named \in BOOLEAN, Abort(r, named)
    PROVE  RecipientsInv'
<1>1. PICK gone : gone = [chatRuns[r] EXCEPT !.active = FALSE, !.ended = TRUE]
  OBVIOUS
<1>2. /\ Tracked(r) /\ chatRuns' = [chatRuns EXCEPT ![r] = gone]
      /\ ends' = ends \cup {r} /\ registry' = Finalized({r}, instant)
      /\ toolEvents' = ForgetToolEvents({r})
      /\ loose' = IF InFlight(r) THEN loose \cup {r} ELSE loose
      /\ UNCHANGED <<sending, instant, moved>>
  BY <1>1 DEF Abort
<1>3. gone \in Run /\ gone # NoRun /\ ~gone.active
  <2>1. chatRuns[r] \in Run
    BY <1>2 DEF RecipientsInv, RecipientsTypeOK, Tracked
  <2>2. gone \in Run /\ ~gone.active
    BY <2>1, <1>1 DEF Run
  <2> QED BY <2>2, RecipientsAssumption
<1>4. {r} \in SUBSET RunIds /\ r \in {r}
  OBVIOUS
<1>5. /\ registry' \in Registries /\ Shrinks(registry', registry)
      /\ Agree(registry', moved)
      /\ HasEntry(registry', r) => registry'.runs[r].finalized
  <2>1. instant \in Times
    BY DEF RecipientsInv, RecipientsTypeOK
  <2> QED BY <2>1, <1>2, <1>4, FinalizedFacts
<1>6. /\ toolEvents' \in [RunIds -> SUBSET Connections] /\ toolEvents'[r] = {}
      /\ \A q \in RunIds \ {r} : toolEvents'[q] = toolEvents[q]
  BY <1>2, <1>4, ForgetFacts
<1>7. RecipientsTypeOK'
  <2>1. sending' \in [Sends -> Send \cup {NoSend}] /\ instant' \in Times /\ moved' \subseteq RunIds
    BY <1>2 DEF RecipientsInv, RecipientsTypeOK
  <2>2. chatRuns' \in [RunIds -> Run \cup {NoRun}]
    BY <1>2, <1>3 DEF RecipientsInv, RecipientsTypeOK
  <2>3. ends' \subseteq RunIds /\ loose' \subseteq RunIds
    BY <1>2 DEF RecipientsInv, RecipientsTypeOK
  <2> QED BY <2>1, <2>2, <2>3, <1>5, <1>6 DEF RecipientsTypeOK, Registries
<1>8. TablesOK'
  BY <1>2, <1>5 DEF TablesOK
<1>9. /\ \A q \in RunIds : (Tracked(q)' <=> Tracked(q)) /\ (InFlight(q)' <=> InFlight(q))
      /\ \A q \in RunIds \ {r} : Alive(q)' <=> Alive(q)
      /\ ~Alive(r)'
  <2>1. chatRuns'[r] = gone /\ \A q \in RunIds \ {r} : chatRuns'[q] = chatRuns[q]
    BY <1>2 DEF RecipientsInv, RecipientsTypeOK
  <2>2. \A q \in RunIds : InFlight(q)' <=> InFlight(q)
    BY <1>2 DEF InFlight
  <2>3. \A q \in RunIds : Tracked(q)' <=> Tracked(q)
    BY <2>1, <1>2, <1>3 DEF Tracked
  <2>4. ~Alive(r)' /\ \A q \in RunIds \ {r} : Alive(q)' <=> Alive(q)
    BY <2>1, <1>3 DEF Alive, Tracked
  <2> QED BY <2>2, <2>3, <2>4
<1>10. EndsOnce'
  <2> SUFFICES ASSUME NEW q \in ends'
               PROVE  Tracked(q)' /\ (q \notin loose' => ~Alive(q)' /\ ~InFlight(q)')
    BY DEF EndsOnce
  <2>1. CASE q # r
    <3>1. q \in ends /\ q \in RunIds
      BY <2>1, <1>2 DEF RecipientsInv, RecipientsTypeOK
    <3>2. Tracked(q) /\ (q \notin loose => ~Alive(q) /\ ~InFlight(q))
      BY <3>1 DEF RecipientsInv, EndsOnce
    <3> QED BY <2>1, <3>1, <3>2, <1>2, <1>9
  <2>2. CASE q = r
    BY <2>2, <1>2, <1>9
  <2> QED BY <2>1, <2>2
<1>11. ASSUME NEW q \in RunIds \ loose'
       PROVE  OneSend(q)' /\ TrackedBySend(q)' /\ LetGo(q)'
  <2>1. q \in RunIds \ loose
    BY <1>2
  <2>2. OneSend(q) /\ TrackedBySend(q) /\ LetGo(q)
    BY <2>1 DEF RecipientsInv, LivesOK
  <2>3. OneSend(q)' /\ TrackedBySend(q)'
    BY <2>2, <1>2, <1>9 DEF OneSend, TrackedBySend
  <2>4. LetGo(q)'
    <3>1. CASE q # r
      <4>1. HasEntry(registry', q) => /\ HasEntry(registry, q)
                                      /\ registry.runs[q].finalized => registry'.runs[q].finalized
        BY <1>5 DEF Shrinks
      <4> QED BY <2>2, <3>1, <4>1, <1>6, <1>9, StillLetGo
    <3>2. CASE q = r
      BY <3>2, <1>2, <1>5, <1>6, <1>9 DEF LetGo
    <3> QED BY <3>1, <3>2
  <2> QED BY <2>3, <2>4
<1> QED BY <1>7, <1>8, <1>10, <1>11 DEF RecipientsInv, LivesOK

\* A delivered end that this poll did not make was made before, when its send had returned.
LEMMA PollStep ==
    ASSUME RecipientsInv, NEW s \in ChatSessions, NEW R \in SUBSET RunIds,
           NEW D \in SUBSET RunIds, Poll(s, R, D)
    PROVE  RecipientsInv'
<1>1. /\ R \subseteq RunningIn(s) /\ D \subseteq ends \cup R
      /\ registry' = Without(Finalized(R, instant), D)
      /\ toolEvents' = ForgetToolEvents(R)
      /\ chatRuns' = [r \in RunIds |->
                         IF r \in D THEN NoRun
                         ELSE IF r \in R THEN [chatRuns[r] EXCEPT !.active = FALSE, !.ended = TRUE]
                         ELSE chatRuns[r]]
      /\ ends' = (ends \cup R) \ D
      /\ loose' = loose \cup {r \in R \cup D : InFlight(r)}
      /\ UNCHANGED <<sending, instant, moved>>
  BY DEF Poll
<1>2. \A r \in R : Alive(r) /\ Tracked(r)
  BY <1>1 DEF RunningIn, Alive
<1>3. \A r \in R \ D : chatRuns'[r] \in Run /\ chatRuns'[r] # NoRun /\ ~chatRuns'[r].active
  <2> SUFFICES ASSUME NEW r \in R \ D
               PROVE  chatRuns'[r] \in Run /\ chatRuns'[r] # NoRun /\ ~chatRuns'[r].active
    OBVIOUS
  <2>1. chatRuns[r] \in Run
    BY <1>2 DEF RecipientsInv, RecipientsTypeOK, Tracked
  <2>2. chatRuns'[r] = [chatRuns[r] EXCEPT !.active = FALSE, !.ended = TRUE]
    BY <1>1
  <2>3. chatRuns'[r] \in Run /\ ~chatRuns'[r].active
    BY <2>1, <2>2 DEF Run
  <2> QED BY <2>3, RecipientsAssumption
<1>4. /\ Finalized(R, instant) \in Registries /\ Shrinks(Finalized(R, instant), registry)
      /\ Agree(Finalized(R, instant), moved)
      /\ \A r \in R : HasEntry(Finalized(R, instant), r) => Finalized(R, instant).runs[r].finalized
  <2>1. instant \in Times
    BY DEF RecipientsInv, RecipientsTypeOK
  <2> QED BY <2>1, FinalizedFacts
<1>5. /\ registry' \in Registries /\ Shrinks(registry', Finalized(R, instant))
      /\ \A r \in D : ~HasEntry(registry', r)
      /\ Agree(registry', moved)
  BY <1>1, <1>4, WithoutFacts
<1>6. /\ Shrinks(registry', registry)
      /\ \A r \in R : HasEntry(registry', r) => registry'.runs[r].finalized
  <2>1. Shrinks(registry', registry)
    BY <1>4, <1>5, ShrinksMore
  <2>2. \A r \in R : HasEntry(registry', r) => registry'.runs[r].finalized
    BY <1>4, <1>5 DEF Shrinks
  <2> QED BY <2>1, <2>2
<1>7. /\ toolEvents' \in [RunIds -> SUBSET Connections]
      /\ \A r \in R : toolEvents'[r] = {}
      /\ \A r \in RunIds \ R : toolEvents'[r] = toolEvents[r]
  BY <1>1, ForgetFacts
<1>8. RecipientsTypeOK'
  <2>1. sending' \in [Sends -> Send \cup {NoSend}] /\ instant' \in Times /\ moved' \subseteq RunIds
    BY <1>1 DEF RecipientsInv, RecipientsTypeOK
  <2>2. chatRuns' \in [RunIds -> Run \cup {NoRun}]
    <3>1. \A r \in RunIds : chatRuns'[r] \in Run \cup {NoRun}
      BY <1>1, <1>3 DEF RecipientsInv, RecipientsTypeOK
    <3> QED BY <3>1, <1>1
  <2>3. ends' \subseteq RunIds /\ loose' \subseteq RunIds
    BY <1>1 DEF RecipientsInv, RecipientsTypeOK
  <2> QED BY <2>1, <2>2, <2>3, <1>5, <1>7 DEF RecipientsTypeOK, Registries
<1>9. TablesOK'
  BY <1>1, <1>5 DEF TablesOK
<1>10. /\ \A q \in RunIds : InFlight(q)' <=> InFlight(q)
       /\ \A q \in D : ~Tracked(q)' /\ ~Alive(q)'
       /\ \A q \in R \ D : Tracked(q)' /\ ~Alive(q)'
       /\ \A q \in RunIds \ (R \cup D) : (Tracked(q)' <=> Tracked(q)) /\ (Alive(q)' <=> Alive(q))
  <2>1. \A q \in RunIds : InFlight(q)' <=> InFlight(q)
    BY <1>1 DEF InFlight
  <2>2. /\ \A q \in D : chatRuns'[q] = NoRun
        /\ \A q \in RunIds \ (R \cup D) : chatRuns'[q] = chatRuns[q]
    BY <1>1
  <2>3. \A q \in D : ~Tracked(q)' /\ ~Alive(q)'
    BY <2>2 DEF Tracked, Alive
  <2>4. \A q \in R \ D : Tracked(q)' /\ ~Alive(q)'
    BY <1>3 DEF Tracked, Alive
  <2>5. \A q \in RunIds \ (R \cup D) : (Tracked(q)' <=> Tracked(q)) /\ (Alive(q)' <=> Alive(q))
    BY <2>2 DEF Tracked, Alive
  <2> QED BY <2>1, <2>3, <2>4, <2>5
<1>11. EndsOnce'
  <2> SUFFICES ASSUME NEW q \in ends'
               PROVE  Tracked(q)' /\ (q \notin loose' => ~Alive(q)' /\ ~InFlight(q)')
    BY DEF EndsOnce
  <2>1. q \notin D /\ q \in RunIds
    BY <1>1 DEF RecipientsInv, RecipientsTypeOK
  <2>2. CASE q \in R
    BY <2>1, <2>2, <1>1, <1>10
  <2>3. CASE q \notin R
    <3>1. Tracked(q) /\ (q \notin loose => ~Alive(q) /\ ~InFlight(q))
      BY <2>3, <1>1 DEF RecipientsInv, EndsOnce
    <3> QED BY <2>1, <2>3, <3>1, <1>1, <1>10
  <2> QED BY <2>2, <2>3
<1>12. ASSUME NEW q \in RunIds \ loose'
       PROVE  OneSend(q)' /\ TrackedBySend(q)' /\ LetGo(q)'
  <2>1. q \in RunIds \ loose
    BY <1>1
  <2>2. OneSend(q) /\ TrackedBySend(q) /\ LetGo(q)
    BY <2>1 DEF RecipientsInv, LivesOK
  <2>3. OneSend(q)'
    BY <2>2, <1>1 DEF OneSend
  <2>4. TrackedBySend(q)'
    <3>1. Tracked(q)' => Tracked(q)
      BY <2>1, <1>2, <1>10
    <3> QED BY <2>2, <3>1, <1>1 DEF TrackedBySend
  <2>5. LetGo(q)'
    <3>1. HasEntry(registry', q) => /\ HasEntry(registry, q)
                                    /\ registry.runs[q].finalized => registry'.runs[q].finalized
      BY <1>6 DEF Shrinks
    <3>2. CASE q \in D
      <4>1. toolEvents'[q] = {}
        <5>1. CASE q \in R
          BY <5>1, <1>7
        <5>2. CASE q \notin R
          <6>1. ~Alive(q) /\ ~InFlight(q)
            BY <2>1, <3>2, <5>2, <1>1 DEF RecipientsInv, EndsOnce
          <6>2. toolEvents[q] = {}
            BY <6>1, <2>2 DEF LetGo
          <6> QED BY <5>2, <6>2, <1>7
        <5> QED BY <5>1, <5>2
      <4>2. ~HasEntry(registry', q)
        BY <3>2, <1>5
      <4> QED BY <4>1, <4>2 DEF LetGo
    <3>3. CASE q \in R \ D
      BY <3>3, <1>6, <1>7, <1>10 DEF LetGo
    <3>4. CASE q \notin R \cup D
      BY <2>1, <2>2, <3>1, <3>4, <1>7, <1>10, StillLetGo
    <3> QED BY <3>2, <3>3, <3>4
  <2> QED BY <2>3, <2>4, <2>5
<1> QED BY <1>8, <1>9, <1>11, <1>12 DEF RecipientsInv, LivesOK

\* A connection that closes.
LEMMA DisconnectStep ==
    ASSUME RecipientsInv, NEW c \in Connections, Disconnect(c)
    PROVE  RecipientsInv'
<1>1. /\ registry' = PruneDisconnected(registry, c)
      /\ UNCHANGED <<toolEvents, chatRuns, ends, sending, instant, moved, loose>>
  BY DEF Disconnect
<1>2. registry \in Registries /\ Agree(registry, moved)
  BY DEF RecipientsInv, RecipientsTypeOK, Registries, TablesOK
<1>3. registry' \in Registries /\ Shrinks(registry', registry) /\ Agree(registry', moved)
  BY <1>1, <1>2, PruneDisconnectedFacts
<1>4. RecipientsTypeOK' /\ TablesOK'
  BY <1>1, <1>3 DEF RecipientsInv, RecipientsTypeOK, Registries, TablesOK
<1>5. \A q \in RunIds : /\ (Tracked(q)' <=> Tracked(q)) /\ (Alive(q)' <=> Alive(q))
                        /\ (InFlight(q)' <=> InFlight(q))
  BY <1>1 DEF Tracked, Alive, InFlight
<1>6. EndsOnce'
  BY <1>1, <1>5 DEF RecipientsInv, RecipientsTypeOK, EndsOnce
<1>7. ASSUME NEW q \in RunIds \ loose'
      PROVE  OneSend(q)' /\ TrackedBySend(q)' /\ LetGo(q)'
  <2>1. OneSend(q) /\ TrackedBySend(q) /\ LetGo(q)
    BY <1>1 DEF RecipientsInv, LivesOK
  <2>2. OneSend(q)' /\ TrackedBySend(q)'
    BY <2>1, <1>1, <1>5 DEF OneSend, TrackedBySend
  <2>3. HasEntry(registry', q) => /\ HasEntry(registry, q)
                                  /\ registry.runs[q].finalized => registry'.runs[q].finalized
    BY <1>3 DEF Shrinks
  <2> QED BY <2>1, <2>2, <2>3, <1>1, <1>5, StillLetGo
<1> QED BY <1>4, <1>6, <1>7 DEF RecipientsInv, LivesOK

\* A step that changes the time at most.
LEMMA QuietStep ==
    ASSUME RecipientsInv, instant' \in Times,
           UNCHANGED <<registry, toolEvents, chatRuns, ends, sending, moved, loose>>
    PROVE  RecipientsInv'
<1>1. RecipientsTypeOK' /\ TablesOK'
  BY DEF RecipientsInv, RecipientsTypeOK, TablesOK
<1>2. EndsOnce'
  BY DEF RecipientsInv, EndsOnce, Tracked, Alive, InFlight
<1>3. LivesOK'
  BY DEF RecipientsInv, LivesOK, OneSend, TrackedBySend, LetGo, Tracked, Alive, InFlight
<1> QED BY <1>1, <1>2, <1>3 DEF RecipientsInv

\* Every step keeps the invariant.
LEMMA RecipientsStep == RecipientsInv /\ [RecipientsNext]_recipientVars => RecipientsInv'
<1> SUFFICES ASSUME RecipientsInv, [RecipientsNext]_recipientVars PROVE RecipientsInv'
  OBVIOUS
<1>1. CASE \E r \in RunIds, s \in ChatSessions, c \in Connections : SendRefused(r, s, c)
  BY <1>1, RefusedStep
<1>2. CASE \E t \in Sends, r \in RunIds, s \in ChatSessions, c \in Connections,
              runtime \in BOOLEAN : SendBegins(t, r, s, c, runtime)
  BY <1>2, BeginsStep
<1>3. CASE \E t \in Sends, complete \in BOOLEAN : SendEnds(t, complete)
  BY <1>3, EndsStep
<1>4. CASE \E r \in RunIds, named \in BOOLEAN : Abort(r, named)
  BY <1>4, AbortStep
<1>5. CASE \E s \in ChatSessions, R, D \in SUBSET RunIds : Poll(s, R, D)
  BY <1>5, PollStep
<1>6. CASE \E c \in Connections : Disconnect(c)
  BY <1>6, DisconnectStep
<1>7. CASE TimePasses
  <2>1. instant' \in Times
    BY <1>7, RecipientsAssumption DEF TimePasses, RecipientsInv, RecipientsTypeOK, Times
  <2> QED BY <1>7, <2>1, QuietStep DEF TimePasses
<1>8. CASE UNCHANGED recipientVars
  <2>1. instant' \in Times
    BY <1>8 DEF recipientVars, RecipientsInv, RecipientsTypeOK
  <2> QED BY <1>8, <2>1, QuietStep DEF recipientVars
<1> QED BY <1>1, <1>2, <1>3, <1>4, <1>5, <1>6, <1>7, <1>8 DEF RecipientsNext

\* Whatever happens, the invariant holds.
LEMMA InvAlways == RecipientsSpec => []RecipientsInv
BY RecipientsInitially, RecipientsStep, PTL DEF RecipientsSpec

\* The two tables of the registry agree after every call of every operation
\* (TransportRecipientRegistry.cpp:6-34, 66-145).
THEOREM TablesKeptInStep == RecipientsSpec => []TablesAgree
<1>1. RecipientsInv => TablesAgree
  BY DEF RecipientsInv, TablesOK, Agree, TablesAgree
<1> QED BY <1>1, InvAlways, PTL

\* A run that had one accepted send and ended after it keeps no recipient of tool events
\* and no entry that anybody joins, and no entry at all once its end is delivered
\* (ChatPipeline.cpp:2276-2280, 2519-2521, 2890-2906, 3001).
THEOREM EndedRunsForgotten == RecipientsSpec => []EndedRunsLetGo
<1>1. RecipientsInv => EndedRunsLetGo
  BY DEF RecipientsInv, LivesOK, LetGo, EndedRunsLetGo
<1> QED BY <1>1, InvAlways, PTL
=============================================================================
