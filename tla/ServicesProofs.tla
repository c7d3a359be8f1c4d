---------------------------- MODULE ServicesProofs ----------------------------
(***************************************************************************)
(* Proofs about NodeServices, for any nodes, surfaces, scopes and limits,   *)
(* and about ApprovalTokens, for any threads, messages and lifetimes, and   *)
(* for every fault of the disk that the model knows.  The two share no      *)
(* state.                                                                   *)
(***************************************************************************)
EXTENDS NodeServices, ApprovalTokens, FiniteSetTheorems, SequenceTheorems, TLAPS

-----------------------------------------------------------------------------
(* The pairing of nodes and the actions that wait for them. *)

\* What the handlers rely on besides: a request asks for the scope of what it declares
\* now, not of what it declared first.
ScopesFollow == \A r \in requests : r.scope = RequiredScope[r.surface]

NodesInv == NodesSound /\ ScopesFollow

-----------------------------------------------------------------------------
(* The queue of a node, as a set. *)

\* The elements of q with a greater id.
Above(q, a) == {b \in q : b.id > a.id}

\* A queue whose actions have ids and keys of their own.
Proper(q) ==
    /\ IsFiniteSet(q) /\ q \subseteq PendingActions
    /\ \A a, b \in q : a.id = b.id \/ a.key = b.key => a = b

\* Above is finite and no larger than the queue.
LEMMA AboveFinite ==
    ASSUME NEW q, IsFiniteSet(q), NEW a
    PROVE  IsFiniteSet(Above(q, a)) /\ Cardinality(Above(q, a)) \in Nat
  BY FS_Subset, FS_CardinalityType DEF Above

\* Fewer elements are above the newer one of two.
LEMMA AboveShrinks ==
    ASSUME NEW q, Proper(q), NEW a \in q, NEW b \in q, a.id < b.id
    PROVE  Cardinality(Above(q, b)) < Cardinality(Above(q, a))
<1>1. a.id \in Nat /\ b.id \in Nat /\ \A c \in q : c.id \in Nat
  BY DEF Proper, PendingActions
<1>2. Above(q, b) \subseteq Above(q, a) /\ b \in Above(q, a) /\ b \notin Above(q, b)
  BY <1>1 DEF Above
<1>3. IsFiniteSet(Above(q, a)) /\ Cardinality(Above(q, a)) \in Nat
      /\ Cardinality(Above(q, b)) \in Nat
  BY AboveFinite DEF Proper
<1>4. Cardinality(Above(q, b)) <= Cardinality(Above(q, a))
      /\ Cardinality(Above(q, b)) # Cardinality(Above(q, a))
  BY <1>2, <1>3, FS_Subset
<1> QED BY <1>3, <1>4

\* Newest keeps at most MaxPerNode actions, of any queue.
LEMMA NewestBounded ==
    ASSUME NEW q, Proper(q)
    PROVE  /\ Newest(q) \subseteq q /\ IsFiniteSet(Newest(q))
           /\ Cardinality(Newest(q)) \in Nat /\ Cardinality(Newest(q)) <= MaxPerNode
<1>1. Newest(q) \subseteq q /\ \A a \in Newest(q) : Cardinality(Above(q, a)) < MaxPerNode
  BY DEF Newest, Above
<1>2. IsFiniteSet(Newest(q)) /\ Cardinality(Newest(q)) \in Nat
  BY <1>1, FS_Subset, FS_CardinalityType DEF Proper
<1>3. MaxPerNode \in Nat /\ MaxPerNode > 0
  BY NodeAssumption
<1> DEFINE rank == [a \in Newest(q) |-> Cardinality(Above(q, a))]
<1>4. rank \in Injection(Newest(q), 0..MaxPerNode - 1)
  <2>1. ASSUME NEW a \in Newest(q) PROVE rank[a] \in 0..MaxPerNode - 1
    <3>1. Cardinality(Above(q, a)) \in Nat
      BY AboveFinite DEF Proper
    <3> QED BY <3>1, <1>1, <1>3
  <2>2. ASSUME NEW a \in Newest(q), NEW b \in Newest(q), rank[a] = rank[b] PROVE a = b
    <3>1. a.id \in Nat /\ b.id \in Nat
      BY <1>1 DEF Proper, PendingActions
    <3>2. ~(a.id < b.id) /\ ~(b.id < a.id)
      BY <2>2, <1>1, AboveShrinks, AboveFinite DEF Proper
    <3>3. a.id = b.id
      BY <3>1, <3>2
    <3> QED BY <3>3, <1>1 DEF Proper
  <2>3. rank \in [Newest(q) -> 0..MaxPerNode - 1]
    BY <2>1
  <2> QED BY <2>2, <2>3 DEF Injection, IsInjective
<1>5. IsFiniteSet(0..MaxPerNode - 1) /\ Cardinality(0..MaxPerNode - 1) = MaxPerNode
  BY <1>3, FS_Interval
<1>6. Cardinality(Newest(q)) <= Cardinality(0..MaxPerNode - 1)
  BY <1>4, <1>5, FS_Injection
<1> QED BY <1>1, <1>2, <1>5, <1>6

\* Of a queue with room for all but one, what Newest drops has MaxPerNode newer ones.
LEMMA NewestDrops ==
    ASSUME NEW q, Proper(q), Cardinality(q) <= MaxPerNode + 1,
           NEW a \in q, a \notin Newest(q)
    PROVE  Cardinality(Above(Newest(q), a)) = MaxPerNode
<1>1. MaxPerNode \in Nat /\ Cardinality(q) \in Nat
  BY NodeAssumption, FS_CardinalityType DEF Proper
<1>2. IsFiniteSet(Above(q, a)) /\ Cardinality(Above(q, a)) \in Nat
  BY AboveFinite DEF Proper
<1>3. Cardinality(Above(q, a)) >= MaxPerNode
  BY <1>1, <1>2 DEF Newest, Above
<1>4. IsFiniteSet(q \ {a}) /\ Cardinality(q \ {a}) = Cardinality(q) - 1
  BY FS_RemoveElement DEF Proper
<1>5. a.id \in Nat /\ Above(q, a) \subseteq q \ {a}
  BY DEF Above, Proper, PendingActions
<1>6. Cardinality(Above(q, a)) <= Cardinality(q \ {a})
      /\ (Cardinality(Above(q, a)) = Cardinality(q \ {a}) => Above(q, a) = q \ {a})
  BY <1>4, <1>5, FS_Subset
<1>7. Cardinality(Above(q, a)) = MaxPerNode
  BY <1>1, <1>2, <1>3, <1>4, <1>6
<1>8. ASSUME NEW b \in Above(q, a) PROVE b \in Newest(q)
  <2>1. b \in q /\ a.id < b.id
    BY <1>8 DEF Above
  <2>2. Cardinality(Above(q, b)) < MaxPerNode
    BY <2>1, <1>7, AboveShrinks
  <2> QED BY <2>1, <2>2 DEF Newest, Above
<1>9. Above(Newest(q), a) = Above(q, a)
  BY <1>8 DEF Above, Newest
<1> QED BY <1>7, <1>9

-----------------------------------------------------------------------------
(* Pairing. *)

PairingInv ==
    /\ requests \in SUBSET Requests /\ paired \in SUBSET Pairings
    /\ nextRequest \in Nat /\ nextToken \in Nat
    /\ RequestsSound /\ PairingsSound /\ ScopesFollow

\* A request that is new, or that takes the place of its node's, leaves the requests sound.
LEMMA RequestKeeps ==
    ASSUME PairingInv, NEW n \in Nodes, NEW s \in Surfaces, RequestPairing(n, s)
    PROVE  PairingInv'
<1> USE DEF PairingInv
<1>1. /\ paired' = paired /\ nextToken' = nextToken
      /\ nextRequest' \in Nat /\ nextRequest <= nextRequest'
  BY DEF RequestPairing
<1>2. PairingsSound'
  BY <1>1 DEF PairingsSound, VerifyNodeToken
<1>3. PICK id \in Nat :
        /\ id < nextRequest'
        /\ requests' = {r \in requests : r.node # n} \cup {Request(id, n, s)}
        /\ \A r \in requests : r.node # n => r.id # id
  <2>1. CASE /\ \A r \in requests : r.node # n
             /\ requests' = requests \cup {Request(nextRequest, n, s)}
             /\ nextRequest' = nextRequest + 1
    <3>1. requests = {r \in requests : r.node # n}
      BY <2>1
    <3>2. \A r \in requests : r.id # nextRequest
      BY DEF RequestsSound, Requests
    <3> QED BY <2>1, <3>1, <3>2
  <2>2. ASSUME NEW r \in requests, r.node = n, nextRequest' = nextRequest,
               requests' = (requests \ {r}) \cup {Refreshed(r, s)}
        PROVE  /\ r.id \in Nat /\ r.id < nextRequest'
               /\ requests' = {q \in requests : q.node # n} \cup {Request(r.id, n, s)}
               /\ \A q \in requests : q.node # n => q.id # r.id
    <3>1. requests \ {r} = {q \in requests : q.node # n}
      BY <2>2 DEF RequestsSound
    <3> QED BY <2>2, <3>1 DEF RequestsSound, Refreshed, Requests
  <2> QED BY <2>1, <2>2 DEF RequestPairing
<1>4. Request(id, n, s) \in Requests
  BY NodeAssumption DEF Request, Requests
<1>5. requests' \in SUBSET Requests
  BY <1>3, <1>4
<1>6. RequestsSound'
  BY <1>1, <1>3, <1>4 DEF RequestsSound, Requests, Request
<1>7. ScopesFollow'
  BY <1>3 DEF ScopesFollow, Request
<1> QED BY <1>1, <1>2, <1>5, <1>6, <1>7

\* Requests and pairings that only go leave what is left sound.
LEMMA FewerKeeps ==
    ASSUME PairingInv, requests' \subseteq requests, paired' \subseteq paired,
           nextRequest' = nextRequest, nextToken' = nextToken
    PROVE  PairingInv'
<1> USE DEF PairingInv
<1>1. RequestsSound' /\ ScopesFollow'
  BY DEF RequestsSound, ScopesFollow
<1>2. PairingsSound'
  BY DEF PairingsSound, VerifyNodeToken
<1> QED BY <1>1, <1>2

\* An approval takes the scope of the surface it allows, and gives a new token.
LEMMA ApproveKeeps ==
    ASSUME PairingInv, NEW id, NEW scopes \in SUBSET Scopes, ApprovePairing(id, scopes)
    PROVE  PairingInv'
<1> USE DEF PairingInv
<1>1. PICK r \in requests :
        /\ r.scope \in scopes
        /\ paired' = {p \in paired : p.node # r.node} \cup
              {[node |-> r.node, surface |-> r.surface, token |-> nextToken, by |-> scopes]}
        /\ requests' = requests \ {r}
        /\ nextToken' = nextToken + 1 /\ nextRequest' = nextRequest
  BY DEF ApprovePairing
<1> DEFINE new == [node |-> r.node, surface |-> r.surface, token |-> nextToken, by |-> scopes]
<1>2. new \in Pairings /\ RequiredScope[new.surface] \in new.by
  BY <1>1 DEF Requests, Pairings, ScopesFollow
<1>3. \A p \in paired' : p = new \/ (p \in paired /\ p.node # new.node)
  <2>1. new.node = r.node /\ paired' = {p \in paired : p.node # r.node} \cup {new}
    BY <1>1
  <2> HIDE DEF new
  <2> QED BY <2>1
<1>4. RequestsSound' /\ ScopesFollow'
  BY <1>1 DEF RequestsSound, ScopesFollow
<1>5. paired' \in SUBSET Pairings
  BY <1>2, <1>3
<1>6. \A p \in paired : p.token \in Nat /\ p.token < nextToken
  BY DEF PairingsSound, Pairings
<1>7. PairingsSound'
  <2>1. \A p \in paired' : p.token < nextToken' /\ RequiredScope[p.surface] \in p.by
    BY <1>1, <1>2, <1>3, <1>6 DEF PairingsSound
  <2>2. \A p1, p2 \in paired' : p1.node = p2.node => p1 = p2
    BY <1>3 DEF PairingsSound
  <2>3. ASSUME NEW p \in paired', NEW q \in paired', q.token = p.token PROVE q.node = p.node
    <3>1. CASE p = new
      BY <3>1, <2>3, <1>3, <1>6
    <3>2. CASE q = new
      BY <3>2, <2>3, <1>3, <1>6
    <3>3. CASE p \in paired /\ q \in paired
      <4>1. q.node \in Nodes
        BY <3>3 DEF Pairings
      <4> QED BY <3>3, <4>1, <2>3 DEF PairingsSound, VerifyNodeToken
    <3> QED BY <1>3, <3>1, <3>2, <3>3
  <2> QED BY <2>1, <2>2, <2>3 DEF PairingsSound, VerifyNodeToken
<1> QED BY <1>1, <1>4, <1>5, <1>7

\* Every step of the pairing handlers.
LEMMA PairingStep == ASSUME PairingInv, PairingNext PROVE PairingInv'
<1>1. ASSUME NEW n \in Nodes, RemovePairedNode(n) PROVE PairingInv'
  BY <1>1, FewerKeeps DEF RemovePairedNode
<1>2. ASSUME NEW n \in Nodes, NEW s \in Surfaces, RequestPairing(n, s) PROVE PairingInv'
  BY <1>2, RequestKeeps
<1>3. ASSUME NEW id, RejectPairing(id) PROVE PairingInv'
  BY <1>3, FewerKeeps DEF RejectPairing
<1>4. ASSUME NEW id, NEW scopes \in SUBSET Scopes, ApprovePairing(id, scopes) PROVE PairingInv'
  BY <1>4, ApproveKeeps
<1> QED BY <1>1, <1>2, <1>3, <1>4 DEF PairingNext

-----------------------------------------------------------------------------
(* Actions that wait for a node. *)

ActionsInv ==
    /\ now \in Nat /\ nextAction \in Nat
    /\ queue \in [Nodes -> SUBSET PendingActions]
    /\ QueuesSound

\* The queue of a node is one that Newest can be asked about.
LEMMA QueueProper == ASSUME ActionsInv, NEW n \in Nodes PROVE Proper(queue[n])
  BY DEF ActionsInv, QueuesSound, Proper

\* Actions that only go leave the rest sound, also at a later time.
LEMMA ShorterKeeps ==
    ASSUME ActionsInv, now' \in Nat, now <= now', nextAction' = nextAction,
           queue' \in [Nodes -> SUBSET PendingActions],
           \A n \in Nodes : queue'[n] \subseteq queue[n]
    PROVE  ActionsInv'
<1> USE DEF ActionsInv
<1>1. \A n \in Nodes : IsFiniteSet(queue'[n]) /\ Cardinality(queue'[n]) <= MaxPerNode
  <2> SUFFICES ASSUME NEW n \in Nodes
               PROVE  IsFiniteSet(queue'[n]) /\ Cardinality(queue'[n]) <= MaxPerNode
    OBVIOUS
  <2>1. IsFiniteSet(queue[n]) /\ Cardinality(queue[n]) <= MaxPerNode
    BY DEF QueuesSound
  <2>2. /\ IsFiniteSet(queue'[n]) /\ Cardinality(queue'[n]) <= Cardinality(queue[n])
    BY <2>1, FS_Subset
  <2>3. /\ Cardinality(queue[n]) \in Nat /\ Cardinality(queue'[n]) \in Nat /\ MaxPerNode \in Nat
    BY <2>1, <2>2, FS_CardinalityType, NodeAssumption
  <2> QED BY <2>1, <2>2, <2>3
<1>2. \A n \in Nodes : \A a \in queue'[n] : a.id < nextAction' /\ a.at <= now'
  BY DEF QueuesSound, PendingActions
<1>3. \A n \in Nodes : \A a, b \in queue'[n] : a.key = b.key => a = b
  BY DEF QueuesSound
<1>4. \A n, m \in Nodes : \A a \in queue'[n], b \in queue'[m] : a.id = b.id => n = m /\ a = b
  BY DEF QueuesSound
<1> QED BY <1>1, <1>2, <1>3, <1>4 DEF QueuesSound

\* One queue gets shorter.
LEMMA OneShorter ==
    ASSUME ActionsInv, NEW n \in Nodes, NEW q \in SUBSET queue[n],
           queue' = [queue EXCEPT ![n] = q], nextAction' = nextAction, now' = now
    PROVE  ActionsInv'
<1>1. queue' \in [Nodes -> SUBSET PendingActions] /\ \A m \in Nodes : queue'[m] \subseteq queue[m]
  BY DEF ActionsInv
<1>2. now' \in Nat /\ now <= now'
  BY DEF ActionsInv
<1> QED BY <1>1, <1>2, ShorterKeeps

\* What Enqueue adds to the live actions of a node whose key is new is a proper queue with
\* at most one action too many.
LEMMA EnqueuedProper ==
    ASSUME ActionsInv, NEW n \in Nodes, NEW c \in Commands, NEW k \in Keys,
           \A a \in Prune(queue[n]) : a.key # k
    PROVE  LET q == Prune(queue[n]) \cup {PendingAction(c, k)}
           IN  Proper(q) /\ Cardinality(q) <= MaxPerNode + 1
<1> DEFINE live == Prune(queue[n])
           q == live \cup {PendingAction(c, k)}
<1>1. live \subseteq queue[n] /\ Proper(queue[n])
  BY QueueProper DEF Prune
<1>2. /\ IsFiniteSet(live) /\ Cardinality(live) \in Nat /\ Cardinality(live) <= MaxPerNode
      /\ MaxPerNode \in Nat
  <2>1. /\ IsFiniteSet(queue[n]) /\ Cardinality(queue[n]) <= MaxPerNode
        /\ Cardinality(queue[n]) \in Nat /\ MaxPerNode \in Nat
    BY FS_CardinalityType, NodeAssumption DEF ActionsInv, QueuesSound
  <2>2. IsFiniteSet(live) /\ Cardinality(live) <= Cardinality(queue[n])
    BY <1>1, <2>1, FS_Subset
  <2> HIDE DEF live
  <2> QED BY <2>1, <2>2, FS_CardinalityType
<1>3. IsFiniteSet(q) /\ Cardinality(q) <= MaxPerNode + 1
  <2> HIDE DEF live
  <2>1. /\ IsFiniteSet(q)
        /\ Cardinality(q) = IF PendingAction(c, k) \in live THEN Cardinality(live)
                            ELSE Cardinality(live) + 1
    BY <1>2, FS_AddElement
  <2> QED BY <2>1, <1>2
<1>4. PendingAction(c, k) \in PendingActions
  BY DEF ActionsInv, PendingAction, PendingActions
<1>5. \A a \in live : a.id \in Nat /\ a.id < nextAction
  BY <1>1 DEF ActionsInv, QueuesSound, PendingActions
<1>6. \A a \in live : a.id # PendingAction(c, k).id /\ a.key # PendingAction(c, k).key
  BY <1>5 DEF ActionsInv, PendingAction
<1>7. \A a, b \in q : a.id = b.id \/ a.key = b.key => a = b
  BY <1>1, <1>6 DEF Proper
<1>8. q \subseteq PendingActions
  BY <1>1, <1>4 DEF Proper
<1> HIDE DEF q
<1>9. Proper(q)
  BY <1>3, <1>7, <1>8 DEF Proper
<1> QED BY <1>3, <1>9 DEF q

\* Enqueue keeps the queues sound: a retry of a key adds nothing, and what is over the
\* limit goes.
LEMMA EnqueueKeeps ==
    ASSUME ActionsInv, NEW n \in Nodes, NEW c \in Commands, NEW k \in Keys,
           Enqueue(n, c, k), now' = now
    PROVE  ActionsInv'
<1> DEFINE live == Prune(queue[n])
           new == PendingAction(c, k)
           q == live \cup {new}
<1>1. CASE \E a \in live : a.key = k
  <2>1. queue' = [queue EXCEPT ![n] = live] /\ nextAction' = nextAction /\ live \in SUBSET queue[n]
    BY <1>1 DEF Enqueue, Prune
  <2> QED BY <2>1, OneShorter
<1>2. CASE ~ \E a \in live : a.key = k
  <2>1. queue' = [queue EXCEPT ![n] = Newest(q)] /\ nextAction' = nextAction + 1
    BY <1>2 DEF Enqueue
  <2>2. Proper(q) /\ Cardinality(q) <= MaxPerNode + 1
    BY <1>2, EnqueuedProper
  <2>3. /\ Newest(q) \subseteq q /\ IsFiniteSet(Newest(q)) /\ Cardinality(Newest(q)) <= MaxPerNode
    BY <2>2, NewestBounded
  <2>4. /\ queue'[n] = Newest(q) /\ queue'[n] \subseteq PendingActions
        /\ \A m \in Nodes : m # n => queue'[m] = queue[m]
    BY <2>1, <2>2, <2>3 DEF ActionsInv, Proper
  <2>5. \A a \in queue'[n] : a = new \/ a \in queue[n]
    BY <2>3, <2>4 DEF Prune
  <2>6. new.id = nextAction /\ new.at = now
    BY DEF PendingAction
  <2>7. queue' \in [Nodes -> SUBSET PendingActions]
    BY <2>1, <2>4 DEF ActionsInv
  <2>8. \A m \in Nodes : \A a \in queue[m] : a.id \in Nat /\ a.at \in Nat /\ a.id < nextAction
                                             /\ a.at <= now
    BY DEF ActionsInv, QueuesSound, PendingActions
  <2>9. QueuesSound'
    <3>1. \A m \in Nodes : IsFiniteSet(queue'[m]) /\ Cardinality(queue'[m]) <= MaxPerNode
      BY <2>3, <2>4 DEF ActionsInv, QueuesSound
    <3>2. \A m \in Nodes : \A a \in queue'[m] : a.id < nextAction' /\ a.at <= now'
      <4> SUFFICES ASSUME NEW m \in Nodes, NEW a \in queue'[m]
                   PROVE  a.id < nextAction' /\ a.at <= now'
        OBVIOUS
      <4>1. a = new \/ a \in queue[m]
        BY <2>4, <2>5
      <4> QED BY <4>1, <2>1, <2>6, <2>8 DEF ActionsInv
    <3>3. \A m \in Nodes : \A a, b \in queue'[m] : a.key = b.key => a = b
      <4>1. \A a, b \in queue'[n] : a.key = b.key => a = b
        BY <2>2, <2>3, <2>4 DEF Proper
      <4> QED BY <2>4, <4>1 DEF ActionsInv, QueuesSound
    <3>4. \A m1, m2 \in Nodes : \A a \in queue'[m1], b \in queue'[m2] :
            a.id = b.id => m1 = m2 /\ a = b
      <4> SUFFICES ASSUME NEW m1 \in Nodes, NEW m2 \in Nodes,
                          NEW a \in queue'[m1], NEW b \in queue'[m2], a.id = b.id
                   PROVE  m1 = m2 /\ a = b
        OBVIOUS
      <4>1. /\ (a = new /\ m1 = n) \/ a \in queue[m1]
            /\ (b = new /\ m2 = n) \/ b \in queue[m2]
        BY <2>4, <2>5
      <4>2. CASE a = new /\ m1 = n
        BY <4>1, <4>2, <2>6, <2>8 DEF ActionsInv
      <4>3. CASE b = new /\ m2 = n
        BY <4>1, <4>3, <2>6, <2>8 DEF ActionsInv
      <4>4. CASE a \in queue[m1] /\ b \in queue[m2]
        BY <4>4 DEF ActionsInv, QueuesSound
      <4> QED BY <4>1, <4>2, <4>3, <4>4
    <3> QED BY <3>1, <3>2, <3>3, <3>4 DEF QueuesSound
  <2> QED BY <2>1, <2>7, <2>9 DEF ActionsInv
<1> QED BY <1>1, <1>2

\* Every step of the handlers of the queues.
LEMMA ActionsStep == ASSUME ActionsInv, ActionsNext PROVE ActionsInv'
<1>1. ASSUME NEW n \in Nodes, NEW c \in Commands, NEW k \in Keys, PendingEnqueue(n, c, k)
      PROVE  ActionsInv'
  BY <1>1, EnqueueKeeps DEF PendingEnqueue
<1>2. ASSUME NEW n \in Nodes, NEW c \in Commands, NEW k \in Keys, Invoke(n, c, k)
      PROVE  ActionsInv'
  <2>1. now' = now /\ ((queue' = queue /\ nextAction' = nextAction) \/ Enqueue(n, c, k))
    BY <1>2 DEF Invoke, actionVars
  <2>2. CASE queue' = queue /\ nextAction' = nextAction
    BY <2>1, <2>2, ShorterKeeps DEF ActionsInv
  <2> QED BY <2>1, <2>2, EnqueueKeeps
<1>3. ASSUME NEW n \in Nodes, NEW cs, PendingPull(n, cs) PROVE ActionsInv'
  <2>1. queue' = [queue EXCEPT ![n] = PullAllowed(queue[n], cs)]
        /\ PullAllowed(queue[n], cs) \in SUBSET queue[n]
    BY <1>3 DEF PendingPull, PullAllowed, Prune
  <2> QED BY <2>1, <1>3, OneShorter DEF PendingPull
<1>4. ASSUME NEW n \in Nodes, NEW ids, PendingAck(n, ids) PROVE ActionsInv'
  <2>1. queue' = [queue EXCEPT ![n] = Ack(queue[n], ids)]
        /\ Ack(queue[n], ids) \in SUBSET queue[n]
    BY <1>4 DEF PendingAck, Ack, Prune
  <2> QED BY <2>1, <1>4, OneShorter DEF PendingAck
<1>5. ASSUME NEW n \in Nodes, NEW ids, PendingDrain(n, ids) PROVE ActionsInv'
  <2>1. queue' = [queue EXCEPT ![n] = Ack(PullAllowed(queue[n], {}), ids)]
        /\ Ack(PullAllowed(queue[n], {}), ids) \in SUBSET queue[n]
    BY <1>5 DEF PendingDrain, PullAllowed, Ack, Prune
  <2> QED BY <2>1, <1>5, OneShorter DEF PendingDrain
<1> QED BY <1>1, <1>2, <1>3, <1>4, <1>5 DEF ActionsNext

-----------------------------------------------------------------------------
(* The theorems. *)

\* The last wake of each node and the last call.
RestType == woken \in [Nodes -> Nat] /\ call \in Calls

\* The invariant, part by part.
LEMMA InvParts == NodesInv <=> PairingInv /\ ActionsInv /\ RestType
  BY DEF NodesInv, NodesSound, NodeTypeOK, PairingInv, ActionsInv, RestType

\* It holds at the start, ...
LEMMA NodesInit == NodeInit => NodesInv
<1> SUFFICES ASSUME NodeInit PROVE NodesInv
  OBVIOUS
<1>1. PairingInv
  BY DEF NodeInit, PairingInv, RequestsSound, PairingsSound, ScopesFollow, VerifyNodeToken
<1>2. ActionsInv
  <2>1. \A n \in Nodes : queue[n] = {}
    BY DEF NodeInit
  <2>2. IsFiniteSet({}) /\ Cardinality({}) = 0 /\ 0 <= MaxPerNode
    BY FS_EmptySet, NodeAssumption
  <2>3. QueuesSound
    BY <2>1, <2>2 DEF QueuesSound
  <2> QED BY <2>3 DEF ActionsInv, NodeInit
<1>3. RestType
  BY DEF NodeInit, RestType, Called, Calls
<1> QED BY <1>1, <1>2, <1>3, InvParts

\* ... the rest keeps its type in every step, ...
LEMMA RestStep == ASSUME NodesInv, NodeNext PROVE RestType'
<1> USE DEF RestType
<1>1. now \in Nat /\ nextAction \in Nat /\ nextRequest \in Nat /\ RestType
      /\ \A r \in requests : r.node \in Nodes
  BY InvParts DEF ActionsInv, PairingInv, Requests
<1>2. CASE Tick
  BY <1>1, <1>2 DEF Tick
<1>3. CASE PairingNext
  <2>1. \E n \in Nodes : PairingCall(n)
    BY <1>1, <1>3 DEF PairingNext, RequestPairing, RejectPairing, RemovePairedNode, ApprovePairing
  <2> QED BY <2>1, <1>1 DEF PairingCall, Called, Calls
<1>4. CASE ActionsNext
  <2>1. ASSUME NEW n \in Nodes, NEW c \in Commands, NEW k \in Keys,
               PendingEnqueue(n, c, k) \/ Invoke(n, c, k)
        PROVE  RestType'
    <3>1. CASE PendingEnqueue(n, c, k)
      BY <3>1, <1>1 DEF PendingEnqueue, Called, Calls
    <3>2. CASE Invoke(n, c, k)
      <4>1. PICK t \in Nat : woken' = [woken EXCEPT ![n] = t]
        BY <3>2, <1>1 DEF Invoke, MaybeWakeNode
      <4>2. call' = Called("invoke", n, {}, {})
        BY <3>2 DEF Invoke
      <4> QED BY <4>1, <4>2, <1>1 DEF Called, Calls
    <3> QED BY <2>1, <3>1, <3>2
  <2>2. ASSUME NEW n \in Nodes, NEW cs \in SUBSET Commands, PendingPull(n, cs)
        PROVE  RestType'
    BY <2>2, <1>1 DEF PendingPull, Called, Calls
  <2>3. ASSUME NEW n \in Nodes, NEW ids \in SUBSET (1..nextAction - 1),
               PendingAck(n, ids) \/ PendingDrain(n, ids)
        PROVE  RestType'
    <3>1. ids \in SUBSET Nat
      BY <1>1
    <3>2. PICK op \in {"ack", "drain"} : call' = Called(op, n, ids, {}) /\ woken' = woken
      BY <2>3 DEF PendingAck, PendingDrain
    <3>3. call' \in Calls
      BY <3>1, <3>2 DEF Called, Calls
    <3> QED BY <3>2, <3>3, <1>1
  <2> QED BY <1>4, <2>1, <2>2, <2>3 DEF ActionsNext
<1> QED BY <1>2, <1>3, <1>4 DEF NodeNext

\* ... and the invariant is inductive.
LEMMA NodesStep == ASSUME NodesInv, [NodeNext]_nodeVars PROVE NodesInv'
<1>1. PairingInv /\ ActionsInv /\ RestType
  BY InvParts
<1>2. CASE UNCHANGED nodeVars
  <2> USE <1>1, <1>2 DEF nodeVars, pairingVars, actionVars
  <2>1. PairingInv'
    BY FewerKeeps
  <2>2. ActionsInv'
    BY ShorterKeeps DEF ActionsInv
  <2>3. RestType'
    BY DEF RestType
  <2> QED BY <2>1, <2>2, <2>3, InvParts, PTL
<1>3. CASE NodeNext
  <2>1. PairingInv'
    <3>1. CASE PairingNext
      BY <3>1, <1>1, PairingStep
    <3>2. CASE Tick \/ ActionsNext
      <4>1. UNCHANGED pairingVars
        BY <3>2 DEF Tick, ActionsNext, PendingEnqueue, Invoke, PendingPull, PendingAck, PendingDrain
      <4> QED BY <4>1, <1>1, FewerKeeps DEF pairingVars
    <3> QED BY <3>1, <3>2, <1>3 DEF NodeNext
  <2>2. ActionsInv'
    <3>1. CASE ActionsNext
      BY <3>1, <1>1, ActionsStep
    <3>2. CASE Tick
      <4>1. now' = now + 1 /\ queue' = queue /\ nextAction' = nextAction
        BY <3>2 DEF Tick, actionVars
      <4> QED BY <4>1, <1>1, ShorterKeeps DEF ActionsInv
    <3>3. CASE PairingNext
      <4>1. now' = now /\ UNCHANGED actionVars
        BY <3>3 DEF PairingNext, RequestPairing, ApprovePairing, RejectPairing, RemovePairedNode,
                    PairingCall
      <4>2. queue' = queue /\ nextAction' = nextAction
        BY <4>1 DEF actionVars
      <4> QED BY <4>1, <4>2, <1>1, ShorterKeeps DEF ActionsInv
    <3> QED BY <3>1, <3>2, <3>3, <1>3 DEF NodeNext
  <2>3. RestType'
    BY <1>3, RestStep
  <2> QED BY <2>1, <2>2, <2>3, InvParts, PTL
<1> QED BY <1>2, <1>3

\* The registries of requests, pairings and waiting actions are consistent after any
\* sequence of calls, and no approval allows a surface whose scope its caller lacked.
THEOREM NodesCorrect == NodeSpec => []NodesSound
<1>1. NodesInv => NodesSound
  BY DEF NodesInv
<1> QED BY <1>1, NodesInit, NodesStep, PTL DEF NodeSpec

\* What goes from the queue of a node in a step of its handlers goes for a reason.
LEMMA ReasonStep ==
    ASSUME NodesInv, [NodeNext]_nodeVars, NEW n \in Nodes, NEW a \in queue[n] \ queue'[n]
    PROVE  LeftForAReason(a, n)
<1>1. ActionsInv /\ Proper(queue[n]) /\ a.id \in Nat
  BY InvParts, QueueProper DEF Proper, PendingActions
<1>2. queue' # queue
  OBVIOUS
<1>3. ActionsNext
  BY <1>2 DEF NodeNext, nodeVars, Tick, PairingNext, RequestPairing, ApprovePairing,
              RejectPairing, RemovePairedNode, PairingCall, actionVars
<1> DEFINE Live == a \in Prune(queue[n])
<1>4. CASE ~Live
  BY <1>4 DEF LeftForAReason, Prune
<1>5. CASE Live
  <2>1. ASSUME NEW m \in Nodes, NEW c \in Commands, NEW k \in Keys, Enqueue(m, c, k)
        PROVE  LeftForAReason(a, n)
    <3> DEFINE q == Prune(queue[m]) \cup {PendingAction(c, k)}
    <3>1. m = n
      BY <2>1 DEF Enqueue, ActionsInv, NodesInv, NodesSound, NodeTypeOK
    <3>2. \A b \in Prune(queue[m]) : b.key # k
      BY <2>1, <3>1, <1>1, <1>5 DEF Enqueue, ActionsInv
    <3>3. queue'[n] = Newest(q)
      BY <2>1, <3>1, <3>2, <1>1 DEF Enqueue, ActionsInv
    <3>4. Proper(q) /\ Cardinality(q) <= MaxPerNode + 1
      BY <3>2, <1>1, EnqueuedProper
    <3>5. a \in q /\ a \notin Newest(q)
      BY <3>1, <3>3, <1>5
    <3>6. Cardinality(Above(Newest(q), a)) = MaxPerNode
      BY <3>4, <3>5, NewestDrops
    <3> QED BY <3>3, <3>6 DEF LeftForAReason, Above
  <2>2. ASSUME NEW m \in Nodes, NEW cs, PendingPull(m, cs) PROVE LeftForAReason(a, n)
    <3>1. m = n /\ queue'[n] = PullAllowed(queue[n], cs)
      BY <2>2, <1>1 DEF PendingPull, ActionsInv
    <3>2. call'.node = n /\ call'.op = "pull" /\ call'.allowed = cs
      BY <2>2, <3>1 DEF PendingPull, Called
    <3> QED BY <3>1, <3>2, <1>5 DEF PullAllowed, LeftForAReason
  <2>3. ASSUME NEW m \in Nodes, NEW ids, PendingAck(m, ids) \/ PendingDrain(m, ids)
        PROVE  LeftForAReason(a, n)
    <3>1. m = n
      BY <2>3, <1>1 DEF PendingAck, PendingDrain, ActionsInv
    <3>2. call'.node = n /\ call'.op \in {"ack", "drain"} /\ call'.ids = ids
      BY <2>3, <3>1 DEF PendingAck, PendingDrain, Called
    <3>3. queue'[n] = Ack(queue[n], ids) \/ queue'[n] = Ack(PullAllowed(queue[n], {}), ids)
      BY <2>3, <3>1, <1>1 DEF PendingAck, PendingDrain, ActionsInv
    <3>4. a.id \in ids
      BY <3>3, <1>5 DEF Ack, PullAllowed, Prune
    <3> QED BY <3>2, <3>4 DEF LeftForAReason
  <2> QED BY <1>2, <1>3, <2>1, <2>2, <2>3 DEF ActionsNext, PendingEnqueue, Invoke, actionVars
<1> QED BY <1>4, <1>5

\* An action that waits for a node is lost only by age, by an acknowledgement or a pull of
\* its node, or to MaxPerNode newer actions.
THEOREM ActionsKept == NodeSpec => ActionsLeaveForAReason
<1>1. ASSUME NodesInv, [NodeNext]_nodeVars
      PROVE  [\A n \in Nodes : \A a \in queue[n] \ queue'[n] : LeftForAReason(a, n)]_nodeVars
  BY <1>1, ReasonStep
<1> QED BY <1>1, NodesInit, NodesStep, PTL DEF NodeSpec, ActionsLeaveForAReason

-----------------------------------------------------------------------------
(* What a call has left to do. *)

Idle == <<>>
Initialise == <<"init">>
Store == <<"save", "prune">>
Sweep == <<"prune">>
Take == <<"load", "remove">>
Send == <<"load", "deliver", "remove">>
Delivery == <<"deliver", "remove">>
Drop == <<"remove">>
InitStore == <<"init", "save", "prune">>
InitTake == <<"init", "load", "remove">>
InitSend == <<"init", "load", "deliver", "remove">>

Plans == {Idle, Initialise, Store, Sweep, Take, Send, Delivery, Drop,
          InitStore, InitTake, InitSend}

\* The step a call is at, and what is left after it.
LEMMA PlanSteps ==
    /\ Head(Initialise) = "init" /\ Tail(Initialise) = Idle
    /\ Head(Store) = "save" /\ Tail(Store) = Sweep
    /\ Head(Sweep) = "prune" /\ Tail(Sweep) = Idle
    /\ Head(Take) = "load" /\ Tail(Take) = Drop
    /\ Head(Send) = "load" /\ Tail(Send) = Delivery
    /\ Head(Delivery) = "deliver" /\ Tail(Delivery) = Drop
    /\ Head(Drop) = "remove" /\ Tail(Drop) = Idle
    /\ Head(InitStore) = "init" /\ Tail(InitStore) = Store
    /\ Head(InitTake) = "init" /\ Tail(InitTake) = Take
    /\ Head(InitSend) = "init" /\ Tail(InitSend) = Send
  BY DEF Idle, Initialise, Store, Sweep, Take, Send, Delivery, Drop,
         InitStore, InitTake, InitSend

\* Only the first is empty.
LEMMA PlanIdle == \A p \in Plans \ {Idle} : p # <<>>
  BY DEF Plans, Idle, Initialise, Store, Sweep, Take, Send, Delivery, Drop,
         InitStore, InitTake, InitSend

\* A call that has to initialise the store first.
LEMMA InitFirst ==
    ASSUME NEW s \in Seq(Steps), NEW w \in Seq(Steps), Len(w) = Len(s) + 1,
           w[1] = "init", \A i \in 1..Len(s) : w[i + 1] = s[i]
    PROVE  <<"init">> \o s = w
<1> DEFINE u == <<"init">>
<1>1. u \in Seq(Steps)
  BY DEF Steps
<1>2. Len(u) = 1 /\ u[1] = "init"
  OBVIOUS
<1> HIDE DEF u
<1>3. /\ u \o s \in Seq(Steps) /\ Len(u \o s) = Len(u) + Len(s)
      /\ \A i \in 1..Len(u) + Len(s) :
            (u \o s)[i] = IF i <= Len(u) THEN u[i] ELSE s[i - Len(u)]
  BY <1>1, ConcatProperties
<1>4. Len(s) \in Nat
  OBVIOUS
<1>5. ASSUME NEW i \in 1..Len(w) PROVE (u \o s)[i] = w[i]
  <2>1. CASE i = 1
    BY <2>1, <1>2, <1>3, <1>4
  <2>2. CASE i > 1
    <3>0. i \in Int /\ i <= 1 + Len(s) /\ i - 1 \in 1..Len(s)
      BY <2>2, <1>4
    <3>1. (u \o s)[i] = s[i - 1]
      BY <2>2, <3>0, <1>2, <1>3, <1>4
    <3>2. w[(i - 1) + 1] = s[i - 1] /\ (i - 1) + 1 = i
      BY <3>0
    <3> QED BY <3>1, <3>2
  <2>3. i = 1 \/ i > 1
    BY <1>4
  <2> QED BY <2>1, <2>2, <2>3
<1>6. u \o s = w
  BY <1>2, <1>3, <1>4, <1>5, SeqEqual
<1> QED BY <1>6 DEF u

\* A store that is not ready has its initialisation in front.
LEMMA PlanInit ==
    /\ WhenReady(Store) \in {Store, InitStore}
    /\ WhenReady(Take) \in {Take, InitTake}
    /\ WhenReady(Send) \in {Send, InitSend}
<1>1. <<"init">> \o Store = InitStore
  <2>1. Store \in Seq(Steps) /\ InitStore \in Seq(Steps)
    BY DEF Store, InitStore, Steps
  <2>2. Len(InitStore) = Len(Store) + 1 /\ InitStore[1] = "init"
        /\ \A i \in 1..Len(Store) : InitStore[i + 1] = Store[i]
    BY DEF Store, InitStore
  <2> QED BY <2>1, <2>2, InitFirst
<1>2. <<"init">> \o Take = InitTake
  <2>1. Take \in Seq(Steps) /\ InitTake \in Seq(Steps)
    BY DEF Take, InitTake, Steps
  <2>2. Len(InitTake) = Len(Take) + 1 /\ InitTake[1] = "init"
        /\ \A i \in 1..Len(Take) : InitTake[i + 1] = Take[i]
    BY DEF Take, InitTake
  <2> QED BY <2>1, <2>2, InitFirst
<1>3. <<"init">> \o Send = InitSend
  <2>1. Send \in Seq(Steps) /\ InitSend \in Seq(Steps)
    BY DEF Send, InitSend, Steps
  <2>2. Len(InitSend) = Len(Send) + 1 /\ InitSend[1] = "init"
        /\ \A i \in 1..Len(Send) : InitSend[i + 1] = Send[i]
    BY DEF Send, InitSend
  <2> QED BY <2>1, <2>2, InitFirst
<1> QED BY <1>1, <1>2, <1>3 DEF WhenReady

\* What is left of a call after its first step is one of the plans.
LEMMA PlanTail == \A p \in Plans \ {Idle} : Tail(p) \in Plans
  BY PlanSteps DEF Plans

\* Which plans begin with a step.
LEMMA PlanOf ==
    ASSUME NEW t, todo[t] \in Plans
    PROVE  /\ Under(t, "init") => todo[t] \in {Initialise, InitStore, InitTake, InitSend}
           /\ Under(t, "save") => todo[t] = Store
           /\ Under(t, "prune") => todo[t] = Sweep
           /\ Under(t, "load") => todo[t] \in {Take, Send}
           /\ Under(t, "deliver") => todo[t] = Delivery
           /\ Under(t, "remove") => todo[t] = Drop
           /\ \A s \in Steps : Under(t, s) => todo[t] # Idle
  BY PlanSteps DEF Plans, Under, Idle

-----------------------------------------------------------------------------
(* The invariant. *)

\* What the store reads is a set of sessions, and that of an email token has a message.
Sound(f) ==
    \A k \in DOMAIN f : /\ k \in Tokens /\ f[k] \in Sessions
                        /\ k.type = "email" => f[k].mail \in Mails

StoreCalls == [owner : {"none", "email", "gateway"}, token : Tokens \cup {NoToken},
          session : Sessions, time : Nat, yes : BOOLEAN, late : BOOLEAN]

EmailTokens == {k \in Tokens : k.type = "email"}

Typed ==
    /\ clock \in Nat
    /\ job \in [Threads -> StoreCalls] /\ todo \in [Threads -> Plans]
    /\ at \in [Threads -> {"read", "write", "rename"}]
    /\ DOMAIN root = Threads /\ root = [t \in Threads |-> root[t]]
    /\ closed \subseteq EmailTokens

Writing(t) == \E s \in {"init", "save", "prune", "remove"} : Under(t, s)

\* A call has what its next steps need.
CallSound(t) ==
    /\ Locked(t) => Writing(t)
    /\ job[t].time <= clock
    /\ todo[t] \notin {Idle, Initialise} => job[t].token \in Tokens
    /\ todo[t] \in {Store, InitStore} /\ job[t].token.type = "email" => job[t].session.mail \in Mails
    /\ todo[t] \in {Store, InitStore, Delivery, Drop} =>
        (job[t].token.type = "email" <=> job[t].owner = "email")
    /\ todo[t] \in {Send, InitSend, Delivery} => job[t].owner = "email" /\ job[t].yes
    /\ todo[t] = Delivery =>
        job[t].session.mail \in Mails /\ job[t].time < job[t].session.expires /\ ~job[t].late

\* The file holds no token that was closed, except those that could not be removed.
FileSound == Sound(Stored) /\ \A k \in DOMAIN Stored : k \notin closed \ kept

\* The mutex of the path: who is between the reading and the rename is alone, so that the
\* file is still as it was read, if it could be read.
UpToDate(t) ==
    /\ Locked(t) => \/ root[t] = Changed(t, Stored)
                    \/ t \in blind /\ root[t] = Changed(t, Empty)
    /\ at[t] = "rename" => temp \in {root[t], Torn}

ApprovalInv ==
    /\ Typed
    /\ \A t \in Threads : CallSound(t)
    /\ FileSound
    /\ OneWriter
    /\ \A t \in Threads : UpToDate(t)
    /\ SentAsApproved

-----------------------------------------------------------------------------
(* Steps of one thread. *)

\* Two sets of variables that agree on a thread agree on what it is at.
LEMMA SameUnder ==
    ASSUME NEW t, todo'[t] = todo[t], job'[t] = job[t]
    PROVE  /\ \A s : Under(t, s)' <=> Under(t, s)
           /\ \A r : Changed(t, r)' = Changed(t, r)
  BY DEF Under, Changed, Restricted, Over

\* What a read gives is what the file holds, or nothing.
LEMMA ReadFacts ==
    /\ Sound(Empty) /\ DOMAIN Empty = {}
    /\ \A r \in ReadStoreJson :
          /\ r \in {Stored, Empty} /\ DOMAIN r \subseteq DOMAIN Stored
          /\ \A k \in DOMAIN r : r[k] = Stored[k]
<1>1. DOMAIN Empty = {}
  BY DEF Empty
<1> QED BY <1>1 DEF ReadStoreJson, Sound

\* The file says the same as long as it is the same.
LEMMA SameStored == file' = file => Stored' = Stored
  BY DEF Stored, Empty, NoJob

\* It is enough to look at the thread that moves, if the others are untouched and the
\* files too, or nobody else is using them.
LEMMA OneThread ==
    ASSUME ApprovalInv, NEW t \in Threads, clock' = clock,
           \A u \in Threads \ {t} :
              job'[u] = job[u] /\ todo'[u] = todo[u] /\ at'[u] = at[u] /\ root'[u] = root[u],
           Typed', CallSound(t)', FileSound', OneWriter', UpToDate(t)', SentAsApproved',
           (file' = file /\ temp' = temp) \/ \A u \in Threads \ {t} : ~Locked(u),
           blind \ {t} \subseteq blind'
    PROVE  ApprovalInv'
<1>1. ASSUME NEW u \in Threads \ {t} PROVE CallSound(u)'
  <2>1. \A s : Under(u, s)' <=> Under(u, s)
    BY SameUnder
  <2>2. CallSound(u)
    BY DEF ApprovalInv
  <2> QED BY <2>1, <2>2 DEF CallSound, Locked, Writing
<1>2. ASSUME NEW u \in Threads \ {t} PROVE UpToDate(u)'
  <2>1. UpToDate(u) /\ (Locked(u)' <=> Locked(u)) /\ (at[u] = "rename" => Locked(u))
    BY DEF ApprovalInv, Locked
  <2>2. CASE ~Locked(u)
    BY <2>1, <2>2 DEF UpToDate
  <2>3. CASE file' = file /\ temp' = temp
    <3>1. Stored' = Stored /\ Empty' = Empty
      BY <2>3, SameStored DEF Empty, NoJob
    <3>2. /\ Changed(u, Stored)' = Changed(u, Stored)
          /\ Changed(u, Empty)' = Changed(u, Empty)
      BY <3>1, SameUnder
    <3> QED BY <2>1, <2>3, <3>2 DEF UpToDate
  <2> QED BY <2>2, <2>3
<1> QED BY <1>1, <1>2 DEF ApprovalInv

\* The empty record of a thread without a call.
LEMMA NoJobCall ==
    /\ NoJob \in StoreCalls /\ NoJob.time = 0 /\ NoJob.owner = "none"
    /\ NoJob.session \in Sessions
  BY DEF NoJob, StoreCalls, Sessions

\* An operation that ends leaves its thread sound.
LEMMA FinishKeeps ==
    ASSUME ApprovalInv, NEW t \in Threads, NEW rest, Finish(t, rest), clock' = clock,
           closed' \subseteq EmailTokens,
           \/ rest = Idle
           \/ rest = Tail(todo[t]) /\ ~Under(t, "load") /\ todo[t] # Idle
    PROVE  /\ Typed' /\ CallSound(t)' /\ OneWriter' /\ UpToDate(t)' /\ ~Locked(t)'
           /\ blind \ {t} \subseteq blind'
           /\ \A u \in Threads \ {t} :
                job'[u] = job[u] /\ todo'[u] = todo[u] /\ at'[u] = at[u] /\ root'[u] = root[u]
<1>1. Typed /\ CallSound(t) /\ OneWriter
  BY DEF ApprovalInv
<1>2. rest \in Plans
  BY <1>1, PlanTail DEF Typed, Plans
<1>3. /\ at' = [at EXCEPT ![t] = "read"] /\ root' = [root EXCEPT ![t] = Empty]
      /\ todo' = [todo EXCEPT ![t] = rest]
      /\ job' = IF rest = <<>> THEN [job EXCEPT ![t] = NoJob] ELSE job
  BY DEF Finish
<1>4. /\ at'[t] = "read" /\ todo'[t] = rest
      /\ \A u \in Threads \ {t} :
            job'[u] = job[u] /\ todo'[u] = todo[u] /\ at'[u] = at[u] /\ root'[u] = root[u]
  BY <1>1, <1>3 DEF Typed
<1>5. Typed'
  <2>1. job' \in [Threads -> StoreCalls]
    BY <1>1, <1>3, NoJobCall DEF Typed
  <2>2. todo' \in [Threads -> Plans] /\ at' \in [Threads -> {"read", "write", "rename"}]
    BY <1>1, <1>2, <1>3 DEF Typed
  <2>3. DOMAIN root' = Threads /\ root' = [u \in Threads |-> root'[u]]
    BY <1>1, <1>3 DEF Typed
  <2> QED BY <1>1, <2>1, <2>2, <2>3 DEF Typed
<1>6. ~Locked(t)' /\ UpToDate(t)' /\ blind \ {t} \subseteq blind'
  BY <1>4 DEF Locked, UpToDate, Finish
<1>7. OneWriter'
  BY <1>1, <1>4, <1>6 DEF OneWriter, Locked
<1>8. CallSound(t)'
  <2>1. CASE rest = Idle
    <3>1. job'[t] = NoJob /\ job'[t].time <= clock'
      BY <2>1, <1>1, <1>3, NoJobCall DEF Typed, Idle
    <3>2. Idle \notin {Store, InitStore, Send, InitSend, Delivery, Drop}
      BY DEF Idle, Store, InitStore, Send, InitSend, Delivery, Drop
    <3> QED BY <2>1, <1>4, <1>6, <3>1, <3>2 DEF CallSound
  <2>2. CASE rest # Idle
    <3>1. job'[t] = job[t]
      BY <2>2, <1>3 DEF Idle
    <3>2. todo[t] \in Plans /\ todo[t] \notin {Take, Send} /\ rest = Tail(todo[t])
      BY <2>2, <1>1, PlanSteps, PlanIdle DEF Typed, Under, Plans, Idle
    <3>3. /\ todo[t] \notin {Idle, Initialise}
          /\ rest \in {Store, InitStore} => todo[t] = InitStore
          /\ rest \in {Send, InitSend, Delivery} => todo[t] = InitSend
          /\ rest = Drop => todo[t] = Delivery
          /\ rest # Delivery
      <4> DEFINE x == todo[t]
      <4>1. x \in {Store, Sweep, Delivery, Drop, InitStore, InitTake, InitSend}
        BY <2>2, <3>2, PlanSteps DEF Plans
      <4>2. Store # Send /\ Sweep \notin {Store, InitStore, Send, InitSend, Delivery}
            /\ Drop \notin {Store, InitStore, Send, InitSend, Delivery}
            /\ Take \notin {Store, InitStore, Send, InitSend, Delivery}
            /\ Store \notin {Send, InitSend, Delivery} /\ Send \notin {Store, InitStore, Delivery}
        BY DEF Store, Sweep, Drop, Take, Send, Delivery, InitStore, InitSend
      <4> HIDE DEF x
      <4>3. x # Idle /\ x # Initialise
        BY <4>1 DEF Store, Sweep, Delivery, Drop, InitStore, InitTake, InitSend, Idle, Initialise
      <4> QED BY <2>2, <3>2, <4>1, <4>2, <4>3, PlanSteps, ZenonT(40) DEF x
    <3> QED BY <1>1, <1>4, <1>6, <3>1, <3>3 DEF CallSound
  <2> QED BY <2>1, <2>2
<1> QED BY <1>4, <1>5, <1>6, <1>7, <1>8

\* What an operation makes of a sound file: it adds its own token or takes away its own
\* token or what is too old, and leaves the rest.
LEMMA ChangedSound ==
    ASSUME ApprovalInv, NEW t \in Threads, Writing(t), NEW r, Sound(r)
    PROVE  LET c == Changed(t, r) IN
           /\ Sound(c)
           /\ \A k \in DOMAIN c : \/ k \in DOMAIN r /\ c[k] = r[k]
                                  \/ Under(t, "save") /\ k = job[t].token
           /\ \A k \in DOMAIN r \ DOMAIN c :
                \/ Under(t, "prune") /\ Over(r[k], job[t].time)
                \/ Under(t, "remove") /\ k = job[t].token
           /\ Under(t, "remove") => job[t].token \notin DOMAIN c
<1> DEFINE c == Changed(t, r)
           token == job[t].token
<1>1. todo[t] \in Plans /\ job[t] \in StoreCalls /\ CallSound(t)
  BY DEF ApprovalInv, Typed
<1>2. CASE Under(t, "init")
  <2>1. c = r
    BY <1>2 DEF Changed, Under
  <2>2. ~Under(t, "remove")
    BY <1>2 DEF Under
  <2> QED BY <2>1, <2>2
<1>3. CASE Under(t, "save")
  <2>1. c = [k \in DOMAIN r \cup {token} |-> IF k = token THEN job[t].session ELSE r[k]]
    BY <1>3 DEF Changed, Under
  <2>2. /\ DOMAIN c = DOMAIN r \cup {token} /\ c[token] = job[t].session
        /\ \A k \in DOMAIN r : k # token => c[k] = r[k]
    BY <2>1
  <2>3. todo[t] = Store /\ ~Under(t, "remove")
    BY <1>1, <1>3, PlanOf DEF Under
  <2>4. token \in Tokens /\ (token.type = "email" => job[t].session.mail \in Mails)
    <3>1. Store \notin {Idle, Initialise}
      BY DEF Store, Idle, Initialise
    <3> QED BY <1>1, <2>3, <3>1 DEF CallSound
  <2>5. job[t].session \in Sessions
    BY <1>1 DEF StoreCalls
  <2> HIDE DEF c, token
  <2>6. Sound(c)
    BY <2>2, <2>4, <2>5 DEF Sound
  <2> QED BY <1>3, <2>2, <2>3, <2>6 DEF c, token
<1>4. CASE Under(t, "prune")
  <2>1. c = [k \in {x \in DOMAIN r : ~Over(r[x], job[t].time)} |-> r[k]]
    BY <1>4 DEF Changed, Under, Restricted
  <2>2. /\ DOMAIN c = {x \in DOMAIN r : ~Over(r[x], job[t].time)}
        /\ \A k \in DOMAIN c : c[k] = r[k]
    BY <2>1
  <2>3. ~Under(t, "remove")
    BY <1>4 DEF Under
  <2> HIDE DEF c
  <2> QED BY <1>4, <2>2, <2>3 DEF Sound, c
<1>5. CASE Under(t, "remove")
  <2>1. c = [k \in DOMAIN r \ {token} |-> r[k]]
    BY <1>5 DEF Changed, Under, Restricted
  <2>2. DOMAIN c = DOMAIN r \ {token} /\ \A k \in DOMAIN c : c[k] = r[k]
    BY <2>1
  <2> HIDE DEF c, token
  <2> QED BY <1>5, <2>2 DEF Sound, c, token
<1> QED BY <1>2, <1>3, <1>4, <1>5 DEF Writing

\* Free means that nobody else is between the reading and the rename.
LEMMA FreeAlone ==
    ASSUME NEW t \in Threads, Free(t)
    PROVE  \A u \in Threads : ~Locked(u)
  BY DEF Free, Mutexes

\* A call that begins.
LEMMA BeginKeeps ==
    ASSUME ApprovalInv, NEW t \in Threads, NEW j \in StoreCalls, NEW steps \in Plans,
           Begin(t, j, steps), j.time <= clock,
           steps \notin {Idle, Initialise} => j.token \in Tokens,
           steps \in {Store, InitStore} /\ j.token.type = "email" => j.session.mail \in Mails,
           steps \in {Send, InitSend} => j.owner = "email" /\ j.yes,
           steps \in {Store, InitStore} => (j.token.type = "email" <=> j.owner = "email"),
           steps \notin {Delivery, Drop}
    PROVE  ApprovalInv'
<1>1. Typed /\ CallSound(t) /\ OneWriter /\ FileSound /\ SentAsApproved
  BY DEF ApprovalInv
<1>2. /\ todo[t] = Idle /\ ~Locked(t)
  BY <1>1 DEF Begin, Idle, CallSound, Writing, Under
<1>3. /\ job' = [job EXCEPT ![t] = j] /\ todo' = [todo EXCEPT ![t] = steps]
      /\ UNCHANGED <<clock, file, temp, ready, at, root, ghosts>>
  BY DEF Begin
<1>4. /\ job'[t] = j /\ todo'[t] = steps
      /\ at' = at /\ root' = root /\ clock' = clock /\ closed' = closed /\ sent' = sent
      /\ file' = file /\ temp' = temp /\ kept' = kept /\ blind' = blind
      /\ \A u \in Threads \ {t} :
            job'[u] = job[u] /\ todo'[u] = todo[u] /\ at'[u] = at[u] /\ root'[u] = root[u]
  BY <1>1, <1>3 DEF Typed, ghosts
<1>5. Typed'
  BY <1>1, <1>3, <1>4 DEF Typed
<1>6. ~Locked(t)' /\ UpToDate(t)' /\ OneWriter'
  BY <1>1, <1>2, <1>4 DEF Locked, UpToDate, OneWriter
<1>7. CallSound(t)'
  BY <1>4, <1>6 DEF CallSound
<1>8. FileSound' /\ SentAsApproved'
  BY <1>1, <1>4, SameStored DEF FileSound, Sound, SentAsApproved
<1> QED BY <1>4, <1>5, <1>6, <1>7, <1>8, OneThread

\* The calls of a thread.
LEMMA CallStep == ASSUME ApprovalInv, NEW t \in Threads, Call(t) PROVE ApprovalInv'
<1>1. clock \in Nat
  BY DEF ApprovalInv, Typed
<1>2. /\ {Initialise, Store, InitStore, Take, InitTake, Send, InitSend} \subseteq Plans
      /\ {Delivery, Drop} \cap {Initialise, Store, InitStore, Take, InitTake, Send, InitSend} = {}
      /\ {Store, InitStore} \cap {Take, InitTake, Send, InitSend} = {}
      /\ {Send, InitSend} \cap {Store, InitStore, Take, InitTake} = {}
      /\ Initialise \notin {Store, InitStore, Send, InitSend}
  BY DEF Plans, Initialise, Store, InitStore, Take, InitTake, Send, InitSend, Delivery, Drop
<1>3. ASSUME StartServices(t) PROVE ApprovalInv'
  <2> DEFINE j == [NoJob EXCEPT !.owner = "gateway"]
  <2>1. j \in StoreCalls /\ j.time <= clock
    BY <1>1, NoJobCall DEF StoreCalls
  <2>2. Begin(t, j, Initialise)
    BY <1>3 DEF StartServices, Initialise
  <2> HIDE DEF j
  <2> QED BY <1>2, <2>1, <2>2, BeginKeeps
<1>4. ASSUME NEW m \in Mails, NEW l \in Lifetimes, Prepare(t, m, l) PROVE ApprovalInv'
  <2> DEFINE j == [NoJob EXCEPT !.owner = "email",
                                !.token = [type |-> "email", at |-> clock, lasts |-> l],
                                !.session = [mail |-> m, expires |-> clock + l],
                                !.time = clock]
  <2>1. clock + l \in Nat
    BY <1>1, ApprovalAssumption
  <2>2. j \in StoreCalls /\ j.time <= clock /\ j.token \in Tokens /\ j.session.mail \in Mails
      /\ j.token.type = "email" /\ j.owner = "email"
    <3> DEFINE k == [type |-> "email", at |-> clock, lasts |-> l]
               s == [mail |-> m, expires |-> clock + l]
    <3>1. k \in Tokens /\ s \in Sessions /\ s.mail \in Mails /\ k.type = "email"
      BY <1>1, <2>1 DEF Tokens, Types, Sessions
    <3>2. j = [NoJob EXCEPT !.owner = "email", !.token = k, !.session = s, !.time = clock]
      OBVIOUS
    <3> HIDE DEF j, k, s
    <3>3. j \in StoreCalls
      BY <1>1, <3>1, <3>2, NoJobCall DEF StoreCalls
    <3>4. j.time = clock /\ j.token = k /\ j.session = s /\ j.owner = "email"
      BY <3>2, NoJobCall DEF StoreCalls
    <3> QED BY <1>1, <3>1, <3>3, <3>4
  <2>3. PICK steps \in {Store, InitStore} : Begin(t, j, steps)
    BY <1>4, PlanInit DEF Prepare, Store
  <2> HIDE DEF j
  <2> QED BY <1>2, <2>2, <2>3, BeginKeeps
<1>5. ASSUME NEW l \in Lifetimes, RemediationPlan(t, l) PROVE ApprovalInv'
  <2> DEFINE j == [NoJob EXCEPT !.owner = "gateway",
                                !.token = [type |-> "remediation", at |-> clock, lasts |-> l],
                                !.session = [mail |-> NoMail, expires |-> clock + l],
                                !.time = clock]
  <2>1. clock + l \in Nat
    BY <1>1, ApprovalAssumption
  <2>2. j \in StoreCalls /\ j.time <= clock /\ j.token \in Tokens /\ j.token.type # "email"
      /\ j.owner = "gateway"
    <3> DEFINE k == [type |-> "remediation", at |-> clock, lasts |-> l]
               s == [mail |-> NoMail, expires |-> clock + l]
    <3>1. k \in Tokens /\ s \in Sessions /\ k.type # "email"
      BY <1>1, <2>1 DEF Tokens, Types, Sessions
    <3>2. j = [NoJob EXCEPT !.owner = "gateway", !.token = k, !.session = s, !.time = clock]
      OBVIOUS
    <3> HIDE DEF j, k, s
    <3>3. j \in StoreCalls
      BY <1>1, <3>1, <3>2, NoJobCall DEF StoreCalls
    <3>4. j.time = clock /\ j.token = k /\ j.session = s /\ j.owner = "gateway"
      BY <3>2, NoJobCall DEF StoreCalls
    <3> QED BY <1>1, <3>1, <3>3, <3>4
  <2>3. Begin(t, j, Store)
    BY <1>5 DEF RemediationPlan, Store
  <2> HIDE DEF j
  <2> QED BY <1>2, <2>2, <2>3, BeginKeeps
<1>6. Known \subseteq Tokens
  BY DEF Known, ApprovalInv, Typed, EmailTokens, FileSound, Sound
<1>7. ASSUME NEW k \in Known, ExecuteRemediation(t, k) PROVE ApprovalInv'
  <2> DEFINE j == [NoJob EXCEPT !.owner = "gateway", !.token = k, !.time = clock, !.yes = TRUE]
  <2>1. j \in StoreCalls /\ j.time <= clock /\ j.token \in Tokens
    <3>1. k \in Tokens
      BY <1>6
    <3>2. j \in StoreCalls
      BY <1>1, <3>1, NoJobCall DEF StoreCalls
    <3>3. j.time = clock /\ j.token = k
      BY NoJobCall DEF StoreCalls
    <3> HIDE DEF j
    <3> QED BY <1>1, <3>1, <3>2, <3>3
  <2>2. Begin(t, j, Take)
    BY <1>7 DEF ExecuteRemediation, Take
  <2> HIDE DEF j
  <2> QED BY <1>2, <2>1, <2>2, BeginKeeps
<1>8. ASSUME NEW k \in Known, NEW yes \in BOOLEAN, Approve(t, k, yes) PROVE ApprovalInv'
  <2> DEFINE j == [NoJob EXCEPT !.owner = "email", !.token = k, !.time = clock, !.yes = yes]
  <2>1. j \in StoreCalls /\ j.time <= clock /\ j.token \in Tokens /\ j.owner = "email"
    <3>1. k \in Tokens
      BY <1>6
    <3>2. j \in StoreCalls
      BY <1>1, <3>1, NoJobCall DEF StoreCalls
    <3>3. j.time = clock /\ j.token = k /\ j.owner = "email"
      BY NoJobCall DEF StoreCalls
    <3> HIDE DEF j
    <3> QED BY <1>1, <3>1, <3>2, <3>3
  <2>2. j.yes = yes
    BY NoJobCall DEF StoreCalls
  <2>3. \/ yes /\ \E steps \in {Send, InitSend} : Begin(t, j, steps)
        \/ \E steps \in {Take, InitTake} : Begin(t, j, steps)
    BY <1>8, PlanInit DEF Approve, Send, Take
  <2> HIDE DEF j
  <2>4. ASSUME yes, NEW steps \in {Send, InitSend}, Begin(t, j, steps) PROVE ApprovalInv'
    BY <1>2, <2>1, <2>2, <2>4, BeginKeeps
  <2>5. ASSUME NEW steps \in {Take, InitTake}, Begin(t, j, steps) PROVE ApprovalInv'
    BY <1>2, <2>1, <2>5, BeginKeeps
  <2> QED BY <2>3, <2>4, <2>5
<1> QED BY <1>3, <1>4, <1>5, <1>7, <1>8 DEF Call

\* What the caller is told keeps the record of the tokens sound.
LEMMA ToldKeeps ==
    ASSUME ApprovalInv, NEW t \in Threads, NEW gone \in BOOLEAN, Told(t, gone)
    PROVE  /\ closed' \subseteq EmailTokens
           /\ \A k : k \in closed' \ kept' =>
                \/ k \in closed \ kept
                \/ gone /\ k = job[t].token /\ Under(t, "remove")
           /\ gone /\ Under(t, "save") => job[t].token \notin closed' \ kept'
<1> DEFINE k == job[t].token
<1>1. closed \subseteq EmailTokens /\ CallSound(t) /\ todo[t] \in Plans
  BY DEF ApprovalInv, Typed
<1>2. /\ {Store, Drop} \cap {Idle, Initialise} = {}
      /\ Under(t, "save") => todo[t] = Store /\ ~Under(t, "remove")
      /\ Under(t, "remove") => todo[t] = Drop
  BY <1>1, PlanOf DEF Store, Drop, Idle, Initialise, Under
<1>3. Under(t, "save") \/ Under(t, "remove") =>
        k \in Tokens /\ (k.type = "email" <=> job[t].owner = "email")
  BY <1>1, <1>2 DEF CallSound
<1> HIDE DEF k
<1>4. CASE job[t].owner = "email" /\ Under(t, "remove")
  <2>1. closed' = closed \cup {k} /\ kept' = IF gone THEN kept \ {k} ELSE kept \cup {k}
    BY <1>2, <1>4 DEF Told, k
  <2> QED BY <1>1, <1>2, <1>3, <1>4, <2>1 DEF EmailTokens, k
<1>5. CASE job[t].owner = "email" /\ Under(t, "save") /\ gone
  <2>1. closed' = closed \ {k} /\ kept' = kept \ {k}
    BY <1>2, <1>5 DEF Told, k
  <2> QED BY <1>1, <1>5, <2>1 DEF k
<1>6. CASE /\ ~(job[t].owner = "email" /\ Under(t, "remove"))
           /\ ~(job[t].owner = "email" /\ Under(t, "save") /\ gone)
  <2>1. closed' = closed /\ kept' = kept
    BY <1>6 DEF Told
  <2>2. gone /\ Under(t, "save") => k \notin closed
    BY <1>1, <1>3, <1>6 DEF EmailTokens
  <2> QED BY <1>1, <2>1, <2>2 DEF k
<1> QED BY <1>4, <1>5, <1>6

\* Reading the file, and keeping what is to be written.
LEMMA ReadStep == ASSUME ApprovalInv, NEW t \in Threads, ReadStore(t) PROVE ApprovalInv'
<1>1. /\ Typed /\ CallSound(t) /\ OneWriter /\ FileSound /\ SentAsApproved
      /\ todo[t] \in Plans
  BY DEF ApprovalInv, Typed
<1>2. /\ Writing(t) /\ todo[t] # Idle /\ ~Under(t, "load")
      /\ \A u \in Threads : ~Locked(u)
      /\ file' = file /\ temp' = temp /\ clock' = clock /\ sent' = sent
  BY FreeAlone DEF ReadStore, Writing, Under, Idle
<1>3. SentAsApproved' /\ Stored' = Stored
  BY <1>1, <1>2, SameStored DEF SentAsApproved
<1>4. ASSUME NEW read \in ReadStoreJson, Told(t, read = Stored), Finish(t, Tail(todo[t])),
             Under(t, "prune") \/ Under(t, "remove"), Changed(t, read) = read
      PROVE  ApprovalInv'
  <2>1. closed' \subseteq EmailTokens
    BY <1>4, ToldKeeps
  <2>2. /\ Typed' /\ CallSound(t)' /\ OneWriter' /\ UpToDate(t)' /\ blind \ {t} \subseteq blind'
        /\ \A u \in Threads \ {t} :
              job'[u] = job[u] /\ todo'[u] = todo[u] /\ at'[u] = at[u] /\ root'[u] = root[u]
    BY <1>2, <1>4, <2>1, FinishKeeps
  <2>3. FileSound'
    <3>1. ASSUME NEW k \in DOMAIN Stored, k \in closed' \ kept' PROVE FALSE
      <4>1. k \notin closed \ kept
        BY <1>1 DEF FileSound
      <4>2. read = Stored /\ k = job[t].token /\ Under(t, "remove")
        BY <1>4, <3>1, <4>1, ToldKeeps
      <4>3. job[t].token \notin DOMAIN Changed(t, read)
        BY <1>1, <1>2, <4>2, ChangedSound DEF FileSound
      <4> QED BY <1>4, <4>2, <4>3
    <3> QED BY <1>1, <1>3, <3>1 DEF FileSound, Sound
  <2> QED BY <1>2, <1>3, <2>2, <2>3, OneThread
<1>5. ASSUME NEW read \in ReadStoreJson, at' = [at EXCEPT ![t] = "write"],
             root' = [root EXCEPT ![t] = Changed(t, read)],
             blind' = IF read = Stored THEN blind ELSE blind \cup {t},
             job' = job, todo' = todo, closed' = closed, kept' = kept
      PROVE  ApprovalInv'
  <2> DEFINE r == Changed(t, read)
  <2> HIDE DEF r
  <2>1. /\ at'[t] = "write" /\ root'[t] = r
        /\ \A u \in Threads \ {t} :
              job'[u] = job[u] /\ todo'[u] = todo[u] /\ at'[u] = at[u] /\ root'[u] = root[u]
    BY <1>1, <1>5 DEF Typed, r
  <2>2. Typed'
    <3>1. DOMAIN root' = Threads /\ root' = [u \in Threads |-> root'[u]]
      BY <1>1, <1>5 DEF Typed
    <3> QED BY <1>1, <1>2, <1>5, <3>1 DEF Typed
  <2>3. CallSound(t)'
    <3>1. \A s : Under(t, s)' <=> Under(t, s)
      BY <1>5, SameUnder
    <3> QED BY <1>1, <1>2, <1>5, <3>1 DEF CallSound, Writing
  <2>4. OneWriter'
    BY <1>2, <2>1 DEF OneWriter, Locked
  <2>5. UpToDate(t)'
    <3>1. Empty' = Empty
      BY DEF Empty, NoJob
    <3>2. /\ Changed(t, Stored)' = Changed(t, Stored)
          /\ Changed(t, Empty)' = Changed(t, Empty)
      BY <1>3, <1>5, <3>1, SameUnder
    <3>3. \/ r = Changed(t, Stored)
          \/ t \in blind' /\ r = Changed(t, Empty)
      BY <1>5, ReadFacts DEF r
    <3> QED BY <2>1, <3>2, <3>3 DEF UpToDate
  <2>6. FileSound' /\ blind \ {t} \subseteq blind'
    BY <1>1, <1>3, <1>5 DEF FileSound, Sound
  <2> QED BY <1>2, <1>3, <2>1, <2>2, <2>3, <2>4, <2>5, <2>6, OneThread
<1>6. PICK read \in ReadStoreJson :
        IF (Under(t, "prune") \/ Under(t, "remove")) /\ Changed(t, read) = read
        THEN Told(t, read = Stored) /\ Finish(t, Tail(todo[t]))
        ELSE /\ at' = [at EXCEPT ![t] = "write"]
             /\ root' = [root EXCEPT ![t] = Changed(t, read)]
             /\ blind' = IF read = Stored THEN blind ELSE blind \cup {t}
             /\ job' = job /\ todo' = todo /\ closed' = closed /\ kept' = kept
  BY DEF ReadStore
<1> QED BY <1>4, <1>5, <1>6

\* The file is replaced by what a thread made of it, or by a text that was cut off.
LEMMA RenameStep == ASSUME ApprovalInv, NEW t \in Threads, Rename(t) PROVE ApprovalInv'
<1> DEFINE token == job[t].token
<1>1. /\ Typed /\ CallSound(t) /\ OneWriter /\ FileSound /\ SentAsApproved /\ UpToDate(t)
      /\ todo[t] \in Plans
  BY DEF ApprovalInv, Typed
<1>2. /\ at[t] = "rename" /\ Locked(t) /\ Writing(t)
      /\ file' = temp /\ clock' = clock /\ sent' = sent
      /\ Finish(t, Tail(todo[t])) /\ Told(t, TRUE)
  BY <1>1 DEF Rename, Locked, CallSound
<1>3. todo[t] # Idle /\ ~Under(t, "load")
  BY <1>2 DEF Writing, Under, Idle
<1>4. closed' \subseteq EmailTokens
  BY <1>2, ToldKeeps
<1>5. /\ Typed' /\ CallSound(t)' /\ OneWriter' /\ UpToDate(t)' /\ blind \ {t} \subseteq blind'
      /\ \A u \in Threads \ {t} :
            job'[u] = job[u] /\ todo'[u] = todo[u] /\ at'[u] = at[u] /\ root'[u] = root[u]
  BY <1>2, <1>3, <1>4, FinishKeeps
<1>6. \A u \in Threads \ {t} : ~Locked(u)
  BY <1>1, <1>2 DEF OneWriter
<1>7. FileSound'
  <2>1. PICK r \in {Stored, Empty} : temp \in {Changed(t, r), Torn}
    BY <1>1, <1>2 DEF UpToDate
  <2> DEFINE c == Changed(t, r)
  <2>2. Sound(r) /\ \A k \in DOMAIN r : k \notin closed \ kept
    BY <1>1, <2>1, ReadFacts DEF FileSound
  <2>3. /\ Sound(c)
        /\ \A k \in DOMAIN c : k \in DOMAIN r \/ (Under(t, "save") /\ k = token)
        /\ Under(t, "remove") => token \notin DOMAIN c
    BY <1>2, <2>2, ChangedSound
  <2> HIDE DEF c
  <2>4. ASSUME NEW k \in DOMAIN c PROVE k \notin closed' \ kept'
    <3>1. CASE Under(t, "save") /\ k = token
      BY <1>2, <3>1, ToldKeeps
    <3>2. CASE k \in DOMAIN r
      BY <1>2, <2>2, <2>3, <2>4, <3>2, ToldKeeps
    <3> QED BY <2>3, <3>1, <3>2
  <2>5. CASE file' = Torn
    <3>1. Stored' = Empty
      BY <2>5 DEF Stored, Empty, NoJob
    <3> QED BY <3>1 DEF FileSound, Sound, Empty
  <2>6. CASE file' # Torn
    <3>1. Stored' = c
      BY <1>2, <2>1, <2>6 DEF Stored, c
    <3> QED BY <2>3, <2>4, <3>1 DEF FileSound, Sound
  <2> QED BY <2>5, <2>6
<1>8. SentAsApproved'
  BY <1>1, <1>2 DEF SentAsApproved
<1> QED BY <1>2, <1>5, <1>6, <1>7, <1>8, OneThread

\* The temporary file is written, whole or not.
LEMMA WriteStep == ASSUME ApprovalInv, NEW t \in Threads, WriteTemp(t) PROVE ApprovalInv'
<1>1. /\ Typed /\ CallSound(t) /\ OneWriter /\ FileSound /\ SentAsApproved /\ UpToDate(t)
  BY DEF ApprovalInv
<1>2. /\ at[t] = "write" /\ Locked(t) /\ at' = [at EXCEPT ![t] = "rename"]
      /\ temp' \in {root[t], Torn}
      /\ file' = file /\ clock' = clock /\ closed' = closed /\ sent' = sent
      /\ kept' = kept /\ blind' = blind
      /\ job' = job /\ todo' = todo /\ root' = root
  BY DEF WriteTemp, Locked, ghosts
<1>3. /\ at'[t] = "rename" /\ \A u \in Threads \ {t} : at'[u] = at[u]
      /\ \A u \in Threads : Locked(u)' <=> Locked(u)
  BY <1>1, <1>2 DEF Typed, Locked
<1>4. Typed'
  BY <1>1, <1>2 DEF Typed
<1>5. CallSound(t)'
  <2>1. \A s : Under(t, s)' <=> Under(t, s)
    BY <1>2, SameUnder
  <2> QED BY <1>1, <1>2, <1>3, <2>1 DEF CallSound, Writing
<1>6. OneWriter' /\ \A u \in Threads \ {t} : ~Locked(u)
  BY <1>1, <1>2, <1>3 DEF OneWriter
<1>7. UpToDate(t)'
  <2>1. Stored' = Stored /\ Empty' = Empty
    BY <1>2, SameStored DEF Empty, NoJob
  <2>2. /\ Changed(t, Stored)' = Changed(t, Stored)
        /\ Changed(t, Empty)' = Changed(t, Empty)
    BY <1>2, <2>1, SameUnder
  <2> QED BY <1>1, <1>2, <1>3, <2>2 DEF UpToDate
<1>8. FileSound' /\ SentAsApproved'
  BY <1>1, <1>2, SameStored DEF FileSound, Sound, SentAsApproved
<1> QED BY <1>2, <1>3, <1>4, <1>5, <1>6, <1>7, <1>8, OneThread

\* Nothing is written.
LEMMA FailStep == ASSUME ApprovalInv, NEW t \in Threads, WriteFails(t) PROVE ApprovalInv'
<1>1. /\ Typed /\ CallSound(t) /\ OneWriter /\ FileSound /\ SentAsApproved
      /\ todo[t] \in Plans
  BY DEF ApprovalInv, Typed
<1>2. /\ Locked(t) /\ Writing(t)
      /\ file' = file /\ clock' = clock /\ sent' = sent
      /\ Told(t, FALSE) /\ Finish(t, AfterFailure(t))
  BY <1>1 DEF WriteFails, Locked, CallSound
<1>3. todo[t] # Idle /\ ~Under(t, "load") /\ AfterFailure(t) \in {Idle, Tail(todo[t])}
  BY <1>2 DEF Writing, Under, Idle, AfterFailure
<1>4. closed' \subseteq EmailTokens /\ \A k : k \in closed' \ kept' => k \in closed \ kept
  BY <1>2, ToldKeeps
<1>5. /\ Typed' /\ CallSound(t)' /\ OneWriter' /\ UpToDate(t)' /\ blind \ {t} \subseteq blind'
      /\ \A u \in Threads \ {t} :
            job'[u] = job[u] /\ todo'[u] = todo[u] /\ at'[u] = at[u] /\ root'[u] = root[u]
  BY <1>2, <1>3, <1>4, FinishKeeps
<1>6. \A u \in Threads \ {t} : ~Locked(u)
  BY <1>1, <1>2 DEF OneWriter
<1>7. SentAsApproved' /\ Stored' = Stored
  BY <1>1, <1>2, SameStored DEF SentAsApproved
<1>8. FileSound'
  BY <1>1, <1>4, <1>7 DEF FileSound, Sound
<1> QED BY <1>2, <1>5, <1>6, <1>7, <1>8, OneThread

\* A token is looked up: what goes on to the delivery has a message, is in time and was
\* not closed.
LEMMA LoadStep == ASSUME ApprovalInv, NEW t \in Threads, Load(t) PROVE ApprovalInv'
<1> DEFINE k == job[t].token
<1>1. /\ Typed /\ CallSound(t) /\ OneWriter /\ FileSound /\ SentAsApproved
      /\ todo[t] \in Plans /\ job[t] \in StoreCalls
  BY DEF ApprovalInv, Typed
<1>2. /\ Under(t, "load") /\ \A u \in Threads : ~Locked(u)
      /\ file' = file /\ temp' = temp /\ clock' = clock /\ closed' = closed /\ sent' = sent
      /\ kept' = kept
  BY FreeAlone DEF Load
<1>3. todo[t] \in {Take, Send}
  BY <1>1, <1>2, PlanOf
<1>4. FileSound' /\ SentAsApproved'
  BY <1>1, <1>2, SameStored DEF FileSound, Sound, SentAsApproved
<1>5. CASE Finish(t, <<>>)
  <2>1. closed' \subseteq EmailTokens
    BY <1>1, <1>2 DEF Typed
  <2>2. /\ Typed' /\ CallSound(t)' /\ OneWriter' /\ UpToDate(t)'
        /\ blind \ {t} \subseteq blind'
        /\ \A u \in Threads \ {t} :
              job'[u] = job[u] /\ todo'[u] = todo[u] /\ at'[u] = at[u] /\ root'[u] = root[u]
    BY <1>2, <1>5, <2>1, FinishKeeps DEF Idle
  <2> QED BY <1>2, <1>4, <2>2, OneThread
<1>6. ASSUME NEW r \in ReadStoreJson, Accepted(t, r),
             todo' = [todo EXCEPT ![t] = Tail(@)],
             job' = [job EXCEPT ![t].session = r[k], ![t].late = k \in closed \ kept],
             at' = at /\ root' = root /\ blind' = blind
      PROVE  ApprovalInv'
  <2>1. /\ k \in DOMAIN r /\ r[k] \in Sessions /\ k \in Tokens
        /\ job[t].time < r[k].expires
        /\ job[t].owner = "email" => r[k].mail \in Mails
        /\ k.type = "email" <=> job[t].owner = "email"
    <3>1. k \in DOMAIN r /\ ~Over(r[k], job[t].time) /\ (k.type = "email" <=> job[t].owner = "email")
      BY <1>6 DEF Accepted
    <3>2. r[k] \in Sessions /\ k \in Tokens /\ (k.type = "email" => r[k].mail \in Mails)
      BY <1>1, <3>1, ReadFacts DEF FileSound, Sound
    <3>3. job[t].time \in Nat /\ r[k].expires \in Nat
      BY <1>1, <3>2 DEF StoreCalls, Sessions
    <3> QED BY <3>1, <3>2, <3>3 DEF Over
  <2>2. k \notin closed \ kept
    BY <1>1, <2>1, ReadFacts DEF FileSound
  <2>3. PICK j \in StoreCalls :
          /\ job' = [job EXCEPT ![t] = j]
          /\ j.session = r[k] /\ ~j.late /\ (job[t].yes => j.yes)
          /\ j.owner = job[t].owner /\ j.token = k /\ j.time = job[t].time
    <3> DEFINE j == [job[t] EXCEPT !.session = r[k], !.late = k \in closed \ kept]
    <3>1. job' = [job EXCEPT ![t] = j]
      BY <1>1, <1>6 DEF Typed
    <3>2. j \in StoreCalls
      <4>1. \A b \in BOOLEAN : [job[t] EXCEPT !.session = r[k], !.late = b] \in StoreCalls
        BY <1>1, <2>1 DEF StoreCalls
      <4>2. (k \in closed \ kept) \in BOOLEAN
        OBVIOUS
      <4> QED BY <4>1, <4>2
    <3>3. ~j.late
      BY <1>1, <2>2 DEF StoreCalls
    <3>4. job[t].yes => j.yes
      BY <1>1 DEF StoreCalls
    <3>5. j.session = r[k] /\ j.owner = job[t].owner /\ j.token = k /\ j.time = job[t].time
      BY <1>1 DEF StoreCalls
    <3> HIDE DEF j
    <3> QED BY <3>1, <3>2, <3>3, <3>4, <3>5
  <2> HIDE DEF k
  <2>4. /\ job'[t] = j /\ todo'[t] = Tail(todo[t]) /\ todo'[t] \in {Drop, Delivery}
        /\ todo'[t] = Delivery => todo[t] = Send
        /\ \A u \in Threads \ {t} :
              job'[u] = job[u] /\ todo'[u] = todo[u] /\ at'[u] = at[u] /\ root'[u] = root[u]
    <3>1. Drop # Delivery
      BY DEF Drop, Delivery
    <3> QED BY <1>1, <1>3, <1>6, <2>3, <3>1, PlanSteps, ZenonT(40) DEF Typed
  <2>5. Typed'
    <3>1. todo' \in [Threads -> Plans]
      BY <1>1, <1>6, <2>4 DEF Typed, Plans
    <3>2. job' \in [Threads -> StoreCalls]
      BY <1>1, <2>3 DEF Typed
    <3> QED BY <1>1, <1>2, <1>6, <3>1, <3>2 DEF Typed
  <2>6. ~Locked(t)' /\ OneWriter' /\ UpToDate(t)'
    BY <1>1, <1>2, <1>6 DEF Locked, OneWriter, UpToDate
  <2>7. CallSound(t)'
    <3>1. {Drop, Delivery} \cap {Store, InitStore, Send, InitSend} = {} /\ Drop # Delivery
      BY DEF Drop, Delivery, Store, InitStore, Send, InitSend
    <3>2. todo'[t] = Delivery =>
            j.owner = "email" /\ j.yes /\ j.session.mail \in Mails /\ j.time < j.session.expires
      BY <1>1, <2>1, <2>3, <2>4 DEF CallSound
    <3>3. j.time <= clock /\ j.token \in Tokens
      BY <1>1, <2>1, <2>3 DEF CallSound
    <3>4. j.token.type = "email" <=> j.owner = "email"
      BY <2>1, <2>3
    <3> QED BY <1>2, <2>3, <2>4, <2>6, <3>1, <3>2, <3>3, <3>4 DEF CallSound
  <2> QED BY <1>2, <1>4, <1>6, <2>4, <2>5, <2>6, <2>7, OneThread
<1> QED BY <1>5, <1>6 DEF Load

\* A message goes out.
LEMMA DeliverStep == ASSUME ApprovalInv, NEW t \in Threads, Deliver(t) PROVE ApprovalInv'
<1>1. /\ Typed /\ CallSound(t) /\ OneWriter /\ FileSound /\ SentAsApproved
      /\ todo[t] \in Plans
  BY DEF ApprovalInv, Typed
<1>2. /\ Under(t, "deliver")
      /\ file' = file /\ temp' = temp /\ clock' = clock /\ closed' = closed /\ kept' = kept
  BY DEF Deliver
<1>3. todo[t] = Delivery /\ todo[t] # Idle /\ ~Under(t, "load") /\ ~Locked(t)
  BY <1>1, <1>2, PlanOf DEF Under, Idle, CallSound, Writing
<1>4. FileSound'
  BY <1>1, <1>2, SameStored DEF FileSound, Sound
<1>5. CASE Finish(t, <<>>) /\ sent' = sent
  <2>1. closed' \subseteq EmailTokens /\ SentAsApproved'
    BY <1>1, <1>2, <1>5 DEF Typed, SentAsApproved
  <2>2. /\ Typed' /\ CallSound(t)' /\ OneWriter' /\ UpToDate(t)'
        /\ blind \ {t} \subseteq blind'
        /\ \A u \in Threads \ {t} :
              job'[u] = job[u] /\ todo'[u] = todo[u] /\ at'[u] = at[u] /\ root'[u] = root[u]
    BY <1>2, <1>5, <2>1, FinishKeeps DEF Idle
  <2> QED BY <1>2, <1>4, <2>1, <2>2, OneThread
<1>6. CASE /\ sent' = sent \cup {[token |-> job[t].token, mail |-> job[t].session.mail,
                                  yes |-> job[t].yes, late |-> job[t].late,
                                  inTime |-> job[t].time < job[t].session.expires]}
           /\ todo' = [todo EXCEPT ![t] = Tail(@)]
           /\ job' = job /\ at' = at /\ root' = root /\ blind' = blind
  <2>1. /\ todo'[t] = Drop /\ job'[t] = job[t]
        /\ \A u \in Threads \ {t} :
              job'[u] = job[u] /\ todo'[u] = todo[u] /\ at'[u] = at[u] /\ root'[u] = root[u]
    BY <1>1, <1>3, <1>6, PlanSteps DEF Typed
  <2>2. Typed'
    BY <1>1, <1>2, <1>6, <2>1 DEF Typed, Plans
  <2>3. ~Locked(t)' /\ OneWriter' /\ UpToDate(t)'
    BY <1>1, <1>3, <1>6 DEF Locked, OneWriter, UpToDate
  <2>4. CallSound(t)'
    <3>1. Drop \notin {Idle, Initialise, Store, InitStore, Send, InitSend, Delivery}
          /\ Delivery \notin {Idle, Initialise}
      BY DEF Idle, Initialise, Drop, Store, InitStore, Send, InitSend, Delivery
    <3> QED BY <1>1, <1>2, <1>3, <2>1, <2>3, <3>1 DEF CallSound
  <2>5. SentAsApproved'
    <3>1. /\ job[t].session.mail \in Mails /\ job[t].yes /\ ~job[t].late
          /\ job[t].time < job[t].session.expires
      BY <1>1, <1>3 DEF CallSound
    <3>2. ASSUME NEW d \in sent' PROVE d.mail \in Mails /\ d.yes /\ d.inTime /\ ~d.late
      <4>1. CASE d \in sent
        BY <1>1, <4>1 DEF SentAsApproved
      <4>2. CASE d \notin sent
        <5>1. d = [token |-> job[t].token, mail |-> job[t].session.mail,
                   yes |-> job[t].yes, late |-> job[t].late,
                   inTime |-> job[t].time < job[t].session.expires]
          BY <1>6, <3>2, <4>2
        <5> QED BY <3>1, <5>1
      <4> QED BY <4>1, <4>2
    <3> QED BY <3>2 DEF SentAsApproved
  <2> QED BY <1>2, <1>4, <1>6, <2>1, <2>2, <2>3, <2>4, <2>5, OneThread
<1> QED BY <1>5, <1>6 DEF Deliver

-----------------------------------------------------------------------------
(* The theorems. *)

\* The invariant holds at the start, ...
LEMMA InvInit == ApprovalInit => ApprovalInv
<1> SUFFICES ASSUME ApprovalInit PROVE ApprovalInv
  OBVIOUS
<1>1. Typed
  <2>1. Idle \in Plans
    BY DEF Plans
  <2> QED BY <2>1, NoJobCall DEF ApprovalInit, Typed, Idle
<1>2. \A t \in Threads : ~Locked(t) /\ todo[t] = Idle /\ job[t] = NoJob
  BY DEF ApprovalInit, Locked, Idle
<1>3. \A t \in Threads : CallSound(t)
  <2>1. Idle \notin {Store, InitStore, Send, InitSend, Delivery, Drop}
    BY DEF Idle, Store, InitStore, Send, InitSend, Delivery, Drop
  <2>2. NoJob.time <= clock
    BY NoJobCall DEF ApprovalInit
  <2> QED BY <1>2, <2>1, <2>2 DEF CallSound
<1>4. FileSound
  BY DEF ApprovalInit, FileSound, Sound, Stored, Empty
<1>5. OneWriter /\ (\A t \in Threads : UpToDate(t)) /\ SentAsApproved
  BY <1>2 DEF ApprovalInit, OneWriter, UpToDate, Locked, SentAsApproved
<1> QED BY <1>1, <1>3, <1>4, <1>5 DEF ApprovalInv

\* ... after a crash, ...
LEMMA CrashStep == ASSUME ApprovalInv, Crash PROVE ApprovalInv'
<1>1. Typed /\ FileSound /\ SentAsApproved
  BY DEF ApprovalInv
<1>2. file' = file /\ clock' = clock /\ closed' = closed /\ kept' = kept /\ sent' = sent
  BY DEF Crash
<1>3. Typed'
  <2>1. Idle \in Plans
    BY DEF Plans
  <2> QED BY <1>1, <1>2, <2>1, NoJobCall DEF Crash, Typed, Idle
<1>4. \A t \in Threads : ~Locked(t)' /\ todo'[t] = Idle /\ job'[t] = NoJob /\ at'[t] = "read"
  BY DEF Crash, Locked, Idle
<1>5. \A t \in Threads : CallSound(t)'
  <2>1. Idle \notin {Store, InitStore, Send, InitSend, Delivery, Drop}
    BY DEF Idle, Store, InitStore, Send, InitSend, Delivery, Drop
  <2>2. NoJob.time <= clock'
    BY <1>1, <1>2, NoJobCall DEF Typed
  <2> QED BY <1>4, <2>1, <2>2 DEF CallSound
<1>6. FileSound' /\ SentAsApproved'
  BY <1>1, <1>2, SameStored DEF FileSound, Sound, SentAsApproved
<1>7. OneWriter' /\ \A t \in Threads : UpToDate(t)'
  BY <1>4 DEF OneWriter, UpToDate
<1> QED BY <1>3, <1>5, <1>6, <1>7 DEF ApprovalInv

\* ... and when time passes or nothing happens.
LEMMA IdleStep ==
    ASSUME ApprovalInv, clock' \in Nat, clock <= clock',
           UNCHANGED <<file, temp, ready, threadVars, ghosts>>
    PROVE  ApprovalInv'
<1>1. Typed /\ FileSound /\ SentAsApproved /\ OneWriter
      /\ \A t \in Threads : CallSound(t) /\ UpToDate(t)
  BY DEF ApprovalInv
<1>2. /\ file' = file /\ temp' = temp /\ job' = job /\ todo' = todo /\ at' = at /\ root' = root
      /\ closed' = closed /\ sent' = sent /\ kept' = kept /\ blind' = blind
  BY DEF threadVars, ghosts
<1>3. Typed' /\ OneWriter' /\ FileSound' /\ SentAsApproved'
  BY <1>1, <1>2, SameStored DEF Typed, OneWriter, Locked, FileSound, Sound, SentAsApproved
<1>4. ASSUME NEW t \in Threads PROVE CallSound(t)' /\ UpToDate(t)'
  <2>1. /\ \A s : Under(t, s)' <=> Under(t, s)
        /\ \A r : Changed(t, r)' = Changed(t, r)
    BY <1>2, SameUnder
  <2>2. Stored' = Stored /\ Empty' = Empty
    BY <1>2, SameStored DEF Empty, NoJob
  <2>3. job[t].time \in Nat /\ clock \in Nat
    BY <1>1 DEF Typed, StoreCalls
  <2>4. job'[t].time <= clock'
    BY <1>1, <1>2, <2>3 DEF CallSound
  <2>5. CallSound(t)'
    BY <1>1, <1>2, <2>1, <2>4 DEF CallSound, Locked, Writing
  <2>6. UpToDate(t)'
    BY <1>1, <1>2, <2>1, <2>2 DEF UpToDate, Locked
  <2> QED BY <2>5, <2>6
<1> QED BY <1>3, <1>4 DEF ApprovalInv

\* Every step keeps it.
LEMMA InvStep == ASSUME ApprovalInv, [ApprovalNext]_approvalVars PROVE ApprovalInv'
<1>1. clock \in Nat
  BY DEF ApprovalInv, Typed
<1>2. CASE UNCHANGED approvalVars
  <2>1. clock' \in Nat /\ clock <= clock' /\ UNCHANGED <<file, temp, ready, threadVars, ghosts>>
    BY <1>1, <1>2 DEF approvalVars
  <2> QED BY <2>1, IdleStep
<1>3. CASE Pass
  <2>1. clock' \in Nat /\ clock <= clock' /\ UNCHANGED <<file, temp, ready, threadVars, ghosts>>
    BY <1>1, <1>3 DEF Pass
  <2> QED BY <2>1, IdleStep
<1>4. CASE Crash
  BY <1>4, CrashStep
<1>5. ASSUME NEW t \in Threads,
             Call(t) \/ ReadStore(t) \/ WriteTemp(t) \/ Rename(t) \/ WriteFails(t)
             \/ Load(t) \/ Deliver(t)
      PROVE  ApprovalInv'
  BY <1>5, CallStep, ReadStep, WriteStep, RenameStep, FailStep, LoadStep, DeliverStep
<1> QED BY <1>2, <1>3, <1>4, <1>5 DEF ApprovalNext

\* A message goes out only for a session of its kind that the user said yes to before it
\* expired; and never for a call made after another was told that the token was used or
\* cancelled, unless the removal failed then or the token was saved again.
THEOREM SendingApproved == ApprovalSpec => []SentAsApproved
<1>1. ApprovalInv => SentAsApproved
  BY DEF ApprovalInv
<1> QED BY <1>1, InvInit, InvStep, PTL DEF ApprovalSpec

\* The two store objects exclude each other between the reading and the rename.
THEOREM WritersExclude == ApprovalSpec => []OneWriter
<1>1. ApprovalInv => OneWriter
  BY DEF ApprovalInv
<1> QED BY <1>1, InvInit, InvStep, PTL DEF ApprovalSpec

\* What a step does to a file that can be read before and after it.
LEMMA UpdateStep ==
    ASSUME ApprovalInv, ApprovalNext, file # Torn, file' # Torn
    PROVE  /\ \A k \in DOMAIN file' :
                 \/ k \in DOMAIN file /\ file'[k] = file[k]
                 \/ Writes("save", k)
           /\ \A k \in DOMAIN file \ DOMAIN file' :
                 Over(file[k], clock) \/ Writes("remove", k) \/ WritesBlind
<1>1. CASE \A t \in Threads : ~Rename(t)
  <2>1. file' = file
    BY <1>1 DEF ApprovalNext, Crash, Pass, Call, StartServices, Prepare, RemediationPlan,
                ExecuteRemediation, Approve, Begin, ReadStore, WriteTemp, WriteFails, Load, Deliver
  <2> QED BY <2>1
<1>2. ASSUME NEW t \in Threads, Rename(t)
      PROVE  /\ \A k \in DOMAIN file' :
                   \/ k \in DOMAIN file /\ file'[k] = file[k]
                   \/ Writes("save", k)
             /\ \A k \in DOMAIN file \ DOMAIN file' :
                   Over(file[k], clock) \/ Writes("remove", k) \/ WritesBlind
  <2> DEFINE c == Changed(t, file)
  <2>1. /\ Typed /\ CallSound(t) /\ Sound(file) /\ UpToDate(t) /\ Stored = file
    BY DEF ApprovalInv, FileSound, Stored
  <2>2. at[t] = "rename" /\ Writing(t) /\ file' \in {c, Changed(t, Empty)}
        /\ (file' = c \/ t \in blind)
    BY <1>2, <2>1 DEF Rename, Locked, CallSound, UpToDate
  <2>3. /\ \A k \in DOMAIN c : \/ k \in DOMAIN file /\ c[k] = file[k]
                               \/ Under(t, "save") /\ k = job[t].token
        /\ \A k \in DOMAIN file \ DOMAIN c :
              \/ Under(t, "prune") /\ Over(file[k], job[t].time)
              \/ Under(t, "remove") /\ k = job[t].token
    BY <2>1, <2>2, ChangedSound
  <2> HIDE DEF c
  <2>4. \A k \in DOMAIN Changed(t, Empty) : Under(t, "save") /\ k = job[t].token
    BY <2>2, ReadFacts, ChangedSound
  <2>5. ASSUME NEW k \in DOMAIN file, Over(file[k], job[t].time) PROVE Over(file[k], clock)
    <3>1. job[t].time \in Nat /\ clock \in Nat /\ job[t].time <= clock /\ file[k].expires \in Nat
      BY <2>1 DEF Typed, StoreCalls, CallSound, Sound, Sessions
    <3> QED BY <2>5, <3>1 DEF Over
  <2>6. CASE file' = c
    BY <2>2, <2>3, <2>5, <2>6 DEF Writes
  <2>7. CASE file' = Changed(t, Empty) /\ t \in blind
    BY <2>2, <2>4, <2>7 DEF Writes, WritesBlind
  <2> QED BY <2>2, <2>6, <2>7
<1> QED BY <1>1, <1>2

\* No session of the file is lost, changed or brought back by the other store object, by
\* another thread or by a crash, except by a writer that could not open the file to read it
\* and as long as the disk does not cut the file off.
THEOREM UpdatesKept == ApprovalSpec => NoLostUpdate
<1>1. ASSUME ApprovalInv, [ApprovalNext]_approvalVars
      PROVE  [file # Torn /\ file' # Torn =>
                /\ \A k \in DOMAIN file' :
                      \/ k \in DOMAIN file /\ file'[k] = file[k]
                      \/ Writes("save", k)
                /\ \A k \in DOMAIN file \ DOMAIN file' :
                      Over(file[k], clock) \/ Writes("remove", k) \/ WritesBlind]_approvalVars
  BY <1>1, UpdateStep
<1> QED BY <1>1, InvInit, InvStep, PTL DEF ApprovalSpec, NoLostUpdate
=============================================================================
