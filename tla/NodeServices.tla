---------------------------- MODULE NodeServices ----------------------------
(***************************************************************************)
(* What the gateway keeps about remote nodes: pairing requests and paired   *)
(* nodes (GatewayNodePairingService), the actions that wait for a node      *)
(* (GatewayNodePendingActionQueue) and when it was last woken               *)
(* (GatewayNodeWakeService), with the node.* and device.pair.* handlers.    *)
(*                                                                         *)
(* The vector of a node's actions is the set of them: they are appended     *)
(* with growing ids, so the order is that of the ids.  Calls that are       *)
(* refused change nothing and have no action.  Names, events, parameters,   *)
(* counters and the nudge, which only an unreachable branch sends, are left *)
(* out; the offsets of 50 to 120 ms that node.invoke adds to the time are   *)
(* zero.                                                                    *)
(***************************************************************************)
EXTENDS Naturals, FiniteSets

CONSTANTS
    Nodes, Commands, Keys,
    Surfaces,        \* what a node may declare of itself
    Scopes,
    RequiredScope,   \* the scope an approval of a surface takes
    MaxPerNode, ActionTtl, WakeThrottle, ReconnectWait, ReconnectRetryWait,
    MaxTime, MaxIds  \* bounds on the clock and on each of the sequences

ASSUME NodeAssumption ==
    /\ RequiredScope \in [Surfaces -> Scopes]
    /\ {MaxPerNode, ActionTtl, WakeThrottle, ReconnectWait, ReconnectRetryWait} \subseteq Nat
    /\ MaxPerNode > 0

VARIABLES
    now,
    requests,    \* m_pendingByRequestId
    paired,      \* m_pairedByNodeId; by: the scopes of the caller who approved it
    queue,       \* m_actionsByNodeId
    woken,       \* m_wakeByNodeId: lastWakeAtMs, 0 if there is none
    nextRequest, nextToken, nextAction,
    call         \* the last call served, for the properties

pairingVars == <<requests, paired, nextRequest, nextToken>>
actionVars == <<queue, nextAction>>
nodeVars == <<now, pairingVars, actionVars, woken, call>>

Requests == [id : Nat, node : Nodes, surface : Surfaces, scope : Scopes]
Pairings == [node : Nodes, surface : Surfaces, token : Nat, by : SUBSET Scopes]
PendingActions == [id : Nat, command : Commands, key : Keys, at : Nat]
Calls == [op : {"none", "pair", "enqueue", "pull", "ack", "drain", "invoke"},
          node : Nodes, ids : SUBSET Nat, allowed : SUBSET Commands]

Called(op, n, ids, allowed) == [op |-> op, node |-> n, ids |-> ids, allowed |-> allowed]

NodeInit ==
    /\ now = 1
    /\ requests = {} /\ paired = {}
    /\ queue = [n \in Nodes |-> {}]
    /\ woken = [n \in Nodes |-> 0]
    /\ nextRequest = 1 /\ nextToken = 1 /\ nextAction = 1
    /\ \E n \in Nodes : call = Called("none", n, {}, {})

-----------------------------------------------------------------------------
(* Pairing. *)

Request(id, n, s) == [id |-> id, node |-> n, surface |-> s, scope |-> RequiredScope[s]]

\* Fault: the scope of what was declared first is kept.
RefreshedSurface(r, s) == [r EXCEPT !.surface = s]

\* What a request becomes when its node declares itself anew.
Refreshed(r, s) == Request(r.id, r.node, s)

PairingCall(n) == call' = Called("pair", n, {}, {}) /\ UNCHANGED <<now, actionVars, woken>>

\* node.pair.request: a node has one request, which a second call refreshes in place.
RequestPairing(n, s) ==
    /\ \/ /\ \A r \in requests : r.node # n
          /\ nextRequest <= MaxIds
          /\ requests' = requests \cup {Request(nextRequest, n, s)}
          /\ nextRequest' = nextRequest + 1
       \/ \E r \in requests :
            /\ r.node = n
            /\ requests' = (requests \ {r}) \cup {Refreshed(r, s)}
            /\ UNCHANGED nextRequest
    /\ UNCHANGED <<paired, nextToken>>
    /\ PairingCall(n)

\* node.pair.approve and device.pair.approve, by a caller who holds scopes.
ApprovePairing(id, scopes) ==
    \E r \in requests :
        /\ r.id = id
        /\ r.scope \in scopes
        /\ nextToken <= MaxIds
        /\ paired' = {p \in paired : p.node # r.node} \cup
              {[node |-> r.node, surface |-> r.surface, token |-> nextToken, by |-> scopes]}
        /\ requests' = requests \ {r}
        /\ nextToken' = nextToken + 1
        /\ UNCHANGED nextRequest
        /\ PairingCall(r.node)

\* node.pair.reject and device.pair.reject.
RejectPairing(id) ==
    \E r \in requests :
        /\ r.id = id
        /\ requests' = requests \ {r}
        /\ UNCHANGED <<paired, nextRequest, nextToken>>
        /\ PairingCall(r.node)

\* device.pair.remove: what waits for the node stays.
RemovePairedNode(n) ==
    /\ \E p \in paired : p.node = n
    /\ paired' = {p \in paired : p.node # n}
    /\ UNCHANGED <<requests, nextRequest, nextToken>>
    /\ PairingCall(n)

\* VerifyNodeToken: node.pair.verify, and the bearer token of a request over HTTP.
VerifyNodeToken(n, token) == \E p \in paired : p.node = n /\ p.token = token

-----------------------------------------------------------------------------
(* Actions that wait for a node. *)

Expired(a, time) == time > a.at + ActionTtl
Prune(q) == {a \in q : ~Expired(a, now)}

\* The newest MaxPerNode of them.
Newest(q) == {a \in q : Cardinality({b \in q : b.id > a.id}) < MaxPerNode}

PendingAction(c, k) == [id |-> nextAction, command |-> c, key |-> k, at |-> now]

Enqueue(n, c, k) ==
    LET live == Prune(queue[n]) IN
    IF \E a \in live : a.key = k
    THEN queue' = [queue EXCEPT ![n] = live] /\ UNCHANGED nextAction
    ELSE /\ queue' = [queue EXCEPT ![n] = Newest(live \cup {PendingAction(c, k)})]
         /\ nextAction' = nextAction + 1

\* An empty set of commands allows all of them.
PullAllowed(q, allowed) == {a \in Prune(q) : allowed = {} \/ a.command \in allowed}

\* Fault: an acknowledgement that names nothing acknowledges everything.
AckAll(q, ids) == {a \in Prune(q) : ids # {} /\ a.id \notin ids}

Ack(q, ids) == {a \in Prune(q) : a.id \notin ids}

\* node.pending.enqueue, and the List that its answer takes.
PendingEnqueue(n, c, k) ==
    /\ nextAction <= MaxIds
    /\ Enqueue(n, c, k)
    /\ call' = Called("enqueue", n, {}, {})
    /\ UNCHANGED <<now, pairingVars, woken>>

\* node.pending.pull: what is returned stays queued, what is not allowed is dropped.
PendingPull(n, allowed) ==
    /\ queue' = [queue EXCEPT ![n] = PullAllowed(@, allowed)]
    /\ call' = Called("pull", n, {}, allowed)
    /\ UNCHANGED <<now, pairingVars, nextAction, woken>>

\* node.pending.ack.
PendingAck(n, ids) ==
    /\ queue' = [queue EXCEPT ![n] = Ack(@, ids)]
    /\ call' = Called("ack", n, ids, {})
    /\ UNCHANGED <<now, pairingVars, nextAction, woken>>

\* node.pending.drain: pulls everything, then acknowledges the ids the caller named.
PendingDrain(n, ids) ==
    /\ queue' = [queue EXCEPT ![n] = Ack(PullAllowed(@, {}), ids)]
    /\ call' = Called("drain", n, ids, {})
    /\ UNCHANGED <<now, pairingVars, nextAction, woken>>

-----------------------------------------------------------------------------
(* node.invoke. *)

\* When the node is taken to have been woken, after a wake that may be throttled.
MaybeWakeNode(last, force) ==
    IF ~force /\ last > 0 /\ now > last /\ now < last + WakeThrottle THEN last ELSE now

\* The node is taken to be back when its last wake is recent.
WaitForNodeReconnect(last, wait) == now <= last + wait

\* Wakes the node; wakes it again by force if that was too long ago; queues the action
\* if the node is still away.
Invoke(n, c, k) ==
    LET wake1 == MaybeWakeNode(woken[n], FALSE)
        reconnected1 == WaitForNodeReconnect(wake1, ReconnectWait)
        wake2 == IF reconnected1 THEN wake1 ELSE MaybeWakeNode(wake1, TRUE)
        reconnected2 == ~reconnected1 /\ WaitForNodeReconnect(wake2, ReconnectRetryWait)
    IN  /\ woken' = [woken EXCEPT ![n] = wake2]
        /\ IF reconnected1 \/ reconnected2 THEN UNCHANGED actionVars ELSE Enqueue(n, c, k)
        /\ call' = Called("invoke", n, {}, {})
        /\ UNCHANGED <<now, pairingVars>>

Tick ==
    /\ now < MaxTime
    /\ now' = now + 1
    /\ UNCHANGED <<pairingVars, actionVars, woken, call>>

PairingNext ==
    \/ \E n \in Nodes : RemovePairedNode(n) \/ \E s \in Surfaces : RequestPairing(n, s)
    \/ \E id \in 1..nextRequest - 1 :
        RejectPairing(id) \/ \E scopes \in SUBSET Scopes : ApprovePairing(id, scopes)

ActionsNext ==
    \E n \in Nodes :
        \/ \E c \in Commands, k \in Keys : PendingEnqueue(n, c, k) \/ Invoke(n, c, k)
        \/ \E cs \in SUBSET Commands : PendingPull(n, cs)
        \/ \E ids \in SUBSET (1..nextAction - 1) : PendingAck(n, ids) \/ PendingDrain(n, ids)

NodeNext == Tick \/ PairingNext \/ ActionsNext

NodeSpec == NodeInit /\ [][NodeNext]_nodeVars

-----------------------------------------------------------------------------
(* Properties. *)

NodeTypeOK ==
    /\ now \in Nat
    /\ requests \in SUBSET Requests /\ paired \in SUBSET Pairings
    /\ queue \in [Nodes -> SUBSET PendingActions]
    /\ woken \in [Nodes -> Nat]
    /\ nextRequest \in Nat /\ nextToken \in Nat /\ nextAction \in Nat
    /\ call \in Calls

\* A node has one request at a time, and its number was not used before.
RequestsSound ==
    /\ \A r \in requests : r.id < nextRequest
    /\ \A r1, r2 \in requests : r1.id = r2.id \/ r1.node = r2.node => r1 = r2

\* A node is paired once, no token serves for two nodes, and who approved it held the
\* scope that what is now allowed to the node takes, however often it was changed between
\* the request and the approval.
PairingsSound ==
    /\ \A p \in paired : p.token < nextToken /\ RequiredScope[p.surface] \in p.by
    /\ \A p1, p2 \in paired : p1.node = p2.node => p1 = p2
    /\ \A p \in paired, n \in Nodes : VerifyNodeToken(n, p.token) => n = p.node

\* No more than MaxPerNode actions wait for a node, one for a key, each with an id of its
\* own among all the nodes.
QueuesSound ==
    /\ \A n \in Nodes : IsFiniteSet(queue[n]) /\ Cardinality(queue[n]) <= MaxPerNode
    /\ \A n \in Nodes : \A a \in queue[n] : a.id < nextAction /\ a.at <= now
    /\ \A n \in Nodes : \A a, b \in queue[n] : a.key = b.key => a = b
    /\ \A n, m \in Nodes : \A a \in queue[n], b \in queue[m] : a.id = b.id => n = m /\ a = b

\* The three registries are consistent after any sequence of calls.
NodesSound == NodeTypeOK /\ RequestsSound /\ PairingsSound /\ QueuesSound

\* An action that waits for a node goes only because it is too old, because the node
\* acknowledged it by its id or pulled without allowing it, or because MaxPerNode newer
\* ones displaced it: a retry, a drain or an invocation loses nothing else.
LeftForAReason(a, n) ==
    \/ Expired(a, now)
    \/ /\ call'.node = n
       /\ \/ call'.op \in {"ack", "drain"} /\ a.id \in call'.ids
          \/ call'.op = "pull" /\ a.command \notin call'.allowed
    \/ Cardinality({b \in queue'[n] : b.id > a.id}) = MaxPerNode

ActionsLeaveForAReason ==
    [][\A n \in Nodes : \A a \in queue[n] \ queue'[n] : LeftForAReason(a, n)]_nodeVars

=============================================================================
