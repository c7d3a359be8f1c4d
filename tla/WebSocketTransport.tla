------------------------- MODULE WebSocketTransport -------------------------
(***************************************************************************)
(* GatewayWebSocketTransport: the network connections of the gateway.      *)
(*                                                                         *)
(* One thread pumps: it accepts what waits, then visits every connection   *)
(* once, reads what has arrived, answers it frame by frame and writes out  *)
(* what the socket takes.  A pass ends at the first connection that fails, *)
(* whose socket is closed but which stays in the map.  Broadcasts come     *)
(* from the handler of a frame, inside a visit, or from other threads.     *)
(*                                                                         *)
(* A queue of application frames is kept beside the network queue of a     *)
(* connection, for DrainOutboundFrames, which the program never calls.     *)
(* Frames are numbered: those of a client in the order it sends them, an   *)
(* answer with the number of the frame that completed the message, and     *)
(* broadcasts in the order of the calls.                                   *)
(***************************************************************************)
EXTENDS Naturals, Sequences, FiniteSets

CONSTANTS
    Ids,            \* connections ("net-1", "net-2", ...)
    MaxOutbound,    \* kMaxOutboundFramesPerConnection and its network twin
    MaxFragments,   \* kMaxFragmentBufferBytes, in fragments
    MaxRead,        \* kMaxReadBufferBytes, in frames
    Scenarios,      \* what each client sends: HTTP first, then frames of ClientOps
    MaxEvents,      \* bound of the model: broadcasts
    Nil

\* hello: a valid upgrade request; whole: an unfragmented message; first, more, last:
\* a fragmented one; invalid: text that is not UTF-8; bad: breaks the protocol.
ClientOps == {"hello", "whole", "empty", "invalid", "first", "more", "last",
              "close", "ping", "pong", "bad"}

Frames == [op : ClientOps, n : Nat]

Outputs == [op : {"answer", "event", "close", "pong", "challenge"}, n : Nat]

Sessions == [open : BOOLEAN,          \* socket # INVALID_SOCKET
             ready : BOOLEAN,         \* handshakeComplete
             closing : BOOLEAN,       \* closeAfterFlush (with timeoutCloseQueued)
             awaiting : BOOLEAN,      \* awaitingContinuation
             fragments : Nat,         \* size of the fragment buffer
             app : 0..MaxOutbound,    \* outboundFrames.size()
             net : Seq(Outputs)]      \* outboundNetworkFrames

ASSUME TransportAssumption ==
    /\ MaxOutbound \in Nat \ {0} /\ MaxFragments \in Nat \ {0} /\ MaxRead \in Nat
    /\ MaxEvents \in Nat
    /\ Nil \notin Ids /\ Nil \notin Sessions
    /\ Scenarios \subseteq [Ids -> Seq(ClientOps)]

VARIABLES
    running,   \* m_running
    session,   \* m_connections: a record for each id in the map, Nil for others
    pump,      \* where the pump is: its place, the connection visited, what it read, what is left
    peer,      \* the other end: new, up, left or broken (as the pump has found it)
    sent,      \* all that the client sends
    wire,      \* what the client sends and the pump has not read
    got,       \* frames the client has received
    events     \* broadcasts made

vars == <<running, session, pump, peer, sent, wire, got, events>>

NewSession == [open |-> TRUE, ready |-> FALSE, closing |-> FALSE, awaiting |-> FALSE,
               fragments |-> 0, app |-> 0, net |-> <<>>]

Idle == [at |-> "idle", conn |-> Nil, read |-> <<>>, todo |-> {}]

Init ==
    /\ running = TRUE
    /\ session = [c \in Ids |-> Nil]
    /\ pump = Idle
    /\ peer = [c \in Ids |-> "new"]
    /\ wire = [c \in Ids |-> <<>>]
    /\ sent \in Scenarios
    /\ got = [c \in Ids |-> <<>>]
    /\ events = 0

Present == {c \in Ids : session[c] # Nil}

-----------------------------------------------------------------------------
(* Queues.  A full one makes the visit, and with it the pass, fail.         *)

Full(q) == Len(q) >= MaxOutbound

TryQueueNetworkFrame(s, f) == [s EXCEPT !.net = Append(@, f)]

\* Fault: no copy is kept.
QueueOnly(s, f) == [s EXCEPT !.net = IF Full(@) THEN @ ELSE Append(@, f)]

\* The copy is pushed first, and stays when the network queue is full.
TryQueueApplicationOutbound(s, f) ==
    [s EXCEPT !.app = @ + 1, !.net = IF Full(@) THEN @ ELSE Append(@, f)]

\* What the socket has not taken of q, after k frames.  Fault: the last is sent again.
SentAgain(q, k) == IF k = 0 THEN q ELSE SubSeq(q, k, Len(q))

Unsent(q, k) == SubSeq(q, k + 1, Len(q))

\* Fault: what is still queued does not matter.
ClosesAtOnce(s) == s.closing

ClosesNow(s) == s.closing /\ s.net = <<>>

-----------------------------------------------------------------------------
(* The pass.                                                                *)

Numbered(script) == [i \in DOMAIN script |-> [op |-> script[i], n |-> i]]

\* Fault: old connections are not visited.
OnlyAccepted(accepted) == accepted

ToVisit(accepted) == accepted \cup Present

\* Those who wait are accepted.  When what they send arrives is up to Receive.
AcceptPendingNetworkConnections ==
    /\ running /\ pump.at = "idle"
    /\ \E accepted \in SUBSET {c \in Ids : peer[c] = "new"} :
           /\ session' = [c \in Ids |-> IF c \in accepted THEN NewSession ELSE session[c]]
           /\ peer' = [c \in Ids |-> IF c \in accepted THEN "up" ELSE peer[c]]
           /\ wire' = [c \in Ids |-> IF c \in accepted THEN Numbered(sent[c]) ELSE wire[c]]
           /\ pump' = [Idle EXCEPT !.at = "next", !.todo = ToVisit(accepted)]
    /\ UNCHANGED <<running, sent, got, events>>

EndPass ==
    /\ pump.at = "next" /\ pump.todo = {}
    /\ pump' = Idle
    /\ UNCHANGED <<running, session, peer, wire, sent, got, events>>

Visiting(c) == pump.at = "next" /\ c \in pump.todo

\* PumpNetworkOnce after a visit that succeeded: a closed one is erased.
Done(c, s) ==
    /\ session' = [session EXCEPT ![c] = IF s.open THEN s ELSE Nil]
    /\ pump' = [pump EXCEPT !.at = "next", !.conn = Nil, !.read = <<>>, !.todo = @ \ {c}]

\* Fault: a failed visit ends like one that succeeded.
Ignore(c, s) == Done(c, s)

\* PumpNetworkOnce after a failed visit: the socket is closed, the pass over.
Fail(c, s) ==
    /\ session' = [session EXCEPT ![c] = [s EXCEPT !.open = FALSE]]
    /\ pump' = Idle

HandshakeTimeout(c) ==
    /\ Visiting(c) /\ ~session[c].ready
    /\ Done(c, [session[c] EXCEPT !.open = FALSE])
    /\ UNCHANGED <<running, peer, wire, sent, got, events>>

IdleTimeout(c) ==
    /\ Visiting(c) /\ session[c].ready /\ ~session[c].closing
    /\ IF Full(session[c].net)
       THEN Fail(c, session[c])
       ELSE /\ session' = [session EXCEPT ![c] =
                  [TryQueueNetworkFrame(@, [op |-> "close", n |-> 0]) EXCEPT !.closing = TRUE]]
            /\ UNCHANGED pump
    /\ UNCHANGED <<running, peer, wire, sent, got, events>>

\* A socket that is closed, or whose peer reset it, cannot be read.
ReceiveFails(c) ==
    /\ Visiting(c)
    /\ peer' = [peer EXCEPT ![c] = "broken"]
    /\ Fail(c, session[c])
    /\ UNCHANGED <<running, wire, sent, got, events>>

\* The end of the stream: whatever came just before it is not looked at.
ReceiveEnd(c) ==
    /\ Visiting(c) /\ session[c].open
    /\ peer' = [peer EXCEPT ![c] = "left"]
    /\ Done(c, [session[c] EXCEPT !.open = FALSE])
    /\ wire' = [wire EXCEPT ![c] = <<>>]
    /\ UNCHANGED <<running, sent, got, events>>

\* k frames have arrived; too many are thrown away.
Receive(c, k) ==
    /\ Visiting(c) /\ session[c].open
    /\ k <= Len(wire[c])
    /\ wire' = [wire EXCEPT ![c] = SubSeq(@, k + 1, Len(@))]
    /\ IF k <= MaxRead
       THEN /\ pump' = [pump EXCEPT !.at = "frames", !.conn = c, !.read = SubSeq(wire[c], 1, k)]
            /\ UNCHANGED session
       ELSE IF Full(session[c].net)
       THEN Fail(c, session[c])
       ELSE /\ session' = [session EXCEPT ![c] =
                  [TryQueueNetworkFrame(@, [op |-> "close", n |-> 0]) EXCEPT !.closing = TRUE]]
            /\ pump' = [pump EXCEPT !.at = "frames", !.conn = c]
    /\ UNCHANGED <<running, peer, sent, got, events>>

-----------------------------------------------------------------------------
(* The frames of a visit.                                                   *)

Reading(c) == pump.at = "frames" /\ pump.conn = c /\ pump.read # <<>>

NextFrame(c) == Head(pump.read)

Consume == pump' = [pump EXCEPT !.read = Tail(@)]

\* Queue a control frame and go on, or fail.
Reply(c, s, f) ==
    IF Full(s.net) THEN Fail(c, s)
    ELSE /\ session' = [session EXCEPT ![c] = TryQueueNetworkFrame(s, f)]
         /\ Consume

\* Without a complete request the visit ends before anything is written.
NoHandshake(c) ==
    /\ pump.at = "frames" /\ pump.conn = c /\ pump.read = <<>> /\ ~session[c].ready
    /\ Done(c, session[c])
    /\ UNCHANGED <<running, peer, wire, sent, got, events>>

\* The answer is out before the challenge is queued: when a queue is full, the visit fails
\* on a connection that is ready.
TryCompleteNetworkHandshake(c) ==
    /\ Reading(c) /\ ~session[c].ready
    /\ LET s == [session[c] EXCEPT !.ready = TRUE]
           t == TryQueueApplicationOutbound(s, [op |-> "challenge", n |-> 0])
       IN  \/ NextFrame(c).op # "hello" /\ Fail(c, session[c])
           \/ /\ NextFrame(c).op = "hello"
              /\ IF s.app >= MaxOutbound THEN Fail(c, s)
                 ELSE IF Full(s.net) THEN Fail(c, t)
                 ELSE session' = [session EXCEPT ![c] = t] /\ Consume
    /\ UNCHANGED <<running, peer, wire, sent, got, events>>

ControlFrame(c) ==
    /\ Reading(c) /\ session[c].ready
    /\ LET s == session[c] IN
       \/ /\ NextFrame(c).op = "close"
          /\ Reply(c, [s EXCEPT !.closing = ~Full(s.net) \/ @], [op |-> "close", n |-> 0])
       \/ /\ NextFrame(c).op = "ping"
          /\ Reply(c, s, [op |-> "pong", n |-> 0])
       \/ /\ NextFrame(c).op = "pong"
          /\ Consume /\ UNCHANGED session
    /\ UNCHANGED <<running, peer, wire, sent, got, events>>

Misplaced(s, op) ==
    \/ op \in {"bad", "hello"}
    \/ op \in {"whole", "empty", "invalid", "first"} /\ s.awaiting
    \/ op \in {"more", "last"} /\ ~s.awaiting

BadFrame(c) ==
    /\ Reading(c) /\ session[c].ready
    /\ Misplaced(session[c], NextFrame(c).op)
    /\ Fail(c, session[c])
    /\ UNCHANGED <<running, peer, wire, sent, got, events>>

\* A fragment that does not complete a message; one too many closes the connection.
Fragment(c) ==
    /\ Reading(c) /\ session[c].ready
    /\ ~Misplaced(session[c], NextFrame(c).op)
    /\ LET s == session[c]
           op == NextFrame(c).op
           size == IF op = "first" THEN 1 ELSE s.fragments + 1
       IN  /\ op \in {"first", "more", "last"}
           /\ \/ /\ size > MaxFragments
                 /\ Reply(c, [s EXCEPT !.fragments = size, !.closing = ~Full(s.net) \/ @],
                          [op |-> "close", n |-> 0])
              \/ /\ size <= MaxFragments /\ op # "last"
                 /\ session' = [session EXCEPT ![c] = [s EXCEPT !.fragments = size, !.awaiting = TRUE]]
                 /\ Consume
    /\ UNCHANGED <<running, peer, wire, sent, got, events>>

\* The frame that completes a message, which the handler always answers; an
\* empty text is ignored, an invalid one closes the connection.
Message(c) ==
    /\ Reading(c) /\ session[c].ready
    /\ ~Misplaced(session[c], NextFrame(c).op)
    /\ LET f == NextFrame(c)
           s == [session[c] EXCEPT !.awaiting = FALSE,
                                   !.fragments = IF f.op = "last" THEN 0 ELSE @]
       IN  \/ /\ f.op = "whole" \/ (f.op = "last" /\ session[c].fragments < MaxFragments)
              /\ IF s.app >= MaxOutbound THEN Fail(c, s)
                 ELSE LET t == TryQueueApplicationOutbound(s, [op |-> "answer", n |-> f.n])
                      IN  IF Full(s.net) THEN Fail(c, t)
                          ELSE session' = [session EXCEPT ![c] = t] /\ Consume
           \/ f.op = "empty" /\ Consume /\ UNCHANGED session
           \/ /\ f.op = "invalid"
              /\ Reply(c, [s EXCEPT !.closing = ~Full(s.net) \/ @], [op |-> "close", n |-> 0])
    /\ UNCHANGED <<running, peer, wire, sent, got, events>>

\* The socket takes k frames, or has failed; once a close frame is out it is closed.
FlushNetworkOutbound(c, k) ==
    /\ pump.at = "frames" /\ pump.conn = c /\ pump.read = <<>> /\ session[c].ready
    /\ LET s == session[c]
           t == [s EXCEPT !.net = Unsent(@, k)]
       IN  /\ k <= Len(s.net)
           /\ got' = [got EXCEPT ![c] = @ \o SubSeq(s.net, 1, k)]
           /\ Done(c, [t EXCEPT !.open = ~ClosesNow(t)])
    /\ UNCHANGED <<running, peer, wire, sent, events>>

SendFails(c) ==
    /\ pump.at = "frames" /\ pump.conn = c
    /\ peer' = [peer EXCEPT ![c] = "broken"]
    /\ \/ pump.read = <<>> /\ session[c].ready /\ session[c].net # <<>>
       \/ pump.read # <<>> /\ ~session[c].ready
    /\ Fail(c, session[c])
    /\ UNCHANGED <<running, wire, sent, got, events>>

-----------------------------------------------------------------------------
(* Broadcasts: every connection before the first full one in the map.       *)

QueueEvent(s, f) ==
    IF s.ready THEN TryQueueApplicationOutbound(s, f) ELSE [s EXCEPT !.app = @ + 1]

\* The copies of c, or its network queue, end the loop.
StopsBroadcast(s) == s.app >= MaxOutbound \/ (s.ready /\ Full(s.net))

BroadcastOutboundFrame ==
    /\ running /\ events < MaxEvents
    /\ LET f == [op |-> "event", n |-> events + 1]
           stops == {c \in Present : StopsBroadcast(session[c])}
       IN  \E before \in IF stops = {} THEN {Present} ELSE SUBSET (Present \ stops),
              last \in IF stops = {} THEN {Nil} ELSE stops :
             session' = [c \in Ids |->
                 IF c \in before THEN QueueEvent(session[c], f)
                 ELSE IF c = last /\ session[c].app < MaxOutbound THEN [session[c] EXCEPT !.app = @ + 1]
                 ELSE session[c]]
    /\ events' = events + 1
    /\ UNCHANGED <<running, pump, peer, wire, sent, got>>

\* The pump thread has been joined when the gateway stops.
Stop ==
    /\ running /\ pump.at = "idle"
    /\ running' = FALSE
    /\ session' = [c \in Ids |-> Nil]
    /\ peer' = [c \in Ids |-> IF peer[c] = "new" THEN "new" ELSE "broken"]
    /\ UNCHANGED <<pump, wire, sent, got, events>>

Start ==
    /\ ~running
    /\ running' = TRUE
    /\ UNCHANGED <<session, pump, peer, wire, sent, got, events>>

-----------------------------------------------------------------------------
Visit(c) ==
    \/ HandshakeTimeout(c)
    \/ IdleTimeout(c)
    \/ ReceiveFails(c)
    \/ ReceiveEnd(c)
    \/ \E k \in 0..Len(wire[c]) : Receive(c, k)
    \/ NoHandshake(c)
    \/ TryCompleteNetworkHandshake(c)
    \/ ControlFrame(c)
    \/ BadFrame(c)
    \/ Fragment(c)
    \/ Message(c)
    \/ \E k \in 0..MaxOutbound : FlushNetworkOutbound(c, k)
    \/ SendFails(c)

PumpNetworkOnce ==
    \/ AcceptPendingNetworkConnections
    \/ EndPass
    \/ \E c \in Ids : Visit(c)

Next ==
    \/ PumpNetworkOnce
    \/ BroadcastOutboundFrame
    \/ Stop
    \/ Start

Spec == Init /\ [][Next]_vars

ReceiveAll(c) == Receive(c, Len(wire[c]))

FlushAll(c) == session[c] # Nil /\ FlushNetworkOutbound(c, Len(session[c].net))

\* The pump thread goes on; what is on the wire arrives, and a client that is
\* up reads what it is sent.
Fairness ==
    /\ WF_vars(PumpNetworkOnce)
    /\ \A c \in Ids : SF_vars(ReceiveAll(c)) /\ SF_vars(FlushAll(c))

LiveSpec == Spec /\ Fairness

-----------------------------------------------------------------------------
(* Properties.                                                              *)

Ready(c) == session[c] # Nil /\ session[c].ready

\* What a client has received and what still waits for it.
Stream(c) == got[c] \o (IF session[c] = Nil THEN <<>> ELSE session[c].net)

Applications(c) ==
    {i \in DOMAIN Stream(c) : Stream(c)[i].op \in {"answer", "event", "challenge"}}

\* Every variable has its type.  The queue of a connection never exceeds its limit,
\* whoever queues (cpp:635, 1535, 1549), and the pump is inside a visit only of a
\* connection that is open and in the map.  Nobody drains the copies of a network
\* connection, so in all its life it gets at most MaxOutbound answers, events and
\* challenges, however fast its client reads.
TransportTypeOK ==
    /\ running \in BOOLEAN
    /\ session \in [Ids -> Sessions \cup {Nil}]
    /\ \A c \in Present : Len(session[c].net) <= MaxOutbound
    /\ \A c \in Ids : Cardinality(Applications(c)) <= MaxOutbound
    /\ pump.at \in {"idle", "next", "frames"}
    /\ pump.todo \subseteq Present
    /\ pump.at = "frames" => pump.conn \in pump.todo /\ session[pump.conn].open
    /\ pump.read \in Seq(Frames)
    /\ peer \in [Ids -> {"new", "up", "left", "broken"}]
    /\ \A c \in Ids : wire[c] \in Seq(Frames) /\ got[c] \in Seq(Outputs)
    /\ events \in 0..MaxEvents

\* A client sees its answers in the order of its messages and the events in the
\* order of the broadcasts, each at most once, although handlers, broadcasts from
\* other threads, partial writes and failed visits interleave (cpp:629-640,
\* 1285-1302, 1559-1595).
OutputInOrder ==
    \A c \in Ids : \A i, j \in DOMAIN Stream(c) :
        (i < j /\ Stream(c)[i].op = Stream(c)[j].op /\ Stream(c)[i].op \in {"answer", "event"})
        => Stream(c)[i].n < Stream(c)[j].n

\* A WebSocket connection that ends with a close frame, whoever began, leaves nothing
\* behind: its client has got all that was queued for it, and a close frame
\* (cpp:1309-1311, with the queue written in order at 1559-1595).
CloseDelivered ==
    [][\A c \in Ids :
          (/\ Ready(c) /\ session'[c] = Nil
           /\ session[c].open /\ session[c].closing /\ peer'[c] = "up")
          => /\ got'[c] = Stream(c)
             /\ \E i \in DOMAIN got'[c] : got'[c][i].op = "close"]_vars

Count(q, f) == Cardinality({i \in DOMAIN q : q[i] = f})

Unread(c) == wire[c] \o (IF pump.conn = c THEN pump.read ELSE <<>>)

\* Each message of a client that has left the wire was answered, once; the others
\* were not.  Whoever is failed, or closed for its mistakes, gets no more.
EachAnsweredOnce ==
    \A c \in Ids : Ready(c) /\ session[c].open /\ ~session[c].closing =>
        \A n \in 1..Len(sent[c]) :
            sent[c][n] \in {"whole", "last"} =>
                Count(Stream(c), [op |-> "answer", n |-> n])
                    = IF \E i \in DOMAIN Unread(c) : Unread(c)[i].n = n THEN 0 ELSE 1

Failed(c) == session[c] # Nil /\ ~session[c].open

Settled(c) == Ready(c) => wire[c] = <<>> /\ session[c].net = <<>>

\* The pump keeps up: again and again all that clients have sent is read, and all that
\* is queued is written.  Unless it has met a connection that failed: such a one stays in
\* the map and ends every later pass, so those behind it wait (cpp:684-692).
KeepsUp == []<>((\A c \in Ids : Settled(c)) \/ (\E c \in Ids : Failed(c)))

=============================================================================
