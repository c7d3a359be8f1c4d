----------------------- MODULE WebSocketTransportProofs -----------------------
(***************************************************************************)
(* Proofs about GatewayWebSocketTransport, for any number of connections,   *)
(* any limits and anything clients send: the limits of the queues, the      *)
(* order of what a client sees, that each message is answered once, and     *)
(* that a connection that ends with a close frame has delivered everything. *)
(***************************************************************************)
EXTENDS WebSocketTransport, FiniteSetTheorems, SequenceTheorems, TLAPS

Applied == {"answer", "event", "challenge"}

(***************************************************************************)
(* The inductive invariant.                                                *)
(***************************************************************************)

\* The pump is inside a visit of an open connection of its pass, or it has read nothing.
PumpSound ==
    /\ pump \in [at : {"idle", "next", "frames"}, conn : Ids \cup {Nil},
                 read : Seq(Frames), todo : SUBSET Ids]
    /\ pump.todo \subseteq Present
    /\ pump.at = "frames" => pump.conn \in pump.todo /\ session[pump.conn].open
    /\ pump.at # "frames" => pump.conn = Nil /\ pump.read = <<>>
    /\ pump.at = "idle" => pump.todo = {}

\* What the sessions and the pump are, apart from the other variables.
SessionsSound ==
    /\ session \in [Ids -> Sessions \cup {Nil}]
    /\ \A c \in Present : Len(session[c].net) <= MaxOutbound
    /\ PumpSound

\* The types, without the count of application frames.
TypesSound ==
    /\ SessionsSound
    /\ running \in BOOLEAN
    /\ peer \in [Ids -> {"new", "up", "left", "broken"}]
    /\ sent \in [Ids -> Seq(ClientOps)]
    /\ wire \in [Ids -> Seq(Frames)]
    /\ got \in [Ids -> Seq(Outputs)]
    /\ events \in 0..MaxEvents
    /\ \A c \in Ids : peer[c] = "new" => session[c] = Nil /\ got[c] = <<>> /\ wire[c] = <<>>

\* q is what c sends from its frame k + 1 on.
IsFrom(q, c, k) ==
    \A i \in 1..Len(q) : q[i].n = k + i /\ q[i].op = sent[c][k + i]

\* How many frames of c have left the wire, and how many of these the pump holds.
Taken(c) == Len(sent[c]) - Len(wire[c])

InHand(c) == IF pump.conn = c THEN Len(pump.read) ELSE 0

\* How many frames of c the pump has dealt with.
Passed(c) == Taken(c) - InHand(c)

\* What is on the wire is the end of what the client sends, and what the pump has in hand
\* comes right before it.
ReadInOrder ==
    \A c \in Ids :
        /\ Passed(c) \in Nat
        /\ IsFrom(wire[c], c, Taken(c))
        /\ pump.conn = c => IsFrom(pump.read, c, Passed(c))

\* Nobody drains the copies, so they count what a connection was ever queued.
CopiesCount ==
    \A c \in Ids :
        Cardinality(Applications(c)) <= IF session[c] = Nil THEN MaxOutbound ELSE session[c].app

\* Answers are to frames that were dealt with, events are those broadcast so far.
NumbersBelow ==
    \A c \in Ids : \A i \in DOMAIN Stream(c) :
        /\ Stream(c)[i].op = "answer" => Stream(c)[i].n <= Passed(c)
        /\ Stream(c)[i].op = "event" => Stream(c)[i].n <= events

\* What a connection that is not closing was asked has its answer in the stream.
AllAnswered ==
    \A c \in Present : session[c].open /\ ~session[c].closing =>
        \A n \in 1..Passed(c) :
            sent[c][n] \in {"whole", "last"} =>
                \E i \in DOMAIN Stream(c) : Stream(c)[i] = [op |-> "answer", n |-> n]

\* A connection that is closing has a close frame in its stream.
CloseQueued ==
    \A c \in Present : session[c].closing => \E i \in DOMAIN Stream(c) : Stream(c)[i].op = "close"

StreamInv ==
    /\ ReadInOrder /\ CopiesCount /\ NumbersBelow
    /\ OutputInOrder /\ AllAnswered /\ CloseQueued
-----------------------------------------------------------------------------
(***************************************************************************)
(* Records and what replaces them.                                         *)
(***************************************************************************)

\* The limits are numbers, and Nil is neither a connection nor a record.
LEMMA Limits == MaxOutbound \in Nat /\ MaxOutbound > 0 /\ MaxEvents \in Nat /\ Nil \notin Ids
                /\ Nil \notin Sessions
  BY TransportAssumption

\* A session within its limit.
Sound(s) == s \in Sessions /\ Len(s.net) <= MaxOutbound

\* A frame goes to the network queue when that has room.
LEMMA QueuedFrame ==
    ASSUME NEW s, Sound(s), NEW f \in Outputs, ~Full(s.net)
    PROVE  /\ Sound(TryQueueNetworkFrame(s, f))
           /\ TryQueueNetworkFrame(s, f) = [s EXCEPT !.net = Append(s.net, f)]
           /\ TryQueueNetworkFrame(s, f).net = Append(s.net, f)
           /\ TryQueueNetworkFrame(s, f).app = s.app
           /\ TryQueueNetworkFrame(s, f).open = s.open
           /\ TryQueueNetworkFrame(s, f).closing = s.closing
<1> DEFINE q == Append(s.net, f)
<1>1. q \in Seq(Outputs) /\ Len(q) <= MaxOutbound
  BY Limits DEF Sound, Sessions, Full
<1>2. TryQueueNetworkFrame(s, f) = [s EXCEPT !.net = q]
  BY DEF TryQueueNetworkFrame
<1> HIDE DEF q
<1>3. Sound(TryQueueNetworkFrame(s, f)) /\ TryQueueNetworkFrame(s, f).net = q
      /\ TryQueueNetworkFrame(s, f).app = s.app /\ TryQueueNetworkFrame(s, f).open = s.open
      /\ TryQueueNetworkFrame(s, f).closing = s.closing
  BY <1>1, <1>2 DEF Sound, Sessions
<1> QED BY <1>2, <1>3 DEF q

\* An application frame with its copy.
LEMMA QueuedApplication ==
    ASSUME NEW s, Sound(s), NEW f \in Outputs, s.app < MaxOutbound
    PROVE  LET t == TryQueueApplicationOutbound(s, f)
           IN  /\ Sound(t)
               /\ t.net = IF Full(s.net) THEN s.net ELSE Append(s.net, f)
               /\ t.app = s.app + 1 /\ t.open = s.open /\ t.closing = s.closing
<1> DEFINE q == IF Full(s.net) THEN s.net ELSE Append(s.net, f)
           a == s.app + 1
           t == TryQueueApplicationOutbound(s, f)
<1>1. q \in Seq(Outputs) /\ Len(q) <= MaxOutbound /\ a \in 0..MaxOutbound
  BY Limits DEF Sound, Sessions, Full
<1>2. t = [s EXCEPT !.app = a, !.net = q]
  BY DEF TryQueueApplicationOutbound, Sound, Sessions
<1> HIDE DEF q, a
<1>3. Sound(t) /\ t.net = q /\ t.app = a /\ t.open = s.open /\ t.closing = s.closing
  BY <1>1, <1>2 DEF Sound, Sessions
<1> QED BY <1>3 DEF q, a

\* A connection of the map has a sound session.
LEMMA PresentSound ==
    ASSUME SessionsSound, NEW c \in Ids
    PROVE  /\ c \in Present <=> session[c] # Nil
           /\ c \in Present => Sound(session[c])
  BY DEF SessionsSound, Present, Sound

\* A visit that goes on replaces the session and may consume.
LEMMA PutKeepsSound ==
    ASSUME SessionsSound, NEW c \in Ids, c \in Present, NEW s, Sound(s),
           session' = [session EXCEPT ![c] = s],
           pump' \in [at : {"idle", "next", "frames"}, conn : Ids \cup {Nil},
                      read : Seq(Frames), todo : SUBSET Ids],
           pump'.todo = pump.todo,
           pump'.at = "frames" => pump'.conn \in pump.todo,
           pump'.at = "frames" => pump'.conn = c,
           pump'.at = "frames" => s.open,
           pump'.at # "frames" => pump' = pump
    PROVE  SessionsSound' /\ Present' = Present
<1>1. s # Nil
  BY Limits DEF Sound
<1>2. session' \in [Ids -> Sessions \cup {Nil}] /\ Present' = Present
  BY <1>1 DEF SessionsSound, Present, Sound
<1>3. \A d \in Present' : Len(session'[d].net) <= MaxOutbound
  BY <1>2 DEF SessionsSound, Present, Sound
<1>4. pump'.at = "frames" => pump'.conn \in pump'.todo /\ session'[pump'.conn].open
  BY <1>2 DEF SessionsSound, PumpSound, Present
<1>5. pump'.at # "frames" => pump'.conn = Nil /\ pump'.read = <<>>
  BY DEF SessionsSound, PumpSound
<1>6. pump'.at = "idle" => pump'.todo = {}
  BY DEF SessionsSound, PumpSound
<1> QED BY <1>2, <1>3, <1>4, <1>5, <1>6 DEF SessionsSound, PumpSound

\* A visit that ends well goes on to the next connection.
LEMMA DoneKeepsSound ==
    ASSUME SessionsSound, NEW c \in Ids, c \in pump.todo, NEW s, Sound(s), Done(c, s)
    PROVE  /\ SessionsSound'
           /\ session'[c] = IF s.open THEN s ELSE Nil
           /\ \A d \in Ids : d # c => session'[d] = session[d]
           /\ pump'.conn = Nil /\ pump'.at = "next"
<1>1. session' = [session EXCEPT ![c] = IF s.open THEN s ELSE Nil]
      /\ pump' = [pump EXCEPT !.at = "next", !.conn = Nil, !.read = <<>>, !.todo = @ \ {c}]
  BY DEF Done
<1>2. pump' \in [at : {"idle", "next", "frames"}, conn : Ids \cup {Nil},
                 read : Seq(Frames), todo : SUBSET Ids]
      /\ pump'.at = "next" /\ pump'.conn = Nil /\ pump'.read = <<>> /\ pump'.todo = pump.todo \ {c}
  <2> DEFINE left == pump.todo \ {c}
  <2>1. left \in SUBSET Ids /\ << >> \in Seq(Frames)
        /\ pump' = [pump EXCEPT !.at = "next", !.conn = Nil, !.read = <<>>, !.todo = left]
    BY <1>1 DEF SessionsSound, PumpSound
  <2> HIDE DEF left
  <2>2. pump' \in [at : {"idle", "next", "frames"}, conn : Ids \cup {Nil},
                   read : Seq(Frames), todo : SUBSET Ids]
        /\ pump'.at = "next" /\ pump'.conn = Nil /\ pump'.read = <<>> /\ pump'.todo = left
    BY <2>1 DEF SessionsSound, PumpSound
  <2> QED BY <2>2 DEF left
<1>3. session' \in [Ids -> Sessions \cup {Nil}]
      /\ session'[c] = (IF s.open THEN s ELSE Nil)
      /\ \A d \in Ids : d # c => session'[d] = session[d]
  BY <1>1 DEF SessionsSound, Sound
<1>4. pump'.todo \subseteq Present'
  BY <1>2, <1>3 DEF SessionsSound, PumpSound, Present
<1>5. \A d \in Present' : Len(session'[d].net) <= MaxOutbound
  BY <1>3 DEF SessionsSound, Present, Sound
<1> QED BY <1>2, <1>3, <1>4, <1>5 DEF SessionsSound, PumpSound

\* A visit that fails leaves a closed session in the map and ends the pass.
LEMMA FailKeepsSound ==
    ASSUME SessionsSound, NEW c \in Ids, c \in Present, NEW s, Sound(s), Fail(c, s)
    PROVE  /\ SessionsSound' /\ Present' = Present
           /\ Sound(session'[c]) /\ session'[c].net = s.net /\ session'[c].app = s.app
           /\ session'[c].closing = s.closing /\ ~session'[c].open
           /\ \A d \in Ids : d # c => session'[d] = session[d]
           /\ pump' = Idle
<1> DEFINE t == [s EXCEPT !.open = FALSE]
<1>1. Sound(t) /\ t.net = s.net /\ t.app = s.app /\ t.closing = s.closing /\ ~t.open
  BY DEF Sound, Sessions
<1>2. session' = [session EXCEPT ![c] = t] /\ pump' = Idle
  BY DEF Fail
<1>3. session'[c] = t
  BY <1>2 DEF SessionsSound
<1> HIDE DEF t
<1>4. pump' \in [at : {"idle", "next", "frames"}, conn : Ids \cup {Nil},
                 read : Seq(Frames), todo : SUBSET Ids]
      /\ pump'.at = "idle" /\ pump'.conn = Nil /\ pump'.read = <<>> /\ pump'.todo = {}
  BY <1>2 DEF Idle
<1>5. session' \in [Ids -> Sessions \cup {Nil}] /\ Present' = Present
      /\ \A d \in Ids : d # c => session'[d] = session[d]
  BY <1>1, <1>2, Limits DEF SessionsSound, Present, Sound
<1>6. \A d \in Present' : Len(session'[d].net) <= MaxOutbound
  BY <1>1, <1>3, <1>5 DEF SessionsSound, Present, Sound
<1>7. SessionsSound'
  BY <1>4, <1>5, <1>6 DEF SessionsSound, PumpSound
<1> QED BY <1>1, <1>2, <1>3, <1>5, <1>7
-----------------------------------------------------------------------------
(***************************************************************************)
(* What a step does to one connection.                                     *)
(***************************************************************************)

\* It is accepted.
Begins(c) ==
    /\ peer[c] = "new" /\ session'[c] = NewSession
    /\ Stream(c) = <<>> /\ Stream(c)' = <<>>

\* It queues nothing, writes out some of its queue at most, and may fail.
Rests(c) ==
    /\ Stream(c)' = Stream(c)
    /\ peer'[c] = "new" <=> peer[c] = "new"
    /\ session'[c] = Nil <=> session[c] = Nil
    /\ session'[c] # Nil =>
           /\ session'[c].app >= session[c].app
           /\ session'[c].open => session[c].open
           /\ session'[c].closing = session[c].closing

\* It queues a frame: an answer to the frame that the pump deals with, or the event of
\* this broadcast, or a frame of the protocol.
Queues(c, f) ==
    /\ Stream(c)' = Append(Stream(c), f)
    /\ peer[c] # "new" /\ peer'[c] # "new" /\ session[c] # Nil /\ session'[c] # Nil
    /\ session'[c].app = (IF f.op \in Applied THEN session[c].app + 1 ELSE session[c].app)
    /\ session'[c].open => session[c].open
    /\ session'[c].closing => session[c].closing \/ f.op = "close"
    /\ session[c].closing => session'[c].closing
    /\ f.op = "answer" => f.n = Passed(c) + 1 /\ Passed(c)' = Passed(c) + 1
    /\ f.op = "event" => f.n = events + 1 /\ events' = events + 1

\* It leaves the map, and what was not written is lost, when there was no handshake or its
\* peer is gone.
Ends(c) ==
    /\ session[c] # Nil /\ session'[c] = Nil
    /\ peer[c] # "new" /\ peer'[c] # "new"
    /\ \/ got'[c] = Stream(c)
       \/ got'[c] = got[c] /\ (~session[c].ready \/ peer'[c] # "up")

Moves(c) == Begins(c) \/ Rests(c) \/ (\E f \in Outputs : Queues(c, f)) \/ Ends(c)

\* While it is open and not closing, frames are dealt with one by one, and a message not
\* without its answer.
Serves(c) ==
    session'[c] # Nil /\ session'[c].open /\ ~session'[c].closing =>
        \/ peer[c] = "new" /\ Passed(c)' = 0
        \/ peer[c] # "new" /\ Passed(c)' = Passed(c)
        \/ /\ peer[c] # "new" /\ Passed(c)' = Passed(c) + 1
           /\ sent[c][Passed(c) + 1] \in {"whole", "last"} =>
                  Stream(c)' = Append(Stream(c), [op |-> "answer", n |-> Passed(c) + 1])

\* A step does no more than this.
Steps ==
    /\ TypesSound' /\ ReadInOrder'
    /\ sent' = sent /\ events' \in {events, events + 1}
    /\ \A c \in Ids : /\ Moves(c) /\ Serves(c)
                      /\ peer[c] # "new" => Passed(c)' >= Passed(c)

\* A connection that nothing happens to.
LEMMA Untouched ==
    ASSUME TypesSound, NEW c \in Ids,
           session'[c] = session[c], got'[c] = got[c], peer'[c] = peer[c],
           Passed(c)' = Passed(c)
    PROVE  Moves(c) /\ Serves(c)
<1>1. Stream(c)' = Stream(c)
  BY DEF Stream
<1>2. Rests(c)
  <2>1. session[c] # Nil => session[c].app >= session[c].app
    BY DEF TypesSound, SessionsSound, Sessions
  <2> QED BY <1>1, <2>1 DEF Rests
<1>3. peer[c] = "new" => session[c] = Nil
  BY DEF TypesSound
<1> QED BY <1>2, <1>3 DEF Moves, Serves

\* What is not visited stays.
Others(c) ==
    \A d \in Ids : d # c => Moves(d) /\ Serves(d) /\ Passed(d)' = Passed(d)

Unmoved == UNCHANGED <<running, peer, wire, sent, got, events>>

\* What a visit finds.
LEMMA Visited ==
    ASSUME TypesSound, NEW c \in Ids, Visiting(c) \/ (pump.at = "frames" /\ pump.conn = c)
    PROVE  /\ SessionsSound /\ c \in pump.todo /\ c \in Present
           /\ session[c] # Nil /\ Sound(session[c]) /\ peer[c] # "new"
           /\ pump.conn \in {Nil, c}
           /\ pump.at = "frames" => session[c].open
           /\ wire[c] \in Seq(Frames) /\ got[c] \in Seq(Outputs) /\ sent[c] \in Seq(ClientOps)
           /\ pump.read \in Seq(Frames)
           /\ Visiting(c) => pump.conn = Nil /\ pump.read = <<>>
<1>1. SessionsSound
  BY DEF TypesSound
<1>2. c \in pump.todo /\ c \in Present
  BY <1>1 DEF SessionsSound, PumpSound, Visiting
<1>3. session[c] # Nil /\ Sound(session[c])
  BY <1>1, <1>2, PresentSound
<1>4. peer[c] # "new"
  BY <1>3 DEF TypesSound
<1>5. /\ pump.conn \in {Nil, c} /\ (pump.at = "frames" => session[c].open)
      /\ pump.read \in Seq(Frames)
      /\ Visiting(c) => pump.conn = Nil /\ pump.read = <<>>
  BY <1>1 DEF SessionsSound, PumpSound, Visiting
<1>6. wire[c] \in Seq(Frames) /\ got[c] \in Seq(Outputs) /\ sent[c] \in Seq(ClientOps)
  BY DEF TypesSound
<1> QED BY <1>1, <1>2, <1>3, <1>4, <1>5, <1>6

\* The counts of a connection are numbers.
LEMMA Counts ==
    ASSUME TypesSound, NEW c \in Ids
    PROVE  Taken(c) \in Int /\ InHand(c) \in Nat /\ Passed(c) \in Int
           /\ Passed(c) = Taken(c) - InHand(c) /\ Passed(c) <= Taken(c)
<1>1. Len(sent[c]) \in Nat /\ Len(wire[c]) \in Nat
  BY DEF TypesSound
<1>2. Len(pump.read) \in Nat
  BY DEF TypesSound, SessionsSound, PumpSound
<1>3. Taken(c) \in Int /\ InHand(c) \in Nat
  BY <1>1, <1>2 DEF Taken, InHand
<1> QED BY <1>3 DEF Passed

\* The counts of connections whose frames stay where they are.
LEMMA CountsStay ==
    ASSUME NEW c \in Ids, wire'[c] = wire[c], sent' = sent,
           (pump'.conn = c /\ pump'.read = pump.read /\ pump.conn = c)
           \/ (pump'.conn # c /\ pump.conn # c)
    PROVE  Passed(c)' = Passed(c) /\ Taken(c)' = Taken(c)
  BY DEF Taken, InHand, Passed

\* A visit queues something and looks at the connection again.
LEMMA VisitKeeps ==
    ASSUME TypesSound, ReadInOrder, NEW c \in Ids, Visiting(c), NEW s, Sound(s),
           session' = [session EXCEPT ![c] = s], UNCHANGED pump, Unmoved
    PROVE  /\ TypesSound' /\ ReadInOrder' /\ Others(c)
           /\ session'[c] = s /\ Passed(c)' = Passed(c)
<1>1. /\ SessionsSound /\ c \in pump.todo /\ c \in Present /\ peer[c] # "new"
      /\ session[c] # Nil
  BY Visited
<1>2. SessionsSound'
  BY <1>1, PutKeepsSound DEF SessionsSound, PumpSound, Visiting
<1>3. session'[c] = s /\ \A d \in Ids : d # c => session'[d] = session[d]
  BY <1>1 DEF SessionsSound
<1>4. TypesSound'
  BY <1>1, <1>2, <1>3 DEF TypesSound, Unmoved
<1>5. \A d \in Ids : Passed(d)' = Passed(d) /\ Taken(d)' = Taken(d) /\ InHand(d)' = InHand(d)
  BY DEF Unmoved, Taken, InHand, Passed
<1>6. ReadInOrder'
  BY <1>5 DEF ReadInOrder, IsFrom, Unmoved
<1>7. Others(c)
  BY <1>3, <1>5, Untouched DEF Others, Unmoved
<1> QED BY <1>3, <1>4, <1>5, <1>6, <1>7

\* A visit deals with a frame.
LEMMA VisitConsumes ==
    ASSUME TypesSound, ReadInOrder, NEW c \in Ids, Reading(c), NEW s, Sound(s), s.open,
           session' = [session EXCEPT ![c] = s], Consume, Unmoved
    PROVE  /\ TypesSound' /\ ReadInOrder' /\ Others(c)
           /\ session'[c] = s /\ Passed(c)' = Passed(c) + 1 /\ Passed(c) \in Nat
           /\ NextFrame(c) \in Frames /\ NextFrame(c).n = Passed(c) + 1
           /\ sent[c][Passed(c) + 1] = NextFrame(c).op
<1>1. /\ SessionsSound /\ c \in pump.todo /\ c \in Present /\ peer[c] # "new"
      /\ session[c] # Nil /\ pump.read \in Seq(Frames) /\ pump.read # <<>> /\ pump.conn = c
      /\ pump.at = "frames"
  BY Visited DEF Reading
<1> DEFINE rest == Tail(pump.read)
<1>2. /\ rest \in Seq(Frames) /\ Len(rest) = Len(pump.read) - 1 /\ Len(pump.read) \in Nat
      /\ \A i \in 1..Len(rest) : rest[i] = pump.read[i + 1]
      /\ NextFrame(c) = pump.read[1] /\ NextFrame(c) \in Frames /\ Len(pump.read) > 0
  BY <1>1 DEF NextFrame
<1>3. pump' = [pump EXCEPT !.read = rest]
  BY DEF Consume
<1> HIDE DEF rest
<1>4. /\ pump' \in [at : {"idle", "next", "frames"}, conn : Ids \cup {Nil},
                    read : Seq(Frames), todo : SUBSET Ids]
      /\ pump'.at = "frames" /\ pump'.conn = c /\ pump'.read = rest /\ pump'.todo = pump.todo
  BY <1>1, <1>2, <1>3 DEF SessionsSound, PumpSound
<1>5. SessionsSound'
  BY <1>1, <1>4, PutKeepsSound
<1>6. session'[c] = s /\ \A d \in Ids : d # c => session'[d] = session[d]
  BY <1>1 DEF SessionsSound
<1>7. TypesSound'
  BY <1>1, <1>5, <1>6 DEF TypesSound, Unmoved
<1>8. \A d \in Ids : d # c => Passed(d)' = Passed(d) /\ Taken(d)' = Taken(d)
  BY <1>1, <1>4, CountsStay DEF Unmoved
<1>9. /\ Taken(c)' = Taken(c) /\ Passed(c)' = Passed(c) + 1 /\ Taken(c) \in Int
      /\ Passed(c) \in Int /\ Passed(c) = Taken(c) - Len(pump.read)
      /\ Passed(c)' = Taken(c) - Len(rest)
  <2>1. Taken(c)' = Taken(c) /\ Taken(c) \in Int
    BY Counts DEF Unmoved, Taken
  <2>2. InHand(c) = Len(pump.read) /\ InHand(c)' = Len(rest)
    BY <1>1, <1>4 DEF InHand
  <2>3. Passed(c) = Taken(c) - Len(pump.read) /\ Passed(c)' = Taken(c) - Len(rest)
    BY <2>1, <2>2 DEF Passed
  <2> QED BY <2>1, <2>3, <1>2
<1>10. /\ Passed(c) \in Nat /\ IsFrom(wire[c], c, Taken(c))
       /\ IsFrom(pump.read, c, Passed(c))
  BY <1>1 DEF ReadInOrder
<1>11. NextFrame(c).n = Passed(c) + 1 /\ sent[c][Passed(c) + 1] = NextFrame(c).op
  <2>1. 1 \in 1..Len(pump.read)
    BY <1>2
  <2> QED BY <2>1, <1>2, <1>10 DEF IsFrom
<1>12. IsFrom(rest, c, Passed(c) + 1)
  <2> SUFFICES ASSUME NEW i \in 1..Len(rest)
               PROVE  /\ rest[i].n = (Passed(c) + 1) + i
                      /\ rest[i].op = sent[c][(Passed(c) + 1) + i]
    BY DEF IsFrom
  <2>1. i + 1 \in 1..Len(pump.read) /\ rest[i] = pump.read[i + 1]
    BY <1>2
  <2>2. Passed(c) + (i + 1) = (Passed(c) + 1) + i
    BY <1>10
  <2> QED BY <2>1, <2>2, <1>10 DEF IsFrom
<1>13. ReadInOrder'
  <2> SUFFICES ASSUME NEW d \in Ids
               PROVE  /\ Passed(d)' \in Nat
                      /\ IsFrom(wire[d], d, Taken(d))'
                      /\ (pump.conn = d)' => IsFrom(pump.read, d, Passed(d))'
    BY DEF ReadInOrder
  <2>1. CASE d = c
    <3>1. Passed(c)' \in Nat /\ IsFrom(wire[c], c, Taken(c))'
      BY <1>9, <1>10 DEF IsFrom, Unmoved
    <3>2. IsFrom(pump.read, c, Passed(c))'
      BY <1>4, <1>9, <1>12 DEF IsFrom, Unmoved
    <3> QED BY <2>1, <3>1, <3>2
  <2>2. CASE d # c
    BY <2>2, <1>4, <1>8 DEF ReadInOrder, IsFrom, Unmoved
  <2> QED BY <2>1, <2>2
<1>14. Others(c)
  BY <1>6, <1>8, Untouched DEF Others, Unmoved
<1> QED BY <1>2, <1>6, <1>7, <1>9, <1>10, <1>11, <1>13, <1>14

\* The pump lets go of a connection: what it held, or all that was on the wire, is lost.
LEMMA HandsEmpty ==
    ASSUME TypesSound, ReadInOrder, NEW c \in Ids, pump.conn \in {Nil, c}, pump'.conn = Nil,
           sent' = sent, wire' = wire \/ wire' = [wire EXCEPT ![c] = <<>>]
    PROVE  /\ ReadInOrder'
           /\ \A d \in Ids : d # c => Passed(d)' = Passed(d)
           /\ Passed(c)' >= Passed(c)
           /\ (wire' = wire /\ (pump.conn = Nil \/ pump.read = <<>>)) => Passed(c)' = Passed(c)
<1>1. Nil \notin Ids
  BY Limits
<1>2. \A d \in Ids : d # c => wire'[d] = wire[d]
  BY DEF TypesSound
<1>3. \A d \in Ids : d # c => Passed(d)' = Passed(d) /\ Taken(d)' = Taken(d)
  BY <1>1, <1>2, CountsStay
<1>4. /\ Taken(c) \in Int /\ InHand(c) \in Nat /\ Passed(c) \in Nat
      /\ Passed(c) = Taken(c) - InHand(c)
  BY Counts DEF ReadInOrder
<1>5. InHand(c)' = 0 /\ Passed(c)' = Taken(c)' - 0
  BY <1>1 DEF InHand, Passed
<1>6. CASE wire' = wire
  <2>1. Taken(c)' = Taken(c)
    BY <1>6 DEF Taken
  <2>2. Passed(c)' = Taken(c) /\ Passed(c)' >= Passed(c)
    BY <2>1, <1>4, <1>5
  <2>3. pump.conn = Nil \/ pump.read = <<>> => InHand(c) = 0
    BY <1>1 DEF InHand
  <2>4. ReadInOrder'
    BY <1>1, <1>3, <1>4, <1>6, <2>1, <2>2 DEF ReadInOrder, IsFrom
  <2> QED BY <1>3, <1>4, <2>2, <2>3, <2>4
<1>7. CASE wire' = [wire EXCEPT ![c] = <<>>]
  <2>1. wire'[c] = <<>> /\ Len(wire'[c]) = 0 /\ Len(wire[c]) \in Nat /\ Len(sent[c]) \in Nat
    BY <1>7 DEF TypesSound
  <2>2. Passed(c)' = Len(sent[c]) /\ Taken(c)' = Len(sent[c])
    BY <2>1, <1>5 DEF Taken
  <2>3. Passed(c)' >= Passed(c)
    <3> DEFINE a == Len(sent[c])
               b == Len(wire[c])
    <3>1. Taken(c) = a - b /\ a \in Nat /\ b \in Nat
      BY <2>1 DEF Taken
    <3> HIDE DEF a, b
    <3>5. Taken(c) <= a
      BY <3>1
    <3>2. Taken(c) <= Len(sent[c])
      BY <3>5 DEF a
    <3>3. Passed(c) <= Taken(c)
      BY <1>4
    <3>4. Passed(c)' = Len(sent[c]) /\ Len(sent[c]) \in Nat
      BY <2>1, <2>2
    <3> QED BY <3>2, <3>3, <3>4, <1>4
  <2>4. wire' = wire => Taken(c)' = Taken(c)
    BY DEF Taken
  <2>5. pump.conn = Nil \/ pump.read = <<>> => InHand(c) = 0
    BY <1>1 DEF InHand
  <2>6. (wire' = wire /\ (pump.conn = Nil \/ pump.read = <<>>)) => Passed(c)' = Passed(c)
    BY <2>2, <2>4, <2>5, <1>4
  <2>7. IsFrom(wire[c], c, Taken(c))' /\ Passed(c)' \in Nat
    BY <2>1, <2>2 DEF IsFrom
  <2>8. \A d \in Ids : d # c => Passed(d)' \in Nat /\ IsFrom(wire[d], d, Taken(d))'
    BY <1>2, <1>3 DEF ReadInOrder, IsFrom
  <2>9. ReadInOrder'
    BY <1>1, <2>7, <2>8 DEF ReadInOrder
  <2> QED BY <1>3, <2>3, <2>6, <2>9
<1> QED BY <1>6, <1>7

\* The other variables after a visit of c: its peer may be found gone, and got may grow.
Leaves(c) ==
    /\ UNCHANGED <<running, sent, events>>
    /\ peer' \in [Ids -> {"new", "up", "left", "broken"}] /\ peer'[c] # "new"
    /\ \A d \in Ids : d # c => peer'[d] = peer[d] /\ got'[d] = got[d]
    /\ wire' = wire \/ wire' = [wire EXCEPT ![c] = <<>>]
    /\ got' \in [Ids -> Seq(Outputs)]

\* A visit that ends takes TypesSound to TypesSound when the sessions stay sound.
LEMMA LeavesTypes ==
    ASSUME TypesSound, NEW c \in Ids, Leaves(c), SessionsSound',
           \A d \in Ids : d # c => session'[d] = session[d]
    PROVE  TypesSound'
<1>1. wire' \in [Ids -> Seq(Frames)] /\ \A d \in Ids : d # c => wire'[d] = wire[d]
  <2>1. << >> \in Seq(Frames)
    OBVIOUS
  <2> QED BY <2>1 DEF Leaves, TypesSound
<1> QED BY <1>1 DEF Leaves, TypesSound

\* A visit that fails, after it put at most copies into the queue beside the network's.
LEMMA VisitFails ==
    ASSUME TypesSound, ReadInOrder, NEW c \in Ids,
           Visiting(c) \/ (pump.at = "frames" /\ pump.conn = c),
           NEW s, Sound(s), Fail(c, s), Leaves(c), got' = got,
           s.net = session[c].net, s.app >= session[c].app, s.closing = session[c].closing
    PROVE  Steps
<1>1. /\ SessionsSound /\ c \in Present /\ session[c] # Nil /\ peer[c] # "new"
      /\ pump.conn \in {Nil, c}
  BY Visited
<1>2. /\ SessionsSound' /\ Present' = Present
      /\ Sound(session'[c]) /\ session'[c].net = s.net /\ session'[c].app = s.app
      /\ session'[c].closing = s.closing /\ ~session'[c].open
      /\ \A d \in Ids : d # c => session'[d] = session[d]
      /\ pump' = Idle
  BY <1>1, FailKeepsSound
<1>3. TypesSound'
  BY <1>2, LeavesTypes
<1>4. pump'.conn = Nil
  BY <1>2 DEF Idle
<1>5. /\ ReadInOrder' /\ \A d \in Ids : d # c => Passed(d)' = Passed(d)
      /\ Passed(c)' >= Passed(c)
  BY <1>1, <1>4, HandsEmpty DEF Leaves
<1>6. \A d \in Ids : d # c => Moves(d) /\ Serves(d)
  BY <1>2, <1>5, Untouched DEF Leaves
<1>7. session'[c] # Nil
  BY <1>2, Limits DEF Sound
<1>8. Stream(c)' = Stream(c)
  BY <1>1, <1>2, <1>7 DEF Stream
<1>9. Rests(c) /\ Serves(c)
  BY <1>1, <1>2, <1>7, <1>8 DEF Rests, Serves, Leaves
<1>10. \A d \in Ids : Passed(d)' >= Passed(d)
  BY <1>5 DEF ReadInOrder
<1>11. sent' = sent /\ events' \in {events, events + 1}
  BY DEF Leaves
<1> QED BY <1>3, <1>5, <1>6, <1>9, <1>10, <1>11 DEF Steps, Moves

\* A visit that ends well: the connection stays with what was not written, or it leaves the
\* map, and then all its stream was written or what was not is lost.
LEMMA VisitEnds ==
    ASSUME TypesSound, ReadInOrder, NEW c \in Ids,
           Visiting(c) \/ (pump.at = "frames" /\ pump.conn = c),
           NEW s, Sound(s), Done(c, s), Leaves(c),
           s.open => /\ got'[c] \o s.net = Stream(c) /\ wire' = wire
                     /\ pump.conn = Nil \/ pump.read = <<>>
                     /\ session[c].open,
           ~s.open => \/ got'[c] = Stream(c)
                      \/ got'[c] = got[c] /\ (~session[c].ready \/ peer'[c] # "up"),
           s.app >= session[c].app, s.closing = session[c].closing
    PROVE  Steps
<1>1. /\ SessionsSound /\ c \in pump.todo /\ session[c] # Nil /\ peer[c] # "new"
      /\ pump.conn \in {Nil, c}
  BY Visited
<1>2. /\ SessionsSound'
      /\ session'[c] = IF s.open THEN s ELSE Nil
      /\ \A d \in Ids : d # c => session'[d] = session[d]
      /\ pump'.conn = Nil
  BY <1>1, DoneKeepsSound
<1>3. TypesSound'
  BY <1>2, LeavesTypes
<1>5. /\ ReadInOrder' /\ \A d \in Ids : d # c => Passed(d)' = Passed(d)
      /\ Passed(c)' >= Passed(c)
      /\ (wire' = wire /\ (pump.conn = Nil \/ pump.read = <<>>)) => Passed(c)' = Passed(c)
  BY <1>1, <1>2, HandsEmpty DEF Leaves
<1>6. \A d \in Ids : d # c => Moves(d) /\ Serves(d)
  BY <1>2, <1>5, Untouched DEF Leaves
<1>7. Moves(c) /\ Serves(c)
  <2>1. CASE s.open
    <3>1. session'[c] = s /\ s # Nil /\ session[c].open
      BY <2>1, <1>2, Limits DEF Sound
    <3>2. Stream(c)' = Stream(c) /\ Passed(c)' = Passed(c)
      BY <2>1, <3>1, <1>5 DEF Stream
    <3>3. Rests(c)
      BY <1>1, <3>1, <3>2 DEF Rests, Leaves
    <3> QED BY <1>1, <3>2, <3>3 DEF Moves, Serves
  <2>2. CASE ~s.open
    <3>1. session'[c] = Nil
      BY <2>2, <1>2
    <3> QED BY <2>2, <3>1, <1>1 DEF Moves, Ends, Serves, Leaves
  <2> QED BY <2>1, <2>2
<1>8. \A d \in Ids : Passed(d)' >= Passed(d)
  BY <1>5 DEF ReadInOrder
<1>9. sent' = sent /\ events' \in {events, events + 1}
  BY DEF Leaves
<1> QED BY <1>3, <1>5, <1>6, <1>7, <1>8, <1>9 DEF Steps

\* A frame in the queue is at the end of the stream.
LEMMA QueuesOne ==
    ASSUME TypesSound, NEW c \in Ids, session[c] # Nil, Sound(session[c]), NEW f \in Outputs,
           session'[c] # Nil, session'[c].net = Append(session[c].net, f), got'[c] = got[c]
    PROVE  Stream(c)' = Append(Stream(c), f)
<1> DEFINE g == got[c]
           q == session[c].net
<1>1. g \in Seq(Outputs) /\ q \in Seq(Outputs)
  BY DEF TypesSound, Sound, Sessions
<1> HIDE DEF g, q
<1>2. g \o Append(q, f) = Append(g \o q, f)
  BY <1>1
<1>3. Stream(c) = g \o q /\ Stream(c)' = g \o Append(q, f)
  BY DEF Stream, g, q
<1> QED BY <1>2, <1>3

\* A step that moves one connection.
LEMMA OneMoves ==
    ASSUME ReadInOrder, NEW c \in Ids, TypesSound', ReadInOrder', Others(c), Moves(c), Serves(c),
           Passed(c)' >= Passed(c), sent' = sent, events' = events
    PROVE  Steps
<1>1. \A d \in Ids : Passed(d)' >= Passed(d)
  BY DEF ReadInOrder, Others
<1> QED BY <1>1 DEF Steps, Others

\* A control frame is answered, or the visit fails.
LEMMA ReplySteps ==
    ASSUME TypesSound, ReadInOrder, NEW c \in Ids, Reading(c), NEW s, Sound(s),
           NEW f \in Outputs, f.op \in {"close", "pong"}, Reply(c, s, f), Unmoved,
           s.net = session[c].net, s.app = session[c].app, s.open = session[c].open,
           s.closing => session[c].closing \/ (f.op = "close" /\ ~Full(s.net)),
           session[c].closing => s.closing,
           NextFrame(c).op \in {"whole", "last"} => s.closing \/ Full(s.net)
    PROVE  Steps
<1>1. /\ c \in Present /\ session[c] # Nil /\ Sound(session[c]) /\ peer[c] # "new"
      /\ session[c].open /\ pump.at = "frames" /\ pump.conn = c
  BY Visited DEF Reading
<1>2. CASE Full(s.net)
  <2>1. Fail(c, s) /\ s.closing = session[c].closing
    <3>1. s.closing \in BOOLEAN /\ session[c].closing \in BOOLEAN
      BY <1>1 DEF Sound, Sessions
    <3>2. s.closing <=> session[c].closing
      BY <1>2
    <3>3. s.closing = session[c].closing
      BY <3>1, <3>2, Zenon
    <3> QED BY <1>2, <3>3 DEF Reply
  <2>2. Leaves(c) /\ got' = got
    BY <1>1 DEF Leaves, Unmoved, TypesSound
  <2> QED BY <1>1, <2>1, <2>2, VisitFails DEF Sound, Sessions
<1>3. CASE ~Full(s.net)
  <2> DEFINE t == TryQueueNetworkFrame(s, f)
  <2>1. /\ Sound(t) /\ t.net = Append(s.net, f) /\ t.app = s.app /\ t.open = s.open
        /\ t.closing = s.closing
    BY <1>3, QueuedFrame
  <2>2. session' = [session EXCEPT ![c] = t] /\ Consume
    BY <1>3 DEF Reply
  <2> HIDE DEF t
  <2>3. /\ TypesSound' /\ ReadInOrder' /\ Others(c)
        /\ session'[c] = t /\ Passed(c)' = Passed(c) + 1 /\ Passed(c) \in Nat
        /\ sent[c][Passed(c) + 1] = NextFrame(c).op
    BY <1>1, <2>1, <2>2, VisitConsumes
  <2>4. t # Nil
    BY <2>1, Limits DEF Sound
  <2>5. Stream(c)' = Append(Stream(c), f)
    BY <1>1, <2>1, <2>3, <2>4, QueuesOne DEF Unmoved
  <2>6. Queues(c, f)
    BY <1>1, <1>3, <2>1, <2>3, <2>4, <2>5 DEF Queues, Applied, Unmoved
  <2>7. Serves(c)
    BY <1>1, <1>3, <2>1, <2>3 DEF Serves
  <2>8. Passed(c)' >= Passed(c)
    BY <2>3
  <2> QED BY <2>3, <2>6, <2>7, <2>8, OneMoves DEF Moves, Unmoved
<1> QED BY <1>2, <1>3

\* A frame is dealt with and nothing is queued.
LEMMA ConsumeSteps ==
    ASSUME TypesSound, ReadInOrder, NEW c \in Ids, Reading(c), NEW s, Sound(s),
           session' = [session EXCEPT ![c] = s], Consume, Unmoved,
           s.net = session[c].net, s.app = session[c].app, s.open = session[c].open,
           s.closing = session[c].closing, NextFrame(c).op \notin {"whole", "last"}
    PROVE  Steps
<1>1. /\ c \in Present /\ session[c] # Nil /\ Sound(session[c]) /\ peer[c] # "new"
      /\ session[c].open /\ pump.at = "frames" /\ pump.conn = c
  BY Visited DEF Reading
<1>2. /\ TypesSound' /\ ReadInOrder' /\ Others(c)
      /\ session'[c] = s /\ Passed(c)' = Passed(c) + 1 /\ Passed(c) \in Nat
      /\ sent[c][Passed(c) + 1] = NextFrame(c).op
  BY <1>1, VisitConsumes
<1>3. s # Nil
  BY Limits DEF Sound
<1>4. Stream(c)' = Stream(c)
  BY <1>1, <1>2, <1>3 DEF Stream, Unmoved
<1>5. Rests(c) /\ Serves(c)
  BY <1>1, <1>2, <1>3, <1>4 DEF Rests, Serves, Unmoved, Sound, Sessions
<1>6. Passed(c)' >= Passed(c)
  BY <1>2
<1> QED BY <1>2, <1>5, <1>6, OneMoves DEF Moves, Unmoved
-----------------------------------------------------------------------------
(***************************************************************************)
(* The actions, one by one.                                                *)
(***************************************************************************)

\* The variables that most actions of a visit leave alone.
LEMMA UnmovedLeaves ==
    ASSUME TypesSound, NEW c \in Ids, peer[c] # "new", Unmoved
    PROVE  Leaves(c) /\ got' = got
  BY DEF Leaves, Unmoved, TypesSound

\* An idle connection, or one whose handshake takes too long, or that cannot be read.
LEMMA TimeoutSteps ==
    ASSUME TypesSound, ReadInOrder, NEW c \in Ids,
           HandshakeTimeout(c) \/ IdleTimeout(c) \/ ReceiveFails(c) \/ ReceiveEnd(c)
    PROVE  Steps
<1>1. /\ SessionsSound /\ c \in pump.todo /\ c \in Present
      /\ session[c] # Nil /\ Sound(session[c]) /\ peer[c] # "new" /\ Visiting(c)
      /\ pump.conn = Nil /\ pump.read = <<>>
  BY Visited DEF HandshakeTimeout, IdleTimeout, ReceiveFails, ReceiveEnd
<1> DEFINE s == session[c]
<1>2. s \in Sessions /\ s.app \in Nat /\ s.app >= s.app
  BY <1>1 DEF Sound, Sessions
<1> DEFINE t == [s EXCEPT !.open = FALSE]
<1>3. Sound(t) /\ ~t.open /\ t.app = s.app /\ t.closing = s.closing
  BY <1>1, <1>2 DEF Sound, Sessions
<1>4. CASE HandshakeTimeout(c)
  <2>1. Done(c, t) /\ Unmoved /\ ~s.ready
    BY <1>4 DEF HandshakeTimeout, Unmoved
  <2> HIDE DEF t
  <2> QED BY <1>1, <1>2, <1>3, <2>1, UnmovedLeaves, VisitEnds
<1>5. CASE IdleTimeout(c)
  <2>1. Unmoved
    BY <1>5 DEF IdleTimeout, Unmoved
  <2>2. CASE Full(s.net)
    <3>1. Fail(c, s)
      BY <1>5, <2>2 DEF IdleTimeout
    <3> QED BY <1>1, <1>2, <2>1, <3>1, UnmovedLeaves, VisitFails
  <2>3. CASE ~Full(s.net)
    <3> DEFINE f == [op |-> "close", n |-> 0]
               u == TryQueueNetworkFrame(s, f)
               v == [u EXCEPT !.closing = TRUE]
    <3>1. f \in Outputs /\ f.op = "close"
      BY DEF Outputs
    <3>2. session' = [session EXCEPT ![c] = v] /\ UNCHANGED pump
      BY <1>5, <2>3 DEF IdleTimeout
    <3> HIDE DEF f
    <3>3. Sound(u) /\ u.net = Append(s.net, f) /\ u.app = s.app /\ u.open = s.open
      BY <1>1, <2>3, <3>1, QueuedFrame
    <3> HIDE DEF u
    <3>4. Sound(v) /\ v.net = Append(s.net, f) /\ v.app = s.app /\ v.open = s.open
          /\ v.closing = TRUE
      BY <3>3 DEF Sound, Sessions
    <3> HIDE DEF v
    <3>5. /\ TypesSound' /\ ReadInOrder' /\ Others(c)
          /\ session'[c] = v /\ Passed(c)' = Passed(c)
      BY <1>1, <2>1, <3>2, <3>4, VisitKeeps
    <3>6. v # Nil
      BY <3>4, Limits DEF Sound
    <3>7. Stream(c)' = Append(Stream(c), f)
      BY <1>1, <2>1, <3>1, <3>4, <3>5, <3>6, QueuesOne DEF Unmoved
    <3>8. Queues(c, f)
      BY <1>1, <2>1, <3>1, <3>4, <3>5, <3>6, <3>7 DEF Queues, Applied, Unmoved
    <3>9. Serves(c) /\ Passed(c)' >= Passed(c)
      BY <1>1, <3>5 DEF Serves, ReadInOrder
    <3> QED BY <2>1, <3>1, <3>5, <3>8, <3>9, OneMoves DEF Moves, Unmoved
  <2> QED BY <2>2, <2>3
<1>6. CASE ReceiveFails(c)
  <2>1. Fail(c, s) /\ got' = got
    BY <1>6 DEF ReceiveFails
  <2>2. Leaves(c)
    BY <1>6 DEF ReceiveFails, Leaves, TypesSound
  <2> QED BY <1>1, <1>2, <2>1, <2>2, VisitFails
<1>7. CASE ReceiveEnd(c)
  <2>1. Done(c, t) /\ got' = got /\ peer'[c] # "up"
    BY <1>7 DEF ReceiveEnd, TypesSound
  <2>2. Leaves(c)
    BY <1>7 DEF ReceiveEnd, Leaves, TypesSound
  <2> HIDE DEF t
  <2> QED BY <1>1, <1>2, <1>3, <2>1, <2>2, VisitEnds
<1> QED BY <1>4, <1>5, <1>6, <1>7

\* Frames arrive.
LEMMA ReceiveSteps ==
    ASSUME TypesSound, ReadInOrder, NEW c \in Ids, NEW k \in 0..Len(wire[c]), Receive(c, k)
    PROVE  Steps
<1>1. /\ SessionsSound /\ c \in pump.todo /\ c \in Present
      /\ session[c] # Nil /\ Sound(session[c]) /\ peer[c] # "new" /\ Visiting(c)
      /\ pump.conn = Nil /\ pump.read = <<>> /\ wire[c] \in Seq(Frames) /\ session[c].open
  BY Visited DEF Receive
<1> DEFINE s == session[c]
           w == wire[c]
           in == SubSeq(w, 1, k)
           on == SubSeq(w, k + 1, Len(w))
<1>2. s \in Sessions /\ s.app \in Nat /\ s.app >= s.app
  BY <1>1 DEF Sound, Sessions
<1>3. /\ Len(w) \in Nat /\ k \in Nat /\ k <= Len(w)
      /\ in \in Seq(Frames) /\ Len(in) = k /\ \A i \in 1..k : in[i] = w[i]
      /\ on \in Seq(Frames) /\ Len(on) = Len(w) - k /\ \A i \in 1..Len(on) : on[i] = w[k + i]
  <2>1. w \in Seq(Frames) /\ k \in 0..Len(w)
    BY <1>1
  <2> HIDE DEF w
  <2>2. Len(w) \in Nat /\ k \in Nat /\ k <= Len(w)
    BY <2>1
  <2>3. in \in Seq(Frames) /\ Len(in) = k /\ \A i \in 1..k : in[i] = w[i]
    BY <2>1
  <2>4. on \in Seq(Frames) /\ Len(on) = Len(w) - k /\ \A i \in 1..Len(on) : on[i] = w[k + i]
    BY <2>1
  <2> QED BY <2>2, <2>3, <2>4
<1>4. /\ wire' = [wire EXCEPT ![c] = on] /\ UNCHANGED <<running, peer, sent, got, events>>
      /\ wire'[c] = on /\ wire' \in [Ids -> Seq(Frames)]
      /\ \A d \in Ids : d # c => wire'[d] = wire[d]
  BY <1>3 DEF Receive, TypesSound
<1> HIDE DEF w, in, on
<1>5. /\ Taken(c) = Len(sent[c]) - Len(w) /\ Taken(c)' = Len(sent[c]) - Len(on)
      /\ Len(sent[c]) \in Nat /\ Passed(c) = Taken(c) /\ Passed(c) \in Nat
      /\ IsFrom(w, c, Taken(c))
  <2>1. Len(sent[c]) \in Nat /\ Taken(c) = Len(sent[c]) - Len(w)
        /\ Taken(c)' = Len(sent[c]) - Len(on)
    BY <1>4 DEF Taken, TypesSound, w
  <2>2. InHand(c) = 0
    BY <1>1, Limits DEF InHand
  <2>3. Passed(c) = Taken(c)
    BY <2>1, <2>2, <1>3 DEF Passed
  <2> QED BY <2>1, <2>3 DEF ReadInOrder, w
<1>6. Taken(c)' = Taken(c) + k
  <2> DEFINE a == Len(sent[c])
  <2>1. a \in Nat /\ Taken(c) = a - Len(w) /\ Taken(c)' = a - Len(on)
    BY <1>5
  <2> HIDE DEF a
  <2> QED BY <2>1, <1>3
<1>7. IsFrom(on, c, Taken(c) + k)
  <2> SUFFICES ASSUME NEW i \in 1..Len(on)
               PROVE  /\ on[i].n = (Taken(c) + k) + i
                      /\ on[i].op = sent[c][(Taken(c) + k) + i]
    BY DEF IsFrom
  <2>1. k + i \in 1..Len(w) /\ on[i] = w[k + i]
    <3>1. i \in Nat /\ i >= 1 /\ i <= Len(w) - k
      BY <1>3
    <3> QED BY <3>1, <1>3
  <2>2. Taken(c) + (k + i) = (Taken(c) + k) + i
    BY <1>3, <1>5
  <2> QED BY <2>1, <2>2, <1>5 DEF IsFrom
<1>8. IsFrom(in, c, Taken(c))
  <2>1. \A i \in 1..Len(in) : i \in 1..Len(w) /\ in[i] = w[i]
    BY <1>3
  <2> QED BY <2>1, <1>5 DEF IsFrom
\* Whatever it does with them, the pump is inside the visit, and holds them or none.
<1>9. ASSUME NEW r \in Seq(Frames), NEW t, Sound(t), t.open,
             r = in \/ r = <<>>,
             pump' = [pump EXCEPT !.at = "frames", !.conn = c, !.read = r],
             session' = [session EXCEPT ![c] = t]
      PROVE  /\ TypesSound' /\ ReadInOrder' /\ Others(c) /\ session'[c] = t
             /\ Passed(c)' >= Passed(c) /\ (r = in => Passed(c)' = Passed(c))
  <2>1. /\ pump' \in [at : {"idle", "next", "frames"}, conn : Ids \cup {Nil},
                      read : Seq(Frames), todo : SUBSET Ids]
        /\ pump'.at = "frames" /\ pump'.conn = c /\ pump'.read = r /\ pump'.todo = pump.todo
    BY <1>1, <1>9 DEF SessionsSound, PumpSound
  <2>2. SessionsSound'
    BY <1>1, <1>9, <2>1, PutKeepsSound
  <2>3. session'[c] = t /\ \A d \in Ids : d # c => session'[d] = session[d]
    BY <1>1, <1>9 DEF SessionsSound
  <2>4. TypesSound'
    BY <1>1, <1>4, <2>2, <2>3 DEF TypesSound
  <2>5. \A d \in Ids : d # c => Passed(d)' = Passed(d) /\ Taken(d)' = Taken(d)
    BY <1>1, <1>4, <2>1, CountsStay, Limits
  <2>6. Others(c)
    BY <1>4, <2>3, <2>5, Untouched DEF Others
  <2>7. InHand(c)' = Len(r) /\ Len(r) \in {0, k}
    BY <1>3, <1>9, <2>1 DEF InHand
  <2>8. Passed(c)' = Taken(c)' - Len(r)
    BY <2>7 DEF Passed
  <2>9. Passed(c)' >= Passed(c) /\ (r = in => Passed(c)' = Passed(c)) /\ Passed(c)' \in Nat
    BY <1>3, <1>5, <1>6, <2>7, <2>8
  <2>10. IsFrom(wire[c], c, Taken(c))'
    BY <1>4, <1>6, <1>7 DEF IsFrom
  <2>11. IsFrom(pump.read, c, Passed(c))'
    <3>1. CASE r = in
      <4>1. Passed(c)' = Taken(c) /\ pump'.read = in /\ sent' = sent
        BY <1>4, <1>5, <2>1, <2>9, <3>1
      <4> QED BY <4>1, <1>8 DEF IsFrom
    <3>2. CASE r = <<>>
      BY <2>1, <3>2 DEF IsFrom
    <3> QED BY <3>1, <3>2, <1>9
  <2>12. ReadInOrder'
    <3> SUFFICES ASSUME NEW d \in Ids
                 PROVE  /\ Passed(d)' \in Nat
                        /\ IsFrom(wire[d], d, Taken(d))'
                        /\ (pump.conn = d)' => IsFrom(pump.read, d, Passed(d))'
      BY DEF ReadInOrder
    <3>1. CASE d = c
      BY <3>1, <2>9, <2>10, <2>11
    <3>2. CASE d # c
      BY <3>2, <1>4, <2>1, <2>5 DEF ReadInOrder, IsFrom
    <3> QED BY <3>1, <3>2
  <2> QED BY <2>3, <2>4, <2>6, <2>9, <2>12
<1>10. CASE k <= MaxRead
  <2>1. pump' = [pump EXCEPT !.at = "frames", !.conn = c, !.read = in] /\ UNCHANGED session
    BY <1>10 DEF Receive, in, w
  <2>2. session' = [session EXCEPT ![c] = s]
    BY <2>1 DEF SessionsSound, TypesSound
  <2>3. /\ TypesSound' /\ ReadInOrder' /\ Others(c) /\ session'[c] = s
        /\ Passed(c)' >= Passed(c) /\ Passed(c)' = Passed(c)
    BY <1>1, <1>3, <1>9, <2>1, <2>2
  <2>4. Moves(c) /\ Serves(c)
    BY <1>4, <2>3, Untouched
  <2> QED BY <1>4, <2>3, <2>4, OneMoves
<1>11. CASE ~(k <= MaxRead) /\ Full(s.net)
  <2>1. Fail(c, s)
    BY <1>11 DEF Receive
  <2>2. pump'.conn = Nil
    BY <2>1 DEF Fail, Idle
  <2>3. /\ SessionsSound' /\ Present' = Present
        /\ Sound(session'[c]) /\ session'[c].net = s.net /\ session'[c].app = s.app
        /\ session'[c].closing = s.closing /\ ~session'[c].open
        /\ \A d \in Ids : d # c => session'[d] = session[d]
    BY <1>1, <2>1, FailKeepsSound
  <2>4. TypesSound'
    BY <1>1, <1>4, <2>3 DEF TypesSound, Present
  <2>5. \A d \in Ids : d # c => Passed(d)' = Passed(d) /\ Taken(d)' = Taken(d)
    BY <1>1, <1>4, <2>2, CountsStay, Limits
  <2>6. Others(c)
    BY <1>4, <2>3, <2>5, Untouched DEF Others
  <2>7. InHand(c)' = 0 /\ Passed(c)' = Taken(c)' - 0
    BY <2>2, Limits DEF InHand, Passed
  <2>8. Passed(c)' \in Nat /\ Passed(c)' >= Passed(c)
    BY <1>3, <1>5, <1>6, <2>7
  <2>9. ReadInOrder'
    <3>1. IsFrom(wire[c], c, Taken(c))'
      BY <1>4, <1>6, <1>7 DEF IsFrom
    <3> QED BY <3>1, <2>2, <2>5, <2>8, <1>4, Limits DEF ReadInOrder, IsFrom
  <2>10. session'[c] # Nil
    BY <2>3, Limits DEF Sound
  <2>11. Stream(c)' = Stream(c)
    BY <1>1, <1>4, <2>3, <2>10 DEF Stream
  <2>12. Rests(c) /\ Serves(c)
    BY <1>1, <1>2, <1>4, <2>3, <2>10, <2>11 DEF Rests, Serves
  <2> QED BY <1>4, <2>4, <2>6, <2>8, <2>9, <2>12, OneMoves DEF Moves
<1>12. CASE ~(k <= MaxRead) /\ ~Full(s.net)
  <2> DEFINE f == [op |-> "close", n |-> 0]
             u == TryQueueNetworkFrame(s, f)
             v == [u EXCEPT !.closing = TRUE]
  <2>1. f \in Outputs /\ f.op = "close"
    BY DEF Outputs
  <2>2. session' = [session EXCEPT ![c] = v]
        /\ pump' = [pump EXCEPT !.at = "frames", !.conn = c]
    BY <1>12 DEF Receive
  <2> HIDE DEF f
  <2>3. Sound(u) /\ u.net = Append(s.net, f) /\ u.app = s.app /\ u.open = s.open
    BY <1>1, <1>12, <2>1, QueuedFrame
  <2> HIDE DEF u
  <2>4. Sound(v) /\ v.net = Append(s.net, f) /\ v.app = s.app /\ v.open = s.open
        /\ v.closing = TRUE
    BY <2>3 DEF Sound, Sessions
  <2> HIDE DEF v
  <2>5. pump' = [pump EXCEPT !.at = "frames", !.conn = c, !.read = <<>>]
    BY <1>1, <2>2 DEF SessionsSound, PumpSound
  <2>6. /\ TypesSound' /\ ReadInOrder' /\ Others(c)
        /\ session'[c] = v /\ Passed(c)' >= Passed(c)
    <3>1. << >> \in Seq(Frames)
      OBVIOUS
    <3> QED BY <3>1, <1>1, <1>9, <2>2, <2>4, <2>5
  <2>7. v # Nil
    BY <2>4, Limits DEF Sound
  <2>8. Stream(c)' = Append(Stream(c), f)
    BY <1>1, <1>4, <2>1, <2>4, <2>6, <2>7, QueuesOne
  <2>9. Queues(c, f)
    BY <1>1, <1>4, <2>1, <2>4, <2>6, <2>7, <2>8 DEF Queues, Applied
  <2>10. Serves(c)
    BY <2>4, <2>6 DEF Serves
  <2> QED BY <1>4, <2>1, <2>6, <2>9, <2>10, OneMoves DEF Moves
<1> QED BY <1>10, <1>11, <1>12

\* The handshake and the control frames.
LEMMA HandshakeSteps ==
    ASSUME TypesSound, ReadInOrder, NEW c \in Ids,
           NoHandshake(c) \/ TryCompleteNetworkHandshake(c) \/ BadFrame(c) \/ SendFails(c)
    PROVE  Steps
<1>1. /\ SessionsSound /\ c \in Present /\ session[c] # Nil /\ Sound(session[c])
      /\ peer[c] # "new" /\ session[c].open /\ pump.at = "frames" /\ pump.conn = c
  BY Visited DEF NoHandshake, TryCompleteNetworkHandshake, BadFrame, SendFails, Reading
<1> DEFINE s == session[c]
<1>2. s \in Sessions /\ s.app \in Nat /\ s.app >= s.app
  BY <1>1 DEF Sound, Sessions
<1>3. CASE NoHandshake(c)
  <2>1. Done(c, s) /\ Unmoved /\ pump.read = <<>>
    BY <1>3 DEF NoHandshake, Unmoved
  <2>2. Leaves(c) /\ got' = got /\ wire' = wire
    BY <1>1, <2>1, UnmovedLeaves DEF Unmoved
  <2>3. got'[c] \o s.net = Stream(c)
    BY <1>1, <2>2 DEF Stream
  <2> QED BY <1>1, <1>2, <2>1, <2>2, <2>3, VisitEnds
<1>4. CASE BadFrame(c)
  <2>1. Fail(c, s) /\ Unmoved
    BY <1>4 DEF BadFrame, Unmoved
  <2> QED BY <1>1, <1>2, <2>1, UnmovedLeaves, VisitFails
<1>5. CASE SendFails(c)
  <2>1. Fail(c, s) /\ got' = got
    BY <1>5 DEF SendFails
  <2>2. Leaves(c)
    BY <1>5 DEF SendFails, Leaves, TypesSound
  <2> QED BY <1>1, <1>2, <2>1, <2>2, VisitFails
<1>6. CASE TryCompleteNetworkHandshake(c)
  <2>1. Unmoved /\ Reading(c)
    BY <1>6 DEF TryCompleteNetworkHandshake, Unmoved
  <2> DEFINE r == [s EXCEPT !.ready = TRUE]
             f == [op |-> "challenge", n |-> 0]
             t == TryQueueApplicationOutbound(r, f)
  <2>2. \/ Fail(c, s)
        \/ r.app >= MaxOutbound /\ Fail(c, r)
        \/ ~(r.app >= MaxOutbound) /\ Full(r.net) /\ Fail(c, t)
        \/ /\ NextFrame(c).op = "hello" /\ ~(r.app >= MaxOutbound) /\ ~Full(r.net)
           /\ session' = [session EXCEPT ![c] = t] /\ Consume
    BY <1>6, Zenon DEF TryCompleteNetworkHandshake
  <2>3. /\ Sound(r) /\ r.net = s.net /\ r.app = s.app /\ r.app \in Nat /\ r.open = s.open
        /\ r.closing = s.closing
    <3> HIDE DEF s, t, f
    <3>1. s \in Sessions /\ Len(s.net) <= MaxOutbound
      BY <1>1 DEF Sound, s
    <3>2. r \in Sessions /\ r.net = s.net /\ r.app = s.app /\ r.open = s.open
          /\ r.closing = s.closing
      BY <3>1 DEF Sessions
    <3>3. r.app \in Nat
      BY <3>1, <3>2 DEF Sessions
    <3> QED BY <3>1, <3>2, <3>3 DEF Sound
  <2>4. f \in Outputs /\ f.op = "challenge"
    BY DEF Outputs
  <2> HIDE DEF r, f
  <2>5. ~(r.app >= MaxOutbound) =>
          /\ Sound(t) /\ t.net = (IF Full(r.net) THEN r.net ELSE Append(r.net, f))
          /\ t.app = r.app + 1 /\ t.open = r.open /\ t.closing = r.closing
    <3>1. ~(r.app >= MaxOutbound) => r.app < MaxOutbound
      BY <2>3, Limits
    <3> QED BY <2>3, <2>4, <3>1, QueuedApplication
  <2> HIDE DEF t
  <2>6. CASE Fail(c, s)
    BY <1>1, <1>2, <2>1, <2>6, UnmovedLeaves, VisitFails
  <2>7. CASE Fail(c, r)
    BY <1>1, <1>2, <2>1, <2>3, <2>7, UnmovedLeaves, VisitFails
  <2>8. CASE ~(r.app >= MaxOutbound) /\ Full(r.net) /\ Fail(c, t)
    <3>1. Sound(t) /\ t.net = s.net /\ t.app >= s.app /\ t.closing = s.closing
      BY <2>3, <2>5, <2>8
    <3> QED BY <1>1, <2>1, <2>8, <3>1, UnmovedLeaves, VisitFails
  <2>9. CASE /\ NextFrame(c).op = "hello" /\ ~(r.app >= MaxOutbound) /\ ~Full(r.net)
             /\ session' = [session EXCEPT ![c] = t] /\ Consume
    <3>1. /\ Sound(t) /\ t.net = Append(s.net, f) /\ t.app = s.app + 1 /\ t.open = s.open
          /\ t.closing = s.closing
      BY <2>3, <2>5, <2>9
    <3>2. /\ TypesSound' /\ ReadInOrder' /\ Others(c)
          /\ session'[c] = t /\ Passed(c)' = Passed(c) + 1 /\ Passed(c) \in Nat
          /\ sent[c][Passed(c) + 1] = NextFrame(c).op
      BY <1>1, <2>1, <2>9, <3>1, VisitConsumes
    <3>3. t # Nil
      BY <3>1, Limits DEF Sound
    <3>4. Stream(c)' = Append(Stream(c), f)
      BY <1>1, <2>1, <2>4, <3>1, <3>2, <3>3, QueuesOne DEF Unmoved
    <3>5. Queues(c, f)
      BY <1>1, <2>1, <2>4, <3>1, <3>2, <3>3, <3>4 DEF Queues, Applied, Unmoved
    <3>6. Serves(c) /\ Passed(c)' >= Passed(c)
      BY <1>1, <2>9, <3>2 DEF Serves
    <3> QED BY <2>1, <2>4, <3>2, <3>5, <3>6, OneMoves DEF Moves, Unmoved
  <2> QED BY <2>2, <2>6, <2>7, <2>8, <2>9
<1> QED BY <1>3, <1>4, <1>5, <1>6

\* What a session becomes that is to be closed after its queue, if that has room.
LEMMA ClosingAfter ==
    ASSUME NEW s, Sound(s)
    PROVE  LET t == [s EXCEPT !.closing = ~Full(s.net) \/ @]
           IN  /\ Sound(t) /\ t.net = s.net /\ t.app = s.app /\ t.open = s.open
               /\ t.closing => s.closing \/ ~Full(s.net)
               /\ s.closing => t.closing
               /\ ~Full(s.net) => t.closing
<1> DEFINE t == [s EXCEPT !.closing = ~Full(s.net) \/ @]
<1>1. CASE Full(s.net)
  <2>1. (~Full(s.net) \/ s.closing) = s.closing
    <3>1. s.closing \in BOOLEAN
      BY DEF Sound, Sessions
    <3> QED BY <3>1, <1>1
  <2>2. t = [s EXCEPT !.closing = s.closing]
    BY <2>1, Zenon
  <2> HIDE DEF t
  <2>3. /\ Sound(t) /\ t.net = s.net /\ t.app = s.app /\ t.open = s.open
        /\ t.closing = s.closing
    BY <2>2 DEF Sound, Sessions
  <2> QED BY <1>1, <2>3 DEF t
<1>2. CASE ~Full(s.net)
  <2>1. (~Full(s.net) \/ s.closing) = TRUE
    BY <1>2
  <2>2. t = [s EXCEPT !.closing = TRUE]
    BY <2>1, Zenon
  <2> HIDE DEF t
  <2>3. Sound(t) /\ t.net = s.net /\ t.app = s.app /\ t.open = s.open /\ t.closing = TRUE
    BY <2>2 DEF Sound, Sessions
  <2> QED BY <1>2, <2>3 DEF t
<1> QED BY <1>1, <1>2

\* Control frames.
LEMMA ControlSteps ==
    ASSUME TypesSound, ReadInOrder, NEW c \in Ids, ControlFrame(c)
    PROVE  Steps
<1> DEFINE s == session[c]
<1>1. Sound(s) /\ Reading(c) /\ Unmoved
  BY Visited DEF ControlFrame, Reading, Unmoved
<1>2. CASE NextFrame(c).op = "close"
  <2> DEFINE f == [op |-> "close", n |-> 0]
             t == [s EXCEPT !.closing = ~Full(s.net) \/ @]
  <2>1. f \in Outputs /\ f.op = "close"
    BY DEF Outputs
  <2>2. Reply(c, t, f)
    BY <1>2 DEF ControlFrame
  <2>3. /\ Sound(t) /\ t.net = s.net /\ t.app = s.app /\ t.open = s.open
        /\ t.closing => s.closing \/ ~Full(s.net)
        /\ s.closing => t.closing
    BY <1>1, ClosingAfter
  <2> HIDE DEF f, t
  <2> QED BY <1>1, <1>2, <2>1, <2>2, <2>3, ReplySteps
<1>3. CASE NextFrame(c).op = "ping"
  <2> DEFINE f == [op |-> "pong", n |-> 0]
  <2>1. f \in Outputs /\ f.op = "pong"
    BY DEF Outputs
  <2>2. Reply(c, s, f)
    BY <1>3 DEF ControlFrame
  <2> HIDE DEF f
  <2> QED BY <1>1, <1>3, <2>1, <2>2, ReplySteps
<1>4. CASE NextFrame(c).op = "pong"
  <2>1. Consume /\ UNCHANGED session
    BY <1>4 DEF ControlFrame
  <2>2. session' = [session EXCEPT ![c] = s]
    BY <2>1 DEF SessionsSound, TypesSound
  <2> QED BY <1>1, <1>4, <2>1, <2>2, ConsumeSteps
<1> QED BY <1>2, <1>3, <1>4 DEF ControlFrame

\* A fragment that completes nothing.
LEMMA FragmentSteps ==
    ASSUME TypesSound, ReadInOrder, NEW c \in Ids, Fragment(c)
    PROVE  Steps
<1> DEFINE s == session[c]
           size == IF NextFrame(c).op = "first" THEN 1 ELSE s.fragments + 1
<1>1. Sound(s) /\ Reading(c) /\ Unmoved /\ NextFrame(c).op \in {"first", "more", "last"}
  BY Visited DEF Fragment, Reading, Unmoved
<1>2. size \in Nat
  BY <1>1 DEF Sound, Sessions
<1>3. CASE /\ size > MaxFragments
           /\ Reply(c, [s EXCEPT !.fragments = size, !.closing = ~Full(s.net) \/ @],
                    [op |-> "close", n |-> 0])
  <2> DEFINE f == [op |-> "close", n |-> 0]
             u == [s EXCEPT !.fragments = size]
             t == [u EXCEPT !.closing = ~Full(u.net) \/ @]
  <2>1. f \in Outputs /\ f.op = "close"
    BY DEF Outputs
  <2>2. u.net = s.net
    BY <1>1 DEF Sound, Sessions
  <2>3. Reply(c, t, f)
    BY <1>3, <2>2
  <2> HIDE DEF f, size
  <2>4. /\ Sound(u) /\ u.net = s.net /\ u.app = s.app /\ u.open = s.open
        /\ u.closing = s.closing
    BY <1>1, <1>2 DEF Sound, Sessions
  <2> HIDE DEF u
  <2>5. /\ Sound(t) /\ t.net = u.net /\ t.app = u.app /\ t.open = u.open
        /\ t.closing => u.closing \/ ~Full(u.net)
        /\ u.closing => t.closing
        /\ ~Full(u.net) => t.closing
    BY <2>4, ClosingAfter
  <2> HIDE DEF t
  <2>6. NextFrame(c).op \in {"whole", "last"} => t.closing \/ Full(t.net)
    BY <2>4, <2>5
  <2> QED BY <1>1, <2>1, <2>3, <2>4, <2>5, <2>6, ReplySteps
<1>4. CASE /\ size <= MaxFragments /\ NextFrame(c).op # "last"
           /\ session' = [session EXCEPT ![c] = [s EXCEPT !.fragments = size, !.awaiting = TRUE]]
           /\ Consume
  <2> DEFINE t == [s EXCEPT !.fragments = size, !.awaiting = TRUE]
  <2> HIDE DEF size
  <2>1. /\ Sound(t) /\ t.net = s.net /\ t.app = s.app /\ t.open = s.open
        /\ t.closing = s.closing
    BY <1>1, <1>2 DEF Sound, Sessions
  <2>2. session' = [session EXCEPT ![c] = t] /\ Consume
    BY <1>4
  <2>3. NextFrame(c).op \notin {"whole", "last"}
    BY <1>1, <1>4
  <2> HIDE DEF t
  <2> QED BY <1>1, <2>1, <2>2, <2>3, ConsumeSteps
<1> QED BY <1>3, <1>4 DEF Fragment

\* A message, which is answered.
LEMMA MessageSteps ==
    ASSUME TypesSound, ReadInOrder, NEW c \in Ids, Message(c)
    PROVE  Steps
<1> DEFINE r == session[c]
           f == NextFrame(c)
           size == IF f.op = "last" THEN 0 ELSE r.fragments
           s == [r EXCEPT !.awaiting = FALSE, !.fragments = size]
<1>1. Sound(r) /\ Reading(c) /\ Unmoved /\ r # Nil /\ peer[c] # "new" /\ c \in Present /\ r.open
      /\ pump.at = "frames" /\ pump.conn = c
  BY Visited DEF Message, Reading, Unmoved
<1>2. size \in Nat
  BY <1>1 DEF Sound, Sessions
<1>3. /\ Sound(s) /\ s.net = r.net /\ s.app = r.app /\ s.open = r.open
      /\ s.closing = r.closing /\ s.app \in 0..MaxOutbound
  <2> HIDE DEF size
  <2> QED BY <1>1, <1>2 DEF Sound, Sessions
<1>4. s = [r EXCEPT !.awaiting = FALSE, !.fragments = IF f.op = "last" THEN 0 ELSE @]
  OBVIOUS
<1>5. \/ /\ f.op = "whole" \/ (f.op = "last" /\ r.fragments < MaxFragments)
         /\ IF s.app >= MaxOutbound THEN Fail(c, s)
            ELSE LET t == TryQueueApplicationOutbound(s, [op |-> "answer", n |-> f.n])
                 IN  IF Full(s.net) THEN Fail(c, t)
                     ELSE session' = [session EXCEPT ![c] = t] /\ Consume
      \/ f.op = "empty" /\ Consume /\ UNCHANGED session
      \/ /\ f.op = "invalid"
         /\ Reply(c, [s EXCEPT !.closing = ~Full(s.net) \/ @], [op |-> "close", n |-> 0])
  BY <1>4, Zenon DEF Message
<1> HIDE DEF s, size
<1>6. Leaves(c) /\ got' = got
  BY <1>1, UnmovedLeaves
<1>7. CASE f.op = "whole" \/ (f.op = "last" /\ r.fragments < MaxFragments)
  <2> DEFINE g == [op |-> "answer", n |-> f.n]
             t == TryQueueApplicationOutbound(s, g)
  <2>1. f.op \in {"whole", "last"}
    BY <1>7
  <2>2. IF s.app >= MaxOutbound THEN Fail(c, s)
        ELSE IF Full(s.net) THEN Fail(c, t)
             ELSE session' = [session EXCEPT ![c] = t] /\ Consume
    BY <1>5, <2>1
  <2>3. CASE s.app >= MaxOutbound
    BY <1>1, <1>3, <1>6, <2>2, <2>3, VisitFails
  <2>4. CASE ~(s.app >= MaxOutbound)
    <3>1. s.app < MaxOutbound
      BY <1>3, <2>4, Limits
    <3>2. f \in Frames
      <4>1. pump.read \in Seq(Frames) /\ pump.read # <<>>
        BY <1>1, Visited DEF Reading
      <4> QED BY <4>1 DEF NextFrame
    <3>3. g \in Outputs /\ g.op = "answer" /\ g.n = f.n
      BY <3>2 DEF Outputs, Frames
    <3> HIDE DEF g
    <3>4. /\ Sound(t) /\ t.net = (IF Full(s.net) THEN s.net ELSE Append(s.net, g))
          /\ t.app = s.app + 1 /\ t.open = s.open /\ t.closing = s.closing
      BY <1>3, <3>1, <3>3, QueuedApplication
    <3> HIDE DEF t
    <3>5. CASE Full(s.net)
      <4>1. Fail(c, t) /\ t.net = s.net /\ t.app >= r.app
        BY <1>3, <2>2, <2>4, <3>4, <3>5
      <4> QED BY <1>1, <1>3, <1>6, <3>4, <4>1, VisitFails
    <3>6. CASE ~Full(s.net)
      <4>1. session' = [session EXCEPT ![c] = t] /\ Consume /\ t.net = Append(r.net, g)
        BY <1>3, <2>2, <2>4, <3>4, <3>6
      <4>2. /\ TypesSound' /\ ReadInOrder' /\ Others(c)
            /\ session'[c] = t /\ Passed(c)' = Passed(c) + 1 /\ Passed(c) \in Nat
            /\ f.n = Passed(c) + 1
        BY <1>1, <1>3, <3>4, <4>1, VisitConsumes
      <4>3. t # Nil
        BY <3>4, Limits DEF Sound
      <4>4. Stream(c)' = Append(Stream(c), g)
        BY <1>1, <3>3, <4>1, <4>2, <4>3, QueuesOne DEF Unmoved
      <4>5. Queues(c, g)
        BY <1>1, <1>3, <3>3, <3>4, <4>2, <4>3, <4>4 DEF Queues, Applied, Unmoved
      <4>6. g = [op |-> "answer", n |-> Passed(c) + 1]
        BY <4>2 DEF g
      <4>7. Serves(c)
        BY <1>1, <4>2, <4>4, <4>6 DEF Serves
      <4>8. Passed(c)' >= Passed(c)
        BY <4>2
      <4> QED BY <1>1, <3>3, <4>2, <4>5, <4>7, <4>8, OneMoves DEF Moves, Unmoved
    <3> QED BY <3>5, <3>6
  <2> QED BY <2>3, <2>4
<1>8. CASE f.op = "empty"
  <2>1. Consume /\ UNCHANGED session
    BY <1>5, <1>8
  <2>2. session' = [session EXCEPT ![c] = r]
    BY <2>1 DEF SessionsSound, TypesSound
  <2> QED BY <1>1, <1>8, <2>1, <2>2, ConsumeSteps
<1>9. CASE f.op = "invalid"
  <2> DEFINE g == [op |-> "close", n |-> 0]
             t == [s EXCEPT !.closing = ~Full(s.net) \/ @]
  <2>1. g \in Outputs /\ g.op = "close"
    BY DEF Outputs
  <2>2. Reply(c, t, g)
    BY <1>5, <1>9
  <2>3. /\ Sound(t) /\ t.net = s.net /\ t.app = s.app /\ t.open = s.open
        /\ t.closing => s.closing \/ ~Full(s.net)
        /\ s.closing => t.closing
    BY <1>3, ClosingAfter
  <2> HIDE DEF g, t
  <2> QED BY <1>1, <1>3, <1>9, <2>1, <2>2, <2>3, ReplySteps
<1> QED BY <1>5, <1>7, <1>8, <1>9

\* A queue cut in two is the same queue.
LEMMA Cut ==
    ASSUME NEW g \in Seq(Outputs), NEW q \in Seq(Outputs), NEW k \in 0..Len(q)
    PROVE  /\ SubSeq(q, 1, k) \in Seq(Outputs) /\ Unsent(q, k) \in Seq(Outputs)
           /\ Len(Unsent(q, k)) = Len(q) - k
           /\ g \o SubSeq(q, 1, k) \in Seq(Outputs)
           /\ (g \o SubSeq(q, 1, k)) \o Unsent(q, k) = g \o q
           /\ Unsent(q, k) = <<>> => g \o SubSeq(q, 1, k) = g \o q
<1> DEFINE a == SubSeq(q, 1, k)
           b == SubSeq(q, k + 1, Len(q))
<1>0. /\ a \in Seq(Outputs) /\ Len(a) = k /\ \A i \in 1..k : a[i] = q[i]
  OBVIOUS
<1>1. /\ a \in Seq(Outputs) /\ Len(a) = k /\ \A i \in 1..k : a[i] = q[i]
      /\ b \in Seq(Outputs) /\ Len(b) = Len(q) - k /\ \A i \in 1..Len(b) : b[i] = q[k + i]
  <2>1. b \in Seq(Outputs) /\ Len(b) = Len(q) - k /\ \A i \in 1..Len(b) : b[i] = q[k + i]
    OBVIOUS
  <2> QED BY <1>0, <2>1
<1>2. Len(q) \in Nat /\ k \in Nat /\ k <= Len(q)
  OBVIOUS
<1> HIDE DEF a, b
<1>3. a \o b = q
  <2>0. /\ a \o b \in Seq(Outputs) /\ Len(a \o b) = Len(a) + Len(b)
        /\ \A i \in 1..Len(a) + Len(b) :
               (a \o b)[i] = IF i <= Len(a) THEN a[i] ELSE b[i - Len(a)]
    BY <1>1, ConcatProperties
  <2>3. Len(a) + Len(b) = Len(q)
    BY <1>1, <1>2
  <2>1. a \o b \in Seq(Outputs) /\ Len(a \o b) = Len(q)
    BY <2>0, <2>3
  <2>2. \A i \in 1..Len(q) : (a \o b)[i] = q[i]
    <3> TAKE i \in 1..Len(q)
    <3>0. (a \o b)[i] = IF i <= k THEN a[i] ELSE b[i - k]
      BY <1>1, <2>0, <2>3
    <3>1. CASE i <= k
      <4>1. i \in 1..k
        BY <1>2, <3>1
      <4> QED BY <4>1, <1>1, <3>0, <3>1
    <3>2. CASE i > k
      <4>1. i - k \in 1..Len(b) /\ k + (i - k) = i
        BY <1>1, <1>2, <3>2
      <4>2. (a \o b)[i] = b[i - k]
        BY <1>2, <3>0, <3>2
      <4> QED BY <4>1, <4>2, <1>1
    <3>3. i <= k \/ i > k
      BY <1>2
    <3> QED BY <3>1, <3>2, <3>3, Zenon
  <2> QED BY <2>1, <2>2, SeqEqual
<1>4. (g \o a) \o b = g \o (a \o b)
  BY <1>1, ConcatAssociative, SMTT(30)
<1>5. b = <<>> => a \o b = a
  BY <1>1, ConcatEmptySeq
<1>6. g \o a \in Seq(Outputs)
  BY <1>1, ConcatProperties
<1>7. (g \o a) \o b = g \o q /\ (b = <<>> => g \o a = g \o q)
  BY <1>3, <1>4, <1>5
<1> QED BY <1>1, <1>6, <1>7 DEF Unsent, a, b

\* What is queued is written.
LEMMA FlushSteps ==
    ASSUME TypesSound, ReadInOrder, NEW c \in Ids, NEW k \in 0..MaxOutbound,
           FlushNetworkOutbound(c, k)
    PROVE  /\ Steps /\ k \in 0..Len(session[c].net)
           /\ session'[c] = Nil => got'[c] = Stream(c)
<1>1. /\ SessionsSound /\ c \in pump.todo /\ session[c] # Nil /\ Sound(session[c])
      /\ peer[c] # "new" /\ session[c].open /\ got[c] \in Seq(Outputs)
      /\ pump.at = "frames" /\ pump.conn = c /\ pump.read = <<>>
  BY Visited DEF FlushNetworkOutbound
<1> DEFINE s == session[c]
           g == got[c]
           q == s.net
           out == SubSeq(q, 1, k)
           rest == Unsent(q, k)
           t == [s EXCEPT !.net = rest]
           u == [t EXCEPT !.open = ~ClosesNow(t)]
<1>2. k <= Len(q) /\ q \in Seq(Outputs) /\ k \in Nat /\ Len(q) \in Nat
  BY <1>1 DEF FlushNetworkOutbound, Sound, Sessions
<1>3. k \in 0..Len(q)
  BY <1>2
<1>4. /\ rest \in Seq(Outputs) /\ Len(rest) = Len(q) - k
      /\ g \o out \in Seq(Outputs) /\ (g \o out) \o rest = g \o q
      /\ rest = <<>> => g \o out = g \o q
  <2> HIDE DEF g, q
  <2> QED BY <1>1, <1>2, <1>3, Cut DEF g
<1>5. Stream(c) = g \o q
  BY <1>1 DEF Stream
<1>6. got' = [got EXCEPT ![c] = g \o out] /\ Done(c, u)
      /\ UNCHANGED <<running, peer, wire, sent, events>>
  BY DEF FlushNetworkOutbound
<1>7. got'[c] = g \o out /\ got' \in [Ids -> Seq(Outputs)]
      /\ \A d \in Ids : d # c => got'[d] = got[d]
  <2> HIDE DEF out, g
  <2> QED BY <1>4, <1>6 DEF TypesSound
<1> HIDE DEF rest, out
<1>8. /\ Sound(t) /\ t.net = rest /\ t.app = s.app /\ t.open = s.open /\ t.closing = s.closing
  <2>1. Len(rest) <= MaxOutbound
    BY <1>1, <1>2, <1>4, Limits DEF Sound
  <2> QED BY <1>1, <1>4, <2>1 DEF Sound, Sessions
<1> HIDE DEF t
<1>9. /\ Sound(u) /\ u.net = rest /\ u.app = s.app /\ u.closing = s.closing
      /\ ~u.open => rest = <<>>
  <2>1. CASE ClosesNow(t)
    <3>1. u = [t EXCEPT !.open = FALSE]
      BY <2>1
    <3> HIDE DEF u
    <3>2. Sound(u) /\ u.net = rest /\ u.app = s.app /\ u.closing = s.closing
      BY <3>1, <1>8 DEF Sound, Sessions
    <3> QED BY <3>2, <2>1, <1>8 DEF ClosesNow
  <2>2. CASE ~ClosesNow(t)
    <3>1. u = [t EXCEPT !.open = TRUE]
      BY <2>2
    <3> HIDE DEF u
    <3>2. Sound(u) /\ u.net = rest /\ u.app = s.app /\ u.closing = s.closing /\ u.open
      BY <3>1, <1>8 DEF Sound, Sessions
    <3> QED BY <3>2
  <2> QED BY <2>1, <2>2
<1> HIDE DEF u
<1>10. Leaves(c) /\ wire' = wire
  BY <1>1, <1>6, <1>7 DEF Leaves, TypesSound
<1>11. /\ u.open => got'[c] \o u.net = Stream(c)
       /\ ~u.open => got'[c] = Stream(c)
  BY <1>4, <1>5, <1>7, <1>9
<1>12. u.app >= s.app
  BY <1>9, <1>1 DEF Sound, Sessions
<1>13. Steps
  BY <1>1, <1>6, <1>9, <1>10, <1>11, <1>12, VisitEnds
<1>14. session'[c] = IF u.open THEN u ELSE Nil
  BY <1>1, <1>6, <1>9, DoneKeepsSound
<1> QED BY <1>3, <1>9, <1>11, <1>13, <1>14, Limits DEF Sound

\* A pass begins or ends.
LEMMA PassSteps ==
    ASSUME TypesSound, ReadInOrder, AcceptPendingNetworkConnections \/ EndPass
    PROVE  Steps
<1>1. SessionsSound /\ PumpSound /\ Nil \notin Ids
  BY Limits DEF TypesSound, SessionsSound
<1>2. CASE EndPass
  <2>1. /\ pump' = Idle /\ pump.conn = Nil /\ pump'.conn = Nil
        /\ UNCHANGED <<running, session, peer, wire, sent, got, events>>
    BY <1>1, <1>2 DEF EndPass, PumpSound, Idle
  <2>2. \A c \in Ids : Passed(c)' = Passed(c) /\ Taken(c)' = Taken(c)
    BY <1>1, <2>1, CountsStay
  <2>3. PumpSound'
    BY <2>1 DEF PumpSound, Idle
  <2>4. TypesSound'
    BY <2>1, <2>3 DEF TypesSound, SessionsSound, Present
  <2>5. ReadInOrder'
    BY <1>1, <2>1, <2>2 DEF ReadInOrder, IsFrom
  <2>6. \A c \in Ids : Moves(c) /\ Serves(c)
    BY <2>1, <2>2, Untouched
  <2>7. \A c \in Ids : Passed(c)' >= Passed(c)
    BY <2>2 DEF ReadInOrder
  <2> QED BY <2>1, <2>4, <2>5, <2>6, <2>7 DEF Steps
<1>3. CASE AcceptPendingNetworkConnections
  <2>1. PICK accepted \in SUBSET {c \in Ids : peer[c] = "new"} :
           /\ session' = [c \in Ids |-> IF c \in accepted THEN NewSession ELSE session[c]]
           /\ peer' = [c \in Ids |-> IF c \in accepted THEN "up" ELSE peer[c]]
           /\ wire' = [c \in Ids |-> IF c \in accepted THEN Numbered(sent[c]) ELSE wire[c]]
           /\ pump' = [Idle EXCEPT !.at = "next", !.todo = ToVisit(accepted)]
    BY <1>3 DEF AcceptPendingNetworkConnections
  <2>2. pump.at = "idle" /\ UNCHANGED <<running, sent, got, events>>
        /\ pump.conn = Nil /\ pump.read = <<>>
    BY <1>1, <1>3 DEF AcceptPendingNetworkConnections, PumpSound
  <2>3. /\ NewSession \in Sessions /\ NewSession # Nil /\ NewSession.net = <<>>
        /\ NewSession.app = 0 /\ NewSession.open /\ ~NewSession.closing
        /\ Len(NewSession.net) <= MaxOutbound
    <3>1. /\ NewSession \in Sessions /\ NewSession.net = <<>>
          /\ NewSession.app = 0 /\ NewSession.open /\ ~NewSession.closing
      BY Limits DEF NewSession, Sessions
    <3>2. Len(NewSession.net) <= MaxOutbound
      BY <3>1, Limits
    <3> QED BY <3>1, <3>2, Limits
  <2>4. \A c \in Ids : c \in accepted =>
            /\ peer[c] = "new" /\ session[c] = Nil /\ got[c] = <<>> /\ wire[c] = <<>>
            /\ session'[c] = NewSession /\ peer'[c] = "up" /\ wire'[c] = Numbered(sent[c])
    BY <2>1 DEF TypesSound
  <2>5. \A c \in Ids : c \notin accepted =>
            session'[c] = session[c] /\ peer'[c] = peer[c] /\ wire'[c] = wire[c]
    BY <2>1
  <2>6. \A c \in Ids : /\ Numbered(sent[c]) \in Seq(Frames)
                       /\ Len(Numbered(sent[c])) = Len(sent[c]) /\ IsFrom(Numbered(sent[c]), c, 0)
    <3> SUFFICES ASSUME NEW c \in Ids
                 PROVE  /\ Numbered(sent[c]) \in Seq(Frames)
                        /\ Len(Numbered(sent[c])) = Len(sent[c])
                        /\ IsFrom(Numbered(sent[c]), c, 0)
      OBVIOUS
    <3> DEFINE w == sent[c]
    <3>1. w \in Seq(ClientOps)
      BY DEF TypesSound
    <3> HIDE DEF w
    <3>2. Numbered(w) = [i \in 1..Len(w) |-> [op |-> w[i], n |-> i]]
      BY <3>1 DEF Numbered
    <3>3. \A i \in 1..Len(w) : [op |-> w[i], n |-> i] \in Frames
      BY <3>1 DEF Frames
    <3>4. Numbered(w) \in Seq(Frames) /\ Len(Numbered(w)) = Len(w)
      BY <3>1, <3>2, <3>3, IsASeq
    <3>5. \A i \in 1..Len(Numbered(w)) : Numbered(w)[i].n = 0 + i /\ Numbered(w)[i].op = w[0 + i]
      BY <3>1, <3>2, <3>4
    <3> QED BY <3>4, <3>5 DEF IsFrom, w
  <2>7. /\ pump' \in [at : {"idle", "next", "frames"}, conn : Ids \cup {Nil},
                      read : Seq(Frames), todo : SUBSET Ids]
        /\ pump'.at = "next" /\ pump'.conn = Nil /\ pump'.read = <<>>
        /\ pump'.todo \subseteq accepted \cup Present
    <3> DEFINE all == ToVisit(accepted)
    <3>1. all \subseteq accepted \cup Present /\ all \subseteq Ids
      BY DEF ToVisit, Present
    <3>2. pump' = [at |-> "next", conn |-> Nil, read |-> <<>>, todo |-> all]
      BY <2>1 DEF Idle
    <3> HIDE DEF all
    <3> QED BY <3>1, <3>2
  <2>8. accepted \cup Present \subseteq Present'
    BY <2>3, <2>4, <2>5 DEF Present
  <2>9. session' \in [Ids -> Sessions \cup {Nil}]
        /\ \A c \in Present' : Len(session'[c].net) <= MaxOutbound
    BY <1>1, <2>1, <2>3, <2>4, <2>5 DEF SessionsSound, TypesSound, Present
  <2>10. PumpSound'
    BY <2>7, <2>8 DEF PumpSound
  <2>11. peer' \in [Ids -> {"new", "up", "left", "broken"}] /\ wire' \in [Ids -> Seq(Frames)]
    BY <2>1, <2>6 DEF TypesSound
  <2>12. TypesSound'
    BY <2>2, <2>4, <2>5, <2>9, <2>10, <2>11 DEF TypesSound, SessionsSound
  <2>13. \A c \in Ids : c \notin accepted =>
             Passed(c)' = Passed(c) /\ Taken(c)' = Taken(c)
    BY <1>1, <2>2, <2>5, <2>7, CountsStay
  <2>14. \A c \in Ids : c \in accepted => Passed(c)' = 0 /\ Taken(c)' = 0
    <3> SUFFICES ASSUME NEW c \in Ids, c \in accepted
                 PROVE  Passed(c)' = 0 /\ Taken(c)' = 0
      OBVIOUS
    <3>1. Len(sent[c]) \in Nat /\ Len(wire'[c]) = Len(sent[c]) /\ sent' = sent
      BY <2>2, <2>4, <2>6 DEF TypesSound
    <3>2. Taken(c)' = 0
      BY <3>1 DEF Taken
    <3>3. InHand(c)' = 0
      BY <2>7, <1>1 DEF InHand
    <3> QED BY <3>2, <3>3 DEF Passed
  <2>15. ReadInOrder'
    <3> SUFFICES ASSUME NEW c \in Ids
                 PROVE  Passed(c)' \in Nat /\ IsFrom(wire[c], c, Taken(c))'
      BY <1>1, <2>7 DEF ReadInOrder
    <3>1. CASE c \in accepted
      BY <3>1, <2>2, <2>4, <2>6, <2>14 DEF IsFrom
    <3>2. CASE c \notin accepted
      BY <3>2, <2>2, <2>5, <2>13 DEF ReadInOrder, IsFrom
    <3> QED BY <3>1, <3>2
  <2>16. \A c \in Ids : c \notin accepted => Moves(c) /\ Serves(c)
    BY <2>2, <2>5, <2>13, Untouched
  <2>17. \A c \in Ids : c \in accepted => Moves(c) /\ Serves(c)
    <3> SUFFICES ASSUME NEW c \in Ids, c \in accepted
                 PROVE  Moves(c) /\ Serves(c)
      OBVIOUS
    <3>1. Stream(c) = <<>> /\ Stream(c)' = <<>>
      BY <2>2, <2>3, <2>4 DEF Stream
    <3> QED BY <3>1, <2>4, <2>14 DEF Moves, Begins, Serves
  <2>18. \A c \in Ids : peer[c] # "new" => Passed(c)' >= Passed(c)
    BY <2>4, <2>13 DEF ReadInOrder
  <2> QED BY <2>2, <2>12, <2>15, <2>16, <2>17, <2>18 DEF Steps
<1> QED BY <1>2, <1>3

\* A broadcast reaches the connections before the first full one.
LEMMA BroadcastSteps ==
    ASSUME TypesSound, ReadInOrder, BroadcastOutboundFrame
    PROVE  Steps
<1> DEFINE f == [op |-> "event", n |-> events + 1]
           stops == {c \in Present : StopsBroadcast(session[c])}
<1>1. /\ SessionsSound /\ PumpSound /\ Nil \notin Ids /\ events \in Nat /\ events < MaxEvents
      /\ events' = events + 1 /\ UNCHANGED <<running, pump, peer, wire, sent, got>>
      /\ MaxEvents \in Nat
  BY Limits DEF TypesSound, SessionsSound, BroadcastOutboundFrame
<1>2. f \in Outputs /\ f.op = "event" /\ f.n = events + 1
  BY <1>1 DEF Outputs
<1>3. PICK before \in IF stops = {} THEN {Present} ELSE SUBSET (Present \ stops),
              last \in IF stops = {} THEN {Nil} ELSE stops :
         session' = [c \in Ids |->
             IF c \in before THEN QueueEvent(session[c], f)
             ELSE IF c = last /\ session[c].app < MaxOutbound THEN [session[c] EXCEPT !.app = @ + 1]
             ELSE session[c]]
  BY Zenon DEF BroadcastOutboundFrame
<1>4. before \subseteq Present \ stops /\ (last \in Ids => last \in Present)
  BY <1>1, <1>3 DEF Present
<1> HIDE DEF f
\* A session with one more copy beside its network queue.
<1>5. ASSUME NEW c \in Ids, c \in Present, session[c].app < MaxOutbound,
             session'[c] = [session[c] EXCEPT !.app = @ + 1]
      PROVE  /\ session'[c] # Nil /\ Sound(session'[c]) /\ session'[c].net = session[c].net
             /\ session'[c].app >= session[c].app
             /\ session'[c].open = session[c].open /\ session'[c].closing = session[c].closing
  <2> DEFINE s == session[c]
             a == s.app + 1
  <2>1. Sound(s)
    BY <1>1, <1>5, PresentSound
  <2>2. a \in 0..MaxOutbound /\ a >= s.app
    BY <1>5, <2>1, Limits DEF Sound, Sessions
  <2>3. session'[c] = [s EXCEPT !.app = a]
    BY <1>5
  <2> HIDE DEF a
  <2>4. /\ Sound(session'[c]) /\ session'[c].net = s.net /\ session'[c].app = a
        /\ session'[c].open = s.open /\ session'[c].closing = s.closing
    BY <2>1, <2>2, <2>3 DEF Sound, Sessions
  <2> QED BY <2>2, <2>4, Limits DEF Sound
\* Every connection stays in the map as it was, with a copy and perhaps the event.
<1>6. \A c \in Ids :
         \/ /\ c \in before /\ session[c].ready /\ session[c].app < MaxOutbound
            /\ ~Full(session[c].net)
            /\ session'[c] = TryQueueApplicationOutbound(session[c], f)
         \/ /\ c \in Present /\ session[c].app < MaxOutbound
            /\ session'[c] = [session[c] EXCEPT !.app = @ + 1]
         \/ session'[c] = session[c]
  <2> TAKE c \in Ids
  <2>1. CASE c \in before
    <3>1. session'[c] = QueueEvent(session[c], f) /\ c \in Present
          /\ ~StopsBroadcast(session[c])
      BY <2>1, <1>3, <1>4
    <3>2. session[c].app \in Nat
      BY <1>1, <3>1, PresentSound DEF Sound, Sessions
    <3>3. session[c].app < MaxOutbound /\ (session[c].ready => ~Full(session[c].net))
      BY <3>1, <3>2, Limits DEF StopsBroadcast
    <3> QED BY <2>1, <3>1, <3>3 DEF QueueEvent
  <2>2. CASE c \notin before /\ c = last /\ session[c].app < MaxOutbound
    BY <2>2, <1>3, <1>4
  <2>3. CASE c \notin before /\ ~(c = last /\ session[c].app < MaxOutbound)
    BY <2>3, <1>3
  <2> QED BY <2>1, <2>2, <2>3
<1>7. \A c \in Ids : Passed(c)' = Passed(c) /\ Taken(c)' = Taken(c)
  BY <1>1 DEF Taken, InHand, Passed
<1>8. \A c \in Ids :
          /\ Moves(c) /\ Serves(c)
          /\ session'[c] = Nil <=> session[c] = Nil
          /\ session'[c] # Nil => Sound(session'[c]) /\ session'[c].open = session[c].open
  <2> TAKE c \in Ids
  <2>1. CASE /\ c \in before /\ session[c].ready /\ session[c].app < MaxOutbound
             /\ ~Full(session[c].net)
             /\ session'[c] = TryQueueApplicationOutbound(session[c], f)
    <3>1. c \in Present /\ session[c] # Nil /\ Sound(session[c]) /\ peer[c] # "new"
      BY <1>1, <1>4, <2>1, PresentSound DEF TypesSound
    <3>2. /\ Sound(session'[c]) /\ session'[c].net = Append(session[c].net, f)
          /\ session'[c].app = session[c].app + 1 /\ session'[c].open = session[c].open
          /\ session'[c].closing = session[c].closing
      <4> DEFINE t == TryQueueApplicationOutbound(session[c], f)
      <4>1. /\ Sound(t) /\ t.app = session[c].app + 1 /\ t.open = session[c].open
            /\ t.net = (IF Full(session[c].net) THEN session[c].net ELSE Append(session[c].net, f))
            /\ t.closing = session[c].closing
        BY <1>2, <2>1, <3>1, QueuedApplication
      <4> HIDE DEF t
      <4>2. session'[c] = t
        BY <2>1 DEF t
      <4> QED BY <2>1, <4>1, <4>2
    <3>3. session'[c] # Nil
      BY <3>2, Limits DEF Sound
    <3>4. Stream(c)' = Append(Stream(c), f)
      BY <1>1, <1>2, <3>1, <3>2, <3>3, QueuesOne
    <3>5. Queues(c, f)
      BY <1>1, <1>2, <3>1, <3>2, <3>3, <3>4 DEF Queues, Applied
    <3> QED BY <1>2, <1>7, <3>1, <3>2, <3>3, <3>5 DEF Moves, Serves
  <2>2. CASE /\ c \in Present /\ session[c].app < MaxOutbound
             /\ session'[c] = [session[c] EXCEPT !.app = @ + 1]
    <3>1. /\ session'[c] # Nil /\ Sound(session'[c]) /\ session'[c].net = session[c].net
          /\ session'[c].app >= session[c].app
          /\ session'[c].open = session[c].open /\ session'[c].closing = session[c].closing
      BY <2>2, <1>5
    <3>2. session[c] # Nil
      BY <2>2 DEF Present
    <3>3. Stream(c)' = Stream(c)
      BY <1>1, <3>1, <3>2 DEF Stream
    <3>4. Rests(c)
      BY <1>1, <3>1, <3>2, <3>3 DEF Rests
    <3>5. peer[c] # "new"
      BY <3>2 DEF TypesSound
    <3> QED BY <1>7, <3>1, <3>2, <3>4, <3>5 DEF Moves, Serves
  <2>3. CASE session'[c] = session[c]
    <3>1. Moves(c) /\ Serves(c)
      BY <1>1, <1>7, <2>3, Untouched
    <3>2. session[c] # Nil => Sound(session[c])
      BY <1>1, PresentSound
    <3> QED BY <2>3, <3>1, <3>2
  <2> QED BY <1>6, <2>1, <2>2, <2>3
<1>9. session' \in [Ids -> Sessions \cup {Nil}]
  <2>1. \A c \in Ids : session'[c] \in Sessions \cup {Nil}
    BY <1>8 DEF Sound
  <2> QED BY <1>3, <2>1
<1>10. Present' = Present
  BY <1>8 DEF Present
<1>11. SessionsSound'
  <2>1. \A c \in Present' : Len(session'[c].net) <= MaxOutbound
    BY <1>8 DEF Present, Sound
  <2>2. PumpSound'
    BY <1>1, <1>8, <1>10 DEF PumpSound, Present
  <2> QED BY <1>9, <2>1, <2>2 DEF SessionsSound
<1>12. TypesSound'
  <2>1. events' \in 0..MaxEvents
    BY <1>1
  <2>2. \A c \in Ids : peer'[c] = "new" =>
            session'[c] = Nil /\ got'[c] = <<>> /\ wire'[c] = <<>>
    BY <1>1, <1>8 DEF TypesSound
  <2> QED BY <1>1, <1>11, <2>1, <2>2 DEF TypesSound
<1>13. ReadInOrder'
  BY <1>1, <1>7 DEF ReadInOrder, IsFrom
<1>14. \A c \in Ids : Passed(c)' >= Passed(c)
  BY <1>7 DEF ReadInOrder
<1> QED BY <1>1, <1>8, <1>12, <1>13, <1>14 DEF Steps

\* The gateway stops or starts, or nothing happens.
LEMMA StopSteps ==
    ASSUME TypesSound, ReadInOrder, Stop \/ Start \/ UNCHANGED vars
    PROVE  Steps
<1>1. /\ SessionsSound /\ PumpSound /\ UNCHANGED <<pump, wire, sent, got, events>>
  BY DEF TypesSound, SessionsSound, Stop, Start, vars
<1>2. \A c \in Ids : Passed(c)' = Passed(c) /\ Taken(c)' = Taken(c)
  BY <1>1 DEF Taken, InHand, Passed
<1>3. ReadInOrder' /\ \A c \in Ids : Passed(c)' >= Passed(c)
  BY <1>1, <1>2 DEF ReadInOrder, IsFrom
<1>4. CASE Stop
  <2>1. /\ pump.at = "idle" /\ running' = FALSE /\ session' = [c \in Ids |-> Nil]
        /\ peer' = [c \in Ids |-> IF peer[c] = "new" THEN "new" ELSE "broken"]
    BY <1>4 DEF Stop
  <2>2. Present' = {} /\ pump'.todo = {} /\ pump'.at = "idle"
    BY <1>1, <2>1 DEF Present, PumpSound
  <2>3. PumpSound'
    BY <1>1, <2>2 DEF PumpSound
  <2>4. TypesSound'
    BY <1>1, <2>1, <2>2, <2>3 DEF TypesSound, SessionsSound
  <2>5. \A c \in Ids : Moves(c) /\ Serves(c)
    <3> TAKE c \in Ids
    <3>1. session'[c] = Nil /\ (peer[c] = "new" <=> peer'[c] = "new")
      BY <2>1 DEF TypesSound
    <3>2. CASE session[c] = Nil
      <4>1. Stream(c)' = Stream(c)
        BY <1>1, <3>1, <3>2 DEF Stream
      <4> QED BY <3>1, <3>2, <4>1 DEF Moves, Rests, Serves
    <3>3. CASE session[c] # Nil
      <4>1. peer[c] # "new" /\ peer'[c] = "broken"
        BY <2>1, <3>3 DEF TypesSound
      <4> QED BY <1>1, <3>1, <3>3, <4>1 DEF Moves, Ends, Serves
    <3> QED BY <3>2, <3>3
  <2> QED BY <1>1, <1>3, <2>4, <2>5 DEF Steps
<1>5. CASE Start \/ UNCHANGED vars
  <2>1. UNCHANGED <<session, peer>> /\ running' \in BOOLEAN
    BY <1>5 DEF Start, vars, TypesSound
  <2>2. TypesSound'
    BY <1>1, <2>1 DEF TypesSound, SessionsSound, PumpSound, Present
  <2>3. \A c \in Ids : Moves(c) /\ Serves(c)
    BY <1>1, <1>2, <2>1, Untouched
  <2> QED BY <1>1, <1>3, <2>2, <2>3 DEF Steps
<1> QED BY <1>4, <1>5

\* A step does to each connection no more than is said above.
LEMMA StepsHold ==
    ASSUME TypesSound, ReadInOrder, [Next]_vars
    PROVE  Steps
<1>1. ASSUME NEW c \in Ids, Visit(c)
      PROVE  Steps
  <2>1. ASSUME NEW k \in 0..Len(wire[c]), Receive(c, k) PROVE Steps
    BY <2>1, ReceiveSteps
  <2>2. ASSUME NEW k \in 0..MaxOutbound, FlushNetworkOutbound(c, k) PROVE Steps
    BY <2>2, FlushSteps
  <2> QED BY <1>1, <2>1, <2>2, TimeoutSteps, HandshakeSteps, ControlSteps, FragmentSteps,
             MessageSteps DEF Visit
<1> QED BY <1>1, PassSteps, BroadcastSteps, StopSteps DEF Next, PumpNetworkOnce

\* The first state.
LEMMA TypesInit ==
    ASSUME Init
    PROVE  TypesSound /\ ReadInOrder /\ \A c \in Ids : Stream(c) = <<>> /\ session[c] = Nil
<1>1. sent \in [Ids -> Seq(ClientOps)]
  BY TransportAssumption DEF Init
<1>2. /\ pump = Idle /\ session = [c \in Ids |-> Nil] /\ running = TRUE /\ events = 0
      /\ peer = [c \in Ids |-> "new"] /\ wire = [c \in Ids |-> <<>>]
      /\ got = [c \in Ids |-> <<>>]
  BY DEF Init
<1>3. Present = {}
  BY <1>2 DEF Present
<1>4. PumpSound
  BY <1>2, <1>3 DEF PumpSound, Idle
<1>5. << >> \in Seq(Frames) /\ << >> \in Seq(Outputs)
  OBVIOUS
<1>6. TypesSound
  BY <1>1, <1>2, <1>3, <1>4, <1>5, Limits DEF TypesSound, SessionsSound
<1>7. \A c \in Ids : Taken(c) = Len(sent[c]) /\ Passed(c) = Len(sent[c]) /\ Passed(c) \in Nat
  <2> TAKE c \in Ids
  <2>1. Len(sent[c]) \in Nat /\ wire[c] = <<>> /\ Len(wire[c]) = 0
    BY <1>1, <1>2
  <2>2. Taken(c) = Len(sent[c])
    BY <2>1 DEF Taken
  <2>3. InHand(c) = 0
    BY <1>2, Limits DEF InHand, Idle
  <2> QED BY <2>1, <2>2, <2>3 DEF Passed
<1>8. ReadInOrder
  <2>1. \A c \in Ids : pump.conn # c
    BY <1>2, Limits DEF Idle
  <2>2. \A c \in Ids : IsFrom(wire[c], c, Taken(c))
    BY <1>2 DEF IsFrom
  <2> QED BY <1>7, <2>1, <2>2 DEF ReadInOrder
<1>9. \A c \in Ids : Stream(c) = <<>>
  BY <1>2 DEF Stream
<1> QED BY <1>2, <1>6, <1>8, <1>9

-----------------------------------------------------------------------------
(***************************************************************************)
(* The streams.                                                            *)
(***************************************************************************)

\* A stream is what was received with what is queued behind it.
LEMMA StreamTypes ==
    ASSUME TypesSound, NEW c \in Ids
    PROVE  /\ Stream(c) \in Seq(Outputs) /\ Len(Stream(c)) \in Nat
           /\ DOMAIN Stream(c) = 1..Len(Stream(c))
           /\ got[c] \in Seq(Outputs) /\ Len(got[c]) \in Nat /\ Len(got[c]) <= Len(Stream(c))
           /\ \A i \in 1..Len(got[c]) : Stream(c)[i] = got[c][i]
<1> DEFINE g == got[c]
           q == IF session[c] = Nil THEN <<>> ELSE session[c].net
<1>1. g \in Seq(Outputs)
  BY DEF TypesSound
<1>2. q \in Seq(Outputs)
  BY DEF TypesSound, SessionsSound, Sessions
<1> HIDE DEF g, q
<1>3. /\ g \o q \in Seq(Outputs) /\ Len(g \o q) = Len(g) + Len(q)
      /\ Len(g) \in Nat /\ Len(q) \in Nat
      /\ \A i \in 1..Len(g) + Len(q) :
             (g \o q)[i] = IF i <= Len(g) THEN g[i] ELSE q[i - Len(g)]
  BY <1>1, <1>2, ConcatProperties, LenProperties
<1>4. Len(g) <= Len(g \o q) /\ \A i \in 1..Len(g) : (g \o q)[i] = g[i]
  BY <1>3
<1>5. Len(g \o q) \in Nat /\ DOMAIN (g \o q) = 1..Len(g \o q)
  BY <1>3, LenProperties
<1>6. Stream(c) = g \o q
  BY DEF Stream, g, q
<1> QED BY <1>1, <1>3, <1>4, <1>5, <1>6 DEF g

\* So is the next one.
LEMMA NextStreamTypes ==
    ASSUME Steps, NEW c \in Ids
    PROVE  /\ Stream(c)' \in Seq(Outputs) /\ Len(Stream(c)') \in Nat
           /\ DOMAIN (Stream(c)') = 1..Len(Stream(c)')
<1> DEFINE g == got'[c]
           q == IF session'[c] = Nil THEN <<>> ELSE session'[c].net
<1>1. g \in Seq(Outputs)
  BY DEF Steps, TypesSound
<1>2. q \in Seq(Outputs)
  BY DEF Steps, TypesSound, SessionsSound, Sessions
<1> HIDE DEF g, q
<1>3. g \o q \in Seq(Outputs)
  BY <1>1, <1>2, ConcatProperties
<1>4. Len(g \o q) \in Nat /\ DOMAIN (g \o q) = 1..Len(g \o q)
  BY <1>3, LenProperties
<1>5. Stream(c)' = g \o q
  BY DEF Stream, g, q
<1> QED BY <1>3, <1>4, <1>5

\* q is the beginning of p.
Begin(q, p) == Len(q) <= Len(p) /\ \A i \in 1..Len(q) : q[i] = p[i]

\* In a step a stream loses its end, or gets one frame more.
LEMMA StreamSteps ==
    ASSUME TypesSound, Steps, NEW c \in Ids
    PROVE  \/ Begin(Stream(c)', Stream(c))
           \/ \E f \in Outputs : Queues(c, f)
<1>1. /\ Len(Stream(c)) \in Nat /\ Len(got[c]) <= Len(Stream(c))
      /\ \A i \in 1..Len(got[c]) : Stream(c)[i] = got[c][i]
  BY StreamTypes
<1>2. Moves(c) /\ TypesSound'
  BY DEF Steps
<1>3. CASE Begins(c) \/ Rests(c)
  BY <1>1, <1>3 DEF Begins, Rests, Begin
<1>4. CASE Ends(c)
  <2>1. Stream(c)' = got'[c]
    <3>1. Stream(c)' = got'[c] \o <<>> /\ got'[c] \in Seq(Outputs)
      BY <1>2, <1>4 DEF Ends, Stream, TypesSound
    <3> QED BY <3>1, ConcatEmptySeq
  <2> QED BY <1>1, <1>4, <2>1 DEF Ends, Begin
<1> QED BY <1>2, <1>3, <1>4 DEF Moves

\* The stream of a connection that nobody has accepted is empty, and stays so.
LEMMA NewStreams ==
    ASSUME TypesSound, Steps, NEW c \in Ids, peer[c] = "new"
    PROVE  Stream(c)' = <<>>
<1>1. Stream(c) = <<>>
  BY DEF TypesSound, Stream
<1>2. Moves(c)
  BY DEF Steps
<1> QED BY <1>1, <1>2 DEF Moves, Begins, Rests, Queues, Ends

\* A frame behind a stream.
LEMMA FrameBehind ==
    ASSUME NEW p \in Seq(Outputs), NEW f \in Outputs
    PROVE  /\ Append(p, f) \in Seq(Outputs) /\ Len(Append(p, f)) = Len(p) + 1 /\ Len(p) \in Nat
           /\ DOMAIN Append(p, f) = 1..(Len(p) + 1) /\ DOMAIN p = 1..Len(p)
           /\ \A i \in 1..Len(p) : Append(p, f)[i] = p[i]
           /\ Append(p, f)[Len(p) + 1] = f
           /\ \A i \in 1..(Len(p) + 1) : i \in 1..Len(p) \/ i = Len(p) + 1
  BY AppendProperties, LenProperties

\* No answer is ahead of the frames dealt with, and no event ahead of the broadcasts.
LEMMA NumbersStep ==
    ASSUME TypesSound, ReadInOrder, NumbersBelow, Steps
    PROVE  NumbersBelow'
<1> SUFFICES ASSUME NEW c \in Ids, NEW i \in DOMAIN (Stream(c)')
             PROVE  /\ (Stream(c)')[i].op = "answer" => (Stream(c)')[i].n <= Passed(c)'
                    /\ (Stream(c)')[i].op = "event" => (Stream(c)')[i].n <= events'
  BY DEF NumbersBelow
<1> DEFINE p == Stream(c)
           q == Stream(c)'
<1>1. /\ p \in Seq(Outputs) /\ q \in Seq(Outputs) /\ Len(p) \in Nat /\ Len(q) \in Nat
      /\ DOMAIN p = 1..Len(p) /\ DOMAIN q = 1..Len(q)
  BY StreamTypes, NextStreamTypes
<1>2. /\ events' \in {events, events + 1} /\ events \in Nat /\ Passed(c) \in Nat
      /\ Passed(c)' \in Nat
  BY DEF Steps, TypesSound, ReadInOrder
<1>3. peer[c] # "new"
  <2>1. q # <<>>
    BY <1>1
  <2> QED BY <2>1, NewStreams
<1>4. Passed(c)' >= Passed(c) /\ events' >= events
  BY <1>2, <1>3 DEF Steps
<1>5. \A j \in 1..Len(p) : /\ p[j].n \in Nat
                           /\ p[j].op = "answer" => p[j].n <= Passed(c)
                           /\ p[j].op = "event" => p[j].n <= events
  <2>1. \A j \in 1..Len(p) : p[j] \in Outputs
    BY <1>1
  <2> QED BY <1>1, <2>1 DEF NumbersBelow, Outputs
<1>6. CASE Begin(q, p)
  <2>1. i \in 1..Len(p) /\ q[i] = p[i]
    BY <1>1, <1>6 DEF Begin
  <2> HIDE DEF p, q
  <2>2. /\ q[i].op = "answer" => q[i].n <= Passed(c)'
        /\ q[i].op = "event" => q[i].n <= events'
    BY <2>1, <1>2, <1>4, <1>5
  <2> QED BY <2>2 DEF q
<1>7. ASSUME NEW f \in Outputs, Queues(c, f)
      PROVE  /\ q[i].op = "answer" => q[i].n <= Passed(c)'
             /\ q[i].op = "event" => q[i].n <= events'
  <2>1. q = Append(p, f)
    BY <1>7 DEF Queues
  <2>2. /\ f.op = "answer" => f.n = Passed(c)'
        /\ f.op = "event" => f.n = events'
    BY <1>7 DEF Queues
  <2> HIDE DEF p, q
  <2>3. (i \in 1..Len(p) /\ q[i] = p[i]) \/ q[i] = f
    <3>1. /\ DOMAIN q = 1..(Len(p) + 1)
          /\ \A k \in 1..(Len(p) + 1) : k \in 1..Len(p) \/ k = Len(p) + 1
          /\ \A k \in 1..Len(p) : q[k] = p[k]
          /\ q[Len(p) + 1] = f
      BY <1>1, <2>1, FrameBehind
    <3>2. i \in DOMAIN q
      BY DEF q
    <3> QED BY <3>1, <3>2
  <2> QED BY <1>2, <1>4, <1>5, <2>2, <2>3
<1> QED BY <1>6, <1>7, StreamSteps

\* The order within a stream is kept.
LEMMA OrderStep ==
    ASSUME TypesSound, ReadInOrder, NumbersBelow, OutputInOrder, Steps
    PROVE  OutputInOrder'
<1> SUFFICES ASSUME NEW c \in Ids, NEW i \in DOMAIN (Stream(c)'), NEW j \in DOMAIN (Stream(c)'),
                    i < j, (Stream(c)')[i].op = (Stream(c)')[j].op,
                    (Stream(c)')[i].op \in {"answer", "event"}
             PROVE  (Stream(c)')[i].n < (Stream(c)')[j].n
  BY DEF OutputInOrder
<1> DEFINE p == Stream(c)
           q == Stream(c)'
<1>1. /\ p \in Seq(Outputs) /\ q \in Seq(Outputs) /\ Len(p) \in Nat /\ Len(q) \in Nat
      /\ DOMAIN p = 1..Len(p) /\ DOMAIN q = 1..Len(q)
  BY StreamTypes, NextStreamTypes
<1>2. events \in Nat /\ Passed(c) \in Nat
  BY DEF TypesSound, ReadInOrder
<1>3. \A k \in 1..Len(p) : /\ p[k].n \in Nat
                           /\ p[k].op = "answer" => p[k].n <= Passed(c)
                           /\ p[k].op = "event" => p[k].n <= events
  <2>1. \A k \in 1..Len(p) : p[k] \in Outputs
    BY <1>1
  <2> QED BY <1>1, <2>1 DEF NumbersBelow, Outputs
<1>4. \A k, m \in 1..Len(p) :
          k < m /\ p[k].op = p[m].op /\ p[k].op \in {"answer", "event"} => p[k].n < p[m].n
  BY <1>1 DEF OutputInOrder
<1>5. CASE Begin(q, p)
  <2>1. i \in 1..Len(p) /\ j \in 1..Len(p) /\ q[i] = p[i] /\ q[j] = p[j]
    BY <1>1, <1>5 DEF Begin
  <2>2. i < j /\ q[i].op = q[j].op /\ q[i].op \in {"answer", "event"}
    OBVIOUS
  <2> HIDE DEF p, q
  <2>3. q[i].n < q[j].n
    BY <1>4, <2>1, <2>2
  <2> QED BY <2>3 DEF q
<1>6. ASSUME NEW f \in Outputs, Queues(c, f)
      PROVE  q[i].n < q[j].n
  <2>1. q = Append(p, f)
    BY <1>6 DEF Queues
  <2>2. /\ f.op = "answer" => f.n = Passed(c) + 1
        /\ f.op = "event" => f.n = events + 1
    BY <1>6 DEF Queues
  <2>3. i < j /\ q[i].op = q[j].op /\ q[i].op \in {"answer", "event"}
        /\ i \in DOMAIN q /\ j \in DOMAIN q
    OBVIOUS
  <2> HIDE DEF p, q
  <2>4. /\ i \in 1..Len(p) /\ q[i] = p[i]
        /\ (j \in 1..Len(p) /\ q[j] = p[j]) \/ q[j] = f
    <3>1. /\ DOMAIN q = 1..(Len(p) + 1) /\ Len(p) \in Nat
          /\ \A k \in 1..(Len(p) + 1) : k \in 1..Len(p) \/ k = Len(p) + 1
          /\ \A k \in 1..Len(p) : q[k] = p[k]
          /\ q[Len(p) + 1] = f
      BY <1>1, <2>1, FrameBehind
    <3>2. i \in 1..Len(p)
      BY <2>3, <3>1
    <3> QED BY <2>3, <3>1, <3>2
  <2>5. CASE j \in 1..Len(p) /\ q[j] = p[j]
    BY <1>4, <2>3, <2>4, <2>5
  <2>6. CASE q[j] = f
    BY <1>2, <1>3, <2>2, <2>3, <2>4, <2>6
  <2> QED BY <2>4, <2>5, <2>6
<1> QED BY <1>5, <1>6, StreamSteps

\* The copies count the application frames of a connection.
LEMMA CopiesStep ==
    ASSUME TypesSound, CopiesCount, Steps
    PROVE  CopiesCount'
<1> SUFFICES ASSUME NEW c \in Ids
             PROVE  Cardinality(Applications(c)') <=
                        IF session'[c] = Nil THEN MaxOutbound ELSE session'[c].app
  BY DEF CopiesCount
<1> DEFINE p == Stream(c)
           q == Stream(c)'
           a == Applications(c)
           b == Applications(c)'
<1>1. /\ p \in Seq(Outputs) /\ q \in Seq(Outputs) /\ Len(p) \in Nat /\ Len(q) \in Nat
      /\ DOMAIN p = 1..Len(p) /\ DOMAIN q = 1..Len(q)
  BY StreamTypes, NextStreamTypes
<1>2. /\ a = {i \in DOMAIN p : p[i].op \in Applied}
      /\ b = {i \in DOMAIN q : q[i].op \in Applied}
  BY DEF Applications, Applied
<1>3. Moves(c) /\ TypesSound'
  BY DEF Steps
<1>4. session[c] # Nil => session[c].app \in 0..MaxOutbound
  BY DEF TypesSound, SessionsSound, Sessions
<1>5. session'[c] # Nil => session'[c].app \in 0..MaxOutbound
  BY <1>3 DEF TypesSound, SessionsSound, Sessions
<1>6. Cardinality(a) <= (IF session[c] = Nil THEN MaxOutbound ELSE session[c].app)
  BY DEF CopiesCount
<1> HIDE DEF p, q, a, b
<1>7. IsFiniteSet(a) /\ Cardinality(a) \in Nat /\ IsFiniteSet(b) /\ Cardinality(b) \in Nat
  <2>1. IsFiniteSet(1..Len(p)) /\ IsFiniteSet(1..Len(q))
    BY <1>1, FS_Interval
  <2>2. IsFiniteSet(a) /\ IsFiniteSet(b)
    BY <1>1, <1>2, <2>1, FS_Subset
  <2> QED BY <2>2, FS_CardinalityType
<1>8. Cardinality(a) <= MaxOutbound
  BY <1>4, <1>6, <1>7, Limits
<1>9. CASE Begins(c)
  <2>1. DOMAIN q = {} /\ session'[c].app = 0 /\ session'[c] # Nil
    <3>1. q = <<>> /\ session'[c] = NewSession /\ NewSession \in Sessions
      BY <1>9, Limits DEF Begins, NewSession, Sessions, q
    <3>2. Len(q) = 0 /\ 1..0 = {}
      BY <3>1
    <3>3. NewSession.app = 0
      BY DEF NewSession
    <3> QED BY <3>1, <3>2, <3>3, <1>1, Limits
  <2>2. b = {}
    BY <1>2, <2>1
  <2>3. Cardinality(b) = 0
    BY <2>2, FS_EmptySet
  <2> QED BY <2>1, <2>3 DEF b
<1>10. CASE Rests(c)
  <2>1. b = a /\ (session'[c] = Nil <=> session[c] = Nil)
        /\ (session'[c] # Nil => session'[c].app >= session[c].app)
    BY <1>2, <1>10 DEF Rests, p, q
  <2> QED BY <1>4, <1>5, <1>6, <1>7, <1>8, <2>1, Limits DEF b
<1>11. CASE Ends(c)
  <2>1. Begin(q, p) \/ \E f \in Outputs : Queues(c, f)
    BY StreamSteps DEF p, q
  <2>2. Begin(q, p) /\ session'[c] = Nil
    BY <1>11, <2>1 DEF Ends, Queues
  <2>3. b \subseteq a
    BY <1>1, <1>2, <2>2 DEF Begin
  <2>4. Cardinality(b) <= Cardinality(a)
    BY <1>7, <2>3, FS_Subset
  <2> QED BY <1>7, <1>8, <2>2, <2>4, Limits DEF b
<1>12. ASSUME NEW f \in Outputs, Queues(c, f)
       PROVE  Cardinality(b) <= IF session'[c] = Nil THEN MaxOutbound ELSE session'[c].app
  <2>1. /\ q = Append(p, f) /\ session[c] # Nil /\ session'[c] # Nil
        /\ session'[c].app = (IF f.op \in Applied THEN session[c].app + 1 ELSE session[c].app)
    BY <1>12 DEF Queues, p, q
  <2>2. /\ DOMAIN q = 1..(Len(p) + 1) /\ Len(p) \in Nat
        /\ \A k \in 1..(Len(p) + 1) : k \in 1..Len(p) \/ k = Len(p) + 1
        /\ \A k \in 1..Len(p) : q[k] = p[k]
        /\ q[Len(p) + 1] = f
    BY <1>1, <2>1, FrameBehind
  <2>3. b \subseteq a \cup {Len(p) + 1}
    BY <1>1, <1>2, <2>2
  <2>4. CASE f.op \in Applied
    <3>1. IsFiniteSet(a \cup {Len(p) + 1})
          /\ Cardinality(a \cup {Len(p) + 1}) <= Cardinality(a) + 1
          /\ Cardinality(a \cup {Len(p) + 1}) \in Nat
      <4>1. IsFiniteSet(a \cup {Len(p) + 1})
            /\ Cardinality(a \cup {Len(p) + 1}) =
                  IF Len(p) + 1 \in a THEN Cardinality(a) ELSE Cardinality(a) + 1
        BY <1>7, FS_AddElement
      <4> QED BY <4>1, <1>7
    <3>2. Cardinality(b) <= Cardinality(a \cup {Len(p) + 1})
      BY <2>3, <3>1, FS_Subset
    <3> QED BY <1>4, <1>6, <1>7, <2>1, <2>4, <3>1, <3>2
  <2>5. CASE f.op \notin Applied
    <3>1. b \subseteq a
      BY <1>2, <2>2, <2>3, <2>5
    <3>2. Cardinality(b) <= Cardinality(a)
      BY <1>7, <3>1, FS_Subset
    <3> QED BY <1>4, <1>6, <1>7, <2>1, <2>5, <3>2
  <2> QED BY <2>4, <2>5
<1> QED BY <1>3, <1>9, <1>10, <1>11, <1>12 DEF Moves, b

\* An answer that is in a stream stays in it while the connection is in the map.
LEMMA AnsweredStep ==
    ASSUME TypesSound, ReadInOrder, AllAnswered, Steps
    PROVE  AllAnswered'
<1> SUFFICES ASSUME NEW c \in Ids, session'[c] # Nil, session'[c].open, ~session'[c].closing,
                    NEW n \in 1..Passed(c)', sent'[c][n] \in {"whole", "last"}
             PROVE  \E i \in DOMAIN (Stream(c)') : (Stream(c)')[i] = [op |-> "answer", n |-> n]
  BY DEF AllAnswered, Present
<1> DEFINE p == Stream(c)
           q == Stream(c)'
           f == [op |-> "answer", n |-> n]
<1>1. /\ p \in Seq(Outputs) /\ q \in Seq(Outputs) /\ Len(p) \in Nat
      /\ DOMAIN p = 1..Len(p) /\ DOMAIN q = 1..Len(q)
  BY StreamTypes, NextStreamTypes
<1>2. /\ Moves(c) /\ Serves(c) /\ sent' = sent /\ Passed(c) \in Nat /\ Passed(c)' \in Nat
  BY DEF Steps, ReadInOrder
<1>3. n \in Nat /\ n >= 1 /\ n <= Passed(c)'
  BY <1>2
<1>4. peer[c] # "new"
  <2>1. CASE peer[c] = "new"
    <3>1. Passed(c)' = 0
      BY <1>2, <2>1 DEF Serves
    <3> QED BY <1>3, <3>1
  <2> QED BY <2>1
<1>5. session[c] # Nil /\ session[c].open /\ ~session[c].closing
  BY <1>2, <1>4 DEF Moves, Begins, Rests, Queues, Ends
<1>6. \A i \in 1..Len(p) : i \in 1..Len(q) /\ q[i] = p[i]
  <2>1. CASE Rests(c)
    BY <2>1 DEF Rests
  <2>2. ASSUME NEW g \in Outputs, Queues(c, g)
        PROVE  \A i \in 1..Len(p) : i \in 1..Len(q) /\ q[i] = p[i]
    <3>1. q = Append(p, g)
      BY <2>2 DEF Queues
    <3> HIDE DEF p, q
    <3> QED BY <1>1, <3>1, FrameBehind
  <2> QED BY <1>2, <1>4, <2>1, <2>2 DEF Moves, Begins, Ends
<1>7. CASE n <= Passed(c)
  <2>1. n \in 1..Passed(c) /\ sent[c][n] \in {"whole", "last"}
    BY <1>2, <1>3, <1>7
  <2>2. PICK i \in DOMAIN p : p[i] = f
    BY <1>5, <2>1 DEF AllAnswered, Present
  <2> QED BY <1>1, <1>6, <2>2
<1>8. CASE ~(n <= Passed(c))
  <2>1. /\ Passed(c)' = Passed(c) + 1
        /\ sent[c][Passed(c) + 1] \in {"whole", "last"} =>
               Stream(c)' = Append(Stream(c), [op |-> "answer", n |-> Passed(c) + 1])
    <3>1. Passed(c)' # Passed(c)
      BY <1>2, <1>3, <1>8
    <3> QED BY <1>2, <1>4, <3>1 DEF Serves
  <2>2. n = Passed(c) + 1
    BY <1>2, <1>3, <1>8, <2>1
  <2>3. q = Append(p, f) /\ f \in Outputs
    BY <1>2, <1>3, <2>1, <2>2 DEF Outputs
  <2> HIDE DEF p, q, f
  <2>4. q[Len(p) + 1] = f /\ Len(p) + 1 \in DOMAIN q
    BY <1>1, <2>3, FrameBehind
  <2> QED BY <2>4 DEF q, f
<1> QED BY <1>7, <1>8

\* So does a close frame.
LEMMA CloseStep ==
    ASSUME TypesSound, CloseQueued, Steps
    PROVE  CloseQueued'
<1> SUFFICES ASSUME NEW c \in Ids, session'[c] # Nil, session'[c].closing
             PROVE  \E i \in DOMAIN (Stream(c)') : (Stream(c)')[i].op = "close"
  BY DEF CloseQueued, Present
<1> DEFINE p == Stream(c)
           q == Stream(c)'
<1>1. /\ p \in Seq(Outputs) /\ q \in Seq(Outputs) /\ Len(p) \in Nat
      /\ DOMAIN p = 1..Len(p) /\ DOMAIN q = 1..Len(q)
  BY StreamTypes, NextStreamTypes
<1>2. Moves(c)
  BY DEF Steps
<1>3. session[c] # Nil /\ session[c].closing => \E i \in DOMAIN p : p[i].op = "close"
  BY DEF CloseQueued, Present
<1>4. CASE Begins(c) \/ Ends(c)
  BY <1>4 DEF Begins, Ends, NewSession
<1>5. CASE Rests(c)
  BY <1>3, <1>5 DEF Rests
<1>6. ASSUME NEW f \in Outputs, Queues(c, f)
      PROVE  \E i \in DOMAIN q : q[i].op = "close"
  <2>1. q = Append(p, f) /\ session[c] # Nil /\ (session[c].closing \/ f.op = "close")
    BY <1>6 DEF Queues
  <2> HIDE DEF p, q
  <2>2. /\ DOMAIN q = 1..(Len(p) + 1)
        /\ \A i \in 1..Len(p) : q[i] = p[i]
        /\ q[Len(p) + 1] = f
    BY <1>1, <2>1, FrameBehind
  <2>3. CASE f.op = "close"
    BY <1>1, <2>2, <2>3
  <2>4. CASE session[c].closing
    <3>1. PICK i \in DOMAIN p : p[i].op = "close"
      BY <1>3, <2>1, <2>4
    <3> QED BY <1>1, <2>2, <3>1
  <2> QED BY <2>1, <2>3, <2>4
<1> QED BY <1>2, <1>4, <1>5, <1>6 DEF Moves

-----------------------------------------------------------------------------
(***************************************************************************)
(* The theorems.                                                           *)
(***************************************************************************)

TransportInv == TypesSound /\ StreamInv

\* The invariant holds at first.
LEMMA TransportInit == Init => TransportInv
<1> SUFFICES ASSUME Init
             PROVE  TransportInv
  OBVIOUS
<1>1. /\ TypesSound /\ ReadInOrder
      /\ \A c \in Ids : Stream(c) = <<>> /\ session[c] = Nil
  BY TypesInit
<1>2. \A c \in Ids : DOMAIN Stream(c) = {}
  <2>1. \A c \in Ids : DOMAIN Stream(c) = 1..Len(Stream(c)) /\ Len(Stream(c)) = 0
    BY <1>1, StreamTypes
  <2>2. 1..0 = {}
    OBVIOUS
  <2> QED BY <2>1, <2>2
<1>3. \A c \in Ids : Cardinality(Applications(c)) <= MaxOutbound
  <2> TAKE c \in Ids
  <2>1. Applications(c) = {}
    BY <1>2 DEF Applications
  <2>2. Cardinality(Applications(c)) = 0
    BY <2>1, FS_EmptySet
  <2> QED BY <2>2, Limits
<1>4. CopiesCount /\ NumbersBelow /\ OutputInOrder
  BY <1>1, <1>2, <1>3 DEF CopiesCount, NumbersBelow, OutputInOrder
<1>5. AllAnswered /\ CloseQueued
  BY <1>1 DEF AllAnswered, CloseQueued, Present
<1> QED BY <1>1, <1>4, <1>5 DEF TransportInv, StreamInv

\* Every step keeps it.
LEMMA TransportStep == TransportInv /\ [Next]_vars => TransportInv'
<1> SUFFICES ASSUME TransportInv, [Next]_vars
             PROVE  TransportInv'
  OBVIOUS
<1>1. TypesSound /\ ReadInOrder /\ CopiesCount /\ NumbersBelow /\ OutputInOrder /\ AllAnswered
      /\ CloseQueued
  BY DEF TransportInv, StreamInv
<1>2. Steps
  BY <1>1, StepsHold
<1>3. TypesSound' /\ ReadInOrder'
  BY <1>2 DEF Steps
<1>4. CopiesCount' /\ NumbersBelow' /\ OutputInOrder' /\ AllAnswered' /\ CloseQueued'
  BY <1>1, <1>2, CopiesStep, NumbersStep, OrderStep, AnsweredStep, CloseStep
<1> QED BY <1>3, <1>4 DEF TransportInv, StreamInv

\* It holds in every state.
LEMMA TransportHolds == Spec => []TransportInv
  BY TransportInit, TransportStep, PTL DEF Spec

\* The queues never exceed their limits, whoever queues, the pump is inside a visit only of
\* a connection that is open, and in all its life a connection is queued at most
\* MaxOutbound answers, events and challenges, however fast its client reads
\* (GatewayWebSocketTransport.cpp:629-640, 1535-1560).
THEOREM TransportTypes == Spec => []TransportTypeOK
<1>1. TransportInv => TransportTypeOK
  <2> SUFFICES ASSUME TransportInv
               PROVE  TransportTypeOK
    OBVIOUS
  <2>1. TypesSound /\ SessionsSound /\ PumpSound /\ CopiesCount
    BY DEF TransportInv, StreamInv, TypesSound, SessionsSound
  <2>2. \A c \in Ids : Cardinality(Applications(c)) <= MaxOutbound
    <3> TAKE c \in Ids
    <3>1. Cardinality(Applications(c)) \in Nat
      <4>1. DOMAIN Stream(c) = 1..Len(Stream(c)) /\ Len(Stream(c)) \in Nat
        BY <2>1, StreamTypes
      <4>2. IsFiniteSet(DOMAIN Stream(c))
        BY <4>1, FS_Interval
      <4>3. IsFiniteSet(Applications(c))
        BY <4>2, FS_Subset DEF Applications
      <4> QED BY <4>3, FS_CardinalityType
    <3>2. Cardinality(Applications(c)) <=
              IF session[c] = Nil THEN MaxOutbound ELSE session[c].app
      BY <2>1 DEF CopiesCount
    <3>3. session[c] # Nil => session[c].app \in 0..MaxOutbound
      BY <2>1 DEF SessionsSound, Sessions
    <3> QED BY <3>1, <3>2, <3>3, Limits
  <2>3. running \in BOOLEAN /\ session \in [Ids -> Sessions \cup {Nil}]
        /\ \A c \in Present : Len(session[c].net) <= MaxOutbound
    BY <2>1 DEF TypesSound, SessionsSound
  <2>4. /\ pump.at \in {"idle", "next", "frames"} /\ pump.todo \subseteq Present
        /\ pump.at = "frames" => pump.conn \in pump.todo /\ session[pump.conn].open
        /\ pump.read \in Seq(Frames)
    BY <2>1 DEF PumpSound
  <2>5. /\ peer \in [Ids -> {"new", "up", "left", "broken"}]
        /\ \A c \in Ids : wire[c] \in Seq(Frames) /\ got[c] \in Seq(Outputs)
        /\ events \in 0..MaxEvents
    BY <2>1 DEF TypesSound
  <2> QED BY <2>2, <2>3, <2>4, <2>5 DEF TransportTypeOK
<1> QED BY <1>1, TransportHolds, PTL

\* A client sees its answers in the order of its messages and the events in the order of
\* the broadcasts, each at most once, whatever handlers, broadcasts of other threads,
\* partial writes and failed visits do in between (cpp:629-640, 1285-1302, 1559-1595).
THEOREM OrderHolds == Spec => []OutputInOrder
<1>1. TransportInv => OutputInOrder
  BY DEF TransportInv, StreamInv
<1> QED BY <1>1, TransportHolds, PTL

\* Every message of a client that has left the wire was answered, once, while its connection
\* is open and not about to close, and no other was (cpp:1285-1302).
THEOREM AnswersHold == Spec => []EachAnsweredOnce
<1>1. TransportInv => EachAnsweredOnce
  <2> SUFFICES ASSUME TransportInv, NEW c \in Ids, Ready(c), session[c].open,
                      ~session[c].closing,
                      NEW n \in 1..Len(sent[c]), sent[c][n] \in {"whole", "last"}
               PROVE  Count(Stream(c), [op |-> "answer", n |-> n])
                          = IF \E i \in DOMAIN Unread(c) : Unread(c)[i].n = n THEN 0 ELSE 1
    BY DEF EachAnsweredOnce
  <2> DEFINE f == [op |-> "answer", n |-> n]
             p == Stream(c)
             w == wire[c]
             r == IF pump.conn = c THEN pump.read ELSE <<>>
             k == Passed(c)
             at == {i \in DOMAIN p : p[i] = f}
  <2>1. /\ TypesSound /\ ReadInOrder /\ NumbersBelow /\ OutputInOrder /\ AllAnswered
        /\ session[c] # Nil
    BY DEF TransportInv, StreamInv, Ready
  <2>2. /\ p \in Seq(Outputs) /\ Len(p) \in Nat /\ DOMAIN p = 1..Len(p)
    BY <2>1, StreamTypes
  <2>3. /\ w \in Seq(Frames) /\ r \in Seq(Frames) /\ Len(w) \in Nat /\ Len(r) \in Nat
        /\ Len(sent[c]) \in Nat
    BY <2>1 DEF TypesSound, SessionsSound, PumpSound
  <2>4. /\ k \in Nat /\ Taken(c) = Len(sent[c]) - Len(w) /\ InHand(c) = Len(r)
        /\ IsFrom(w, c, Taken(c)) /\ IsFrom(r, c, k)
    <3>1. k \in Nat /\ IsFrom(w, c, Taken(c))
      BY <2>1 DEF ReadInOrder
    <3>2. InHand(c) = Len(r) /\ Taken(c) = Len(sent[c]) - Len(w)
      BY DEF InHand, Taken
    <3>3. IsFrom(r, c, k)
      BY <2>1 DEF ReadInOrder, IsFrom
    <3> QED BY <3>1, <3>2, <3>3
  <2>5. k = Taken(c) - InHand(c)
    BY DEF Passed
  <2>6. Unread(c) = w \o r
    BY DEF Unread
  <2>7. f.op = "answer" /\ f.n = n /\ n \in Nat /\ n >= 1 /\ n <= Len(sent[c])
    BY <2>3
  \* At most one answer, and to nothing that is not dealt with.
  <2>8. \A i, j \in at : i = j
    <3> SUFFICES ASSUME NEW i \in at, NEW j \in at, i < j
                 PROVE  FALSE
      BY <2>2
    <3>1. p[i] = f /\ p[j] = f /\ i \in DOMAIN p /\ j \in DOMAIN p
      OBVIOUS
    <3>2. p[i].n < p[j].n
      BY <2>1, <2>7, <3>1 DEF OutputInOrder
    <3> QED BY <2>7, <3>1, <3>2
  <2>9. \A i \in at : n <= k
    BY <2>1, <2>7 DEF NumbersBelow
  <2>10. sent[c][n] \in {"whole", "last"} /\ (n <= k => at # {})
    <3>1. n <= k => \E i \in DOMAIN p : p[i] = f
      BY <2>1, <2>4, <2>7 DEF AllAnswered, Present
    <3> QED BY <3>1
  <2> HIDE DEF p, w, r, k
  \* What is not dealt with is not read yet, and the other way round.
  <2>11. (\E i \in DOMAIN (w \o r) : (w \o r)[i].n = n) <=> ~(n <= k)
    <3>1. /\ DOMAIN (w \o r) = 1..(Len(w) + Len(r))
          /\ \A i \in 1..(Len(w) + Len(r)) :
                 (w \o r)[i] = IF i <= Len(w) THEN w[i] ELSE r[i - Len(w)]
      BY <2>3, ConcatProperties, LenProperties
    <3>2. \A i \in 1..Len(w) : w[i].n = Taken(c) + i
      BY <2>4 DEF IsFrom
    <3>3. \A i \in 1..Len(r) : r[i].n = k + i
      BY <2>4 DEF IsFrom
    <3> DEFINE a == Len(sent[c])
               b == Len(w)
               d == Len(r)
               t == Taken(c)
    <3>4. /\ a \in Nat /\ b \in Nat /\ d \in Nat /\ k \in Nat /\ t = a - b /\ k = t - d
          /\ n \in Nat /\ n >= 1 /\ n <= a
      BY <2>3, <2>4, <2>5, <2>7
    <3> HIDE DEF a, b, d, t
    <3>5. ASSUME NEW i \in 1..(b + d), (w \o r)[i].n = n
          PROVE  ~(n <= k)
      <4>1. CASE i <= b
        <5>1. i \in 1..b
          BY <3>4, <4>1
        <5>2. n = t + i
          BY <3>1, <3>2, <3>5, <4>1, <5>1 DEF b, d, t
        <5> QED BY <3>4, <5>1, <5>2
      <4>2. CASE i > b
        <5>1. i - b \in 1..d /\ ~(i <= b)
          BY <3>4, <4>2
        <5>2. n = k + (i - b)
          BY <3>1, <3>3, <3>5, <5>1 DEF b, d
        <5> QED BY <3>4, <5>1, <5>2
      <4> QED BY <3>4, <4>1, <4>2
    <3>6. ASSUME ~(n <= k)
          PROVE  \E i \in 1..(b + d) : (w \o r)[i].n = n
      <4>1. CASE n > t
        <5> DEFINE i == n - t
        <5>1. i \in 1..b /\ i \in 1..(b + d) /\ i <= b /\ t + i = n
          BY <3>4, <4>1
        <5> HIDE DEF i
        <5>2. (w \o r)[i].n = n
          BY <3>1, <3>2, <5>1 DEF b, d, t
        <5> QED BY <5>1, <5>2
      <4>2. CASE n <= t
        <5> DEFINE j == n - k
                   i == b + j
        <5>1. j \in 1..d /\ i \in 1..(b + d) /\ ~(i <= b) /\ i - b = j /\ k + j = n
          BY <3>4, <3>6, <4>2
        <5> HIDE DEF i, j
        <5>2. (w \o r)[i].n = n
          BY <3>1, <3>3, <5>1 DEF b, d
        <5> QED BY <5>1, <5>2
      <4>3. n > t \/ n <= t
        BY <3>4
      <4> QED BY <4>1, <4>2, <4>3, Zenon
    <3> QED BY <3>1, <3>5, <3>6 DEF b, d
  <2>12. CASE n <= k
    <3>1. PICK i \in at : TRUE
      BY <2>10, <2>12
    <3>2. at = {i}
      BY <2>8, <3>1
    <3>3. Cardinality(at) = 1
      BY <3>2, FS_Singleton
    <3> QED BY <2>6, <2>11, <2>12, <3>3 DEF Count, p
  <2>13. CASE ~(n <= k)
    <3>1. at = {}
      BY <2>9, <2>13
    <3>2. Cardinality(at) = 0
      BY <3>1, FS_EmptySet
    <3> QED BY <2>6, <2>11, <2>13, <3>2 DEF Count, p
  <2> QED BY <2>12, <2>13
<1> QED BY <1>1, TransportHolds, PTL

\* A connection that ends with a close frame, whoever began, leaves nothing behind: its
\* client has got all that was queued for it, and the close frame (cpp:1309-1311,
\* 1559-1595).
THEOREM CloseHolds == Spec => CloseDelivered
<1> DEFINE Delivers ==
        \A c \in Ids :
            (/\ Ready(c) /\ session'[c] = Nil
             /\ session[c].open /\ session[c].closing /\ peer'[c] = "up")
            => /\ got'[c] = Stream(c)
               /\ \E i \in DOMAIN got'[c] : got'[c][i].op = "close"
<1>1. TransportInv /\ [Next]_vars => Delivers
  <2> SUFFICES ASSUME TransportInv, [Next]_vars, NEW c \in Ids, Ready(c), session'[c] = Nil,
                      session[c].open, session[c].closing, peer'[c] = "up"
               PROVE  /\ got'[c] = Stream(c)
                      /\ \E i \in DOMAIN got'[c] : got'[c][i].op = "close"
    OBVIOUS
  <2>1. Steps /\ CloseQueued /\ session[c] # Nil /\ session[c].ready
    BY StepsHold DEF TransportInv, StreamInv, Ready
  <2>2. Ends(c)
    <3>1. NewSession # Nil
      <4>1. NewSession \in Sessions
        BY Limits DEF NewSession, Sessions
      <4> QED BY <4>1, Limits
    <3> QED BY <2>1, <3>1 DEF Steps, Moves, Begins, Rests, Queues
  <2>3. got'[c] = Stream(c)
    BY <2>1, <2>2 DEF Ends
  <2>4. \E i \in DOMAIN Stream(c) : Stream(c)[i].op = "close"
    BY <2>1 DEF CloseQueued, Present
  <2> QED BY <2>3, <2>4
<1> QED BY <1>1, TransportHolds, PTL DEF Spec, CloseDelivered
=============================================================================
