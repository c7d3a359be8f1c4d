-------------------------- MODULE ChatGatewayProofs --------------------------
(***************************************************************************)
(* Proofs about ChatGateway: its types, that a key means a tracked run, and *)
(* that the end of a run is queued once, never swallowed and never lost     *)
(* but to the retention limit, whatever sends, aborts, injections and polls *)
(* do between its start and its end.  All of it holds of ChatPolling too.   *)
(***************************************************************************)
EXTENDS ChatPolling, FiniteSetTheorems, NaturalsInduction, SequenceTheorems,
        WellFoundedInduction, TLAPS

\* A set of numbers that is not empty has a least one.
LEMMA LeastNumber ==
    ASSUME NEW T \in SUBSET Nat, T # {}
    PROVE  \E n \in T : \A m \in T : ~(m < n)
<1>1. \E x \in T : \A y \in T : ~ (<<y, x>> \in OpToRel(<, Nat))
  BY WFMin, NatLessThanWellFounded, Zenon
<1> QED BY <1>1 DEF OpToRel
-----------------------------------------------------------------------------
(***************************************************************************)
(* Queues: what they hold, whose ends, and each end once.                  *)
(***************************************************************************)
Contents(q) == {q[i] : i \in 1..Len(q)}

EndsIn(q) == {e.run : e \in {x \in Contents(q) : IsTerminal(x)}}

Once(q) ==
    \A i, j \in 1..Len(q) :
        IsTerminal(q[i]) /\ IsTerminal(q[j]) /\ q[i].run = q[j].run => i = j

\* The empty queue.
LEMMA EmptyEvents ==
    << >> \in Seq(Event) /\ Len(<< >>) = 0 /\ Contents(<< >>) = {} /\ EndsIn(<< >>) = {}
    /\ Once(<< >>)
<1>1. << >> \in Seq(Event) /\ Len(<< >>) = 0 /\ Contents(<< >>) = {}
  BY DEF Contents
<1> QED BY <1>1 DEF EndsIn, Once

\* A queue of one event.
LEMMA OneEvent ==
    ASSUME NEW e \in Event
    PROVE  <<e>> \in Seq(Event) /\ Contents(<<e>>) = {e} /\ Once(<<e>>)
<1>1. <<e>> \in Seq(Event) /\ Len(<<e>>) = 1 /\ <<e>>[1] = e
  OBVIOUS
<1>2. 1..1 = {1}
  OBVIOUS
<1> QED BY <1>1, <1>2 DEF Contents, Once

\* An end in a queue has a place there.
LEMMA EndsAt ==
    ASSUME NEW q, NEW r
    PROVE  r \in EndsIn(q) <=> \E i \in 1..Len(q) : IsTerminal(q[i]) /\ q[i].run = r
  BY DEF EndsIn, Contents

\* Queues put behind each other.
LEMMA Joining ==
    ASSUME NEW p \in Seq(Event), NEW q \in Seq(Event)
    PROVE  /\ p \o q \in Seq(Event)
           /\ Contents(p \o q) = Contents(p) \cup Contents(q)
           /\ EndsIn(p \o q) = EndsIn(p) \cup EndsIn(q)
           /\ Once(p) /\ Once(q) /\ EndsIn(p) \cap EndsIn(q) = {} => Once(p \o q)
<1> DEFINE s == p \o q
<1>1. /\ s \in Seq(Event) /\ Len(s) = Len(p) + Len(q) /\ Len(p) \in Nat /\ Len(q) \in Nat
      /\ \A i \in 1..Len(p) : s[i] = p[i]
      /\ \A i \in 1..Len(q) : s[Len(p) + i] = q[i]
  OBVIOUS
<1> HIDE DEF s
<1>2. \A i \in 1..Len(s) : \/ i \in 1..Len(p) /\ s[i] = p[i]
                           \/ /\ i > Len(p) /\ i - Len(p) \in 1..Len(q)
                              /\ s[i] = q[i - Len(p)]
  <2> TAKE i \in 1..Len(s)
  <2>1. CASE i <= Len(p)
    BY <2>1, <1>1
  <2>2. CASE i > Len(p)
    <3>1. i - Len(p) \in 1..Len(q) /\ Len(p) + (i - Len(p)) = i
      BY <2>2, <1>1
    <3> QED BY <3>1, <2>2, <1>1
  <2> QED BY <2>1, <2>2, <1>1
<1>3. Contents(s) = Contents(p) \cup Contents(q)
  <2>1. Contents(s) \subseteq Contents(p) \cup Contents(q)
    BY <1>2 DEF Contents
  <2>2. \A i \in 1..Len(p) : i \in 1..Len(s)
    BY <1>1
  <2>3. \A i \in 1..Len(q) : Len(p) + i \in 1..Len(s)
    BY <1>1
  <2>4. Contents(p) \subseteq Contents(s)
    BY <1>1, <2>2 DEF Contents
  <2>5. Contents(q) \subseteq Contents(s)
    BY <1>1, <2>3 DEF Contents
  <2> QED BY <2>1, <2>4, <2>5
<1>4. EndsIn(s) = EndsIn(p) \cup EndsIn(q)
  BY <1>3 DEF EndsIn
<1>5. ASSUME Once(p), Once(q), EndsIn(p) \cap EndsIn(q) = {}
      PROVE  Once(s)
  <2> SUFFICES ASSUME NEW i \in 1..Len(s), NEW j \in 1..Len(s),
                      IsTerminal(s[i]), IsTerminal(s[j]), s[i].run = s[j].run
               PROVE  i = j
    BY DEF Once
  <2>0. \A a \in 1..Len(p), b \in 1..Len(q) :
            IsTerminal(p[a]) /\ IsTerminal(q[b]) => p[a].run # q[b].run
    BY <1>5, EndsAt
  <2>1. CASE i \in 1..Len(p) /\ s[i] = p[i]
    <3>1. CASE j \in 1..Len(p) /\ s[j] = p[j]
      BY <2>1, <3>1, <1>5 DEF Once
    <3>2. CASE j - Len(p) \in 1..Len(q) /\ s[j] = q[j - Len(p)]
      BY <2>0, <2>1, <3>2
    <3> QED BY <3>1, <3>2, <1>2
  <2>2. CASE i - Len(p) \in 1..Len(q) /\ s[i] = q[i - Len(p)]
    <3>1. CASE j \in 1..Len(p) /\ s[j] = p[j]
      BY <2>0, <2>2, <3>1
    <3>2. CASE j - Len(p) \in 1..Len(q) /\ s[j] = q[j - Len(p)]
      <4>1. i - Len(p) = j - Len(p)
        BY <2>2, <3>2, <1>5 DEF Once
      <4> QED BY <4>1, <1>1
    <3> QED BY <3>1, <3>2, <1>2
  <2> QED BY <2>1, <2>2, <1>2
<1> QED BY <1>1, <1>3, <1>4, <1>5 DEF s

\* The end of a queue: the same events, and the ends that are not among the first k.
LEMMA Suffix ==
    ASSUME NEW q \in Seq(Event), NEW k \in 0..Len(q)
    PROVE  LET s == SubSeq(q, k + 1, Len(q))
           IN  /\ s \in Seq(Event) /\ Len(s) = Len(q) - k
               /\ Contents(s) \subseteq Contents(q)
               /\ EndsIn(s) \subseteq EndsIn(q)
               /\ Once(q) => Once(s)
               /\ \A r \in EndsIn(q) :
                      r \in EndsIn(s) \/ \E i \in 1..k : IsTerminal(q[i]) /\ q[i].run = r
               /\ Once(q) => \A i \in 1..k : IsTerminal(q[i]) => q[i].run \notin EndsIn(s)
<1> DEFINE s == SubSeq(q, k + 1, Len(q))
<1>1. /\ s \in Seq(Event) /\ Len(s) = Len(q) - k /\ Len(q) \in Nat
      /\ \A i \in 1..Len(s) : s[i] = q[k + i]
  BY SMTT(30)
<1> HIDE DEF s
<1>2. \A i \in 1..Len(s) : k + i \in 1..Len(q)
  BY <1>1
<1>3. \A i \in 1..Len(q) : i \in 1..k \/ (i - k \in 1..Len(s) /\ s[i - k] = q[i])
  <2> TAKE i \in 1..Len(q)
  <2>1. CASE i > k
    <3>1. i - k \in 1..Len(s) /\ k + (i - k) = i
      BY <2>1, <1>1
    <3> QED BY <3>1, <1>1
  <2> QED BY <2>1
<1>4. Contents(s) \subseteq Contents(q)
  BY <1>1, <1>2 DEF Contents
<1>5. EndsIn(s) \subseteq EndsIn(q)
  BY <1>4 DEF EndsIn
<1>6. ASSUME Once(q) PROVE Once(s)
  <2> SUFFICES ASSUME NEW i \in 1..Len(s), NEW j \in 1..Len(s),
                      IsTerminal(s[i]), IsTerminal(s[j]), s[i].run = s[j].run
               PROVE  i = j
    BY DEF Once
  <2>1. k + i = k + j
    BY <1>1, <1>2, <1>6 DEF Once
  <2> QED BY <2>1
<1>7. ASSUME NEW r \in EndsIn(q)
      PROVE  r \in EndsIn(s) \/ \E i \in 1..k : IsTerminal(q[i]) /\ q[i].run = r
  BY <1>3, EndsAt
<1>8. ASSUME Once(q), NEW i \in 1..k, IsTerminal(q[i]) PROVE q[i].run \notin EndsIn(s)
  <2> SUFFICES ASSUME q[i].run \in EndsIn(s) PROVE FALSE
    OBVIOUS
  <2>1. PICK j \in 1..Len(s) : IsTerminal(s[j]) /\ s[j].run = q[i].run
    BY EndsAt
  <2>2. i \in 1..Len(q) /\ k + j \in 1..Len(q) /\ s[j] = q[k + j]
    BY <1>1, <1>2
  <2>3. i = k + j
    BY <1>8, <2>1, <2>2 DEF Once
  <2> QED BY <2>3
<1> QED BY <1>1, <1>4, <1>5, <1>6, <1>7, <1>8 DEF s
-----------------------------------------------------------------------------
(***************************************************************************)
(* Queues put behind each other, however many.                             *)
(***************************************************************************)
\* f[i] is the first i of the queues behind each other, for i up to n.
IsFlat(seqs, n, f) ==
    f = [i \in 1..n |-> IF i = 1 THEN seqs[i] ELSE f[i - 1] \o seqs[i]]

\* The recursion in FlattenSeq defines a function.
LEMMA FlatExists ==
    ASSUME NEW seqs, NEW N \in Nat
    PROVE  \E f : IsFlat(seqs, N, f)
<1> DEFINE Bad == {n \in Nat : ~\E f : IsFlat(seqs, n, f)}
<1> SUFFICES ASSUME Bad # {} PROVE FALSE
  OBVIOUS
<1>1. PICK n \in Bad : \A m \in Bad : ~(m < n)
  BY LeastNumber
<1>2. n # 0
  <2> DEFINE f == [i \in 1..0 |-> << >>]
  <2>1. IsFlat(seqs, 0, f)
    BY DEF IsFlat
  <2> QED BY <2>1, <1>1
<1>3. n - 1 \in Nat /\ n - 1 \notin Bad
  BY <1>1, <1>2
<1>4. PICK f : IsFlat(seqs, n - 1, f)
  BY <1>3
<1> DEFINE last == IF n = 1 THEN seqs[n] ELSE f[n - 1] \o seqs[n]
           g == [i \in 1..n |-> IF i = n THEN last ELSE f[i]]
<1>5. \A i \in 1..(n - 1) : g[i] = f[i]
  BY <1>1
<1>6. ASSUME NEW i \in 1..n
      PROVE  g[i] = IF i = 1 THEN seqs[i] ELSE g[i - 1] \o seqs[i]
  <2>1. CASE i = n
    <3>1. n # 1 => g[n - 1] = f[n - 1]
      BY <1>5, <1>3
    <3> QED BY <2>1, <3>1
  <2>2. CASE i # n
    <3>1. i \in 1..(n - 1)
      BY <2>2, <1>1
    <3>2. i # 1 => g[i - 1] = f[i - 1]
      BY <3>1, <1>5, <1>1
    <3>3. f[i] = IF i = 1 THEN seqs[i] ELSE f[i - 1] \o seqs[i]
      BY <3>1, <1>4 DEF IsFlat
    <3> QED BY <3>1, <3>2, <3>3, <1>5
  <2> QED BY <2>1, <2>2
<1>7. IsFlat(seqs, n, g)
  BY <1>6, Zenon DEF IsFlat
<1> QED BY <1>7, <1>1

\* What holds of the first i queues behind each other.
FlatUpTo(seqs, q, i) ==
    /\ q \in Seq(Event)
    /\ Contents(q) = UNION {Contents(seqs[k]) : k \in 1..i}
    /\ (\A k \in 1..i : Once(seqs[k])) /\ (\A k, l \in 1..i :
            k # l => EndsIn(seqs[k]) \cap EndsIn(seqs[l]) = {}) => Once(q)

\* One more queue is put behind.
LEMMA FlatNext ==
    ASSUME NEW n \in Nat, NEW seqs \in [1..n -> Seq(Event)], NEW i \in 1..n, i # 1,
           NEW q, FlatUpTo(seqs, q, i - 1)
    PROVE  FlatUpTo(seqs, q \o seqs[i], i)
<1>1. q \in Seq(Event) /\ seqs[i] \in Seq(Event)
  BY DEF FlatUpTo
<1>2. 1..i = 1..(i - 1) \cup {i}
  OBVIOUS
<1>3. Contents(q \o seqs[i]) = UNION {Contents(seqs[k]) : k \in 1..i}
  <2>1. Contents(q \o seqs[i]) = Contents(q) \cup Contents(seqs[i])
    BY <1>1, Joining
  <2>2. {Contents(seqs[k]) : k \in 1..i} =
            {Contents(seqs[k]) : k \in 1..(i - 1)} \cup {Contents(seqs[i])}
    BY <1>2, Zenon
  <2>3. Contents(q) = UNION {Contents(seqs[k]) : k \in 1..(i - 1)}
    BY DEF FlatUpTo
  <2> QED BY <2>1, <2>2, <2>3
<1>4. ASSUME \A k \in 1..i : Once(seqs[k]),
             \A k, l \in 1..i : k # l => EndsIn(seqs[k]) \cap EndsIn(seqs[l]) = {}
      PROVE  Once(q \o seqs[i])
  <2>1. Once(q) /\ Once(seqs[i])
    BY <1>2, <1>4 DEF FlatUpTo
  <2>2. \A r \in EndsIn(q) : \E k \in 1..(i - 1) : r \in EndsIn(seqs[k])
    BY DEF FlatUpTo, EndsIn
  <2>3. ASSUME NEW k \in 1..(i - 1) PROVE EndsIn(seqs[k]) \cap EndsIn(seqs[i]) = {}
    <3>1. k \in 1..i /\ i \in 1..i /\ k # i
      OBVIOUS
    <3> QED BY <3>1, <1>4, Zenon
  <2>4. EndsIn(q) \cap EndsIn(seqs[i]) = {}
    BY <2>2, <2>3
  <2> QED BY <1>1, <2>1, <2>4, Joining
<1>5. q \o seqs[i] \in Seq(Event)
  BY <1>1, Joining
<1> QED BY <1>3, <1>4, <1>5, Zenon DEF FlatUpTo

\* FlattenSeq keeps all events, and each end once if no two of the queues have the same.
LEMMA Flat ==
    ASSUME NEW n \in Nat, NEW seqs \in [1..n -> Seq(Event)]
    PROVE  FlatUpTo(seqs, FlattenSeq(seqs), n)
<1>1. Len(seqs) = n
  OBVIOUS
<1>2. CASE n = 0
  <2>1. seqs = << >>
    BY <1>2
  <2>2. FlattenSeq(seqs) = << >>
    BY <2>1, <1>1, <1>2, Zenon DEF FlattenSeq
  <2>3. {Contents(seqs[k]) : k \in 1..0} = {}
    OBVIOUS
  <2> QED BY <1>2, <2>2, <2>3, EmptyEvents DEF FlatUpTo
<1>3. CASE n # 0
  <2> DEFINE f == CHOOSE g : IsFlat(seqs, n, g)
  <2>1. IsFlat(seqs, n, f)
    BY FlatExists
  <2>2. FlattenSeq(seqs) = f[n]
    BY <1>1, <1>3, Zenon DEF FlattenSeq, IsFlat
  <2> HIDE DEF f
  <2>3. \A i \in 1..n : f[i] = IF i = 1 THEN seqs[i] ELSE f[i - 1] \o seqs[i]
    BY <2>1, Zenon DEF IsFlat
  <2> DEFINE Bad == {i \in 1..n : ~FlatUpTo(seqs, f[i], i)}
  <2>4. FlatUpTo(seqs, f[1], 1)
    <3>1. f[1] = seqs[1] /\ seqs[1] \in Seq(Event)
      BY <2>3, <1>3
    <3>2. {Contents(seqs[k]) : k \in 1..1} = {Contents(seqs[1])} /\ 1 \in 1..1
      OBVIOUS
    <3> QED BY <3>1, <3>2 DEF FlatUpTo
  <2>5. Bad = {}
    <3> SUFFICES ASSUME Bad # {} PROVE FALSE
      OBVIOUS
    <3>1. PICK i \in Bad : \A m \in Bad : ~(m < i)
      <4>1. Bad \in SUBSET Nat
        OBVIOUS
      <4> HIDE DEF Bad
      <4> QED BY <4>1, LeastNumber
    <3>2. i \in 1..n /\ i # 1 /\ i - 1 \in 1..n
      BY <3>1, <2>4
    <3>3. FlatUpTo(seqs, f[i - 1], i - 1)
      BY <3>1, <3>2
    <3>4. FlatUpTo(seqs, f[i], i)
      BY <3>2, <3>3, <2>3, FlatNext
    <3> QED BY <3>1, <3>4
  <2>6. FlatUpTo(seqs, f[n], n)
    BY <2>5, <1>3
  <2> QED BY <2>2, <2>6
<1> QED BY <1>2, <1>3

\* WithoutEvents leaves the events of the other runs, each end once if it was there once.
LEMMA Others ==
    ASSUME NEW q \in Seq(Event), NEW r
    PROVE  LET s == WithoutEvents(q, r)
           IN  /\ s \in Seq(Event)
               /\ Contents(s) = {e \in Contents(q) : e.run # r}
               /\ Once(q) => Once(s)
<1> DEFINE seqs == [i \in DOMAIN q |-> IF q[i].run = r THEN << >> ELSE <<q[i]>>]
           s == FlattenSeq(seqs)
<1>1. Len(q) \in Nat /\ DOMAIN q = 1..Len(q) /\ \A i \in 1..Len(q) : q[i] \in Event
  OBVIOUS
<1>2. ASSUME NEW i \in 1..Len(q)
      PROVE  /\ seqs[i] \in Seq(Event) /\ Once(seqs[i])
             /\ Contents(seqs[i]) = {e \in {q[i]} : e.run # r}
  <2>1. seqs[i] = IF q[i].run = r THEN << >> ELSE <<q[i]>>
    BY <1>1
  <2> HIDE DEF seqs
  <2>2. CASE q[i].run = r
    <3>1. seqs[i] = << >>
      BY <2>1, <2>2
    <3> QED BY <3>1, <2>2, EmptyEvents
  <2>3. CASE q[i].run # r
    <3>1. seqs[i] = <<q[i]>> /\ q[i] \in Event
      BY <2>1, <2>3, <1>1
    <3>2. /\ <<q[i]>> \in Seq(Event) /\ Contents(<<q[i]>>) = {q[i]} /\ Once(<<q[i]>>)
      BY <3>1, OneEvent
    <3> QED BY <3>1, <3>2, <2>3
  <2> QED BY <2>2, <2>3
<1>3. seqs \in [1..Len(q) -> Seq(Event)]
  BY <1>1, <1>2
<1>4. FlatUpTo(seqs, s, Len(q))
  BY <1>1, <1>3, Flat
<1> HIDE DEF seqs
<1>5. Contents(s) = {e \in Contents(q) : e.run # r}
  <2>1. Contents(s) = UNION {Contents(seqs[k]) : k \in 1..Len(q)}
    BY <1>4 DEF FlatUpTo
  <2> HIDE DEF s
  <2>2. \A e : e \in Contents(s) <=> \E k \in 1..Len(q) : e = q[k] /\ e.run # r
    BY <2>1, <1>2
  <2> QED BY <2>2 DEF Contents
<1>6. ASSUME Once(q) PROVE Once(s)
  <2>1. \A k \in 1..Len(q) : \A x \in EndsIn(seqs[k]) : IsTerminal(q[k]) /\ q[k].run = x
    BY <1>2 DEF EndsIn
  <2>2. ASSUME NEW k \in 1..Len(q), NEW l \in 1..Len(q), k # l
        PROVE  EndsIn(seqs[k]) \cap EndsIn(seqs[l]) = {}
    <3> SUFFICES ASSUME NEW x \in EndsIn(seqs[k]), x \in EndsIn(seqs[l]) PROVE FALSE
      OBVIOUS
    <3>1. /\ IsTerminal(q[k]) /\ q[k].run = x
          /\ IsTerminal(q[l]) /\ q[l].run = x
      BY <2>1, <2>2
    <3> QED BY <3>1, <2>2, <1>6 DEF Once
  <2> QED BY <1>2, <1>4, <2>2 DEF FlatUpTo
<1>7. s \in Seq(Event)
  BY <1>4 DEF FlatUpTo
<1>8. WithoutEvents(q, r) = s
  BY DEF WithoutEvents, seqs
<1> QED BY <1>5, <1>6, <1>7, <1>8
-----------------------------------------------------------------------------
(***************************************************************************)
(* What a poll delivers: the first events, with each end among them.       *)
(***************************************************************************)
Names == RunIds \cup Injections

Batches == [rest : Seq(Event), room : Nat, ended : SUBSET Names, delivered : SUBSET Names]

\* f[i] is what the first i events of q are made into, for i up to n.
IsDelivery(q, limit, n, f) ==
    f = [i \in 0..n |->
           IF i = 0 THEN {[rest |-> << >>, room |-> limit, ended |-> {}, delivered |-> delivered]}
           ELSE {Deliver(batch, q[i]) : batch \in f[i - 1]}]

\* The recursion in Delivery defines a function.
LEMMA DeliveryExists ==
    ASSUME NEW q, NEW limit, NEW N \in Nat
    PROVE  \E f : IsDelivery(q, limit, N, f)
<1> DEFINE start == {[rest |-> << >>, room |-> limit, ended |-> {}, delivered |-> delivered]}
           Bad == {n \in Nat : ~\E f : IsDelivery(q, limit, n, f)}
<1> SUFFICES ASSUME Bad # {} PROVE FALSE
  OBVIOUS
<1>1. PICK n \in Bad : \A m \in Bad : ~(m < n)
  BY LeastNumber
<1>2. n # 0
  <2> DEFINE f == [i \in 0..0 |-> start]
  <2>1. IsDelivery(q, limit, 0, f)
    BY DEF IsDelivery
  <2> QED BY <2>1, <1>1
<1>3. n - 1 \in Nat /\ n - 1 \notin Bad
  BY <1>1, <1>2
<1>4. PICK f : IsDelivery(q, limit, n - 1, f)
  BY <1>3
<1> DEFINE last == {Deliver(batch, q[n]) : batch \in f[n - 1]}
           g == [i \in 0..n |-> IF i = n THEN last ELSE f[i]]
<1>5. \A i \in 0..(n - 1) : g[i] = f[i]
  BY <1>1
<1>6. ASSUME NEW i \in 0..n
      PROVE  g[i] = IF i = 0 THEN start ELSE {Deliver(batch, q[i]) : batch \in g[i - 1]}
  <2>1. CASE i = n
    <3>1. g[n - 1] = f[n - 1]
      BY <1>5, <1>3
    <3> QED BY <2>1, <3>1, <1>2
  <2>2. CASE i # n
    <3>1. i \in 0..(n - 1)
      BY <2>2, <1>1
    <3>2. i # 0 => g[i - 1] = f[i - 1]
      BY <3>1, <1>5, <1>1
    <3>3. f[i] = IF i = 0 THEN start ELSE {Deliver(batch, q[i]) : batch \in f[i - 1]}
      BY <3>1, <1>4 DEF IsDelivery
    <3> HIDE DEF start, g
    <3> QED BY <3>1, <3>2, <3>3, <1>5, Zenon
  <2> QED BY <2>1, <2>2
<1>7. IsDelivery(q, limit, n, g)
  BY <1>6, Zenon DEF IsDelivery
<1> QED BY <1>7, <1>1

\* After i events: those behind the first k are left, and then there is no room; the ends
\* among the first k were delivered, now or before.
TakenUpTo(q, i, b, k) ==
    /\ b \in Batches
    /\ b.rest = SubSeq(q, k + 1, i)
    /\ k < i => b.room = 0
    /\ \A j \in 1..k : IsTerminal(q[j]) => q[j].run \in b.ended \cup delivered
    /\ \A r \in b.ended : \E j \in 1..k : IsTerminal(q[j]) /\ q[j].run = r
    /\ b.delivered \subseteq delivered \cup b.ended
    /\ IsFiniteSet(b.delivered) /\ Cardinality(b.delivered) <= MaxDelivered

Taken(q, i, b) == \E k \in 0..i : TakenUpTo(q, i, b, k)

\* One event more.
LEMMA DeliverNext ==
    ASSUME NEW q \in Seq(Event), NEW i \in 1..Len(q), NEW b, Taken(q, i - 1, b)
    PROVE  Taken(q, i, Deliver(b, q[i]))
<1> DEFINE e == q[i]
           c == Deliver(b, e)
<1>1. PICK k \in 0..(i - 1) : TakenUpTo(q, i - 1, b, k)
  BY DEF Taken
<1>2. /\ e \in Event /\ e.run \in Names /\ b \in Batches /\ i \in Nat
      /\ k \in 0..i /\ i \in 0..i /\ 1..i = 1..(i - 1) \cup {i}
  <2>1. e \in Event
    OBVIOUS
  <2>2. e.run \in Names
    BY <2>1, Zenon DEF Event, Names
  <2>3. b \in Batches
    BY <1>1 DEF TakenUpTo
  <2> QED BY <2>1, <2>2, <2>3
<1> HIDE DEF e, c
<1> SUFFICES Taken(q, i, c)
  BY DEF e, c
<1>3. CASE b.room = 0
  <2>1. c = [b EXCEPT !.rest = Append(@, e)]
    BY <1>3 DEF Deliver, c
  <2>2. Append(SubSeq(q, k + 1, i - 1), e) = SubSeq(q, k + 1, i)
    BY <1>2 DEF e
  <2>3. /\ c \in Batches /\ c.rest = Append(b.rest, e) /\ c.room = 0 /\ c.ended = b.ended
        /\ c.delivered = b.delivered
    <3>1. b.rest \in Seq(Event)
      BY <1>2 DEF Batches
    <3>2. Append(b.rest, e) \in Seq(Event)
      BY <1>2, <3>1
    <3> QED BY <1>2, <1>3, <2>1, <3>2 DEF Batches
  <2>4. TakenUpTo(q, i, c, k)
    BY <1>1, <2>2, <2>3 DEF TakenUpTo
  <2> QED BY <1>2, <2>4 DEF Taken
<1>4. CASE b.room # 0
  <2>1. k = i - 1
    BY <1>1, <1>4 DEF TakenUpTo
  <2>2. b.rest = << >> /\ SubSeq(q, i + 1, i) = << >>
    BY <1>1, <1>2, <2>1 DEF TakenUpTo
  <2>3. /\ \A j \in 1..(i - 1) : IsTerminal(q[j]) => q[j].run \in b.ended \cup delivered
        /\ \A r \in b.ended : \E j \in 1..(i - 1) : IsTerminal(q[j]) /\ q[j].run = r
        /\ b.delivered \subseteq delivered \cup b.ended
        /\ IsFiniteSet(b.delivered) /\ Cardinality(b.delivered) <= MaxDelivered
    BY <1>1, <2>1 DEF TakenUpTo
  <2>4. \A r \in b.ended : \E j \in 1..i : IsTerminal(q[j]) /\ q[j].run = r
    BY <1>2, <2>3
  <2>5. CASE ~IsTerminal(e)
    <3>1. c = [b EXCEPT !.room = @ - 1]
      BY <1>4, <2>5 DEF Deliver, c
    <3>2. /\ c \in Batches /\ c.rest = b.rest /\ c.ended = b.ended /\ c.delivered = b.delivered
      BY <1>2, <1>4, <3>1, SMTT(30) DEF Batches
    <3>3. \A j \in 1..i : IsTerminal(q[j]) => q[j].run \in b.ended \cup delivered
      <4> SUFFICES ASSUME NEW j \in 1..i, IsTerminal(q[j])
                   PROVE  q[j].run \in b.ended \cup delivered
        OBVIOUS
      <4>1. j # i
        BY <2>5 DEF e
      <4>2. j \in 1..(i - 1)
        BY <1>2, <4>1
      <4> QED BY <2>3, <4>2
    <3> HIDE DEF c
    <3>4. TakenUpTo(q, i, c, i)
      BY <1>2, <2>2, <2>3, <2>4, <3>2, <3>3 DEF TakenUpTo
    <3> QED BY <1>2, <3>4 DEF Taken
  <2>6. CASE IsTerminal(e) /\ e.run \in b.delivered \cup b.ended
    <3>1. c = b
      BY <1>4, <2>6 DEF Deliver, c
    <3>2. e.run \in b.ended \cup delivered
      BY <2>3, <2>6
    <3>3. \A j \in 1..i : IsTerminal(q[j]) => q[j].run \in b.ended \cup delivered
      BY <1>2, <2>3, <3>2 DEF e
    <3>4. TakenUpTo(q, i, b, i)
      BY <1>2, <2>2, <2>3, <2>4, <3>3 DEF TakenUpTo
    <3> QED BY <1>2, <3>1, <3>4 DEF Taken
  <2>7. CASE IsTerminal(e) /\ e.run \notin b.delivered \cup b.ended
    <3> DEFINE now == b.delivered \cup {e.run}
               cleared == IF Cardinality(now) > MaxDelivered THEN {} ELSE now
    <3>1. c = [b EXCEPT !.room = @ - 1, !.ended = @ \cup {e.run}, !.delivered = cleared]
      BY <1>4, <2>7 DEF Deliver, c
    <3>2. /\ IsFiniteSet(cleared) /\ Cardinality(cleared) <= MaxDelivered
      <4>1. IsFiniteSet(now) /\ Cardinality(now) \in Nat
        BY <2>3, FS_AddElement, FS_CardinalityType
      <4>2. IsFiniteSet({}) /\ Cardinality({}) = 0
        BY FS_EmptySet
      <4> QED BY <4>1, <4>2, GatewayAssumption
    <3>3. cleared \subseteq b.delivered \cup {e.run}
      OBVIOUS
    <3> HIDE DEF cleared
    <3>4. /\ c \in Batches /\ c.rest = b.rest /\ c.ended = b.ended \cup {e.run}
          /\ c.delivered = cleared
      <4>1. b.delivered \in SUBSET Names /\ b.ended \in SUBSET Names
        BY <1>2 DEF Batches
      <4>2. cleared \in SUBSET Names /\ b.ended \cup {e.run} \in SUBSET Names
        BY <1>2, <3>3, <4>1
      <4>3. b.room - 1 \in Nat
        BY <1>2, <1>4 DEF Batches
      <4> DEFINE room == b.room - 1
                 ended == b.ended \cup {e.run}
      <4>4. c = [b EXCEPT !.room = room, !.ended = ended, !.delivered = cleared]
        BY <3>1, <1>2 DEF Batches
      <4> HIDE DEF room, ended
      <4>5. room \in Nat /\ ended \in SUBSET Names
        BY <4>2, <4>3 DEF room, ended
      <4>6. c \in Batches /\ c.rest = b.rest /\ c.ended = ended /\ c.delivered = cleared
        BY <1>2, <4>2, <4>4, <4>5 DEF Batches
      <4> QED BY <4>6 DEF ended
    <3>5. \A r \in c.ended : \E j \in 1..i : IsTerminal(q[j]) /\ q[j].run = r
      BY <1>2, <2>4, <2>7, <3>4 DEF e
    <3>6. \A j \in 1..i : IsTerminal(q[j]) => q[j].run \in c.ended \cup delivered
      BY <1>2, <2>3, <3>4 DEF e
    <3>7. TakenUpTo(q, i, c, i)
      BY <1>2, <2>2, <2>3, <3>2, <3>3, <3>4, <3>5, <3>6 DEF TakenUpTo
    <3> QED BY <1>2, <3>7 DEF Taken
  <2> QED BY <2>5, <2>6, <2>7
<1> QED BY <1>3, <1>4

\* All events.
LEMMA Delivered ==
    ASSUME NEW q \in Seq(Event), NEW limit \in Limits, NEW b \in Delivery(q, limit),
           delivered \subseteq Names, IsFiniteSet(delivered), Cardinality(delivered) <= MaxDelivered
    PROVE  Taken(q, Len(q), b)
<1> DEFINE f == CHOOSE g : IsDelivery(q, limit, Len(q), g)
           start == [rest |-> << >>, room |-> limit, ended |-> {}, delivered |-> delivered]
<1>0. Len(q) \in Nat /\ limit \in Nat
  BY GatewayAssumption
<1>1. IsDelivery(q, limit, Len(q), f)
  BY <1>0, DeliveryExists
<1>2. Delivery(q, limit) = f[Len(q)]
  BY Zenon DEF Delivery, IsDelivery
<1> HIDE DEF f
<1>3. \A i \in 0..Len(q) :
          f[i] = IF i = 0 THEN {start} ELSE {Deliver(batch, q[i]) : batch \in f[i - 1]}
  BY <1>1, Zenon DEF IsDelivery
<1> DEFINE Bad == {i \in 0..Len(q) : ~\A x \in f[i] : Taken(q, i, x)}
<1>4. \A x \in f[0] : Taken(q, 0, x)
  <2>1. f[0] = {start}
    <3>1. 0 \in 0..Len(q)
      BY <1>0
    <3> HIDE DEF start
    <3> QED BY <1>3, <3>1
  <2>2. << >> \in Seq(Event) /\ SubSeq(q, 1, 0) = << >>
    OBVIOUS
  <2>3. TakenUpTo(q, 0, start, 0)
    BY <1>0, <2>2 DEF TakenUpTo, Batches
  <2>4. Taken(q, 0, start)
    BY <2>3 DEF Taken
  <2> HIDE DEF start
  <2> QED BY <2>1, <2>4
<1>5. Bad = {}
  <2> SUFFICES ASSUME Bad # {} PROVE FALSE
    OBVIOUS
  <2>1. PICK i \in Bad : \A m \in Bad : ~(m < i)
    <3>1. Bad \in SUBSET Nat
      BY <1>0
    <3> HIDE DEF Bad
    <3> QED BY <3>1, LeastNumber
  <2>2. i \in 1..Len(q) /\ i - 1 \in 0..Len(q)
    BY <1>0, <2>1, <1>4
  <2>3. \A x \in f[i - 1] : Taken(q, i - 1, x)
    BY <2>1, <2>2
  <2>4. f[i] = {Deliver(batch, q[i]) : batch \in f[i - 1]}
    <3>1. i \in 0..Len(q) /\ i # 0
      BY <2>2
    <3> HIDE DEF start
    <3> QED BY <1>3, <3>1, Zenon
  <2>5. \A x \in f[i - 1] : Taken(q, i, Deliver(x, q[i]))
    BY <2>2, <2>3, DeliverNext
  <2>6. \A x \in f[i] : Taken(q, i, x)
    BY <2>4, <2>5, Zenon
  <2> QED BY <2>1, <2>6
<1> QED BY <1>0, <1>2, <1>5
-----------------------------------------------------------------------------
(***************************************************************************)
(* What is pushed.                                                         *)
(***************************************************************************)

\* The retention limit: a queue keeps its end, and the ends that fall out are in Dropped.
LEMMA Retained ==
    ASSUME NEW q \in Seq(Event)
    PROVE  LET s == Retain(q)
           IN  /\ s \in Seq(Event) /\ Len(s) <= MaxEvents
               /\ Contents(s) \subseteq Contents(q)
               /\ EndsIn(s) \subseteq EndsIn(q)
               /\ EndsIn(q) \subseteq EndsIn(s) \cup Dropped(q)
               /\ Dropped(q) \subseteq EndsIn(q)
               /\ Once(q) => Once(s)
<1> DEFINE s == Retain(q)
           k == Len(q) - Len(s)
<1>0. Len(q) \in Nat /\ MaxEvents \in Nat
  BY GatewayAssumption
<1>1. k \in 0..Len(q) /\ s = SubSeq(q, k + 1, Len(q)) /\ Len(s) <= MaxEvents
  <2>1. CASE Len(q) > MaxEvents
    <3>1. s = SubSeq(q, Len(q) - MaxEvents + 1, Len(q))
      BY <2>1 DEF Retain
    <3>2. Len(s) = MaxEvents
      BY <3>1, <2>1, <1>0
    <3> HIDE DEF s
    <3>3. k = Len(q) - MaxEvents
      BY <3>2
    <3>4. k \in 0..Len(q) /\ k + 1 = Len(q) - MaxEvents + 1
      BY <3>3, <2>1, <1>0
    <3>5. MaxEvents <= MaxEvents
      BY <1>0
    <3> HIDE DEF k
    <3> QED BY <3>1, <3>2, <3>4, <3>5
  <2>2. CASE ~(Len(q) > MaxEvents)
    <3>1. s = q
      BY <2>2 DEF Retain
    <3>2. q = SubSeq(q, 1, Len(q))
      OBVIOUS
    <3> QED BY <3>1, <3>2, <2>2, <1>0
  <2> QED BY <2>1, <2>2
<1>2. Dropped(q) = {q[i].run : i \in {j \in 1..k : IsTerminal(q[j])}}
  BY DEF Dropped
<1> HIDE DEF k, s
<1>3. /\ s \in Seq(Event) /\ Contents(s) \subseteq Contents(q) /\ EndsIn(s) \subseteq EndsIn(q)
      /\ Once(q) => Once(s)
      /\ \A r \in EndsIn(q) :
             r \in EndsIn(s) \/ \E i \in 1..k : IsTerminal(q[i]) /\ q[i].run = r
  BY <1>1, Suffix
<1>4. EndsIn(q) \subseteq EndsIn(s) \cup Dropped(q)
  BY <1>2, <1>3
<1>5. Dropped(q) \subseteq EndsIn(q)
  <2>1. 1..k \subseteq 1..Len(q)
    BY <1>0, <1>1
  <2> QED BY <1>2, <2>1, EndsAt
<1> QED BY <1>1, <1>3, <1>4, <1>5 DEF s

\* The runs of a queue of events have names.
LEMMA NamedEnds ==
    ASSUME NEW q \in Seq(Event)
    PROVE  EndsIn(q) \subseteq Names /\ \A e \in Contents(q) : e \in Event
<1>1. \A e \in Contents(q) : e \in Event
  BY DEF Contents
<1>2. \A e \in Event : e.run \in Names
  BY DEF Event, Names
<1> QED BY <1>1, <1>2 DEF EndsIn

\* A queue becomes `base` with the new events behind it.
Becomes(ss, base, new) ==
    /\ events' = [events EXCEPT ![ss] = Retain(base \o new)]
    /\ lost' = lost \cup Dropped(base \o new)

\* What is then in the queue, and what was dropped.
LEMMA Pushed ==
    ASSUME events \in [Sessions -> Seq(Event)], NEW ss \in Sessions,
           NEW base \in Seq(Event), NEW new \in Seq(Event), Becomes(ss, base, new)
    PROVE  /\ events' \in [Sessions -> Seq(Event)]
           /\ Len(events'[ss]) <= MaxEvents
           /\ \A tt \in Sessions : tt # ss => events'[tt] = events[tt]
           /\ Contents(events'[ss]) \subseteq Contents(base) \cup Contents(new)
           /\ EndsIn(events'[ss]) \subseteq EndsIn(base) \cup EndsIn(new)
           /\ EndsIn(base) \cup EndsIn(new) \subseteq EndsIn(events'[ss]) \cup lost'
           /\ lost \subseteq lost' /\ lost' \subseteq lost \cup Names
           /\ Once(base) /\ Once(new) /\ EndsIn(base) \cap EndsIn(new) = {} => Once(events'[ss])
<1> DEFINE all == base \o new
<1>1. /\ all \in Seq(Event) /\ Contents(all) = Contents(base) \cup Contents(new)
      /\ EndsIn(all) = EndsIn(base) \cup EndsIn(new)
      /\ Once(base) /\ Once(new) /\ EndsIn(base) \cap EndsIn(new) = {} => Once(all)
  BY Joining
<1>2. /\ events' = [events EXCEPT ![ss] = Retain(all)]
      /\ lost' = lost \cup Dropped(all)
  BY DEF Becomes
<1> HIDE DEF all
<1>3. /\ Retain(all) \in Seq(Event) /\ Len(Retain(all)) <= MaxEvents
      /\ Contents(Retain(all)) \subseteq Contents(all)
      /\ EndsIn(Retain(all)) \subseteq EndsIn(all)
      /\ EndsIn(all) \subseteq EndsIn(Retain(all)) \cup Dropped(all)
      /\ Dropped(all) \subseteq EndsIn(all)
      /\ Once(all) => Once(Retain(all))
  BY <1>1, Retained
<1>4. events'[ss] = Retain(all) /\ \A tt \in Sessions : tt # ss => events'[tt] = events[tt]
  BY <1>2
<1>5. EndsIn(all) \subseteq Names
  BY <1>1, NamedEnds
<1>6. events' \in [Sessions -> Seq(Event)]
  BY <1>2, <1>3
<1> QED BY <1>1, <1>2, <1>3, <1>4, <1>5, <1>6

\* Push puts new events behind the old ones.
LEMMA PushBecomes ==
    ASSUME NEW ss, NEW new, Push(ss, new), events \in [Sessions -> Seq(Event)], ss \in Sessions
    PROVE  Becomes(ss, events[ss], new)
  BY DEF Push, Becomes

\* The states of events that do not end a run.
Quiet == States \ Terminal

\* Events of a run that do not end it.
LEMMA RunEvents ==
    ASSUME NEW r \in Names, NEW states \in Seq(Quiet)
    PROVE  LET q == EventsOf(r, states)
           IN  /\ q \in Seq(Event) /\ EndsIn(q) = {} /\ Once(q)
               /\ \A e \in Contents(q) : e.run = r /\ e.state \in Quiet
<1> DEFINE q == EventsOf(r, states)
<1>1. /\ Len(q) = Len(states) /\ Len(states) \in Nat
      /\ \A i \in 1..Len(states) : states[i] \in Quiet
      /\ \A i \in 1..Len(states) : q[i].run = r /\ q[i].state = states[i]
  BY DEF EventsOf
<1>2. \A x \in Quiet : [run |-> r, state |-> x] \in Event
  BY DEF Event, Quiet, Names
<1>3. q \in Seq(Event)
  <2>1. \A i \in 1..Len(states) : [run |-> r, state |-> states[i]] \in Event
    BY <1>1, <1>2
  <2>2. [i \in 1..Len(states) |-> [run |-> r, state |-> states[i]]] \in Seq(Event)
    BY <1>1, <2>1, IsASeq
  <2> QED BY <2>2 DEF EventsOf
<1> HIDE DEF q
<1>4. \A e \in Contents(q) : e.run = r /\ e.state \in Quiet
  BY <1>1 DEF Contents
<1>5. \A i \in 1..Len(q) : ~IsTerminal(q[i])
  BY <1>1 DEF IsTerminal, Quiet
<1> QED BY <1>3, <1>4, <1>5 DEF EndsIn, Once, Contents, IsTerminal, Quiet, q

\* Events of a run of which the last ends it.
LEMMA RunEnds ==
    ASSUME NEW r \in Names, NEW states \in Seq(Quiet), NEW x \in Terminal
    PROVE  LET q == EventsOf(r, Append(states, x))
           IN  /\ q \in Seq(Event) /\ EndsIn(q) = {r} /\ Once(q)
               /\ \A e \in Contents(q) : e.run = r
<1> DEFINE all == Append(states, x)
           q == EventsOf(r, all)
           n == Len(states)
<1>1. /\ n \in Nat /\ Len(all) = n + 1 /\ all[n + 1] = x
      /\ \A i \in 1..n : all[i] = states[i] /\ states[i] \in Quiet
  OBVIOUS
<1>2. all \in Seq(States)
  <2>1. states \in Seq(States) /\ x \in States
    BY DEF Quiet, States
  <2> QED BY <2>1
<1> HIDE DEF all, n
<1>3. q = [i \in 1..(n + 1) |-> [run |-> r, state |-> all[i]]]
  BY <1>1 DEF EventsOf
<1>4. \A i \in 1..(n + 1) : [run |-> r, state |-> all[i]] \in Event
  BY <1>1, <1>2 DEF Event, Names
<1>5. q \in Seq(Event) /\ Len(q) = n + 1
  <2> DEFINE p == [i \in 1..(n + 1) |-> [run |-> r, state |-> all[i]]]
  <2>1. n + 1 \in Nat
    BY <1>1
  <2>2. p \in Seq(Event)
    BY <2>1, <1>4, IsASeq
  <2>3. Len(p) = n + 1
    BY <2>1
  <2> QED BY <1>3, <2>2, <2>3
<1>6. \A i \in 1..(n + 1) : q[i].run = r /\ q[i].state = all[i]
  BY <1>3
<1> HIDE DEF q
<1>7. \A e \in Contents(q) : e.run = r
  BY <1>5, <1>6 DEF Contents
<1>8. \A i \in 1..(n + 1) : IsTerminal(q[i]) <=> i = n + 1
  <2> TAKE i \in 1..(n + 1)
  <2>1. CASE i = n + 1
    BY <1>1, <1>6, <2>1 DEF IsTerminal
  <2>2. CASE i # n + 1
    <3>1. i \in 1..n
      BY <2>2, <1>1
    <3> QED BY <1>1, <1>6, <2>2, <3>1 DEF IsTerminal, Quiet
  <2> QED BY <2>1, <2>2
<1>9. Once(q)
  BY <1>5, <1>8 DEF Once
<1>10. EndsIn(q) = {r}
  <2>1. n + 1 \in 1..Len(q) /\ q[n + 1].run = r
    BY <1>1, <1>5, <1>6
  <2>2. r \in EndsIn(q)
    BY <2>1, <1>5, <1>8, EndsAt
  <2>3. EndsIn(q) \subseteq {r}
    BY <1>7 DEF EndsIn
  <2> QED BY <2>2, <2>3
<1> QED BY <1>5, <1>7, <1>9, <1>10 DEF q, all
-----------------------------------------------------------------------------
(***************************************************************************)
(* What a poll does.                                                       *)
(***************************************************************************)

\* A run is a record of its own kind.
LEMMA RunsTracked == \A x \in Runs : x # Untracked
<1>1. \A x \in Runs : x.text \in {"none", "text", "silent"}
  BY DEF Runs
<1>2. Untracked.text = "untracked"
  BY DEF Untracked
<1> QED BY <1>1, <1>2

\* A part of the answer is shown, or the run is found stalled; nothing is ended by that.
LEMMA RevealFacts ==
    ASSUME NEW run \in Runs, NEW p \in Reveals(run)
    PROVE  /\ p.run \in Runs /\ p.run.ended = run.ended /\ p.run.active = run.active
           /\ p.says = << >> \/ p.says = <<"delta">>
<1>1. \E x \in Runs, says \in {<< >>, <<"delta">>} :
          p = [run |-> x, says |-> says] /\ x.ended = run.ended /\ x.active = run.active
  <2>1. CASE p = [run |-> run, says |-> << >>]
    BY <2>1
  <2>2. CASE p = [run |-> [run EXCEPT !.failed = TRUE], says |-> << >>]
    <3>1. [run EXCEPT !.failed = TRUE] \in Runs
      BY DEF Runs
    <3> QED BY <2>2, <3>1 DEF Runs
  <2>3. CASE p = [run |-> [run EXCEPT !.left = FALSE], says |-> << >>]
    <3>1. [run EXCEPT !.left = FALSE] \in Runs
      BY DEF Runs
    <3> QED BY <2>3, <3>1 DEF Runs
  <2>4. CASE \E l, f \in BOOLEAN : p = Shown(run, l, f)
    <3>1. PICK l \in BOOLEAN, f \in BOOLEAN : p = Shown(run, l, f)
      BY <2>4
    <3> DEFINE x == [run EXCEPT !.left = l, !.full = f]
    <3>2. x \in Runs /\ x.ended = run.ended /\ x.active = run.active
      BY DEF Runs
    <3>3. p = [run |-> x, says |-> <<"delta">>]
      BY <3>1 DEF Shown
    <3> QED BY <3>2, <3>3
  <2> DEFINE same == [run |-> run, says |-> << >>]
             stalled == [run |-> [run EXCEPT !.failed = TRUE], says |-> << >>]
             known == [run |-> [run EXCEPT !.left = FALSE], says |-> << >>]
  <2> DEFINE shown == {Shown(run, l, f) : l, f \in BOOLEAN}
             rest == {Shown(run, FALSE, f) : f \in BOOLEAN}
             failing == IF ~run.failed /\ Unfinished(run) THEN {stalled} ELSE {}
             going == IF run.failed \/ Silent(run) \/ ~Unfinished(run) THEN {}
                      ELSE IF run.left THEN {known} \cup shown ELSE rest
  <2>5. Reveals(run) = {same} \cup failing \cup going
    BY DEF Reveals
  <2>6. failing \subseteq {stalled} /\ going \subseteq {known} \cup shown \cup rest
    <3> HIDE DEF stalled, known, shown, rest
    <3> QED OBVIOUS
  <2>7. \/ p = same \/ p = stalled \/ p = known \/ p \in shown \/ p \in rest
    <3> HIDE DEF same, stalled, known, shown, rest, failing, going
    <3> QED BY <2>5, <2>6
  <2>8. p \in shown => \E l, f \in BOOLEAN : p = Shown(run, l, f)
    OBVIOUS
  <2>9. p \in rest => \E l, f \in BOOLEAN : p = Shown(run, l, f)
    <3>1. p \in rest => \E f \in BOOLEAN : p = Shown(run, FALSE, f)
      OBVIOUS
    <3> QED BY <3>1
  <2> HIDE DEF shown, rest, failing, going
  <2> QED BY <2>1, <2>2, <2>3, <2>4, <2>7, <2>8, <2>9
<1> QED BY <1>1

\* The end is pushed exactly when the run is ended.
LEMMA ProcessFacts ==
    ASSUME NEW r \in RunIds, runs[r] \in Runs, NEW d \in ProcessRun(r)
    PROVE  /\ d.id = r /\ d.run \in Runs
           /\ d.says \in Seq(Event) /\ Once(d.says)
           /\ \A e \in Contents(d.says) : e.run = r
           /\ \/ /\ EndsIn(d.says) = {}
                 /\ d.run.ended = runs[r].ended /\ d.run.active = runs[r].active
              \/ /\ EndsIn(d.says) = {r}
                 /\ ~runs[r].ended /\ d.run.ended /\ ~d.run.active
<1>1. PICK p \in Reveals(runs[r]) :
          LET o == Finish(p) IN d = [id |-> r, run |-> o.run, says |-> EventsOf(r, o.says)]
  BY DEF ProcessRun
<1>2. /\ p.run \in Runs /\ p.run.ended = runs[r].ended /\ p.run.active = runs[r].active
      /\ p.says = << >> \/ p.says = <<"delta">>
  BY RevealFacts
<1>3. r \in Names /\ p.says \in Seq(Quiet)
  <2>1. << >> \in Seq(Quiet)
    OBVIOUS
  <2>2. "delta" \in Quiet
    BY DEF Quiet, States, Terminal
  <2>3. <<"delta">> \in Seq(Quiet)
    BY <2>2
  <2> QED BY <1>2, <2>1, <2>3 DEF Names
<1>4. CASE StreamCompleted(p.run) /\ NotEnded(p.run)
  <2> DEFINE x == IF p.run.failed THEN "error" ELSE p.run.state
  <2>1. Finish(p) = [run |-> Ended(p.run), says |-> Append(p.says, x)]
    BY <1>4, Zenon DEF Finish
  <2>2. x \in Terminal
    BY <1>2 DEF Runs, Terminal
  <2> HIDE DEF x
  <2>3. /\ Ended(p.run) \in Runs /\ Ended(p.run).ended /\ ~Ended(p.run).active
    BY <1>2 DEF Ended, Runs
  <2>4. /\ d.id = r /\ d.run = Ended(p.run) /\ d.says = EventsOf(r, Append(p.says, x))
    BY <1>1, <2>1
  <2>5. /\ d.says \in Seq(Event) /\ EndsIn(d.says) = {r} /\ Once(d.says)
        /\ \A e \in Contents(d.says) : e.run = r
    BY <1>3, <2>2, <2>4, RunEnds
  <2>6. ~runs[r].ended
    BY <1>2, <1>4 DEF NotEnded
  <2> QED BY <2>3, <2>4, <2>5, <2>6
<1>5. CASE ~(StreamCompleted(p.run) /\ NotEnded(p.run))
  <2>1. Finish(p) = p
    BY <1>5 DEF Finish
  <2>2. /\ d.id = r /\ d.run = p.run /\ d.says = EventsOf(r, p.says)
    BY <1>1, <2>1
  <2>3. /\ d.says \in Seq(Event) /\ EndsIn(d.says) = {} /\ Once(d.says)
        /\ \A e \in Contents(d.says) : e.run = r
    BY <1>3, <2>2, RunEvents
  <2> QED BY <1>2, <2>2, <2>3
<1> QED BY <1>4, <1>5

\* The types of what a poll reads.
QueuesTyped ==
    /\ runs \in [RunIds -> Runs \cup {Untracked}]
    /\ events \in [Sessions -> Seq(Event)]
    /\ delivered \subseteq Names /\ IsFiniteSet(delivered) /\ Cardinality(delivered) <= MaxDelivered
    /\ IsFiniteSet({r \in RunIds : Tracked(r)})

\* The runs that a poll has ended, when it has turned runs into mid.
EndedHere(ss, mid) == {r \in Active(ss) : ~runs[r].ended /\ mid[r].ended}

\* The active runs of the session go on or are ended.
GoOn(ss, mid) ==
    /\ mid \in [RunIds -> Runs \cup {Untracked}]
    /\ \A r \in RunIds :
          \/ mid[r] = runs[r]
          \/ /\ r \in Active(ss) /\ mid[r] \in Runs
             /\ \/ mid[r].ended = runs[r].ended /\ mid[r].active = runs[r].active
                \/ ~runs[r].ended /\ mid[r].ended /\ ~mid[r].active

\* The reconciliation of active runs, and what it pushes.
LEMMA ReconciledFacts ==
    ASSUME QueuesTyped, NEW ss \in Sessions, NEW done \in Reconciliations(ss)
    PROVE  LET new == FlattenSeq([k \in DOMAIN done |-> done[k].says])
               mid == Reconciled(done)
           IN  /\ GoOn(ss, mid)
               /\ new \in Seq(Event) /\ Once(new)
               /\ EndsIn(new) = EndedHere(ss, mid)
               /\ \A e \in Contents(new) : e.run \in Active(ss)
<1> DEFINE A == Active(ss)
           steps == UNION {ProcessRun(r) : r \in A}
           n == IF Cardinality(A) < MaxReconciled THEN Cardinality(A) ELSE MaxReconciled
           mid == Reconciled(done)
           seqs == [k \in DOMAIN done |-> done[k].says]
           new == FlattenSeq(seqs)
<1>1. n \in Nat
  <2>1. A \subseteq {r \in RunIds : Tracked(r)}
    BY DEF Active
  <2>2. Cardinality(A) \in Nat
    BY <2>1, FS_Subset, FS_CardinalityType DEF QueuesTyped
  <2> QED BY <2>2, GatewayAssumption
<1>2. /\ done \in [1..n -> steps]
      /\ \A k, l \in 1..n : done[k].id = done[l].id => k = l
  BY Zenon DEF Reconciliations
<1> HIDE DEF n
<1>3. \A r \in A : r \in RunIds /\ runs[r] \in Runs /\ runs[r].active
  BY DEF Active, Tracked, QueuesTyped
<1>4. ASSUME NEW k \in 1..n
      PROVE  LET d == done[k] r == done[k].id
             IN  /\ r \in A /\ d.run \in Runs
                 /\ d.says \in Seq(Event) /\ Once(d.says)
                 /\ \A e \in Contents(d.says) : e.run = r
                 /\ \/ /\ EndsIn(d.says) = {}
                       /\ d.run.ended = runs[r].ended /\ d.run.active = runs[r].active
                    \/ /\ EndsIn(d.says) = {r}
                       /\ ~runs[r].ended /\ d.run.ended /\ ~d.run.active
  <2>1. PICK r \in A : done[k] \in ProcessRun(r)
    BY <1>2
  <2> HIDE DEF A
  <2>2. r \in RunIds /\ runs[r] \in Runs
    BY <1>3
  <2>3. /\ done[k].id = r /\ done[k].run \in Runs
        /\ done[k].says \in Seq(Event) /\ Once(done[k].says)
        /\ \A e \in Contents(done[k].says) : e.run = r
        /\ \/ /\ EndsIn(done[k].says) = {}
              /\ done[k].run.ended = runs[r].ended /\ done[k].run.active = runs[r].active
           \/ /\ EndsIn(done[k].says) = {r}
              /\ ~runs[r].ended /\ done[k].run.ended /\ ~done[k].run.active
    BY <2>1, <2>2, ProcessFacts, Zenon
  <2> QED BY <2>1, <2>3
<1> HIDE DEF A, steps
<1>5. /\ mid = [r \in RunIds |-> IF \E k \in 1..n : done[k].id = r
                                THEN done[CHOOSE k \in 1..n : done[k].id = r].run
                                ELSE runs[r]]
      /\ DOMAIN done = 1..n
  BY <1>2 DEF Reconciled
<1>6. ASSUME NEW k \in 1..n PROVE mid[done[k].id] = done[k].run
  <2> DEFINE r == done[k].id
             c == CHOOSE l \in 1..n : done[l].id = r
  <2>1. c \in 1..n /\ done[c].id = r
    OBVIOUS
  <2>2. c = k
    BY <2>1, <1>2
  <2>3. r \in RunIds
    BY <1>4, <1>3
  <2> HIDE DEF mid
  <2>4. mid[r] = done[c].run
    BY <1>5, <2>3
  <2> QED BY <2>2, <2>4
<1>7. ASSUME NEW r \in RunIds, ~\E k \in 1..n : done[k].id = r PROVE mid[r] = runs[r]
  BY <1>5, <1>7
<1> HIDE DEF mid
<1>8. GoOn(ss, mid)
  <2>1. ASSUME NEW r \in RunIds
        PROVE  /\ mid[r] \in Runs \cup {Untracked}
               /\ \/ mid[r] = runs[r]
                  \/ /\ r \in Active(ss) /\ mid[r] \in Runs
                     /\ \/ mid[r].ended = runs[r].ended /\ mid[r].active = runs[r].active
                        \/ ~runs[r].ended /\ mid[r].ended /\ ~mid[r].active
    <3>1. CASE \E k \in 1..n : done[k].id = r
      <4>1. PICK k \in 1..n : done[k].id = r
        BY <3>1
      <4> QED BY <4>1, <1>4, <1>6 DEF A
    <3>2. CASE ~\E k \in 1..n : done[k].id = r
      BY <3>2, <1>7 DEF QueuesTyped
    <3> QED BY <3>1, <3>2
  <2>2. mid \in [RunIds -> Runs \cup {Untracked}]
    BY <2>1, <1>5
  <2> QED BY <2>1, <2>2 DEF GoOn
<1>9. \A k \in 1..n : seqs[k] = done[k].says
  BY <1>5
<1>10. seqs \in [1..n -> Seq(Event)]
  BY <1>4, <1>5, <1>9
<1> HIDE DEF seqs
<1>11. FlatUpTo(seqs, new, n)
  BY <1>1, <1>10, Flat
<1> HIDE DEF new
<1>12. \A e : e \in Contents(new) <=> \E k \in 1..n : e \in Contents(done[k].says)
  BY <1>9, <1>11 DEF FlatUpTo
<1>13. \A e \in Contents(new) : e.run \in Active(ss)
  BY <1>12, <1>4 DEF A
<1>14. \A r : r \in EndsIn(new) <=> \E k \in 1..n : r \in EndsIn(done[k].says)
  BY <1>12 DEF EndsIn
<1>15. EndsIn(new) = EndedHere(ss, mid)
  <2>1. ASSUME NEW r \in EndsIn(new) PROVE r \in EndedHere(ss, mid)
    <3>1. PICK k \in 1..n : r \in EndsIn(done[k].says)
      BY <1>14
    <3>2. done[k].id = r /\ ~runs[r].ended /\ done[k].run.ended /\ r \in A
      BY <3>1, <1>4
    <3> QED BY <3>2, <1>6 DEF EndedHere, A
  <2>2. ASSUME NEW r \in EndedHere(ss, mid) PROVE r \in EndsIn(new)
    <3>1. r \in RunIds /\ ~runs[r].ended /\ mid[r].ended
      BY DEF EndedHere, Active
    <3>2. PICK k \in 1..n : done[k].id = r
      BY <3>1, <1>7
    <3>3. done[k].run.ended
      BY <3>1, <3>2, <1>6
    <3>4. r \in EndsIn(done[k].says)
      BY <3>1, <3>2, <3>3, <1>4
    <3> QED BY <3>4, <1>14
  <2> QED BY <2>1, <2>2
<1>16. Once(new)
  <2>1. \A k \in 1..n : Once(seqs[k]) /\ EndsIn(seqs[k]) \subseteq {done[k].id}
    BY <1>4, <1>9
  <2>2. ASSUME NEW k \in 1..n, NEW l \in 1..n, k # l
        PROVE  EndsIn(seqs[k]) \cap EndsIn(seqs[l]) = {}
    BY <2>1, <2>2, <1>2
  <2> QED BY <2>1, <2>2, <1>11 DEF FlatUpTo
<1> QED BY <1>8, <1>11, <1>13, <1>15, <1>16 DEF FlatUpTo, new, seqs, mid

\* A poll: active runs go on or are ended, then the ends in `ended` are sent.
Polls(ss, mid, ended) ==
    /\ GoOn(ss, mid) /\ ended \subseteq Names
    /\ runs' = Forget(mid, ended) /\ keys' = ForgetKeys(ended)
    /\ events' \in [Sessions -> Seq(Event)] /\ Len(events'[ss]) <= MaxEvents
    /\ \A tt \in Sessions : tt # ss => events'[tt] = events[tt]
    /\ \A e \in Contents(events'[ss]) : e \in Contents(events[ss]) \/ e.run \in Active(ss)
    /\ EndsIn(events'[ss]) \cup ended \subseteq EndsIn(events[ss]) \cup EndedHere(ss, mid)
    /\ EndsIn(events[ss]) \cup EndedHere(ss, mid)
           \subseteq EndsIn(events'[ss]) \cup ended \cup delivered \cup lost'
    /\ Once(events[ss]) /\ EndsIn(events[ss]) \cap EndedHere(ss, mid) = {} =>
           Once(events'[ss]) /\ EndsIn(events'[ss]) \cap ended = {}
    /\ delivered' \subseteq delivered \cup ended
    /\ IsFiniteSet(delivered') /\ Cardinality(delivered') <= MaxDelivered
    /\ lost \subseteq lost' /\ lost' \subseteq lost \cup Names

\* Every chat.events.poll is such a step.
LEMMA Polled ==
    ASSUME QueuesTyped, NEW ss \in Sessions, NEW limit \in Limits, Poll(ss, limit)
    PROVE  \E mid, ended : Polls(ss, mid, ended)
<1>1. PICK done \in Reconciliations(ss) :
          LET all == events[ss] \o FlattenSeq([k \in DOMAIN done |-> done[k].says])
          IN  \E batch \in Delivery(Retain(all), limit) :
                  /\ events' = [events EXCEPT ![ss] = batch.rest]
                  /\ lost' = lost \cup Dropped(all)
                  /\ delivered' = batch.delivered
                  /\ runs' = Forget(Reconciled(done), batch.ended)
                  /\ keys' = ForgetKeys(batch.ended)
  BY Zenon DEF Poll, PollWith
<1> DEFINE new == FlattenSeq([k \in DOMAIN done |-> done[k].says])
           mid == Reconciled(done)
           all == events[ss] \o new
           q == Retain(all)
<1>2. /\ GoOn(ss, mid)
      /\ new \in Seq(Event) /\ Once(new)
      /\ EndsIn(new) = EndedHere(ss, mid)
      /\ \A e \in Contents(new) : e.run \in Active(ss)
  BY ReconciledFacts
<1>3. PICK b \in Delivery(q, limit) :
          /\ events' = [events EXCEPT ![ss] = b.rest]
          /\ lost' = lost \cup Dropped(all)
          /\ delivered' = b.delivered
          /\ runs' = Forget(mid, b.ended)
          /\ keys' = ForgetKeys(b.ended)
  BY <1>1
<1> HIDE DEF new, mid
<1>4. events[ss] \in Seq(Event)
  BY DEF QueuesTyped
<1>5. /\ all \in Seq(Event) /\ Contents(all) = Contents(events[ss]) \cup Contents(new)
      /\ EndsIn(all) = EndsIn(events[ss]) \cup EndedHere(ss, mid)
      /\ Once(events[ss]) /\ EndsIn(events[ss]) \cap EndedHere(ss, mid) = {} => Once(all)
  BY <1>2, <1>4, Joining
<1> HIDE DEF all
<1>6. /\ q \in Seq(Event) /\ Len(q) <= MaxEvents
      /\ Contents(q) \subseteq Contents(all)
      /\ EndsIn(q) \subseteq EndsIn(all)
      /\ EndsIn(all) \subseteq EndsIn(q) \cup Dropped(all)
      /\ Dropped(all) \subseteq EndsIn(all)
      /\ Once(all) => Once(q)
  BY <1>5, Retained
<1> HIDE DEF q
<1>7. Len(q) \in Nat /\ MaxEvents \in Nat
  BY <1>6, GatewayAssumption
<1>8. PICK k \in 0..Len(q) : TakenUpTo(q, Len(q), b, k)
  <2>1. Taken(q, Len(q), b)
    BY <1>6, Delivered DEF QueuesTyped
  <2> QED BY <2>1 DEF Taken
<1>9. /\ b \in Batches /\ b.rest = SubSeq(q, k + 1, Len(q))
      /\ \A j \in 1..k : IsTerminal(q[j]) => q[j].run \in b.ended \cup delivered
      /\ \A r \in b.ended : \E j \in 1..k : IsTerminal(q[j]) /\ q[j].run = r
      /\ b.delivered \subseteq delivered \cup b.ended
      /\ IsFiniteSet(b.delivered) /\ Cardinality(b.delivered) <= MaxDelivered
  BY <1>8 DEF TakenUpTo
<1>10. /\ b.rest \in Seq(Event) /\ Len(b.rest) = Len(q) - k
       /\ Contents(b.rest) \subseteq Contents(q)
       /\ EndsIn(b.rest) \subseteq EndsIn(q)
       /\ Once(q) => Once(b.rest)
       /\ \A r \in EndsIn(q) :
              r \in EndsIn(b.rest) \/ \E i \in 1..k : IsTerminal(q[i]) /\ q[i].run = r
       /\ Once(q) => \A i \in 1..k : IsTerminal(q[i]) => q[i].run \notin EndsIn(b.rest)
  BY <1>6, <1>8, <1>9, Suffix
<1>11. /\ events' \in [Sessions -> Seq(Event)] /\ events'[ss] = b.rest
       /\ \A tt \in Sessions : tt # ss => events'[tt] = events[tt]
  BY <1>3, <1>10 DEF QueuesTyped
<1>12. Len(events'[ss]) <= MaxEvents
  BY <1>6, <1>7, <1>8, <1>10, <1>11
<1>13. b.ended \subseteq Names /\ b.ended \subseteq EndsIn(q)
  <2>1. b.ended \subseteq Names
    BY <1>9 DEF Batches
  <2>2. 1..k \subseteq 1..Len(q)
    BY <1>7, <1>8
  <2>3. \A r \in b.ended : r \in EndsIn(q)
    BY <1>9, <2>2, EndsAt
  <2> QED BY <2>1, <2>3
<1>14. \A e \in Contents(events'[ss]) : e \in Contents(events[ss]) \/ e.run \in Active(ss)
  BY <1>2, <1>5, <1>6, <1>10, <1>11
<1>15. EndsIn(events'[ss]) \cup b.ended \subseteq EndsIn(events[ss]) \cup EndedHere(ss, mid)
  BY <1>5, <1>6, <1>10, <1>11, <1>13
<1>16. EndsIn(q) \subseteq EndsIn(b.rest) \cup b.ended \cup delivered
  BY <1>9, <1>10
<1>17. EndsIn(events[ss]) \cup EndedHere(ss, mid)
           \subseteq EndsIn(events'[ss]) \cup b.ended \cup delivered \cup lost'
  BY <1>3, <1>5, <1>6, <1>11, <1>16
<1>18. Once(events[ss]) /\ EndsIn(events[ss]) \cap EndedHere(ss, mid) = {} =>
           Once(events'[ss]) /\ EndsIn(events'[ss]) \cap b.ended = {}
  <2> SUFFICES ASSUME Once(events[ss]), EndsIn(events[ss]) \cap EndedHere(ss, mid) = {}
               PROVE  Once(events'[ss]) /\ EndsIn(events'[ss]) \cap b.ended = {}
    OBVIOUS
  <2>1. Once(q)
    BY <1>5, <1>6
  <2>2. \A r \in b.ended : r \notin EndsIn(b.rest)
    BY <1>9, <1>10, <2>1
  <2> QED BY <1>10, <1>11, <2>1, <2>2
<1>19. lost \subseteq lost' /\ lost' \subseteq lost \cup Names
  <2>1. EndsIn(all) \subseteq Names
    BY <1>5, NamedEnds
  <2> QED BY <1>3, <1>6, <2>1
<1>20. Polls(ss, mid, b.ended)
  <2>1. /\ delivered' \subseteq delivered \cup b.ended
        /\ IsFiniteSet(delivered') /\ Cardinality(delivered') <= MaxDelivered
    BY <1>3, <1>9
  <2> QED BY <1>2, <1>3, <1>11, <1>12, <1>13, <1>14, <1>15, <1>17, <1>18, <1>19, <2>1, Zenon
          DEF Polls
<1> QED BY <1>20
-----------------------------------------------------------------------------
(***************************************************************************)
(* What a send pushes.                                                     *)
(***************************************************************************)

\* Late joiners are sent deltas only.
LEMMA Replayed ==
    ASSUME QueuesTyped, runOf \in [Sends -> RunIds], NEW s \in Sends,
           NEW replay \in Replays(s) \cup {<< >>}
    PROVE  replay \in Seq(Event)
<1> DEFINE talking == Talking(SessionOf[runOf[s]])
<1>1. CASE replay = << >>
  BY <1>1
<1>2. CASE replay # << >>
  <2>0. replay \in {[i \in DOMAIN order |-> [run |-> order[i], state |-> "delta"]] :
                        order \in UNION {Orders(talking, n) : n \in 0..Cardinality(talking)}}
    BY <1>2, Zenon DEF Replays
  <2>1. PICK n \in 0..Cardinality(talking) : \E order \in Orders(talking, n) :
            replay = [i \in DOMAIN order |-> [run |-> order[i], state |-> "delta"]]
    <3> HIDE DEF talking
    <3> QED BY <2>0
  <2>11. PICK order \in Orders(talking, n) :
            replay = [i \in DOMAIN order |-> [run |-> order[i], state |-> "delta"]]
    BY <2>1
  <2>2. talking \subseteq RunIds /\ IsFiniteSet(talking)
    <3>1. talking \subseteq {r \in RunIds : Tracked(r)}
      BY DEF Talking
    <3> QED BY <3>1, FS_Subset DEF QueuesTyped
  <2>3. Cardinality(talking) \in Nat
    BY <2>2, FS_CardinalityType
  <2>4. n \in Nat /\ order \in [1..n -> RunIds]
    <3>1. n \in Nat
      BY <2>3
    <3>2. order \in [1..n -> talking]
      BY Zenon DEF Orders
    <3> HIDE DEF talking
    <3> QED BY <2>2, <3>1, <3>2
  <2>5. replay = [i \in 1..n |-> [run |-> order[i], state |-> "delta"]]
    BY <2>11, <2>4
  <2>6. \A i \in 1..n : [run |-> order[i], state |-> "delta"] \in Event
    BY <2>4 DEF Event, States
  <2> QED BY <2>4, <2>5, <2>6, IsASeq
<1> QED BY <1>1, <1>2

\* The states of the events of a send's end, of which the last may end the run.
EndStates(direct, says, last) ==
    (IF direct THEN <<"queued", "started">> ELSE << >>)
    \o (IF says THEN <<"delta">> ELSE << >>)
    \o last

\* What these events are, with an end and without.
LEMMA EndEvents ==
    ASSUME NEW r \in Names, NEW direct \in BOOLEAN, NEW says \in BOOLEAN, NEW x \in Terminal
    PROVE  /\ LET q == EventsOf(r, EndStates(direct, says, <<x>>))
              IN  q \in Seq(Event) /\ EndsIn(q) = {r} /\ Once(q) /\ \A e \in Contents(q) : e.run = r
           /\ LET q == EventsOf(r, EndStates(direct, says, << >>))
              IN  q \in Seq(Event) /\ EndsIn(q) = {} /\ Once(q) /\ \A e \in Contents(q) : e.run = r
<1> DEFINE opens == IF direct THEN <<"queued", "started">> ELSE << >>
           talks == IF says THEN <<"delta">> ELSE << >>
           states == opens \o talks
<1>1. "queued" \in Quiet /\ "started" \in Quiet /\ "delta" \in Quiet
  BY DEF Quiet, States, Terminal
<1>2. opens \in Seq(Quiet) /\ talks \in Seq(Quiet)
  BY <1>1
<1>3. /\ EndStates(direct, says, <<x>>) = states \o <<x>>
      /\ EndStates(direct, says, << >>) = states \o << >>
  BY Zenon DEF EndStates
<1> HIDE DEF opens, talks
<1>4. states \in Seq(Quiet)
  BY <1>2
<1> HIDE DEF states
<1>5. states \o <<x>> = Append(states, x) /\ states \o << >> = states
  BY <1>4
<1>6. LET q == EventsOf(r, Append(states, x))
      IN  q \in Seq(Event) /\ EndsIn(q) = {r} /\ Once(q) /\ \A e \in Contents(q) : e.run = r
  BY <1>4, RunEnds
<1>7. LET q == EventsOf(r, states)
      IN  q \in Seq(Event) /\ EndsIn(q) = {} /\ Once(q) /\ \A e \in Contents(q) : e.run = r
  BY <1>4, RunEvents
<1> QED BY <1>3, <1>5, <1>6, <1>7, Zenon

\* The run x a send leaves behind; when it was ended just now, `new` has its end.
Leaves(s, x, new) ==
    LET r == runOf[s]
    IN  /\ x \in Runs /\ new \in Seq(Event) /\ Once(new)
        /\ \A e \in Contents(new) : e.run = r
        /\ EndsIn(new) = {} \/ (EndsIn(new) = {r} /\ x.ended)
        /\ Tracked(r) /\ runs[r].ended => x.ended /\ EndsIn(new) = {}
        /\ ~(Tracked(r) /\ runs[r].ended) /\ x.ended => EndsIn(new) = {r}
        /\ (Tracked(r) /\ pc[s] = "direct") \/ x.ended \/ x.active

\* The end of chat.send leaves such a run, on every path through it.
LEMMA SendLeaves ==
    ASSUME QueuesTyped, runOf \in [Sends -> RunIds], NEW s \in Sends, NEW result \in Results,
           SendEnds(s, result)
    PROVE  \E x, new : /\ Leaves(s, x, new)
                       /\ Push(SessionOf[runOf[s]], new)
                       /\ runs' = [runs EXCEPT ![runOf[s]] = x]
<1> DEFINE r == runOf[s]
           direct == pc[s] = "direct"
           streamed == deltas[s] > 0
           says == ~streamed /\ result \in {"text", "recovered"}
<1>0. \E full, left \in BOOLEAN, state \in {"final", "needs_approval"} :
          /\ FitsText(result, streamed, direct, full, left)
          /\ state = "needs_approval" => direct
          /\ LET run == IF ~Tracked(r) THEN Inserted(result, full, left, state)
                        ELSE IF direct THEN runs[r] ELSE Update(runs[r], result, streamed)
                 ends == FastPath(run, result)
                 talks == ~streamed /\ result \in {"text", "recovered"}
             IN  /\ runs' = [runs EXCEPT ![r] = IF ends THEN Ended(run) ELSE run]
                 /\ Push(SessionOf[r],
                         EventsOf(r, (IF direct THEN <<"queued", "started">> ELSE << >>)
                                     \o (IF talks THEN <<"delta">> ELSE << >>)
                                     \o (IF ends THEN <<run.state>> ELSE << >>)))
  BY Zenon DEF SendEnds
<1>1. PICK full \in BOOLEAN, left \in BOOLEAN, state \in {"final", "needs_approval"} :
          /\ FitsText(result, streamed, direct, full, left)
          /\ state = "needs_approval" => direct
          /\ LET run == IF ~Tracked(r) THEN Inserted(result, full, left, state)
                        ELSE IF direct THEN runs[r] ELSE Update(runs[r], result, streamed)
                 ends == FastPath(run, result)
                 talks == ~streamed /\ result \in {"text", "recovered"}
             IN  /\ runs' = [runs EXCEPT ![r] = IF ends THEN Ended(run) ELSE run]
                 /\ Push(SessionOf[r],
                         EventsOf(r, (IF direct THEN <<"queued", "started">> ELSE << >>)
                                     \o (IF talks THEN <<"delta">> ELSE << >>)
                                     \o (IF ends THEN <<run.state>> ELSE << >>)))
  BY <1>0, Zenon
<1> DEFINE run == IF ~Tracked(r) THEN Inserted(result, full, left, state)
                  ELSE IF direct THEN runs[r] ELSE Update(runs[r], result, streamed)
           ends == FastPath(run, result)
           x == IF ends THEN Ended(run) ELSE run
<1>2. r \in RunIds /\ r \in Names /\ result \in {"text", "silent", "failed", "recovered"}
  BY GatewayAssumption DEF Names
<1>3. Tracked(r) => runs[r] \in Runs
  BY <1>2 DEF Tracked, QueuesTyped
<1> HIDE DEF r, direct, streamed
<1>4. /\ run \in Runs
      /\ Tracked(r) => run.ended = runs[r].ended
      /\ ~Tracked(r) => ~run.ended
      /\ (Tracked(r) /\ direct) \/ run.active
  <2>1. TextOf(result) \in {"none", "text", "silent"}
    BY <1>2 DEF TextOf
  <2>2. CASE ~Tracked(r)
    <3>1. run = Inserted(result, full, left, state)
      BY <2>2
    <3>2. Inserted(result, full, left, state) \in Runs
      BY <2>1 DEF Inserted, Runs
    <3> QED BY <2>2, <3>1, <3>2 DEF Inserted
  <2>3. CASE Tracked(r) /\ direct
    <3>1. run = runs[r]
      BY <2>3
    <3> QED BY <1>3, <2>3, <3>1
  <2>4. CASE Tracked(r) /\ ~direct
    <3>1. run = Update(runs[r], result, streamed)
      BY <2>4
    <3>2. streamed \in BOOLEAN
      BY DEF streamed
    <3>3. /\ Update(runs[r], result, streamed) \in Runs
          /\ Update(runs[r], result, streamed).ended = runs[r].ended
          /\ Update(runs[r], result, streamed).active
      <4> DEFINE failed == result \in {"failed", "recovered"}
                 text == IF failed THEN "none" ELSE TextOf(result)
                 full2 == streamed \/ failed
                 left2 == ~streamed /\ ~failed
                 state2 == IF failed THEN "error" ELSE "final"
      <4>1. /\ text \in {"none", "text", "silent"} /\ full2 \in BOOLEAN /\ left2 \in BOOLEAN
            /\ state2 \in {"final", "error", "needs_approval"} /\ failed \in BOOLEAN
        BY <2>1, <3>2
      <4>2. Update(runs[r], result, streamed) =
                [runs[r] EXCEPT !.active = TRUE, !.failed = failed, !.text = text,
                                !.full = full2, !.left = left2, !.state = state2]
        BY DEF Update
      <4> HIDE DEF failed, text, full2, left2, state2
      <4>3. runs[r] \in Runs
        BY <1>3, <2>4
      <4> QED BY <4>1, <4>2, <4>3 DEF Runs
    <3> QED BY <2>4, <3>1, <3>3
  <2> QED BY <2>2, <2>3, <2>4
<1> HIDE DEF run
<1>5. ends => ~run.ended
  BY DEF FastPath, NotEnded
<1>6. ends \in BOOLEAN
  BY DEF FastPath
<1> HIDE DEF ends
<1>7. /\ x \in Runs
      /\ ends => x.ended
      /\ ~ends => x.ended = run.ended /\ x.active = run.active
  <2>1. Ended(run) \in Runs /\ Ended(run).ended
    BY <1>4 DEF Ended, Runs
  <2> QED BY <1>4, <1>6, <2>1
<1> DEFINE new == EventsOf(r, EndStates(direct, says, IF ends THEN <<run.state>> ELSE << >>))
<1>8. /\ new \in Seq(Event) /\ Once(new)
      /\ (ends => EndsIn(new) = {r}) /\ (~ends => EndsIn(new) = {})
      /\ \A e \in Contents(new) : e.run = r
  <2>1. run.state \in Terminal
    BY <1>4 DEF Runs, Terminal
  <2>2. direct \in BOOLEAN /\ says \in BOOLEAN
    BY DEF direct
  <2> HIDE DEF says
  <2>3. CASE ends
    <3>2. new = EventsOf(r, EndStates(direct, says, <<run.state>>))
      BY <2>3
    <3> HIDE DEF new
    <3>3. /\ new \in Seq(Event) /\ Once(new) /\ EndsIn(new) = {r}
          /\ \A e \in Contents(new) : e.run = r
      BY <1>2, <2>1, <2>2, <3>2, EndEvents, ZenonT(30)
    <3> QED BY <2>3, <3>3
  <2>4. CASE ~ends
    <3>2. new = EventsOf(r, EndStates(direct, says, << >>))
      BY <2>4
    <3> HIDE DEF new
    <3> QED BY <1>2, <2>1, <2>2, <2>4, <3>2, EndEvents
  <2> QED BY <2>3, <2>4
<1> HIDE DEF new, says, x
<1>9. Leaves(s, x, new)
  <2>1. Tracked(r) /\ runs[r].ended => x.ended /\ EndsIn(new) = {}
    BY <1>4, <1>5, <1>7, <1>8
  <2>2. ~(Tracked(r) /\ runs[r].ended) /\ x.ended => EndsIn(new) = {r}
    BY <1>4, <1>6, <1>7, <1>8
  <2>3. (Tracked(r) /\ direct) \/ x.ended \/ x.active
    BY <1>4, <1>6, <1>7
  <2>4. EndsIn(new) = {} \/ (EndsIn(new) = {r} /\ x.ended)
    BY <1>6, <1>7, <1>8
  <2> QED BY <1>7, <1>8, <2>1, <2>2, <2>3, <2>4 DEF Leaves, r, direct
<1>10. runs' = [runs EXCEPT ![r] = x] /\ Push(SessionOf[r], new)
  BY <1>1, Zenon DEF run, ends, x, new, says, EndStates
<1> QED BY <1>9, <1>10 DEF r
-----------------------------------------------------------------------------
(***************************************************************************)
(* Types and keys.                                                         *)
(***************************************************************************)
TypesInv ==
    /\ runOf \in Keyings
    /\ QueuesTyped
    /\ \A ss \in Sessions : Len(events[ss]) <= MaxEvents
    /\ keys \subseteq RunIds /\ KeyMeansTracked
    /\ pc \in [Sends -> {"idle", "runtime", "direct", "returned", "refused"}]
    /\ deltas \in [Sends -> 0..MaxDeltas]
    /\ injected \subseteq Injections
    /\ lost \cup stopped \subseteq Names

\* The types hold at the start.
LEMMA TypesInit == Init => TypesInv
<1> SUFFICES ASSUME Init PROVE TypesInv
  OBVIOUS
<1>1. IsFiniteSet({}) /\ Cardinality({}) = 0 /\ 0 <= MaxDelivered
  BY FS_EmptySet, GatewayAssumption
<1>2. {r \in RunIds : Tracked(r)} = {}
  BY DEF Init, Tracked
<1>3. QueuesTyped
  <2>1. << >> \in Seq(Event)
    OBVIOUS
  <2>2. events \in [Sessions -> Seq(Event)]
    BY <2>1 DEF Init
  <2>3. IsFiniteSet({r \in RunIds : Tracked(r)})
    BY <1>1, <1>2
  <2>4. runs \in [RunIds -> Runs \cup {Untracked}]
    BY DEF Init
  <2>5. delivered = {}
    BY DEF Init
  <2> QED BY <1>1, <2>2, <2>3, <2>4, <2>5 DEF QueuesTyped
<1>4. \A ss \in Sessions : Len(events[ss]) <= MaxEvents
  BY GatewayAssumption DEF Init
<1>5. deltas \in [Sends -> 0..MaxDeltas]
  BY GatewayAssumption DEF Init
<1> QED BY <1>3, <1>4, <1>5 DEF Init, TypesInv, KeyMeansTracked

\* A step that changes one run and puts events behind one queue.
LEMMA TypesPush ==
    ASSUME TypesInv, NEW ss \in Sessions, NEW base \in Seq(Event), NEW new \in Seq(Event),
           Becomes(ss, base, new), NEW r,
           runs' \in [RunIds -> Runs \cup {Untracked}],
           \A x \in RunIds : x # r => runs'[x] = runs[x],
           runOf' = runOf, delivered' \subseteq delivered,
           keys' \subseteq RunIds, \A x \in keys' : runs'[x] # Untracked,
           pc' \in [Sends -> {"idle", "runtime", "direct", "returned", "refused"}],
           deltas' \in [Sends -> 0..MaxDeltas],
           injected' \subseteq Injections, stopped' \subseteq Names
    PROVE  TypesInv'
<1>1. /\ runOf \in Keyings /\ events \in [Sessions -> Seq(Event)]
      /\ \A tt \in Sessions : Len(events[tt]) <= MaxEvents
      /\ delivered \subseteq Names /\ IsFiniteSet(delivered)
      /\ Cardinality(delivered) <= MaxDelivered
      /\ IsFiniteSet({x \in RunIds : Tracked(x)}) /\ lost \subseteq Names
  BY DEF TypesInv, QueuesTyped
<1>2. /\ events' \in [Sessions -> Seq(Event)]
      /\ Len(events'[ss]) <= MaxEvents
      /\ \A tt \in Sessions : tt # ss => events'[tt] = events[tt]
      /\ lost' \subseteq lost \cup Names
  BY <1>1, Pushed
<1>3. IsFiniteSet(delivered') /\ Cardinality(delivered') <= MaxDelivered
  <2>1. /\ IsFiniteSet(delivered') /\ Cardinality(delivered') <= Cardinality(delivered)
        /\ Cardinality(delivered') \in Nat /\ Cardinality(delivered) \in Nat
    BY <1>1, FS_Subset, FS_CardinalityType
  <2> QED BY <2>1, <1>1, GatewayAssumption
<1>4. IsFiniteSet({x \in RunIds : runs'[x] # Untracked})
  <2>1. IsFiniteSet({x \in RunIds : Tracked(x)} \cup {r})
    BY <1>1, FS_AddElement
  <2>2. {x \in RunIds : runs'[x] # Untracked} \subseteq {x \in RunIds : Tracked(x)} \cup {r}
    BY DEF Tracked
  <2> QED BY <2>1, <2>2, FS_Subset
<1>5. QueuesTyped'
  BY <1>1, <1>2, <1>3, <1>4 DEF QueuesTyped, Tracked
<1>6. \A tt \in Sessions : Len(events'[tt]) <= MaxEvents
  BY <1>1, <1>2
<1>7. KeyMeansTracked'
  BY DEF KeyMeansTracked, Tracked
<1> QED BY <1>1, <1>2, <1>5, <1>6, <1>7 DEF TypesInv

\* What a poll leaves.
LEMMA TypesPoll ==
    ASSUME TypesInv, NEW ss \in Sessions, NEW limit \in Limits, Poll(ss, limit)
    PROVE  TypesInv'
<1>1. QueuesTyped
  BY DEF TypesInv
<1>2. PICK mid, ended : Polls(ss, mid, ended)
  BY <1>1, Polled
<1>3. /\ mid \in [RunIds -> Runs \cup {Untracked}] /\ ended \subseteq Names
      /\ \A r \in RunIds : mid[r] = runs[r] \/ (Tracked(r) /\ mid[r] \in Runs)
      /\ runs' = Forget(mid, ended) /\ keys' = ForgetKeys(ended)
      /\ events' \in [Sessions -> Seq(Event)] /\ Len(events'[ss]) <= MaxEvents
      /\ \A tt \in Sessions : tt # ss => events'[tt] = events[tt]
      /\ delivered' \subseteq delivered \cup ended
      /\ IsFiniteSet(delivered') /\ Cardinality(delivered') <= MaxDelivered
      /\ lost' \subseteq lost \cup Names
  BY <1>2 DEF Polls, GoOn, Active
<1>4. /\ runs' \in [RunIds -> Runs \cup {Untracked}]
      /\ \A r \in RunIds : runs'[r] = IF r \in ended THEN Untracked ELSE mid[r]
  BY <1>3 DEF Forget
<1>5. \A r \in RunIds : runs'[r] # Untracked => Tracked(r)
  BY <1>3, <1>4 DEF Tracked
<1>6. IsFiniteSet({r \in RunIds : runs'[r] # Untracked})
  <2>1. {r \in RunIds : runs'[r] # Untracked} \subseteq {r \in RunIds : Tracked(r)}
    BY <1>5
  <2> QED BY <1>1, <2>1, FS_Subset DEF QueuesTyped
<1>7. QueuesTyped'
  <2>1. delivered' \subseteq Names
    BY <1>1, <1>3 DEF QueuesTyped
  <2> QED BY <1>3, <1>4, <1>6, <2>1 DEF QueuesTyped, Tracked
<1>8. \A tt \in Sessions : Len(events'[tt]) <= MaxEvents
  BY <1>3 DEF TypesInv
<1>9. keys' \subseteq RunIds /\ KeyMeansTracked'
  <2>1. \A r \in keys' : r \in keys /\ r \in RunIds /\ Tracked(r) /\ r \notin ended
    BY <1>3 DEF ForgetKeys, TypesInv, KeyMeansTracked
  <2>2. \A r \in keys' : runs'[r] # Untracked
    BY <1>3, <1>4, <2>1, RunsTracked DEF Tracked
  <2> QED BY <2>1, <2>2 DEF KeyMeansTracked, Tracked
<1>10. UNCHANGED <<runOf, pc, deltas, injected, stopped>>
  BY DEF Poll, PollWith
<1>11. lost' \cup stopped' \subseteq Names
  BY <1>3, <1>10 DEF TypesInv
<1> QED BY <1>7, <1>8, <1>9, <1>10, <1>11 DEF TypesInv

\* What the actions of a send use.
LEMMA SendFacts ==
    ASSUME TypesInv, NEW s \in Sends
    PROVE  /\ runOf \in [Sends -> RunIds] /\ runOf[s] \in RunIds /\ runOf[s] \in Names
           /\ SessionOf[runOf[s]] \in Sessions
           /\ events[SessionOf[runOf[s]]] \in Seq(Event)
           /\ events \in [Sessions -> Seq(Event)]
           /\ \A states \in Seq(Quiet) : EventsOf(runOf[s], states) \in Seq(Event)
<1>1. runOf \in [Sends -> RunIds] /\ runOf[s] \in RunIds
  BY GatewayAssumption DEF TypesInv
<1>2. runOf[s] \in Names /\ SessionOf[runOf[s]] \in Sessions
  BY <1>1, GatewayAssumption DEF Names
<1>3. \A states \in Seq(Quiet) : EventsOf(runOf[s], states) \in Seq(Event)
  BY <1>2, RunEvents
<1> QED BY <1>1, <1>2, <1>3 DEF TypesInv, QueuesTyped

\* The lists of states that a send pushes before its end.
LEMMA QuietStates ==
    << >> \in Seq(Quiet) /\ <<"delta">> \in Seq(Quiet) /\ <<"queued", "started">> \in Seq(Quiet)
<1>1. "queued" \in Quiet /\ "started" \in Quiet /\ "delta" \in Quiet
  BY DEF Quiet, States, Terminal
<1> QED BY <1>1

\* A step of a send keeps the types.
LEMMA TypesClient ==
    ASSUME TypesInv, NEW s \in Sends, Client(s)
    PROVE  TypesInv'
<1> DEFINE r == runOf[s]
           ss == SessionOf[r]
           Places == {"idle", "runtime", "direct", "returned", "refused"}
<1>1. /\ runOf \in [Sends -> RunIds] /\ r \in RunIds /\ r \in Names
      /\ ss \in Sessions /\ events[ss] \in Seq(Event)
      /\ events \in [Sessions -> Seq(Event)]
      /\ \A states \in Seq(Quiet) : EventsOf(r, states) \in Seq(Event)
  BY SendFacts
<1>2. /\ runs \in [RunIds -> Runs \cup {Untracked}]
      /\ keys \subseteq RunIds /\ \A x \in keys : runs[x] # Untracked
      /\ pc \in [Sends -> Places] /\ deltas \in [Sends -> 0..MaxDeltas]
      /\ injected \subseteq Injections /\ stopped \subseteq Names /\ QueuesTyped
  BY DEF TypesInv, QueuesTyped, KeyMeansTracked, Tracked
<1>3. ASSUME NEW place \in Places, Go(s, place) PROVE pc' \in [Sends -> Places]
  BY <1>2, <1>3 DEF Go
<1>4. ASSUME NEW x \in Runs, runs' = [runs EXCEPT ![r] = x]
      PROVE  /\ runs' \in [RunIds -> Runs \cup {Untracked}]
             /\ \A y \in RunIds : y # r => runs'[y] = runs[y]
             /\ \A y \in keys \cup {r} : y \in RunIds /\ runs'[y] # Untracked
  BY <1>1, <1>2, <1>4, RunsTracked
<1>5. ASSUME NEW new, Push(ss, new) PROVE Becomes(ss, events[ss], new)
  BY <1>1, <1>5, PushBecomes
<1>6. \A replay \in Replays(s) \cup {<< >>} : replay \in Seq(Event)
  BY <1>1, <1>2, Replayed
<1> HIDE DEF r, ss
<1>7. CASE SendDeduped(s)
  <2>1. /\ pc' \in [Sends -> Places]
        /\ UNCHANGED <<runOf, runs, events, delivered, keys, deltas, injected, lost, stopped>>
    BY <1>3, <1>7 DEF SendDeduped
  <2> QED BY <2>1 DEF TypesInv, QueuesTyped, KeyMeansTracked, Tracked
<1>8. CASE SendDenied(s)
  <2>1. PICK replay \in Replays(s) \cup {<< >>} : Push(ss, replay)
    BY <1>8 DEF SendDenied, r, ss
  <2>2. /\ pc' \in [Sends -> Places]
        /\ UNCHANGED <<runOf, runs, delivered, keys, deltas, injected, stopped>>
    BY <1>3, <1>8 DEF SendDenied
  <2> QED BY <1>1, <1>2, <1>5, <1>6, <2>1, <2>2, TypesPush
<1>9. CASE SendDirect(s)
  <2>1. PICK replay \in Replays(s) : Push(ss, replay)
    BY <1>9 DEF SendDirect, r, ss
  <2>2. /\ pc' \in [Sends -> Places]
        /\ UNCHANGED <<runOf, runs, delivered, keys, deltas, injected, stopped>>
    BY <1>3, <1>9 DEF SendDirect
  <2> QED BY <1>1, <1>2, <1>5, <1>6, <2>1, <2>2, TypesPush
<1>10. CASE SendToRuntime(s)
  <2>1. PICK replay \in Replays(s) : Push(ss, replay \o EventsOf(r, <<"queued", "started">>))
    BY <1>10 DEF SendToRuntime, r, ss
  <2>2. /\ pc' \in [Sends -> Places]
        /\ runs' = [runs EXCEPT ![r] = NewRun]
        /\ UNCHANGED <<runOf, delivered, keys, deltas, injected, stopped>>
    BY <1>3, <1>10 DEF SendToRuntime, r
  <2>3. NewRun \in Runs
    BY DEF NewRun, Runs
  <2>4. /\ runs' \in [RunIds -> Runs \cup {Untracked}]
        /\ \A y \in RunIds : y # r => runs'[y] = runs[y]
        /\ \A y \in keys \cup {r} : y \in RunIds /\ runs'[y] # Untracked
    BY <1>4, <2>2, <2>3
  <2> DEFINE new == replay \o EventsOf(r, <<"queued", "started">>)
  <2>5. new \in Seq(Event)
    BY <1>1, <1>6, QuietStates, Joining
  <2> HIDE DEF new
  <2>6. Becomes(ss, events[ss], new)
    BY <1>5, <2>1 DEF new
  <2> QED BY <1>1, <1>2, <2>2, <2>4, <2>5, <2>6, TypesPush
<1>11. CASE DeltaArrives(s)
  <2>1. /\ deltas[s] < MaxDeltas /\ deltas' = [deltas EXCEPT ![s] = @ + 1]
        /\ Push(ss, EventsOf(r, <<"delta">>))
        /\ runs' = IF Tracked(r)
                   THEN [runs EXCEPT ![r] = [@ EXCEPT !.text = "text", !.full = TRUE]]
                   ELSE runs
        /\ UNCHANGED <<runOf, delivered, keys, pc, injected, stopped>>
    BY <1>11, Zenon DEF DeltaArrives, r, ss
  <2>2. deltas' \in [Sends -> 0..MaxDeltas]
    BY <1>2, <2>1, GatewayAssumption
  <2>3. /\ runs' \in [RunIds -> Runs \cup {Untracked}]
        /\ \A y \in RunIds : y # r => runs'[y] = runs[y]
        /\ \A y \in keys : y \in RunIds /\ runs'[y] # Untracked
    <3>1. CASE Tracked(r)
      <4> DEFINE x == [runs[r] EXCEPT !.text = "text", !.full = TRUE]
      <4>1. x \in Runs
        BY <1>1, <1>2, <3>1 DEF Tracked, Runs
      <4>2. runs' = [runs EXCEPT ![r] = x]
        BY <2>1, <3>1, Zenon
      <4> QED BY <1>4, <4>1, <4>2
    <3>2. CASE ~Tracked(r)
      BY <1>2, <2>1, <3>2
    <3> QED BY <3>1, <3>2
  <2>4. EventsOf(r, <<"delta">>) \in Seq(Event)
    BY <1>1, QuietStates
  <2>5. Becomes(ss, events[ss], EventsOf(r, <<"delta">>))
    BY <1>5, <2>1
  <2> QED BY <1>1, <1>2, <2>1, <2>2, <2>3, <2>4, <2>5, TypesPush
<1>12. CASE \E result \in Results : SendEnds(s, result)
  <2>1. PICK result \in Results : SendEnds(s, result)
    BY <1>12
  <2>2. PICK x, new : /\ Leaves(s, x, new)
                      /\ Push(ss, new)
                      /\ runs' = [runs EXCEPT ![r] = x]
    BY <1>1, <1>2, <2>1, SendLeaves DEF r, ss
  <2>3. x \in Runs /\ new \in Seq(Event)
    BY <2>2 DEF Leaves
  <2>4. /\ runs' \in [RunIds -> Runs \cup {Untracked}]
        /\ \A y \in RunIds : y # r => runs'[y] = runs[y]
        /\ \A y \in keys \cup {r} : y \in RunIds /\ runs'[y] # Untracked
    BY <1>4, <2>2, <2>3
  <2>5. /\ pc' \in [Sends -> Places]
        /\ delivered' \subseteq delivered /\ keys' = keys \cup {r}
        /\ UNCHANGED <<runOf, deltas, injected, stopped>>
    BY <1>3, <2>1 DEF SendEnds, Undelivered, r
  <2>6. Becomes(ss, events[ss], new)
    BY <1>5, <2>2
  <2> QED BY <1>1, <1>2, <2>3, <2>4, <2>5, <2>6, TypesPush
<1> QED BY <1>7, <1>8, <1>9, <1>10, <1>11, <1>12 DEF Client

\* The end of a run by itself.
LEMMA OneEnd ==
    ASSUME NEW r \in Names, NEW x \in Terminal
    PROVE  LET q == EventsOf(r, <<x>>)
           IN  /\ q \in Seq(Event) /\ EndsIn(q) = {r} /\ Once(q)
               /\ \A e \in Contents(q) : e.run = r /\ e.state = x
<1> DEFINE q == EventsOf(r, <<x>>)
<1>1. << >> \in Seq(Quiet) /\ Append(<< >>, x) = <<x>>
  OBVIOUS
<1>2. q \in Seq(Event) /\ EndsIn(q) = {r} /\ Once(q) /\ \A e \in Contents(q) : e.run = r
  BY <1>1, RunEnds
<1>3. q = [i \in 1..1 |-> [run |-> r, state |-> <<x>>[i]]]
  BY DEF EventsOf
<1>4. Len(q) = 1 /\ q[1].state = x
  BY <1>3
<1> HIDE DEF q
<1>5. \A e \in Contents(q) : e.state = x
  BY <1>4 DEF Contents
<1> QED BY <1>2, <1>5 DEF q

\* What an abort does: the queued events of the run are replaced by its end.
Aborts(r) ==
    LET ss == SessionOf[r]
        base == WithoutEvents(events[ss], r)
        new == EventsOf(r, <<"aborted">>)
    IN  /\ ss \in Sessions /\ base \in Seq(Event) /\ new \in Seq(Event)
        /\ Becomes(ss, base, new)
        /\ Contents(base) = {e \in Contents(events[ss]) : e.run # r}
        /\ Once(events[ss]) => Once(base)
        /\ EndsIn(new) = {r} /\ Once(new)
        /\ \A e \in Contents(new) : e.run = r /\ e.state = "aborted"
        /\ \E x \in Runs : x.ended /\ ~x.active /\ runs' = [runs EXCEPT ![r] = x]

\* chat.abort does just that.
LEMMA AbortFacts ==
    ASSUME QueuesTyped, NEW r \in RunIds, NEW named, Abort(r, named)
    PROVE  Aborts(r)
<1> DEFINE ss == SessionOf[r]
           base == WithoutEvents(events[ss], r)
           new == EventsOf(r, <<"aborted">>)
<1>1. ss \in Sessions /\ events[ss] \in Seq(Event) /\ r \in Names /\ "aborted" \in Terminal
  BY GatewayAssumption DEF QueuesTyped, Names, Terminal
<1>2. /\ base \in Seq(Event)
      /\ Contents(base) = {e \in Contents(events[ss]) : e.run # r}
      /\ Once(events[ss]) => Once(base)
  BY <1>1, Others
<1>3. /\ new \in Seq(Event) /\ EndsIn(new) = {r} /\ Once(new)
      /\ \A e \in Contents(new) : e.run = r /\ e.state = "aborted"
  BY <1>1, OneEnd
<1>4. Becomes(ss, base, new)
  BY Zenon DEF Abort, Becomes
<1>5. \E x \in Runs : x.ended /\ ~x.active /\ runs' = [runs EXCEPT ![r] = x]
  <2> DEFINE x == [Ended(runs[r]) EXCEPT !.full = TRUE]
  <2>1. runs[r] \in Runs
    BY DEF Abort, Tracked, QueuesTyped
  <2>2. x \in Runs /\ x.ended /\ ~x.active
    BY <2>1 DEF Ended, Runs
  <2>3. runs' = [runs EXCEPT ![r] = x]
    BY Zenon DEF Abort
  <2> QED BY <2>2, <2>3, Zenon
<1> QED BY <1>1, <1>2, <1>3, <1>4, <1>5, Zenon DEF Aborts

\* An abort keeps the types.
LEMMA TypesAbort ==
    ASSUME TypesInv, NEW r \in RunIds, NEW named, Abort(r, named)
    PROVE  TypesInv'
<1> DEFINE ss == SessionOf[r]
           base == WithoutEvents(events[ss], r)
           new == EventsOf(r, <<"aborted">>)
<1>1. /\ runs \in [RunIds -> Runs \cup {Untracked}]
      /\ keys \subseteq RunIds /\ \A x \in keys : runs[x] # Untracked
      /\ stopped \subseteq Names /\ QueuesTyped
  BY DEF TypesInv, QueuesTyped, KeyMeansTracked, Tracked
<1>2. /\ ss \in Sessions /\ base \in Seq(Event) /\ new \in Seq(Event)
      /\ Becomes(ss, base, new)
      /\ \E x \in Runs : runs' = [runs EXCEPT ![r] = x]
  BY <1>1, AbortFacts, Zenon DEF Aborts
<1>3. /\ runs' \in [RunIds -> Runs \cup {Untracked}]
      /\ \A y \in RunIds : y # r => runs'[y] = runs[y]
      /\ \A y \in keys : runs'[y] # Untracked
  BY <1>1, <1>2, RunsTracked
<1>4. UNCHANGED <<runOf, delivered, keys, pc, deltas, injected>>
  BY DEF Abort
<1>5. stopped' \subseteq Names
  BY <1>1 DEF Abort, Names
<1>6. /\ pc' \in [Sends -> {"idle", "runtime", "direct", "returned", "refused"}]
      /\ deltas' \in [Sends -> 0..MaxDeltas] /\ injected' \subseteq Injections
      /\ keys' \subseteq RunIds /\ \A y \in keys' : runs'[y] # Untracked
      /\ runOf' = runOf /\ delivered' \subseteq delivered
  BY <1>1, <1>3, <1>4 DEF TypesInv
<1> HIDE DEF ss, base, new
<1> QED BY <1>2, <1>3, <1>5, <1>6, TypesPush

\* An injection keeps the types.
LEMMA TypesInject ==
    ASSUME TypesInv, NEW i \in Injections, NEW ss \in Sessions, Inject(i, ss)
    PROVE  TypesInv'
<1> DEFINE new == EventsOf(i, <<"final">>)
<1>1. i \in Names /\ "final" \in Terminal
  BY DEF Names, Terminal
<1>2. new \in Seq(Event)
  BY <1>1, OneEnd
<1>3. events \in [Sessions -> Seq(Event)]
  BY DEF TypesInv, QueuesTyped
<1>4. Becomes(ss, events[ss], new)
  BY <1>3, PushBecomes DEF Inject
<1>5. /\ runs' \in [RunIds -> Runs \cup {Untracked}]
      /\ \A x \in RunIds : x # i => runs'[x] = runs[x]
      /\ keys' \subseteq RunIds /\ \A y \in keys' : runs'[y] # Untracked
      /\ pc' \in [Sends -> {"idle", "runtime", "direct", "returned", "refused"}]
      /\ deltas' \in [Sends -> 0..MaxDeltas] /\ injected' \subseteq Injections
      /\ runOf' = runOf /\ delivered' \subseteq delivered /\ stopped' \subseteq Names
  BY DEF TypesInv, QueuesTyped, KeyMeansTracked, Tracked, Inject
<1> HIDE DEF new
<1> QED BY <1>2, <1>3, <1>4, <1>5, TypesPush

\* Every step keeps the types.
LEMMA TypesNext == TypesInv /\ [Next]_vars => TypesInv'
<1> SUFFICES ASSUME TypesInv, [Next]_vars PROVE TypesInv'
  OBVIOUS
<1>1. ASSUME NEW s \in Sends, Client(s) PROVE TypesInv'
  BY <1>1, TypesClient
<1>2. ASSUME NEW i \in Injections, NEW ss \in Sessions, Inject(i, ss) PROVE TypesInv'
  BY <1>2, TypesInject
<1>3. ASSUME NEW r \in RunIds, NEW named \in BOOLEAN, Abort(r, named) PROVE TypesInv'
  BY <1>3, TypesAbort
<1>4. ASSUME NEW ss \in Sessions, NEW limit \in Limits, Poll(ss, limit) PROVE TypesInv'
  BY <1>4, TypesPoll
<1>5. CASE UNCHANGED vars
  BY <1>5 DEF vars, TypesInv, QueuesTyped, KeyMeansTracked, Tracked
<1> QED BY <1>1, <1>2, <1>3, <1>4, <1>5 DEF Next

\* Every variable has its type, a session never has more than kMaxChatEventsPerSession
\* events waiting, and the set of delivered runs stays bounded (ChatPipeline.cpp:2932).
THEOREM GatewayTypes == Spec => []GatewayTypeOK
<1>1. TypesInv => GatewayTypeOK
  BY DEF TypesInv, QueuesTyped, GatewayTypeOK, Names
<1> QED BY <1>1, TypesInit, TypesNext, PTL DEF Spec

\* A send is told that it is a duplicate only while the run that owns the key is tracked:
\* the poll that delivers its end takes the key away too (ChatPipeline.cpp:2995-2998).
THEOREM KeysHeld == Spec => []KeyMeansTracked
<1>1. TypesInv => KeyMeansTracked
  BY DEF TypesInv
<1> QED BY <1>1, TypesInit, TypesNext, PTL DEF Spec
-----------------------------------------------------------------------------
(***************************************************************************)
(* The ends of runs.  The invariant, in parts.                             *)
(***************************************************************************)
\* Events wait in the queue of their session; injected ones are of injections made.
QueuesOwned ==
    \A ss \in Sessions : \A e \in Contents(events[ss]) :
        /\ e.run \in RunIds => SessionOf[e.run] = ss
        /\ e.run \in Injections => e.run \in injected

EndsOnce == \A ss \in Sessions : Once(events[ss])

EndsApart ==
    \A ss, tt \in Sessions : ss # tt => EndsIn(events[ss]) \cap EndsIn(events[tt]) = {}

EndsNew == \A ss \in Sessions : EndsIn(events[ss]) \cap delivered = {}

\* A queued end is that of a tracked run that was ended.
EndsKnown ==
    \A ss \in Sessions : \A r \in EndsIn(events[ss]) :
        r \in RunIds => Tracked(r) /\ runs[r].ended

DeliveredGone ==
    \A r \in delivered : (r \in RunIds => ~Tracked(r)) /\ (r \in Injections => r \in injected)

\* Only a send that has reached the runtime, or returned, brings a run about.
Begun(r) == \E s \in Sends : runOf[s] = r /\ pc[s] \in {"runtime", "returned"}

SendsKnown == \A r \in RunIds : Tracked(r) \/ r \in delivered => Begun(r)

\* An ended run waits for its end to be delivered, unless the end was dropped.
OnTheWay ==
    \A r \in RunIds : Tracked(r) =>
        /\ runs[r].ended \/ runs[r].active
        /\ runs[r].ended => r \in lost \/ r \in EndsIn(events[SessionOf[r]])

StoppedStay ==
    \A r \in stopped :
        /\ r \in RunIds /\ \A s \in Sends : runOf[s] = r => pc[s] = "returned"
        /\ Tracked(r) =>
               /\ runs[r].ended /\ ~runs[r].active
               /\ \A ss \in Sessions : \A e \in Contents(events[ss]) :
                      e.run = r => e.state = "aborted"

Ends ==
    /\ QueuesOwned /\ EndsOnce /\ EndsApart /\ EndsNew /\ EndsKnown
    /\ DeliveredGone /\ SendsKnown /\ OnTheWay /\ StoppedStay

EndsInv == UniqueKeys => Ends

\* A step for one run: its queue becomes `base` with `new` behind it.
Changes(r, ss, base, new) ==
    /\ base \in Seq(Event) /\ new \in Seq(Event) /\ Becomes(ss, base, new)
    /\ Contents(base) \subseteq Contents(events[ss])
    /\ EndsIn(events[ss]) \subseteq EndsIn(base) \cup EndsIn(new)
    /\ Once(events[ss]) => Once(base)
    /\ Once(new) /\ EndsIn(base) \cap EndsIn(new) = {}
    /\ \A e \in Contents(new) : e.run = r
    /\ r \in RunIds => SessionOf[r] = ss
    /\ r \in Injections => r \in injected' /\ r \notin injected
    /\ injected \subseteq injected' /\ delivered' \subseteq delivered /\ runOf' = runOf
    /\ \A x \in RunIds : x # r => runs'[x] = runs[x]
    /\ \A s \in Sends : runOf[s] # r => pc'[s] = pc[s]

\* What it makes of the run, when that is one of a send.
Settled(r, base, new) ==
    /\ r \in EndsIn(base) \cup EndsIn(new) => runs'[r] # Untracked /\ runs'[r].ended
    /\ runs'[r] # Untracked =>
           /\ r \notin delivered'
           /\ runs'[r].ended \/ runs'[r].active
           /\ runs'[r].ended => r \in lost \cup EndsIn(base) \cup EndsIn(new)
    /\ runs'[r] # Untracked \/ r \in delivered' => Begun(r)'
    /\ r \in stopped' =>
           /\ \A s \in Sends : runOf[s] = r => pc'[s] = "returned"
           /\ runs'[r] # Untracked =>
                  /\ runs'[r].ended /\ ~runs'[r].active
                  /\ \A e \in Contents(base) \cup Contents(new) : e.run = r => e.state = "aborted"

\* Such a step keeps every part of the invariant.
LEMMA EndsPush ==
    ASSUME TypesInv, UniqueKeys, Ends, NEW r \in Names, NEW ss \in Sessions, NEW base, NEW new,
           Changes(r, ss, base, new), r \in RunIds => Settled(r, base, new),
           stopped' \subseteq stopped \cup (RunIds \cap {r})
    PROVE  Ends'
<1> USE DEF Changes
<1>1. /\ events' \in [Sessions -> Seq(Event)]
      /\ \A tt \in Sessions : tt # ss => events'[tt] = events[tt]
      /\ Contents(events'[ss]) \subseteq Contents(base) \cup Contents(new)
      /\ EndsIn(events'[ss]) \subseteq EndsIn(base) \cup EndsIn(new)
      /\ EndsIn(base) \cup EndsIn(new) \subseteq EndsIn(events'[ss]) \cup lost'
      /\ lost \subseteq lost'
      /\ Once(base) => Once(events'[ss])
  BY Pushed DEF TypesInv, QueuesTyped
<1>2. EndsIn(base) \subseteq EndsIn(events[ss]) /\ EndsIn(new) \subseteq {r}
  BY DEF EndsIn
<1>3. RunIds \cap Injections = {} /\ (r \in RunIds \/ r \in Injections)
  BY GatewayAssumption DEF Names
<1>4. QueuesOwned'
  <2>1. ASSUME NEW tt \in Sessions, NEW e \in Contents(events'[tt])
        PROVE  /\ e.run \in RunIds => SessionOf[e.run] = tt
               /\ e.run \in Injections => e.run \in injected'
    <3>1. CASE e \in Contents(events[tt])
      BY <3>1 DEF Ends, QueuesOwned
    <3>2. CASE tt = ss /\ e \in Contents(new)
      BY <3>2
    <3> QED BY <1>1, <3>1, <3>2
  <2> QED BY <2>1 DEF QueuesOwned
<1>5. EndsOnce'
  <2>1. Once(events'[ss])
    BY <1>1 DEF Ends, EndsOnce
  <2> QED BY <1>1, <2>1 DEF Ends, EndsOnce
<1>6. \A tt \in Sessions : tt # ss => r \notin EndsIn(events[tt])
  <2>1. \A tt \in Sessions : r \in EndsIn(events[tt]) =>
            (r \in RunIds => SessionOf[r] = tt) /\ (r \in Injections => r \in injected)
    BY DEF Ends, QueuesOwned, EndsIn
  <2> QED BY <1>3, <2>1
<1>7. EndsApart'
  <2>1. \A tt \in Sessions : tt # ss => EndsIn(events'[ss]) \cap EndsIn(events'[tt]) = {}
    <3> SUFFICES ASSUME NEW tt \in Sessions, tt # ss, NEW x \in EndsIn(events'[ss]),
                        x \in EndsIn(events'[tt])
                 PROVE  FALSE
      OBVIOUS
    <3>1. x \in EndsIn(events[tt])
      BY <1>1
    <3>2. x \in EndsIn(events[ss]) \/ x = r
      BY <1>1, <1>2
    <3>3. EndsIn(events[ss]) \cap EndsIn(events[tt]) = {}
      BY DEF Ends, EndsApart
    <3> QED BY <1>6, <3>1, <3>2, <3>3
  <2> QED BY <1>1, <2>1 DEF Ends, EndsApart
<1>8. r \in EndsIn(base) \cup EndsIn(new) => r \notin delivered'
  <2>1. CASE r \in RunIds
    BY <2>1 DEF Settled
  <2>2. CASE r \in Injections
    BY <2>2 DEF Ends, DeliveredGone
  <2> QED BY <1>3, <2>1, <2>2
<1>9. EndsNew'
  <2>1. \A tt \in Sessions : \A x \in EndsIn(events'[tt]) :
            x \in EndsIn(events[tt]) \/ (x = r /\ r \in EndsIn(base) \cup EndsIn(new))
    BY <1>1, <1>2
  <2>2. \A tt \in Sessions : \A x \in EndsIn(events[tt]) : x \notin delivered'
    BY DEF Ends, EndsNew
  <2> QED BY <1>8, <2>1, <2>2 DEF EndsNew
<1>10. EndsKnown'
  <2>1. ASSUME NEW tt \in Sessions, NEW x \in EndsIn(events'[tt]), x \in RunIds
        PROVE  runs'[x] # Untracked /\ runs'[x].ended
    <3>1. CASE x = r
      <4>1. tt = ss
        BY <1>1, <1>6, <2>1, <3>1
      <4> QED BY <1>1, <2>1, <3>1, <4>1 DEF Settled
    <3>2. CASE x # r
      <4>1. x \in EndsIn(events[tt])
        BY <1>1, <1>2, <2>1, <3>2
      <4> QED BY <2>1, <3>2, <4>1 DEF Ends, EndsKnown, Tracked
    <3> QED BY <3>1, <3>2
  <2> QED BY <2>1 DEF EndsKnown, Tracked
<1>11. DeliveredGone'
  <2>1. ASSUME NEW x \in delivered', x \in RunIds PROVE runs'[x] = Untracked
    <3>1. CASE x = r
      BY <2>1, <3>1 DEF Settled
    <3>2. CASE x # r
      BY <2>1, <3>2 DEF Ends, DeliveredGone, Tracked
    <3> QED BY <3>1, <3>2
  <2>2. \A x \in delivered' : x \in Injections => x \in injected'
    BY DEF Ends, DeliveredGone
  <2> QED BY <2>1, <2>2 DEF DeliveredGone, Tracked
<1>12. SendsKnown'
  <2>1. ASSUME NEW x \in RunIds, runs'[x] # Untracked \/ x \in delivered'
        PROVE  \E s \in Sends : runOf'[s] = x /\ pc'[s] \in {"runtime", "returned"}
    <3>1. CASE x = r
      BY <2>1, <3>1 DEF Settled, Begun
    <3>2. CASE x # r
      <4>1. Tracked(x) \/ x \in delivered
        BY <2>1, <3>2 DEF Tracked
      <4>2. PICK s \in Sends : runOf[s] = x /\ pc[s] \in {"runtime", "returned"}
        BY <2>1, <4>1 DEF Ends, SendsKnown, Begun
      <4> QED BY <3>2, <4>2
    <3> QED BY <3>1, <3>2
  <2> QED BY <2>1 DEF SendsKnown, Begun, Tracked
<1>13. OnTheWay'
  <2>1. ASSUME NEW x \in RunIds, runs'[x] # Untracked
        PROVE  /\ runs'[x].ended \/ runs'[x].active
               /\ runs'[x].ended => x \in lost' \/ x \in EndsIn(events'[SessionOf[x]])
    <3>1. CASE x = r
      <4>1. SessionOf[x] = ss
        BY <2>1, <3>1
      <4> QED BY <1>1, <2>1, <3>1, <4>1 DEF Settled
    <3>2. CASE x # r
      <4>1. /\ runs'[x] = runs[x] /\ Tracked(x)
        BY <2>1, <3>2 DEF Tracked
      <4>2. /\ runs[x].ended \/ runs[x].active
            /\ runs[x].ended => x \in lost \/ x \in EndsIn(events[SessionOf[x]])
        BY <4>1 DEF Ends, OnTheWay
      <4>3. SessionOf[x] \in Sessions
        BY GatewayAssumption
      <4>4. x \in EndsIn(events[SessionOf[x]]) => x \in lost' \/ x \in EndsIn(events'[SessionOf[x]])
        BY <1>1, <4>3
      <4> QED BY <1>1, <4>1, <4>2, <4>4
    <3> QED BY <3>1, <3>2
  <2> QED BY <2>1 DEF OnTheWay, Tracked
<1>14. StoppedStay'
  <2>1. ASSUME NEW x \in stopped'
        PROVE  /\ x \in RunIds /\ \A s \in Sends : runOf'[s] = x => pc'[s] = "returned"
               /\ runs'[x] # Untracked =>
                      /\ runs'[x].ended /\ ~runs'[x].active
                      /\ \A tt \in Sessions : \A e \in Contents(events'[tt]) :
                             e.run = x => e.state = "aborted"
    <3>0. x \in RunIds
      BY <2>1 DEF Ends, StoppedStay
    <3>1. CASE x = r
      <4>1. \A tt \in Sessions : \A e \in Contents(events'[tt]) : e.run = r => tt = ss
        BY <1>4, <3>0, <3>1 DEF QueuesOwned
      <4> QED BY <1>1, <2>1, <3>0, <3>1, <4>1 DEF Settled
    <3>2. CASE x # r
      <4>1. x \in stopped /\ runs'[x] = runs[x]
        BY <2>1, <3>0, <3>2
      <4>2. \A tt \in Sessions : \A e \in Contents(events'[tt]) :
                e.run = x => e \in Contents(events[tt])
        BY <1>1, <3>2
      <4> QED BY <3>0, <3>2, <4>1, <4>2 DEF Ends, StoppedStay, Tracked
    <3> QED BY <3>1, <3>2
  <2> QED BY <2>1 DEF StoppedStay, Tracked
<1> QED BY <1>4, <1>5, <1>7, <1>9, <1>10, <1>11, <1>12, <1>13, <1>14 DEF Ends

\* A poll keeps all of it.
LEMMA EndsPoll ==
    ASSUME TypesInv, UniqueKeys, Ends, NEW ss \in Sessions, NEW limit \in Limits, Poll(ss, limit)
    PROVE  Ends'
<1>1. PICK mid, ended : Polls(ss, mid, ended)
  BY Polled DEF TypesInv
<1>2. /\ \A tt \in Sessions : tt # ss => events'[tt] = events[tt]
      /\ \A e \in Contents(events'[ss]) : e \in Contents(events[ss]) \/ e.run \in Active(ss)
      /\ EndsIn(events'[ss]) \cup ended \subseteq EndsIn(events[ss]) \cup EndedHere(ss, mid)
      /\ EndsIn(events[ss]) \cup EndedHere(ss, mid)
             \subseteq EndsIn(events'[ss]) \cup ended \cup delivered \cup lost'
      /\ Once(events[ss]) /\ EndsIn(events[ss]) \cap EndedHere(ss, mid) = {} =>
             Once(events'[ss]) /\ EndsIn(events'[ss]) \cap ended = {}
      /\ delivered' \subseteq delivered \cup ended
      /\ lost \subseteq lost'
  BY <1>1 DEF Polls
<1>3. ASSUME NEW r \in RunIds
      PROVE  /\ runs'[r] = IF r \in ended THEN Untracked ELSE mid[r]
             /\ \/ mid[r] = runs[r]
                \/ /\ r \in Active(ss) /\ mid[r] \in Runs
                   /\ \/ mid[r].ended = runs[r].ended /\ mid[r].active = runs[r].active
                      \/ ~runs[r].ended /\ mid[r].ended /\ ~mid[r].active
  BY <1>1 DEF Polls, GoOn, Forget
<1>4. \A r \in Active(ss) : r \in RunIds /\ SessionOf[r] = ss /\ Tracked(r) /\ runs[r].active
  BY DEF Active
<1>5. UNCHANGED <<runOf, pc, deltas, injected, stopped>>
  BY DEF Poll, PollWith
<1>6. RunIds \cap Injections = {} /\ SessionOf \in [RunIds -> Sessions]
  BY GatewayAssumption
<1>7. \A r \in EndedHere(ss, mid) : r \in Active(ss) /\ ~runs[r].ended /\ mid[r].ended
  BY DEF EndedHere
<1>8. EndsIn(events[ss]) \cap EndedHere(ss, mid) = {}
  BY <1>4, <1>7 DEF Ends, EndsKnown
<1>9. Once(events'[ss]) /\ EndsIn(events'[ss]) \cap ended = {}
  BY <1>2, <1>8 DEF Ends, EndsOnce
\* Whose ends they are.
<1>10. \A tt \in Sessions : \A r \in EndsIn(events[tt]) :
           /\ r \in RunIds => SessionOf[r] = tt /\ Tracked(r) /\ runs[r].ended
           /\ r \in Injections => r \in injected
           /\ r \notin delivered
  BY DEF Ends, QueuesOwned, EndsKnown, EndsNew, EndsIn
<1>11. \A r \in ended : (r \in RunIds => SessionOf[r] = ss /\ Tracked(r))
                        /\ (r \in Injections => r \in injected)
  BY <1>2, <1>4, <1>7, <1>10, <1>6
<1>12. \A r \in RunIds : runs'[r] # Untracked => Tracked(r) /\ r \notin ended /\ runs'[r] = mid[r]
  BY <1>3, <1>4 DEF Tracked
<1>13. \A tt \in Sessions : tt # ss => EndsIn(events[tt]) \cap ended = {}
  <2> SUFFICES ASSUME NEW tt \in Sessions, tt # ss, NEW r \in ended, r \in EndsIn(events[tt])
               PROVE  FALSE
    OBVIOUS
  <2>1. CASE r \in EndsIn(events[ss])
    BY <2>1 DEF Ends, EndsApart
  <2>2. CASE r \in EndedHere(ss, mid)
    BY <2>2, <1>4, <1>7, <1>10
  <2> QED BY <1>2, <2>1, <2>2
<1>14. QueuesOwned'
  <2>1. ASSUME NEW tt \in Sessions, NEW e \in Contents(events'[tt])
        PROVE  /\ e.run \in RunIds => SessionOf[e.run] = tt
               /\ e.run \in Injections => e.run \in injected
    <3>1. CASE e \in Contents(events[tt])
      BY <3>1 DEF Ends, QueuesOwned
    <3>2. CASE tt = ss /\ e.run \in Active(ss)
      BY <3>2, <1>4, <1>6
    <3> QED BY <1>2, <3>1, <3>2
  <2> QED BY <1>5, <2>1 DEF QueuesOwned
<1>15. EndsOnce'
  BY <1>2, <1>9 DEF Ends, EndsOnce
<1>16. EndsApart'
  <2>1. \A tt \in Sessions : tt # ss => EndsIn(events'[ss]) \cap EndsIn(events'[tt]) = {}
    <3> SUFFICES ASSUME NEW tt \in Sessions, tt # ss, NEW r \in EndsIn(events'[ss]),
                        r \in EndsIn(events'[tt])
                 PROVE  FALSE
      OBVIOUS
    <3>1. r \in EndsIn(events[tt])
      BY <1>2
    <3>2. CASE r \in EndsIn(events[ss])
      BY <3>1, <3>2 DEF Ends, EndsApart
    <3>3. CASE r \in EndedHere(ss, mid)
      BY <3>1, <3>3, <1>4, <1>7, <1>10
    <3> QED BY <1>2, <3>2, <3>3
  <2> QED BY <1>2, <2>1 DEF Ends, EndsApart
<1>17. DeliveredGone'
  <2>1. ASSUME NEW r \in delivered', r \in RunIds PROVE runs'[r] = Untracked
    <3>1. CASE r \in ended
      BY <1>3, <2>1, <3>1
    <3>2. CASE r \in delivered
      <4>1. ~Tracked(r)
        BY <2>1, <3>2 DEF Ends, DeliveredGone
      <4> QED BY <1>12, <2>1, <4>1
    <3> QED BY <1>2, <3>1, <3>2
  <2>2. \A r \in delivered' : r \in Injections => r \in injected'
    BY <1>2, <1>5, <1>11 DEF Ends, DeliveredGone
  <2> QED BY <2>1, <2>2 DEF DeliveredGone, Tracked
<1>18. EndsNew'
  <2>1. ASSUME NEW tt \in Sessions, NEW r \in EndsIn(events'[tt]) PROVE r \notin delivered'
    <3>1. r \notin ended
      BY <1>2, <1>9, <1>13
    <3>2. r \notin delivered
      <4>1. CASE r \in EndsIn(events[tt])
        BY <4>1, <1>10
      <4>2. CASE tt = ss /\ r \in EndedHere(ss, mid)
        BY <4>2, <1>4, <1>7 DEF Ends, DeliveredGone
      <4> QED BY <1>2, <4>1, <4>2
    <3> QED BY <1>2, <3>1, <3>2
  <2> QED BY <2>1 DEF EndsNew
<1>19. EndsKnown'
  <2>1. ASSUME NEW tt \in Sessions, NEW r \in EndsIn(events'[tt]), r \in RunIds
        PROVE  runs'[r] # Untracked /\ runs'[r].ended
    <3>1. r \notin ended
      BY <1>2, <1>9, <1>13
    <3>2. runs'[r] = mid[r]
      BY <1>3, <2>1, <3>1
    <3>3. CASE r \in EndsIn(events[tt])
      <4>1. Tracked(r) /\ runs[r].ended
        BY <2>1, <3>3, <1>10
      <4> QED BY <1>3, <2>1, <3>2, <4>1, RunsTracked DEF Tracked
    <3>4. CASE tt = ss /\ r \in EndedHere(ss, mid)
      <4>1. Tracked(r) /\ mid[r].ended /\ ~runs[r].ended
        BY <3>4, <1>4, <1>7
      <4> QED BY <1>3, <2>1, <3>2, <4>1, RunsTracked DEF Tracked
    <3> QED BY <1>2, <3>3, <3>4
  <2> QED BY <2>1 DEF EndsKnown, Tracked
<1>20. SendsKnown'
  <2>1. ASSUME NEW r \in RunIds, runs'[r] # Untracked \/ r \in delivered'
        PROVE  Begun(r)
    <3>1. Tracked(r) \/ r \in delivered
      BY <1>2, <1>11, <1>12, <2>1
    <3> QED BY <3>1 DEF Ends, SendsKnown
  <2> QED BY <1>5, <2>1 DEF SendsKnown, Tracked, Begun
<1>21. OnTheWay'
  <2>1. ASSUME NEW r \in RunIds, runs'[r] # Untracked
        PROVE  /\ runs'[r].ended \/ runs'[r].active
               /\ runs'[r].ended => r \in lost' \/ r \in EndsIn(events'[SessionOf[r]])
    <3>1. Tracked(r) /\ r \notin ended /\ runs'[r] = mid[r]
      BY <1>12, <2>1
    <3>2. /\ runs[r].ended \/ runs[r].active
          /\ runs[r].ended => r \in lost \/ r \in EndsIn(events[SessionOf[r]])
      BY <3>1 DEF Ends, OnTheWay
    <3>3. mid[r].ended \/ mid[r].active
      BY <1>3, <3>2
    <3>4. ASSUME mid[r].ended PROVE r \in lost' \/ r \in EndsIn(events'[SessionOf[r]])
      <4>1. CASE SessionOf[r] # ss
        <5>1. r \notin Active(ss)
          BY <1>4, <4>1
        <5>2. runs[r].ended
          BY <1>3, <3>4, <5>1
        <5>3. SessionOf[r] \in Sessions
          BY <1>6
        <5> QED BY <1>2, <3>2, <4>1, <5>2, <5>3
      <4>2. CASE SessionOf[r] = ss
        <5>1. r \notin delivered
          BY <3>1 DEF Ends, DeliveredGone
        <5>2. CASE runs[r].ended
          BY <1>2, <3>1, <3>2, <4>2, <5>1, <5>2
        <5>3. CASE ~runs[r].ended
          <6>1. r \in EndedHere(ss, mid)
            BY <1>3, <3>4, <5>3 DEF EndedHere
          <6> QED BY <1>2, <3>1, <4>2, <5>1, <6>1
        <5> QED BY <5>2, <5>3
      <4> QED BY <4>1, <4>2
    <3> QED BY <3>1, <3>3, <3>4
  <2> QED BY <2>1 DEF OnTheWay, Tracked
<1>22. StoppedStay'
  <2>1. ASSUME NEW r \in stopped
        PROVE  /\ r \in RunIds /\ \A s \in Sends : runOf[s] = r => pc[s] = "returned"
               /\ runs'[r] # Untracked =>
                      /\ runs'[r].ended /\ ~runs'[r].active
                      /\ \A tt \in Sessions : \A e \in Contents(events'[tt]) :
                             e.run = r => e.state = "aborted"
    <3>1. r \in RunIds /\ \A s \in Sends : runOf[s] = r => pc[s] = "returned"
      BY DEF Ends, StoppedStay
    <3>2. ASSUME runs'[r] # Untracked
          PROVE  /\ runs'[r].ended /\ ~runs'[r].active
                 /\ \A tt \in Sessions : \A e \in Contents(events'[tt]) :
                        e.run = r => e.state = "aborted"
      <4>1. Tracked(r) /\ runs'[r] = mid[r]
        BY <1>12, <3>1, <3>2
      <4>2. /\ runs[r].ended /\ ~runs[r].active
            /\ \A tt \in Sessions : \A e \in Contents(events[tt]) :
                   e.run = r => e.state = "aborted"
        BY <4>1 DEF Ends, StoppedStay
      <4>3. r \notin Active(ss)
        BY <1>4, <4>2
      <4>4. mid[r] = runs[r]
        BY <1>3, <3>1, <4>3
      <4>5. \A tt \in Sessions : \A e \in Contents(events'[tt]) :
                e.run = r => e \in Contents(events[tt])
        BY <1>2, <4>3
      <4> QED BY <4>1, <4>2, <4>4, <4>5
    <3> QED BY <3>1, <3>2
  <2> QED BY <1>5, <2>1 DEF StoppedStay, Tracked
<1> QED BY <1>14, <1>15, <1>16, <1>17, <1>18, <1>19, <1>20, <1>21, <1>22 DEF Ends

\* A send that carries its own key: what is known of its run.
LEMMA OwnRun ==
    ASSUME TypesInv, UniqueKeys, Ends, NEW s \in Sends
    PROVE  LET r == runOf[s] ss == SessionOf[runOf[s]]
           IN  /\ r \in RunIds /\ r \in Names /\ r \notin Injections /\ ss \in Sessions
               /\ events[ss] \in Seq(Event) /\ events \in [Sessions -> Seq(Event)]
               /\ runs \in [RunIds -> Runs \cup {Untracked}]
               /\ pc \in [Sends -> {"idle", "runtime", "direct", "returned", "refused"}]
               /\ \A t \in Sends : runOf[t] # r <=> t # s
               /\ pc[s] \in {"idle", "direct"} =>
                      ~Tracked(r) /\ r \notin delivered /\ Replays(s) = {<< >>}
               /\ pc[s] # "returned" => r \notin stopped
               /\ r \in EndsIn(events[ss]) => Tracked(r) /\ runs[r].ended
               /\ Tracked(r) =>
                      /\ r \notin delivered
                      /\ runs[r].ended \/ runs[r].active
                      /\ runs[r].ended => r \in lost \cup EndsIn(events[ss])
<1> DEFINE r == runOf[s]
           ss == SessionOf[runOf[s]]
<1>1. /\ r \in RunIds /\ r \in Names /\ r \notin Injections /\ ss \in Sessions
      /\ events[ss] \in Seq(Event) /\ events \in [Sessions -> Seq(Event)]
  BY SendFacts, GatewayAssumption
<1>2. /\ runs \in [RunIds -> Runs \cup {Untracked}]
      /\ pc \in [Sends -> {"idle", "runtime", "direct", "returned", "refused"}]
  BY DEF TypesInv, QueuesTyped
<1>3. \A t \in Sends : runOf[t] # r <=> t # s
  BY DEF UniqueKeys
<1>4. pc[s] \in {"idle", "direct"} => ~Tracked(r) /\ r \notin delivered
  BY <1>1, <1>3 DEF Ends, SendsKnown, Begun
<1>5. ~Tracked(r) => Replays(s) = {<< >>}
  BY DEF Replays
<1>6. pc[s] # "returned" => r \notin stopped
  BY DEF Ends, StoppedStay
<1>7. r \in EndsIn(events[ss]) => Tracked(r) /\ runs[r].ended
  BY <1>1 DEF Ends, EndsKnown
<1>8. Tracked(r) => /\ r \notin delivered
                    /\ runs[r].ended \/ runs[r].active
                    /\ runs[r].ended => r \in lost \cup EndsIn(events[ss])
  BY <1>1 DEF Ends, DeliveredGone, OnTheWay
<1> QED BY <1>1, <1>2, <1>3, <1>4, <1>5, <1>6, <1>7, <1>8

\* A step of a send, whatever polls and aborts did to its run meanwhile.
LEMMA EndsClient ==
    ASSUME TypesInv, UniqueKeys, Ends, NEW s \in Sends, Client(s)
    PROVE  Ends'
<1> DEFINE r == runOf[s]
           ss == SessionOf[runOf[s]]
           base == events[ss]
<1>1. /\ r \in RunIds /\ r \in Names /\ r \notin Injections /\ ss \in Sessions
      /\ base \in Seq(Event) /\ events \in [Sessions -> Seq(Event)]
      /\ runs \in [RunIds -> Runs \cup {Untracked}]
      /\ pc \in [Sends -> {"idle", "runtime", "direct", "returned", "refused"}]
      /\ \A t \in Sends : runOf[t] # r <=> t # s
      /\ pc[s] # "returned" => r \notin stopped
      /\ r \in EndsIn(base) => Tracked(r) /\ runs[r].ended
      /\ Tracked(r) =>
             /\ r \notin delivered
             /\ runs[r].ended \/ runs[r].active
             /\ runs[r].ended => r \in lost \cup EndsIn(base)
  BY OwnRun
<1>2. pc[s] \in {"idle", "direct"} => ~Tracked(r) /\ r \notin delivered /\ Replays(s) = {<< >>}
  BY OwnRun
<1>3. ASSUME NEW place, Go(s, place)
      PROVE  pc'[s] = place /\ \A t \in Sends : t # s => pc'[t] = pc[t]
  BY <1>1, <1>3 DEF Go
<1>4. ASSUME NEW new \in Seq(Event), Push(ss, new), Once(new), EndsIn(base) \cap EndsIn(new) = {},
             \A e \in Contents(new) : e.run = r,
             injected' = injected, delivered' \subseteq delivered, runOf' = runOf,
             \A x \in RunIds : x # r => runs'[x] = runs[x],
             \A t \in Sends : t # s => pc'[t] = pc[t]
      PROVE  Changes(r, ss, base, new)
  <2>1. Becomes(ss, base, new)
    BY <1>1, <1>4, PushBecomes
  <2> HIDE DEF base, ss, r
  <2>2. Contents(base) \subseteq Contents(events[ss]) /\ (Once(events[ss]) => Once(base))
        /\ EndsIn(events[ss]) \subseteq EndsIn(base) \cup EndsIn(new)
    BY DEF base
  <2> QED BY <1>1, <1>4, <2>1, <2>2 DEF Changes, ss, r
<1>5. << >> \in Seq(Event) /\ Once(<< >>) /\ EndsIn(<< >>) = {} /\ Contents(<< >>) = {}
  BY EmptyEvents
<1>6. ASSUME NEW states \in Seq(Quiet)
      PROVE  LET new == EventsOf(r, states)
             IN  /\ new \in Seq(Event) /\ Once(new) /\ EndsIn(new) = {}
                 /\ \A e \in Contents(new) : e.run = r
  BY <1>1, RunEvents
<1> HIDE DEF r, ss, base
<1>7. CASE SendDeduped(s)
  <2>1. /\ pc[s] = "idle" /\ \A t \in Sends : t # s => pc'[t] = pc[t]
        /\ UNCHANGED <<runOf, runs, events, delivered, injected, lost, stopped>>
    BY <1>3, <1>7 DEF SendDeduped
  <2>2. SendsKnown'
    <3>1. \A x \in RunIds : Tracked(x) \/ x \in delivered =>
              \E t \in Sends : runOf[t] = x /\ pc'[t] \in {"runtime", "returned"}
      BY <2>1 DEF Ends, SendsKnown, Begun
    <3> QED BY <2>1, <3>1 DEF SendsKnown, Begun, Tracked
  <2>3. StoppedStay'
    <3>1. \A x \in stopped : \A t \in Sends : runOf[t] = x => pc'[t] = "returned"
      BY <2>1 DEF Ends, StoppedStay
    <3> QED BY <2>1, <3>1 DEF Ends, StoppedStay, Tracked
  <2> QED BY <2>1, <2>2, <2>3 DEF Ends, QueuesOwned, EndsOnce, EndsApart, EndsNew, EndsKnown,
                                  DeliveredGone, OnTheWay, Tracked
<1>8. CASE SendDenied(s)
  <2>1. /\ pc[s] = "idle" /\ \A t \in Sends : t # s => pc'[t] = pc[t]
        /\ UNCHANGED <<runOf, runs, delivered, keys, deltas, injected, stopped>>
    BY <1>3, <1>8 DEF SendDenied
  <2>2. Push(ss, << >>)
    BY <1>2, <1>8, <2>1 DEF SendDenied, r, ss
  <2>3. Changes(r, ss, base, << >>)
    BY <1>4, <1>5, <2>1, <2>2
  <2>4. Settled(r, base, << >>)
    BY <1>1, <1>2, <2>1, <1>5 DEF Settled, Tracked
  <2> QED BY <1>1, <2>1, <2>3, <2>4, EndsPush
<1>9. CASE SendDirect(s)
  <2>1. /\ pc[s] = "idle" /\ \A t \in Sends : t # s => pc'[t] = pc[t]
        /\ UNCHANGED <<runOf, runs, delivered, keys, deltas, injected, stopped>>
    BY <1>3, <1>9 DEF SendDirect
  <2>2. Push(ss, << >>)
    BY <1>2, <1>9, <2>1 DEF SendDirect, r, ss
  <2>3. Changes(r, ss, base, << >>)
    BY <1>4, <1>5, <2>1, <2>2
  <2>4. Settled(r, base, << >>)
    BY <1>1, <1>2, <2>1, <1>5 DEF Settled, Tracked
  <2> QED BY <1>1, <2>1, <2>3, <2>4, EndsPush
<1>10. CASE SendToRuntime(s)
  <2> DEFINE new == EventsOf(r, <<"queued", "started">>)
  <2>1. /\ pc[s] = "idle" /\ pc'[s] = "runtime" /\ \A t \in Sends : t # s => pc'[t] = pc[t]
        /\ runs' = [runs EXCEPT ![r] = NewRun]
        /\ UNCHANGED <<runOf, delivered, keys, deltas, injected, stopped>>
    BY <1>3, <1>10 DEF SendToRuntime, r
  <2>2. /\ new \in Seq(Event) /\ Once(new) /\ EndsIn(new) = {}
        /\ \A e \in Contents(new) : e.run = r
    BY <1>6, QuietStates
  <2>3. Push(ss, new)
    <3>1. PICK replay \in Replays(s) : Push(ss, replay \o new)
      BY <1>10 DEF SendToRuntime, r, ss
    <3> HIDE DEF new
    <3>2. << >> \o new = new
      BY <2>2
    <3> QED BY <1>2, <2>1, <3>1, <3>2
  <2> HIDE DEF new
  <2>4. runs'[r] = NewRun /\ ~NewRun.ended /\ NewRun.active
        /\ \A x \in RunIds : x # r => runs'[x] = runs[x]
    BY <1>1, <2>1 DEF NewRun
  <2>5. Changes(r, ss, base, new)
    BY <1>4, <2>1, <2>2, <2>3, <2>4
  <2>6. Begun(r)'
    BY <2>1 DEF Begun, r
  <2>7. Settled(r, base, new)
    BY <1>1, <1>2, <2>1, <2>2, <2>4, <2>6 DEF Settled
  <2> QED BY <1>1, <2>1, <2>5, <2>7, EndsPush
<1>11. CASE DeltaArrives(s)
  <2> DEFINE new == EventsOf(r, <<"delta">>)
  <2>1. /\ pc[s] = "runtime" /\ Push(ss, new)
        /\ runs' = IF Tracked(r)
                   THEN [runs EXCEPT ![r] = [@ EXCEPT !.text = "text", !.full = TRUE]]
                   ELSE runs
        /\ UNCHANGED <<runOf, delivered, keys, pc, injected, stopped>>
    BY <1>11, Zenon DEF DeltaArrives, r, ss
  <2>2. /\ new \in Seq(Event) /\ Once(new) /\ EndsIn(new) = {}
        /\ \A e \in Contents(new) : e.run = r
    BY <1>6, QuietStates
  <2> HIDE DEF new
  <2>3. /\ \A x \in RunIds : x # r => runs'[x] = runs[x]
        /\ (runs'[r] # Untracked) <=> Tracked(r)
        /\ Tracked(r) => runs'[r].ended = runs[r].ended /\ runs'[r].active = runs[r].active
    <3>1. CASE Tracked(r)
      <4> DEFINE x == [runs[r] EXCEPT !.text = "text", !.full = TRUE]
      <4>1. x \in Runs /\ x.ended = runs[r].ended /\ x.active = runs[r].active
        BY <1>1, <3>1, ZenonT(40) DEF Tracked, Runs
      <4>2. runs' = [runs EXCEPT ![r] = x]
        BY <2>1, <3>1, Zenon
      <4> HIDE DEF x
      <4> QED BY <1>1, <3>1, <4>1, <4>2, RunsTracked
    <3>2. CASE ~Tracked(r)
      BY <2>1, <3>2 DEF Tracked
    <3> QED BY <3>1, <3>2
  <2>4. Changes(r, ss, base, new)
    BY <1>4, <2>1, <2>2, <2>3
  <2>5. Begun(r)'
    BY <2>1 DEF Begun, r
  <2>6. Settled(r, base, new)
    BY <1>1, <2>1, <2>2, <2>3, <2>5 DEF Settled
  <2> QED BY <1>1, <2>1, <2>4, <2>6, EndsPush
<1>12. CASE \E result \in Results : SendEnds(s, result)
  <2>1. PICK result \in Results : SendEnds(s, result)
    BY <1>12
  <2>2. PICK x, new : /\ Leaves(s, x, new)
                      /\ Push(ss, new)
                      /\ runs' = [runs EXCEPT ![r] = x]
    <3>1. QueuesTyped /\ runOf \in [Sends -> RunIds]
      BY SendFacts DEF TypesInv
    <3> QED BY <2>1, <3>1, SendLeaves DEF r, ss
  <2>3. /\ x \in Runs /\ new \in Seq(Event) /\ Once(new)
        /\ \A e \in Contents(new) : e.run = r
        /\ EndsIn(new) = {} \/ (EndsIn(new) = {r} /\ x.ended)
        /\ Tracked(r) /\ runs[r].ended => x.ended /\ EndsIn(new) = {}
        /\ ~(Tracked(r) /\ runs[r].ended) /\ x.ended => EndsIn(new) = {r}
        /\ (Tracked(r) /\ pc[s] = "direct") \/ x.ended \/ x.active
    BY <2>2 DEF Leaves, r
  <2>4. /\ pc[s] \in {"runtime", "direct"} /\ pc'[s] = "returned"
        /\ \A t \in Sends : t # s => pc'[t] = pc[t]
        /\ delivered' = delivered \ {r}
        /\ UNCHANGED <<runOf, deltas, injected, stopped>>
    BY <1>3, <2>1 DEF SendEnds, Undelivered, r
  <2>5. /\ runs'[r] = x /\ \A y \in RunIds : y # r => runs'[y] = runs[y]
        /\ x # Untracked
    BY <1>1, <2>2, <2>3, RunsTracked
  <2>6. EndsIn(base) \cap EndsIn(new) = {}
    BY <1>1, <2>3
  <2>7. Changes(r, ss, base, new)
    BY <1>4, <2>2, <2>3, <2>4, <2>5, <2>6
  <2>8. Begun(r)'
    BY <2>4 DEF Begun, r
  <2>9. r \in EndsIn(base) \cup EndsIn(new) => x.ended
    BY <1>1, <2>3
  <2>10. x.ended => r \in lost \cup EndsIn(base) \cup EndsIn(new)
    BY <1>1, <2>3
  <2>11. x.ended \/ x.active
    BY <1>2, <2>3, <2>4
  <2>12. Settled(r, base, new)
    BY <1>1, <2>4, <2>5, <2>8, <2>9, <2>10, <2>11 DEF Settled
  <2> QED BY <1>1, <2>4, <2>7, <2>12, EndsPush
<1> QED BY <1>7, <1>8, <1>9, <1>10, <1>11, <1>12 DEF Client

\* chat.inject: the run id is fresh, so its end is not queued anywhere.
LEMMA EndsInject ==
    ASSUME TypesInv, UniqueKeys, Ends, NEW i \in Injections, NEW ss \in Sessions, Inject(i, ss)
    PROVE  Ends'
<1> DEFINE new == EventsOf(i, <<"final">>)
           base == events[ss]
<1>1. i \in Names /\ i \notin RunIds /\ "final" \in Terminal
  BY GatewayAssumption DEF Names, Terminal
<1>2. /\ new \in Seq(Event) /\ EndsIn(new) = {i} /\ Once(new)
      /\ \A e \in Contents(new) : e.run = i
  BY <1>1, OneEnd
<1>3. /\ i \notin injected /\ Push(ss, new) /\ injected' = injected \cup {i}
      /\ UNCHANGED <<runOf, runs, delivered, keys, pc, deltas, stopped>>
  BY DEF Inject
<1> HIDE DEF new
<1>4. base \in Seq(Event) /\ Becomes(ss, base, new)
  BY <1>2, <1>3, PushBecomes DEF TypesInv, QueuesTyped
<1>5. i \notin EndsIn(base)
  BY <1>3 DEF Ends, QueuesOwned, EndsIn
<1>6. Changes(i, ss, base, new)
  <2>1. EndsIn(base) \cap EndsIn(new) = {}
    BY <1>2, <1>5
  <2> QED BY <1>1, <1>2, <1>3, <1>4, <2>1 DEF Changes
<1> HIDE DEF base
<1>7. stopped' \subseteq stopped \cup (RunIds \cap {i})
  BY <1>3
<1> QED BY <1>1, <1>6, <1>7, EndsPush

\* chat.abort: the new end of the run replaces all that was queued of it.
LEMMA EndsAbort ==
    ASSUME TypesInv, UniqueKeys, Ends, NEW r \in RunIds, NEW named, Abort(r, named)
    PROVE  Ends'
<1> DEFINE ss == SessionOf[r]
           base == WithoutEvents(events[ss], r)
           new == EventsOf(r, <<"aborted">>)
<1>1. Aborts(r)
  BY AbortFacts DEF TypesInv
<1>2. /\ ss \in Sessions /\ base \in Seq(Event) /\ new \in Seq(Event)
      /\ Becomes(ss, base, new)
      /\ Contents(base) = {e \in Contents(events[ss]) : e.run # r}
      /\ Once(events[ss]) => Once(base)
      /\ EndsIn(new) = {r} /\ Once(new)
      /\ \A e \in Contents(new) : e.run = r /\ e.state = "aborted"
      /\ \E x \in Runs : x.ended /\ ~x.active /\ runs' = [runs EXCEPT ![r] = x]
  BY <1>1, Zenon DEF Aborts
<1>3. /\ Tracked(r) /\ UNCHANGED <<runOf, delivered, keys, pc, deltas, injected>>
      /\ stopped' = IF InFlight(r) THEN stopped ELSE stopped \cup {r}
  BY DEF Abort
<1>4. /\ runs'[r] # Untracked /\ runs'[r].ended /\ ~runs'[r].active
      /\ \A x \in RunIds : x # r => runs'[x] = runs[x]
  BY <1>2, RunsTracked DEF TypesInv, QueuesTyped
<1>5. r \in Names /\ r \notin Injections
  BY GatewayAssumption DEF Names
<1> HIDE DEF base, new
<1>6. EndsIn(base) = EndsIn(events[ss]) \ {r}
  BY <1>2 DEF EndsIn
<1>7. Changes(r, ss, base, new)
  <2>1. /\ Contents(base) \subseteq Contents(events[ss])
        /\ EndsIn(events[ss]) \subseteq EndsIn(base) \cup EndsIn(new)
        /\ EndsIn(base) \cap EndsIn(new) = {}
    BY <1>2, <1>6
  <2> HIDE DEF ss
  <2> QED BY <1>2, <1>3, <1>4, <1>5, <2>1 DEF Changes, ss
<1>8. r \notin delivered
  BY <1>3 DEF Ends, DeliveredGone
<1>9. Begun(r)'
  <2>1. Begun(r)
    BY <1>3 DEF Ends, SendsKnown
  <2> QED BY <1>3, <2>1 DEF Begun
<1>10. r \in stopped' => \A s \in Sends : runOf[s] = r => pc'[s] = "returned"
  <2>1. CASE r \in stopped
    BY <1>3, <2>1 DEF Ends, StoppedStay
  <2>2. CASE r \notin stopped
    <3>1. PICK s \in Sends : runOf[s] = r /\ pc[s] \in {"runtime", "returned"}
      BY <1>3 DEF Ends, SendsKnown, Begun
    <3>2. \A t \in Sends : runOf[t] = r => t = s
      BY <3>1 DEF UniqueKeys
    <3> QED BY <1>3, <2>2, <3>1, <3>2 DEF InFlight
  <2> QED BY <2>1, <2>2
<1>11. \A e \in Contents(base) \cup Contents(new) : e.run = r => e.state = "aborted"
  BY <1>2
<1>12. Settled(r, base, new)
  BY <1>2, <1>3, <1>4, <1>8, <1>9, <1>10, <1>11 DEF Settled
<1>13. stopped' \subseteq stopped \cup (RunIds \cap {r})
  BY <1>3
<1> HIDE DEF ss
<1> QED BY <1>2, <1>5, <1>7, <1>12, <1>13, EndsPush

\* Nothing is queued at the start.
LEMMA EndsInit == Init => EndsInv
<1> SUFFICES ASSUME Init PROVE Ends
  BY DEF EndsInv
<1>1. \A ss \in Sessions : Contents(events[ss]) = {} /\ EndsIn(events[ss]) = {} /\ Once(events[ss])
  BY EmptyEvents DEF Init
<1>2. delivered = {} /\ stopped = {} /\ \A r \in RunIds : ~Tracked(r)
  BY DEF Init, Tracked
<1> QED BY <1>1, <1>2 DEF Ends, QueuesOwned, EndsOnce, EndsApart, EndsNew, EndsKnown,
                          DeliveredGone, SendsKnown, OnTheWay, StoppedStay

\* Every step keeps the invariant.
LEMMA EndsNext == TypesInv /\ EndsInv /\ [Next]_vars => EndsInv'
<1>1. ASSUME TypesInv, UniqueKeys, Ends, [Next]_vars PROVE Ends'
  <2>1. ASSUME NEW s \in Sends, Client(s) PROVE Ends'
    BY <1>1, <2>1, EndsClient
  <2>2. ASSUME NEW i \in Injections, NEW ss \in Sessions, Inject(i, ss) PROVE Ends'
    BY <1>1, <2>2, EndsInject
  <2>3. ASSUME NEW r \in RunIds, NEW named \in BOOLEAN, Abort(r, named) PROVE Ends'
    BY <1>1, <2>3, EndsAbort
  <2>4. ASSUME NEW ss \in Sessions, NEW limit \in Limits, Poll(ss, limit) PROVE Ends'
    BY <1>1, <2>4, EndsPoll
  <2>5. CASE UNCHANGED vars
    BY <1>1, <2>5 DEF vars, Ends, QueuesOwned, EndsOnce, EndsApart, EndsNew, EndsKnown,
           DeliveredGone, SendsKnown, OnTheWay, StoppedStay, Tracked, Begun
  <2> QED BY <1>1, <2>1, <2>2, <2>3, <2>4, <2>5 DEF Next
<1>2. [Next]_vars => UNCHANGED runOf
  <2> SUFFICES ASSUME [Next]_vars PROVE UNCHANGED runOf
    OBVIOUS
  <2>1. ASSUME NEW s \in Sends, Client(s) PROVE UNCHANGED runOf
    <3>1. CASE SendDeduped(s) \/ SendDenied(s) \/ SendDirect(s)
      BY <3>1, Zenon DEF SendDeduped, SendDenied, SendDirect
    <3>2. CASE SendToRuntime(s)
      BY <3>2, Zenon DEF SendToRuntime
    <3>3. CASE DeltaArrives(s)
      BY <3>3, Zenon DEF DeltaArrives
    <3>4. ASSUME NEW result \in Results, SendEnds(s, result) PROVE UNCHANGED runOf
      BY <3>4, Zenon DEF SendEnds
    <3> QED BY <2>1, <3>1, <3>2, <3>3, <3>4 DEF Client
  <2>2. ASSUME NEW i \in Injections, NEW ss \in Sessions, Inject(i, ss) PROVE UNCHANGED runOf
    BY <2>2, Zenon DEF Inject
  <2>3. ASSUME NEW r \in RunIds, NEW named \in BOOLEAN, Abort(r, named) PROVE UNCHANGED runOf
    BY <2>3, Zenon DEF Abort
  <2>4. ASSUME NEW ss \in Sessions, NEW limit \in Limits, Poll(ss, limit) PROVE UNCHANGED runOf
    BY <2>4, Zenon DEF Poll, PollWith
  <2>5. CASE UNCHANGED vars
    BY <2>5 DEF vars
  <2> QED BY <2>1, <2>2, <2>3, <2>4, <2>5 DEF Next
<1>3. UNCHANGED runOf => (UniqueKeys' <=> UniqueKeys)
  BY DEF UniqueKeys
<1> QED BY <1>1, <1>2, <1>3 DEF EndsInv

\* Types and ends together, for every behaviour.
LEMMA EndsHold == Spec => [](TypesInv /\ EndsInv)
  BY TypesInit, TypesNext, EndsInit, EndsNext, PTL DEF Spec

\* The places of the ends of a run are in the queues that hold its end.
LEMMA QueuedEnds ==
    ASSUME NEW r, NEW p \in Queued(r, Terminal)
    PROVE  /\ p[1] \in Sessions /\ p[2] \in 1..Len(events[p[1]])
           /\ IsTerminal(events[p[1]][p[2]]) /\ events[p[1]][p[2]].run = r
           /\ r \in EndsIn(events[p[1]]) /\ p = <<p[1], p[2]>>
<1>1. /\ p \in Sessions \X (1..MaxEvents) /\ p[2] <= Len(events[p[1]])
      /\ events[p[1]][p[2]].run = r /\ events[p[1]][p[2]].state \in Terminal
  BY DEF Queued
<1>2. p[1] \in Sessions /\ p[2] \in 1..MaxEvents /\ p = <<p[1], p[2]>>
  BY <1>1
<1>3. p[2] \in 1..Len(events[p[1]])
  BY <1>1, <1>2
<1> QED BY <1>1, <1>2, <1>3, EndsAt DEF IsTerminal

\* A run never has two ends waiting for the client, whatever the order of the end of its
\* send, the polls meanwhile and aborts (ChatPipeline.cpp:2215-2220, 2506, 2820).
THEOREM EndQueuedOnce == Spec => []OneTerminalQueued
<1>1. TypesInv /\ EndsInv => OneTerminalQueued
  <2> SUFFICES ASSUME TypesInv, Ends, NEW r \in RunIds
               PROVE  Cardinality(Queued(r, Terminal)) <= 1
    BY DEF EndsInv, OneTerminalQueued
  <2>1. ASSUME NEW p \in Queued(r, Terminal), NEW q \in Queued(r, Terminal) PROVE p = q
    <3>1. p[1] = q[1]
      BY QueuedEnds DEF Ends, EndsApart
    <3>2. p[2] = q[2]
      BY <3>1, QueuedEnds DEF Ends, EndsOnce, Once
    <3> QED BY <3>1, <3>2, QueuedEnds
  <2>2. CASE Queued(r, Terminal) = {}
    BY <2>2, FS_EmptySet
  <2>3. CASE Queued(r, Terminal) # {}
    <3>1. PICK p : Queued(r, Terminal) = {p}
      BY <2>1, <2>3
    <3> QED BY <3>1, FS_Singleton
  <2> QED BY <2>2, <2>3
<1> QED BY <1>1, EndsHold, PTL

\* No poll skips a queued end because one of that run was delivered before
\* (ChatPipeline.cpp:2291, 2924-2928).
THEOREM EndsDelivered == Spec => []NothingSwallowed
<1>1. EndsInv => NothingSwallowed
  BY QueuedEnds DEF EndsInv, Ends, EndsNew, NothingSwallowed
<1> QED BY <1>1, EndsHold, PTL

\* A tracked run is on its way to its end, unless that fell to the retention limit
\* (ChatPipeline.cpp:2573-2577, 2992-3003).
THEOREM RunsNotForgotten == Spec => []NoForgottenRun
<1>1. TypesInv /\ EndsInv => NoForgottenRun
  <2> SUFFICES ASSUME TypesInv, Ends, NEW r \in RunIds, Tracked(r), r \notin lost,
                      ~(runs[r].active /\ ~runs[r].ended)
               PROVE  Queued(r, Terminal) # {}
    BY DEF EndsInv, NoForgottenRun
  <2> DEFINE ss == SessionOf[r]
  <2>1. r \in EndsIn(events[ss]) /\ ss \in Sessions
    BY GatewayAssumption DEF Ends, OnTheWay
  <2>2. PICK i \in 1..Len(events[ss]) : IsTerminal(events[ss][i]) /\ events[ss][i].run = r
    BY <2>1, EndsAt
  <2>3. /\ Len(events[ss]) \in Nat /\ Len(events[ss]) <= MaxEvents /\ MaxEvents \in Nat
    BY <2>1, GatewayAssumption DEF TypesInv, QueuesTyped
  <2>4. i \in 1..MaxEvents /\ i <= Len(events[ss])
    BY <2>2, <2>3
  <2>5. <<ss, i>> \in Queued(r, Terminal)
    BY <2>1, <2>2, <2>4 DEF Queued, IsTerminal
  <2> QED BY <2>5
<1> QED BY <1>1, EndsHold, PTL

\* After an abort of a run whose send has returned, nothing but "aborted" waits for it
\* (ChatPipeline.cpp:2472-2517).
THEOREM AbortsStick == Spec => []AbortSticks
<1>1. TypesInv /\ EndsInv => AbortSticks
  <2> SUFFICES ASSUME TypesInv, Ends, NEW r \in stopped, Tracked(r)
               PROVE  runs[r].ended /\ Queued(r, States \ {"aborted"}) = {}
    BY DEF EndsInv, AbortSticks
  <2>1. /\ runs[r].ended
        /\ \A ss \in Sessions : \A e \in Contents(events[ss]) : e.run = r => e.state = "aborted"
    BY DEF Ends, StoppedStay
  <2>2. ASSUME NEW p \in Queued(r, States \ {"aborted"}) PROVE FALSE
    <3> DEFINE e == events[p[1]][p[2]]
    <3>1. /\ p \in Sessions \X (1..MaxEvents) /\ p[2] <= Len(events[p[1]])
          /\ e.run = r /\ e.state # "aborted"
      BY DEF Queued
    <3>2. p[1] \in Sessions /\ p[2] \in 1..Len(events[p[1]])
      BY <3>1
    <3>3. e \in Contents(events[p[1]])
      BY <3>2 DEF Contents
    <3> QED BY <2>1, <3>1, <3>2, <3>3
  <2> QED BY <2>1, <2>2
<1> QED BY <1>1, EndsHold, PTL
-----------------------------------------------------------------------------
(***************************************************************************)
(* The order in which polls take the runs.                                 *)
(***************************************************************************)
\* A poll that takes the runs with the oldest progress first is a poll, and the times are
\* only kept: what is proved for every order holds for that of the code
\* (ChatPipeline.cpp:2579-2594, 2910).
THEOREM PollingIsGateway == PollingSpec => Spec
<1>1. PollingInit => Init
  BY DEF PollingInit
<1>2. [PollingNext]_pollingVars => [Next]_vars
  <2> SUFFICES ASSUME [PollingNext]_pollingVars PROVE [Next]_vars
    OBVIOUS
  <2>1. ASSUME NEW s \in Sends, TimedClient(s) PROVE Client(s)
    BY <2>1 DEF TimedClient, TimedDirect, TimedToRuntime, TimedDelta, TimedEnd, Client
  <2>2. ASSUME NEW ss \in Sessions, NEW limit \in Limits, TimedPoll(ss, limit)
        PROVE  Poll(ss, limit)
    BY <2>2 DEF TimedPoll, TimedPollWith, Poll
  <2>3. ASSUME NEW r \in RunIds, NEW named \in BOOLEAN, TimedAbort(r, named)
        PROVE  Abort(r, named)
    BY <2>3 DEF TimedAbort
  <2>4. UNCHANGED pollingVars => UNCHANGED vars
    BY DEF pollingVars
  <2> QED BY <2>1, <2>2, <2>3, <2>4, Zenon DEF PollingNext, Next
<1> QED BY <1>1, <1>2, PTL DEF PollingSpec, Spec
=============================================================================
