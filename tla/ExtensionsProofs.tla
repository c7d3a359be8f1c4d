-------------------------- MODULE ExtensionsProofs --------------------------
(***************************************************************************)
(* Proofs about Extensions, for any catalogs, adapters, skills and tools:   *)
(* what can be called is active, what is active can be called, and a stop   *)
(* leaves nothing behind.                                                  *)
(***************************************************************************)
EXTENDS Extensions, WellFoundedInduction, TLAPS

Owners == ExtIds \cup {"none", "host", "fallback"}

\* A registry as the steps of a start pass it on.  Of the list nothing is known but what a
\* step writes.
Sound(r) ==
    /\ r = [list |-> r.list, executor |-> r.executor, loaded |-> r.loaded, state |-> r.state,
            claimed |-> r.claimed]
    /\ r.executor \in [Tools -> Owners]
    /\ r.loaded \subseteq ExtIds
    /\ r.state \in [ExtIds -> States]

-----------------------------------------------------------------------------
(* Manifests. *)

Brings(q, i) == OnIds(Readable(q[i]))

\* A manifest that cannot be read has its entry's id and no tools.
LEMMA ReadableEntry ==
    ASSUME NEW q \in Catalogs, NEW i \in 1..Len(q)
    PROVE  /\ q[i].id \in ExtIds /\ Readable(q[i]).id = q[i].id
           /\ Readable(q[i]).tools \in Seq([id : Tools, on : BOOLEAN])
           /\ Brings(q, i) \subseteq Tools
           /\ Part(Readable(q[i])) \subseteq Brings(q, i)
           /\ Unresolved(Readable(q[i])) = {} => Part(Readable(q[i])) = Brings(q, i)
<1>1. q \in Seq(Entries) /\ q[i] \in Entries
  BY ExtensionsAssumption
<1>2. q[i].id \in ExtIds /\ q[i].tools \in Seq([id : Tools, on : BOOLEAN])
  BY <1>1 DEF Entries
<1>3. Readable(q[i]).id = q[i].id
  BY <1>1 DEF Readable, Entries
<1>4. Readable(q[i]).tools = IF q[i].readable THEN q[i].tools ELSE << >>
  BY <1>1 DEF Readable, Entries
<1> DEFINE m == Readable(q[i])
           S == [id : Tools, on : BOOLEAN]
<1>5. m.tools \in Seq(S)
  <2>1. << >> \in Seq(S)
    OBVIOUS
  <2> HIDE DEF S
  <2> QED BY <1>2, <1>4, <2>1 DEF S
<1> HIDE DEF m
<1>6. \A k \in DOMAIN m.tools : m.tools[k] \in S
  <2> HIDE DEF S
  <2> QED BY <1>5
<1>7. OnIds(m) \subseteq Tools
  BY <1>6 DEF OnIds, OnAt
<1>8. Part(m) \subseteq OnIds(m)
  BY DEF Part, OnIds
<1>9. Unresolved(m) = {} => Part(m) = OnIds(m)
  BY DEF Part, OnIds
<1> QED BY <1>2, <1>3, <1>5, <1>7, <1>8, <1>9 DEF m, Brings

\* No two entries of a catalog have the same id.
LEMMA OwnIds ==
    ASSUME NEW q \in Catalogs, NEW i \in 1..Len(q), NEW j \in 1..Len(q), q[i].id = q[j].id
    PROVE  i = j
  BY ExtensionsAssumption

-----------------------------------------------------------------------------
(* What the operators of the registry write. *)

\* p is r with ids listed as enabled and run by owner.
Registered(r, p, ids, source, owner) ==
    /\ Sound(p)
    /\ p.loaded = r.loaded /\ p.state = r.state /\ p.claimed = r.claimed
    /\ \A t \in ids : p.list[t] = Listing(source, TRUE) /\ p.executor[t] = owner
    /\ \A t \in Tools \ ids : p.list[t] = r.list[t] /\ p.executor[t] = r.executor[t]

\* Registering tools.
LEMMA Registers ==
    ASSUME NEW r, Sound(r), NEW ids \in SUBSET Tools, NEW source, NEW owner \in Owners
    PROVE  Registered(r, RegisterRuntimeTools(r, ids, source, owner), ids, source, owner)
<1> SUFFICES ASSUME NEW p, p = RegisterRuntimeTools(r, ids, source, owner)
             PROVE  Registered(r, p, ids, source, owner)
  OBVIOUS
<1>1. p = [list |-> [t \in Tools |-> IF t \in ids THEN Listing(source, TRUE) ELSE r.list[t]],
           executor |-> [t \in Tools |-> IF t \in ids THEN owner ELSE r.executor[t]],
           loaded |-> r.loaded, state |-> r.state, claimed |-> r.claimed]
  BY DEF RegisterRuntimeTools, Sound
<1>2. p.executor = [t \in Tools |-> IF t \in ids THEN owner ELSE r.executor[t]]
  BY <1>1
<1>3. p.executor \in [Tools -> Owners]
  BY <1>2 DEF Sound
<1>4. p.list = [t \in Tools |-> IF t \in ids THEN Listing(source, TRUE) ELSE r.list[t]]
  BY <1>1
<1>5. Sound(p) /\ p.loaded = r.loaded /\ p.state = r.state /\ p.claimed = r.claimed
  BY <1>1, <1>3 DEF Sound
<1> QED BY <1>2, <1>4, <1>5 DEF Registered

\* Unregistering tools.
LEMMA Unregisters ==
    ASSUME NEW r, Sound(r), NEW ids \in SUBSET Tools,
           NEW p, p = UnregisterRuntimeTools(r, ids)
    PROVE  /\ Sound(p)
           /\ p.loaded = r.loaded /\ p.state = r.state /\ p.claimed = r.claimed
           /\ \A t \in ids : p.executor[t] = "none"
           /\ \A t \in Tools \ ids : p.list[t] = r.list[t] /\ p.executor[t] = r.executor[t]
<1>1. p = [list |-> [t \in Tools |-> IF t \in ids THEN Unlisted ELSE r.list[t]],
           executor |-> [t \in Tools |-> IF t \in ids THEN "none" ELSE r.executor[t]],
           loaded |-> r.loaded, state |-> r.state, claimed |-> r.claimed]
  BY DEF UnregisterRuntimeTools, Sound
<1> QED BY <1>1 DEF Sound, Owners

\* The other steps write the list, the runtimes, the states or what is claimed.
WithList(r, l) == [r EXCEPT !.list = l]
WithLoaded(r, s) == [r EXCEPT !.loaded = s]
WithStates(r, s) == [r EXCEPT !.state = s]
WithClaims(r, c) == [r EXCEPT !.claimed = c]

\* p is r but for its list, its runtimes, its states and its claims.
Written(r, p, l, d, s, c) ==
    /\ Sound(p) /\ p.executor = r.executor
    /\ p.list = l /\ p.loaded = d /\ p.state = s /\ p.claimed = c

\* A list.
LEMMA WritesList ==
    ASSUME NEW r, Sound(r), NEW l
    PROVE  Written(r, WithList(r, l), l, r.loaded, r.state, r.claimed)
<1>1. WithList(r, l) = [list |-> l, executor |-> r.executor, loaded |-> r.loaded,
                        state |-> r.state, claimed |-> r.claimed]
  BY DEF Sound, WithList
<1> QED BY <1>1 DEF Sound, Written

\* A runtime that is loaded or unloaded.
LEMMA WritesLoaded ==
    ASSUME NEW r, Sound(r), NEW s \in SUBSET ExtIds
    PROVE  Written(r, WithLoaded(r, s), r.list, s, r.state, r.claimed)
<1>1. WithLoaded(r, s) = [list |-> r.list, executor |-> r.executor, loaded |-> s,
                          state |-> r.state, claimed |-> r.claimed]
  BY DEF Sound, WithLoaded
<1> QED BY <1>1 DEF Sound, Written

\* States of extensions.
LEMMA WritesStates ==
    ASSUME NEW r, Sound(r), NEW s \in [ExtIds -> States]
    PROVE  Written(r, WithStates(r, s), r.list, r.loaded, s, r.claimed)
<1>1. WithStates(r, s) = [list |-> r.list, executor |-> r.executor, loaded |-> r.loaded,
                          state |-> s, claimed |-> r.claimed]
  BY DEF Sound, WithStates
<1> QED BY <1>1 DEF Sound, Written

\* The state of one extension.
LEMMA WritesState ==
    ASSUME NEW r, Sound(r), NEW x \in ExtIds, NEW v \in States
    PROVE  Written(r, WithStates(r, [r.state EXCEPT ![x] = v]), r.list, r.loaded,
                   [r.state EXCEPT ![x] = v], r.claimed)
<1> DEFINE s == [r.state EXCEPT ![x] = v]
<1>1. s \in [ExtIds -> States]
  BY DEF Sound
<1> HIDE DEF s
<1>2. Written(r, WithStates(r, s), r.list, r.loaded, s, r.claimed)
  BY <1>1, WritesStates
<1> QED BY <1>2 DEF s

\* What is claimed.
LEMMA WritesClaims ==
    ASSUME NEW r, Sound(r), NEW c
    PROVE  Written(r, WithClaims(r, c), r.list, r.loaded, r.state, c)
<1>1. WithClaims(r, c) = [list |-> r.list, executor |-> r.executor, loaded |-> r.loaded,
                          state |-> r.state, claimed |-> c]
  BY DEF Sound, WithClaims
<1> QED BY <1>1 DEF Sound, Written

-----------------------------------------------------------------------------
(***************************************************************************)
(* Activation: what is true of the registry once the first n entries of     *)
(* catalog q had their turn.  An extension that is active has its tools to  *)
(* itself, because what it enabled is claimed; and one that is not has none.*)
(***************************************************************************)
Reached(q, n, r) == \A x \in ExtIds : r.state[x] = "active" => \E i \in 1..n : q[i].id = x

Keeps(q, i, r) ==
    /\ Brings(q, i) # {} => q[i].id \in r.loaded
    /\ Brings(q, i) \subseteq r.claimed
    /\ \A t \in Brings(q, i) :
           r.list[t].on /\ r.list[t].source # "skill" /\ r.executor[t] = q[i].id

Owned(q, n, r) ==
    \A t \in Tools : r.executor[t] \in ExtIds =>
        \E i \in 1..n :
            r.executor[t] = q[i].id /\ r.state[q[i].id] = "active" /\ t \in Brings(q, i)

Turns(q, n, r) ==
    /\ Sound(r) /\ Reached(q, n, r) /\ Owned(q, n, r)
    /\ \A i \in 1..n : r.state[q[i].id] = "active" => Keeps(q, i, r)

\* The turn of entry n: it ends in state v, and of the tools outside ids, claimed by
\* nobody, nothing changes.
Turned(q, n, r, ids, v, p) ==
    /\ Sound(p) /\ p.state = [r.state EXCEPT ![q[n].id] = v]
    /\ r.claimed \subseteq p.claimed /\ r.loaded \ {q[n].id} \subseteq p.loaded
    /\ ids \cap r.claimed = {}
    /\ \A t \in Tools \ ids : p.list[t] = r.list[t] /\ p.executor[t] = r.executor[t]
    /\ \A t \in ids : \/ p.executor[t] = "none"
                      \/ p.executor[t] = q[n].id /\ v = "active" /\ t \in Brings(q, n)
    /\ v = "active" => Keeps(q, n, p)

\* Such a turn keeps what was true before it.
LEMMA TurnKeeps ==
    ASSUME NEW q \in Catalogs, NEW n \in 1..Len(q), NEW r, Turns(q, n - 1, r),
           NEW ids, NEW v \in States, NEW p, Turned(q, n, r, ids, v, p)
    PROVE  Turns(q, n, p)
<1> DEFINE x == q[n].id
<1>1. /\ Len(q) \in Nat /\ n \in Nat /\ n \in 1..n /\ 1..n = 1..(n - 1) \cup {n}
      /\ 1..(n - 1) \subseteq 1..Len(q)
  BY ExtensionsAssumption
<1>2. x \in ExtIds
  BY ReadableEntry
<1>3. \A i \in 1..(n - 1) : q[i].id # x
  BY <1>1, OwnIds
<1>4. \A i \in 1..(n - 1) : q[i].id \in ExtIds /\ Brings(q, i) \subseteq Tools
  BY <1>1, ReadableEntry
<1>5. Sound(r) /\ Sound(p) /\ p.state = [r.state EXCEPT ![x] = v]
  BY DEF Turned, Turns
<1>6. p.state[x] = v /\ \A y \in ExtIds \ {x} : p.state[y] = r.state[y]
  BY <1>2, <1>5 DEF Sound
<1> HIDE DEF x
<1>7. Reached(q, n, p)
  BY <1>1, <1>6 DEF Reached, Turns, x
<1>8. ASSUME NEW i \in 1..n, p.state[q[i].id] = "active"
      PROVE  Keeps(q, i, p)
  <2>1. CASE i = n
    BY <2>1, <1>6, <1>8 DEF Turned, x
  <2>2. CASE i # n
    <3>1. i \in 1..(n - 1) /\ r.state[q[i].id] = "active"
      BY <2>2, <1>1, <1>3, <1>4, <1>6, <1>8
    <3>2. Keeps(q, i, r)
      BY <3>1 DEF Turns
    <3>3. \A t \in Brings(q, i) : t \in Tools \ ids
      BY <3>1, <3>2, <1>4 DEF Keeps, Turned
    <3>4. q[i].id \in r.loaded => q[i].id \in p.loaded
      BY <3>1, <1>3 DEF Turned, x
    <3> QED BY <3>2, <3>3, <3>4 DEF Keeps, Turned
  <2> QED BY <2>1, <2>2
<1>9. ASSUME NEW t \in Tools, p.executor[t] \in ExtIds
      PROVE  \E i \in 1..n :
                p.executor[t] = q[i].id /\ p.state[q[i].id] = "active" /\ t \in Brings(q, i)
  <2>1. CASE t \in ids
    <3>1. "none" \notin ExtIds
      BY ExtensionsAssumption
    <3>2. p.executor[t] = q[n].id /\ v = "active" /\ t \in Brings(q, n)
      BY <3>1, <2>1, <1>9 DEF Turned
    <3> QED BY <3>2, <1>1, <1>6 DEF x
  <2>2. CASE t \notin ids
    <3>1. p.executor[t] = r.executor[t]
      BY <2>2 DEF Turned
    <3>2. PICK i \in 1..(n - 1) :
             r.executor[t] = q[i].id /\ r.state[q[i].id] = "active" /\ t \in Brings(q, i)
      BY <3>1, <1>9 DEF Turns, Owned
    <3> QED BY <3>1, <3>2, <1>1, <1>3, <1>4, <1>6
  <2> QED BY <2>1, <2>2
<1> QED BY <1>5, <1>7, <1>8, <1>9 DEF Turns, Owned

\* The turn of an entry.
LEMMA ActivateTurns ==
    ASSUME NEW q \in Catalogs, NEW n \in 1..Len(q), NEW r, Turns(q, n - 1, r)
    PROVE  Turns(q, n, Activate(r, Readable(q[n])))
<1> DEFINE m == Readable(q[n])
           x == q[n].id
           p == Activate(r, m)
           Ends(v) == WithStates(r, [r.state EXCEPT ![x] = v])
<1>1. /\ x \in ExtIds /\ m.id = x /\ Brings(q, n) = OnIds(m) /\ Brings(q, n) \subseteq Tools
      /\ Part(m) \subseteq OnIds(m) /\ (Unresolved(m) = {} => Part(m) = OnIds(m))
  BY ReadableEntry DEF Brings
<1>2. Sound(r) /\ r.state \in [ExtIds -> States] /\ r.loaded \subseteq ExtIds
  BY DEF Turns, Sound
<1>3. r.state[x] # "active"
  <2>1. Len(q) \in Nat
    BY ExtensionsAssumption
  <2>2. \A i \in 1..(n - 1) : q[i].id # x
    BY <2>1, OwnIds
  <2> QED BY <2>2, <1>1 DEF Turns, Reached
<1>4. \A ids : \A v \in States : \A d : Turned(q, n, r, ids, v, d) => Turns(q, n, d)
  BY TurnKeeps
<1>5. "failed" \in States /\ "deactivated" \in States /\ "active" \in States
  BY DEF States
<1>6. \A v \in {"failed", "deactivated", "active"} : [r EXCEPT !.state[x] = v] = Ends(v)
  BY DEF WithStates
<1> HIDE DEF m, x
<1>7. m.id = x /\ \A v \in {"failed", "deactivated", "active"} : Fails(r, m) = Ends("failed")
  BY <1>1, <1>6 DEF Fails
<1> HIDE DEF Ends
\* Only the state is written.
<1>8. ASSUME NEW v \in States, v = "active" => Brings(q, n) = {}
      PROVE  Turns(q, n, Ends(v))
  <2>1. Written(r, Ends(v), r.list, r.loaded, [r.state EXCEPT ![x] = v], r.claimed)
    BY <1>1, <1>2, WritesState DEF Ends
  <2>2. Brings(q, n) = {} => Keeps(q, n, Ends(v))
    BY DEF Keeps
  <2>3. Turned(q, n, r, {}, v, Ends(v))
    BY <2>1, <2>2, <1>8 DEF Turned, Written, x
  <2> QED BY <2>3, <1>4
<1>9. CASE ~m.enabled
  <2>1. p = Ends("deactivated")
    BY <1>9, <1>1, <1>6 DEF Activate
  <2> HIDE DEF p
  <2> QED BY <2>1, <1>5, <1>8 DEF p, m
<1>10. CASE m.enabled /\ r.state[x] = "failed"
  <2>1. p = r
    BY <1>10, <1>1 DEF Activate
  <2>2. r.state = [r.state EXCEPT ![x] = "failed"]
    BY <1>1, <1>2, <1>10
  <2>3. Turned(q, n, r, {}, "failed", r)
    BY <2>2, <1>2 DEF Turned, x
  <2> HIDE DEF p
  <2> QED BY <2>1, <2>3, <1>4, <1>5 DEF p, m
<1>11. CASE /\ m.enabled /\ r.state[x] # "failed"
            /\ Taken(r, m) \/ m.refused
  <2>1. p = Ends("failed")
    BY <1>11, <1>1, <1>7 DEF Activate
  <2> HIDE DEF p
  <2> QED BY <2>1, <1>5, <1>8 DEF p, m
<1>12. CASE /\ m.enabled /\ r.state[x] # "failed" /\ ~Taken(r, m) /\ ~m.refused
            /\ OnIds(m) = {}
  <2>1. p = Ends("active")
    BY <1>12, <1>1, <1>6 DEF Activate
  <2> HIDE DEF p
  <2> QED BY <2>1, <1>1, <1>5, <1>8, <1>12 DEF p, m
<1>13. CASE /\ m.enabled /\ r.state[x] # "failed" /\ ~Taken(r, m) /\ ~m.refused
            /\ OnIds(m) # {} /\ m.id \notin Adapted
  <2>1. p = Ends("failed")
    BY <1>13, <1>1, <1>7 DEF Activate
  <2> HIDE DEF p
  <2> QED BY <2>1, <1>5, <1>8 DEF p, m
<1>14. CASE /\ m.enabled /\ r.state[x] # "failed" /\ ~Taken(r, m) /\ ~m.refused
            /\ OnIds(m) # {} /\ m.id \in Adapted
  <2> DEFINE a == RegisterRuntimeTools(r, Part(m), "extension", x)
             b == WithLoaded(a, a.loaded \cup {x})
  <2>1. p = IF Unresolved(m) = {}
            THEN [b EXCEPT !.claimed = @ \cup OnIds(m), !.state[x] = "active"]
            ELSE Fails(Rollback(b, m, Part(m)), m)
    BY <1>14, <1>1 DEF Activate, WithLoaded
  <2>2. /\ Sound(a) /\ a.loaded = r.loaded /\ a.state = r.state /\ a.claimed = r.claimed
        /\ \A t \in Part(m) : a.list[t] = Listing("extension", TRUE) /\ a.executor[t] = x
        /\ \A t \in Tools \ Part(m) : a.list[t] = r.list[t] /\ a.executor[t] = r.executor[t]
    <3>1. x \in Owners /\ Part(m) \in SUBSET Tools
      BY <1>1 DEF Owners
    <3>2. Registered(r, a, Part(m), "extension", x)
      BY <3>1, <1>2, Registers
    <3> QED BY <3>2 DEF Registered
  <2> HIDE DEF a, p
  <2>3. Written(a, b, a.list, r.loaded \cup {x}, r.state, r.claimed)
    <3>1. a.loaded \cup {x} \in SUBSET ExtIds
      BY <2>2, <1>1, <1>2
    <3> QED BY <3>1, <2>2, WritesLoaded
  <2> HIDE DEF b
  <2>4. Part(m) \cap r.claimed = {}
    BY <1>14, <1>1 DEF Taken
  <2>5. CASE Unresolved(m) = {}
    <3> DEFINE c == WithClaims(b, r.claimed \cup OnIds(m))
    <3>1. p = WithStates(c, [c.state EXCEPT ![x] = "active"])
      <4>1. b.claimed = r.claimed
        BY <2>3 DEF Written
      <4>2. p = [c EXCEPT !.state[x] = "active"]
        BY <2>1, <2>5, <4>1 DEF WithClaims
      <4> HIDE DEF c
      <4> QED BY <4>2 DEF WithStates
    <3>2. Written(b, c, a.list, r.loaded \cup {x}, r.state, r.claimed \cup OnIds(m))
      BY <2>3, WritesClaims DEF Written
    <3> HIDE DEF c
    <3>3. Written(c, p, a.list, r.loaded \cup {x}, [r.state EXCEPT ![x] = "active"],
                  r.claimed \cup OnIds(m))
      BY <3>1, <3>2, <1>1, <1>5, WritesState DEF Written
    <3>4. p.list = a.list /\ p.executor = a.executor
      BY <3>2, <3>3, <2>3 DEF Written
    <3>5. Keeps(q, n, p)
      BY <3>3, <3>4, <2>2, <2>5, <1>1 DEF Keeps, Listing, Written, x
    <3>6. Turned(q, n, r, Part(m), "active", p)
      <4>1. \A t \in Part(m) : p.executor[t] = x /\ t \in Brings(q, n)
        BY <3>4, <2>2, <1>1
      <4> QED BY <4>1, <3>3, <3>4, <3>5, <2>2, <2>4 DEF Turned, Written, x
    <3> QED BY <3>6, <1>4, <1>5 DEF p, m
  <2>6. CASE Unresolved(m) # {}
    <3> DEFINE c == UnregisterRuntimeTools(b, Part(m))
               d == WithLoaded(c, c.loaded \ {x})
    <3>1. p = WithStates(d, [d.state EXCEPT ![x] = "failed"])
      <4>1. p = [d EXCEPT !.state[x] = "failed"]
        BY <2>1, <2>6, <1>1 DEF Fails, Rollback, WithLoaded
      <4> HIDE DEF d
      <4> QED BY <4>1 DEF WithStates
    <3>2. /\ Sound(c) /\ c.loaded = r.loaded \cup {x} /\ c.state = r.state
          /\ c.claimed = r.claimed
          /\ \A t \in Part(m) : c.executor[t] = "none"
          /\ \A t \in Tools \ Part(m) :
                 c.list[t] = a.list[t] /\ c.executor[t] = a.executor[t]
      <4>1. Part(m) \in SUBSET Tools
        BY <1>1
      <4> QED BY <4>1, <2>3, Unregisters DEF Written
    <3> HIDE DEF c
    <3>3. Written(c, d, c.list, (r.loaded \cup {x}) \ {x}, r.state, r.claimed)
      <4>1. c.loaded \ {x} \in SUBSET ExtIds
        BY <3>2, <1>1, <1>2
      <4> QED BY <4>1, <3>2, WritesLoaded
    <3> HIDE DEF d
    <3>4. Written(d, p, c.list, (r.loaded \cup {x}) \ {x}, [r.state EXCEPT ![x] = "failed"],
                  r.claimed)
      BY <3>1, <3>3, <1>1, <1>5, WritesState DEF Written
    <3>5. p.list = c.list /\ p.executor = c.executor
      BY <3>3, <3>4 DEF Written
    <3>6. Turned(q, n, r, Part(m), "failed", p)
      BY <3>4, <3>5, <3>2, <2>2, <2>4 DEF Turned, Written, x
    <3> QED BY <3>6, <1>4, <1>5 DEF p, m
  <2> QED BY <2>5, <2>6
<1>15. Turns(q, n, p)
  BY <1>9, <1>10, <1>11, <1>12, <1>13, <1>14 DEF p, m
<1> QED BY <1>15 DEF m

\* A set of numbers that is not empty has a least one.
LEMMA LeastNumber ==
    ASSUME NEW T \in SUBSET Nat, T # {}
    PROVE  \E n \in T : \A m \in T : ~(m < n)
<1>1. \E x \in T : \A y \in T : ~ (<<y, x>> \in OpToRel(<, Nat))
  BY WFMin, NatLessThanWellFounded, Zenon
<1> QED BY <1>1 DEF OpToRel

\* f[i] is what the first i entries of q make of registry r, for i up to n.
IsAfter(q, r, n, f) ==
    f = [i \in 0..n |-> IF i = 0 THEN r ELSE Activate(f[i - 1], Readable(q[i]))]

\* The recursion in ActivateAll defines a function.
LEMMA AfterExists ==
    ASSUME NEW q, NEW r, NEW N \in Nat
    PROVE  \E f : IsAfter(q, r, N, f)
<1> DEFINE Bad == {n \in Nat : ~\E f : IsAfter(q, r, n, f)}
<1> SUFFICES ASSUME Bad # {} PROVE FALSE
  OBVIOUS
<1>1. PICK n \in Bad : \A m \in Bad : ~(m < n)
  BY LeastNumber
<1>2. n # 0
  <2> DEFINE f == [i \in 0..0 |-> r]
  <2>1. IsAfter(q, r, 0, f)
    BY DEF IsAfter
  <2> QED BY <2>1, <1>1
<1>3. n - 1 \in Nat /\ n - 1 \notin Bad
  BY <1>1, <1>2
<1>4. PICK f : IsAfter(q, r, n - 1, f)
  BY <1>3
<1> DEFINE last == Activate(f[n - 1], Readable(q[n]))
           g == [i \in 0..n |-> IF i = n THEN last ELSE f[i]]
<1>5. \A i \in 0..(n - 1) : g[i] = f[i]
  BY <1>1
<1>6. ASSUME NEW i \in 0..n
      PROVE  g[i] = IF i = 0 THEN r ELSE Activate(g[i - 1], Readable(q[i]))
  <2>1. CASE i = n
    <3>1. g[n - 1] = f[n - 1]
      BY <1>5, <1>3
    <3> QED BY <2>1, <3>1, <1>2
  <2>2. CASE i # n
    <3>1. i \in 0..(n - 1)
      BY <2>2, <1>1
    <3>2. i # 0 => g[i - 1] = f[i - 1]
      BY <3>1, <1>5, <1>1
    <3>3. f[i] = IF i = 0 THEN r ELSE Activate(f[i - 1], Readable(q[i]))
      BY <3>1, <1>4 DEF IsAfter
    <3> HIDE DEF g
    <3> QED BY <3>1, <3>2, <3>3, <1>5, Zenon
  <2> QED BY <2>1, <2>2
<1>7. IsAfter(q, r, n, g)
  BY <1>6, Zenon DEF IsAfter
<1> QED BY <1>7, <1>1

\* Every entry has its turn.
LEMMA EveryTurn ==
    ASSUME NEW q \in Catalogs, NEW r, Turns(q, 0, r), NEW f, IsAfter(q, r, Len(q), f)
    PROVE  Turns(q, Len(q), f[Len(q)])
<1>1. Len(q) \in Nat
  BY ExtensionsAssumption
<1> DEFINE Bad == {n \in 0..Len(q) : ~Turns(q, n, f[n])}
<1> SUFFICES ASSUME Bad # {} PROVE FALSE
  BY <1>1
<1>2. PICK n \in Bad : \A m \in Bad : ~(m < n)
  <2>1. Bad \in SUBSET Nat
    BY <1>1
  <2> HIDE DEF Bad
  <2> QED BY <2>1, LeastNumber
<1>3. \A i \in 0..Len(q) : f[i] = IF i = 0 THEN r ELSE Activate(f[i - 1], Readable(q[i]))
  BY Zenon DEF IsAfter
<1>4. n # 0
  BY <1>1, <1>2, <1>3
<1>5. n \in 1..Len(q) /\ n - 1 \in 0..Len(q) /\ n - 1 < n
  BY <1>1, <1>2, <1>4
<1>6. Turns(q, n - 1, f[n - 1])
  BY <1>2, <1>5
<1>7. Turns(q, n, f[n])
  BY <1>3, <1>4, <1>5, <1>6, ActivateTurns
<1> QED BY <1>2, <1>7

\* Activation starts with every extension in a state that is not active.
LEMMA StatesAfterLoad ==
    ASSUME NEW q
    PROVE  /\ StateAfterLoad(q) \in [ExtIds -> States]
           /\ \A x \in ExtIds : StateAfterLoad(q)[x] # "active"
  BY DEF StateAfterLoad, States

\* What ActivateAll makes of a registry without executors of extensions.
LEMMA ActivatesAll ==
    ASSUME onDisk \in Catalogs, NEW r, Sound(r), \A t \in Tools : r.executor[t] \notin ExtIds
    PROVE  Turns(onDisk, Len(onDisk), ActivateAll(r))
<1> DEFINE q == onDisk
           s == StateAfterLoad(q)
           start == WithClaims(WithStates(r, s), {})
           f == CHOOSE g : IsAfter(q, start, Len(q), g)
<1>1. Len(q) \in Nat
  BY ExtensionsAssumption
<1>2. Turns(q, 0, start)
  <2>1. s \in [ExtIds -> States] /\ \A x \in ExtIds : s[x] # "active"
    BY StatesAfterLoad
  <2> HIDE DEF s
  <2>2. Written(r, WithStates(r, s), r.list, r.loaded, s, r.claimed)
    BY <2>1, WritesStates
  <2>3. Written(WithStates(r, s), start, r.list, r.loaded, s, {})
    BY <2>2, WritesClaims DEF Written
  <2>4. \A i \in 1..0 : FALSE
    OBVIOUS
  <2> HIDE DEF start
  <2>5. Sound(start) /\ start.executor = r.executor /\ start.state = s
    BY <2>2, <2>3 DEF Written
  <2>6. Reached(q, 0, start)
    BY <2>1, <2>5 DEF Reached
  <2>7. Owned(q, 0, start)
    BY <2>5 DEF Owned
  <2> QED BY <2>4, <2>5, <2>6, <2>7 DEF Turns
<1> HIDE DEF f
<1>3. IsAfter(q, start, Len(q), f)
  <2> HIDE DEF start
  <2> QED BY <1>1, AfterExists DEF f
<1>4. ActivateAll(r) = f[Len(q)]
  BY DEF ActivateAll, f, IsAfter, WithClaims, WithStates
<1> HIDE DEF start
<1> QED BY <1>2, <1>3, <1>4, EveryTurn

-----------------------------------------------------------------------------
(***************************************************************************)
(* The invariant.  What activation reached lasts while the gateway is up:   *)
(* the host and the skills write entries of the list and executors, but not *)
(* the states.  DifferentTools is needed for one part only: that they leave *)
(* the tools of active extensions alone.                                    *)
(***************************************************************************)
InMemory(q) == [i \in DOMAIN q |-> Readable(q[i])]

\* The tools of an active extension can be called.
Callable(q, i, r) ==
    \A t \in Brings(q, i) :
        r.list[t].on /\ r.list[t].source # "skill" /\ r.executor[t] \in {q[i].id, "fallback"}

\* What catalog q, once active, means for registry r.
Live(q, r) ==
    /\ Reached(q, Len(q), r) /\ Owned(q, Len(q), r)
    /\ \A i \in 1..Len(q) : r.state[q[i].id] = "active" =>
           /\ Brings(q, i) # {} => q[i].id \in r.loaded
           /\ DifferentTools => Callable(q, i, r)

ExtensionTypes ==
    /\ onDisk \in Catalogs
    /\ host \in {"off", "early", "listed", "up", "relisted", "prelude", "stopped"}
    /\ manifests = <<>> \/ \E q \in Catalogs : manifests = InMemory(q)
    /\ active \in BOOLEAN
    /\ Sound(Registry)

BeforeActivation ==
    host \in {"off", "early", "listed", "relisted"} => \A t \in Tools : executor[t] \notin ExtIds

WhileUp == host = "up" => \E q \in Catalogs : manifests = InMemory(q) /\ Live(q, Registry)

AtStop == host \in {"prelude", "stopped"} => loaded = {}

ExtensionsInv ==
    ExtensionTypes /\ BeforeActivation /\ WhileUp /\ AtStop /\ StopLeavesNothing

-----------------------------------------------------------------------------
(* What the host and the skills do to an active catalog. *)

HostTools == ServiceTools \cup FinalTools \cup UNION {s[1] : s \in SkillSets}

\* p is r, but for executors that are no extension's: of the tools that are not the host's
\* or a skill's, those listed as enabled stay, or have the fallback.
Overwritten(r, p) ==
    /\ Sound(p) /\ p.state = r.state /\ r.loaded \subseteq p.loaded
    /\ \A t \in Tools : p.executor[t] = r.executor[t] \/ p.executor[t] \notin ExtIds
    /\ \A t \in Tools \ HostTools :
        \/ /\ p.executor[t] = r.executor[t]
           /\ r.list[t].on /\ r.list[t].source # "skill" => p.list[t] = r.list[t]
        \/ p.list[t].on /\ p.list[t].source # "skill" /\ p.executor[t] = "fallback"

\* No catalog enables a tool of the host or of a skill on disk.
LEMMA ToolsApart ==
    ASSUME DifferentTools, NEW q \in Catalogs, NEW i \in 1..Len(q), NEW t \in Brings(q, i)
    PROVE  t \in Tools \ HostTools
<1>1. q \in Seq(Entries) /\ q[i] \in Entries
  BY ExtensionsAssumption
<1>2. Readable(q[i]).tools = IF q[i].readable THEN q[i].tools ELSE << >>
  BY <1>1 DEF Readable, Entries
<1>3. t \in OnIds(q[i])
  <2>1. CASE q[i].readable
    BY <2>1, <1>2 DEF Brings, OnIds, OnAt
  <2>2. CASE ~q[i].readable
    <3>1. DOMAIN << >> = {}
      OBVIOUS
    <3> QED BY <2>2, <3>1, <1>2 DEF Brings, OnIds, OnAt
  <2> QED BY <2>1, <2>2
<1>4. i \in DOMAIN q
  BY <1>1
<1>5. t \in OnInAll(q)
  BY <1>3, <1>4 DEF OnInAll
<1> QED BY <1>5, ReadableEntry DEF DifferentTools, HostTools

\* A catalog stays as live as it was.
LEMMA StaysLive ==
    ASSUME NEW q \in Catalogs, NEW r, Live(q, r), NEW p, Overwritten(r, p)
    PROVE  Live(q, p)
<1>1. p.state = r.state /\ r.loaded \subseteq p.loaded
  BY DEF Overwritten
<1>2. Reached(q, Len(q), p)
  BY <1>1 DEF Live, Reached
<1>3. Owned(q, Len(q), p)
  BY <1>1 DEF Live, Owned, Overwritten
<1>4. ASSUME DifferentTools, NEW i \in 1..Len(q), Callable(q, i, r)
      PROVE  Callable(q, i, p)
  BY <1>4, ToolsApart DEF Callable, Overwritten
<1> QED BY <1>1, <1>2, <1>3, <1>4 DEF Live

\* Activation makes a catalog live.
LEMMA ActivationLive ==
    ASSUME NEW q \in Catalogs, NEW r, Turns(q, Len(q), r)
    PROVE  Live(q, r)
  BY DEF Turns, Live, Keeps, Callable

\* The tools of the host's services.
LEMMA ServicesOverwrite ==
    ASSUME NEW r, Sound(r), NEW ids \in {ServiceTools, FinalTools}
    PROVE  Overwritten(r, RegisterRuntimeTools(r, ids, "host", "host"))
<1> DEFINE p == RegisterRuntimeTools(r, ids, "host", "host")
<1>1. ids \in SUBSET Tools /\ "host" \in Owners /\ "host" \notin ExtIds
  BY ExtensionsAssumption DEF Owners
<1>2. Registered(r, p, ids, "host", "host")
  BY <1>1, Registers
<1> HIDE DEF p
<1>3. ids \subseteq HostTools
  BY DEF HostTools
<1>4. Overwritten(r, p)
  BY <1>1, <1>2, <1>3 DEF Overwritten, Registered
<1> QED BY <1>4 DEF p

\* The fallback of the operations tools.
LEMMA OpsOverwrite ==
    ASSUME NEW r, Sound(r)
    PROVE  Overwritten(r, EnsureOpsTools(r))
<1> DEFINE a == RegisterRuntimeTools(r, OpsToolIds, "host", "fallback")
           b == WithLoaded(a, a.loaded \cup {OpsTools})
<1>1. OpsToolIds \in SUBSET Tools /\ "fallback" \in Owners /\ "fallback" \notin ExtIds
  BY ExtensionsAssumption DEF Owners
<1>2. Registered(r, a, OpsToolIds, "host", "fallback")
  BY <1>1, Registers
<1>3. EnsureOpsTools(r) = r \/ EnsureOpsTools(r) = b
  BY DEF EnsureOpsTools, WithLoaded
<1> HIDE DEF a
<1>4. Written(a, b, a.list, a.loaded \cup {OpsTools}, a.state, a.claimed)
  <2>1. a.loaded \cup {OpsTools} \in SUBSET ExtIds
    BY <1>2, ExtensionsAssumption DEF Registered, Sound
  <2> QED BY <2>1, <1>2, WritesLoaded DEF Registered
<1> HIDE DEF b
<1>5. Overwritten(r, r)
  BY DEF Overwritten
<1>6. \A t \in OpsToolIds : b.list[t] = Listing("host", TRUE) /\ b.executor[t] = "fallback"
  BY <1>2, <1>4 DEF Registered, Written
<1>7. \A t \in Tools \ OpsToolIds : b.list[t] = r.list[t] /\ b.executor[t] = r.executor[t]
  BY <1>2, <1>4 DEF Registered, Written
<1>8. Sound(b) /\ b.state = r.state /\ r.loaded \subseteq b.loaded
  BY <1>2, <1>4 DEF Registered, Written
<1>9. Overwritten(r, b)
  BY <1>1, <1>6, <1>7, <1>8 DEF Overwritten, Listing
<1> QED BY <1>3, <1>5, <1>9

\* The skills.
LEMMA SkillsOverwrite ==
    ASSUME NEW r, Sound(r), NEW skills \in SkillSets
    PROVE  /\ Overwritten(r, LoadSkillToolsFromDirectory(r, skills[1]))
           /\ Overwritten(r, SyncSkillToolsManifestFirst(r, skills[1], skills[2]))
<1> DEFINE disk == skills[1]
           kept == [t \in Tools |-> IF r.list[t].source = "skill" THEN Unlisted ELSE r.list[t]]
           l == [t \in Tools |-> IF t \in disk THEN Listing("skill", TRUE) ELSE r.list[t]]
           k == [t \in Tools |->
                    IF t \in disk \/ (t \in skills[2] /\ kept[t] = Unlisted)
                    THEN Listing("skill", TRUE) ELSE kept[t]]
<1>1. /\ LoadSkillToolsFromDirectory(r, disk) = WithList(r, l)
      /\ SyncSkillToolsManifestFirst(r, disk, skills[2]) = WithList(r, k)
  BY DEF LoadSkillToolsFromDirectory, SyncSkillToolsManifestFirst, WithList
<1>2. disk \subseteq HostTools
  BY DEF HostTools
<1>3. \A t \in Tools \ HostTools : l[t] = r.list[t]
  BY <1>2
<1>4. ASSUME NEW t \in Tools \ HostTools, r.list[t].on, r.list[t].source # "skill"
      PROVE  k[t] = r.list[t]
  <2>1. kept[t] = r.list[t] /\ r.list[t] # Unlisted
    BY <1>4 DEF Unlisted
  <2> QED BY <2>1, <1>2
<1> HIDE DEF disk, l, k
<1>5. /\ Written(r, WithList(r, l), l, r.loaded, r.state, r.claimed)
      /\ Written(r, WithList(r, k), k, r.loaded, r.state, r.claimed)
  BY WritesList
<1>6. Overwritten(r, WithList(r, l)) /\ Overwritten(r, WithList(r, k))
  BY <1>3, <1>4, <1>5 DEF Overwritten, Written
<1> QED BY <1>1, <1>6 DEF disk

\* Deactivation.
LEMMA DeactivatesAll ==
    ASSUME NEW r, Sound(r), OnInAll(manifests) \subseteq Tools
    PROVE  /\ Sound(DeactivateAll(r)) /\ DeactivateAll(r).loaded \subseteq r.loaded
           /\ \A t \in OnInAll(manifests) : DeactivateAll(r).executor[t] = "none"
           /\ \A t \in Tools : \/ DeactivateAll(r).executor[t] = "none"
                               \/ DeactivateAll(r).executor[t] = r.executor[t]
<1> DEFINE u == UnregisterRuntimeTools(r, OnInAll(manifests))
           gone == {manifests[i].id :
                       i \in {j \in DOMAIN manifests : OnIds(manifests[j]) # {}}}
           s == [x \in ExtIds |-> IF \E i \in DOMAIN manifests : manifests[i].id = x
                                  THEN "deactivated" ELSE u.state[x]]
           a == WithLoaded(u, u.loaded \ gone)
           p == WithStates(a, s)
<1>1. DeactivateAll(r) = p
  BY DEF DeactivateAll, WithLoaded, WithStates
<1>2. /\ Sound(u) /\ u.loaded = r.loaded
      /\ \A t \in OnInAll(manifests) : u.executor[t] = "none"
      /\ \A t \in Tools \ OnInAll(manifests) : u.executor[t] = r.executor[t]
  BY Unregisters
<1>3. s \in [ExtIds -> States]
  <2> HIDE DEF u
  <2>1. u.state \in [ExtIds -> States] /\ "deactivated" \in States
    BY <1>2 DEF Sound, States
  <2> QED BY <2>1
<1> HIDE DEF u, gone, s
<1>4. Written(u, a, u.list, u.loaded \ gone, u.state, u.claimed)
  <2>1. u.loaded \ gone \in SUBSET ExtIds
    BY <1>2 DEF Sound
  <2> QED BY <2>1, <1>2, WritesLoaded
<1> HIDE DEF a
<1>5. Written(a, p, a.list, a.loaded, s, a.claimed)
  BY <1>3, <1>4, WritesStates DEF Written
<1> HIDE DEF p
<1>6. Sound(p) /\ p.executor = u.executor /\ p.loaded \subseteq r.loaded
  BY <1>2, <1>4, <1>5 DEF Written
<1> QED BY <1>1, <1>2, <1>6

\* The first reading of the catalog writes the list only.
LEMMA CatalogWritesList ==
    ASSUME NEW r, Sound(r)
    PROVE  /\ Sound(LoadExtensionToolsFromCatalog(r))
           /\ LoadExtensionToolsFromCatalog(r).executor = r.executor
           /\ LoadExtensionToolsFromCatalog(r).loaded = r.loaded
<1>1. \E l : LoadExtensionToolsFromCatalog(r) = WithList(r, l)
  BY DEF LoadExtensionToolsFromCatalog, WithList
<1> QED BY <1>1, WritesList DEF Written

\* The tools of a catalog in memory.
LEMMA MemoryTools ==
    ASSUME manifests = <<>> \/ \E q \in Catalogs : manifests = InMemory(q)
    PROVE  OnInAll(manifests) \subseteq Tools
<1>1. CASE manifests = <<>>
  <2>1. DOMAIN << >> = {}
    OBVIOUS
  <2> QED BY <2>1, <1>1 DEF OnInAll
<1>2. ASSUME NEW q \in Catalogs, manifests = InMemory(q)
      PROVE  OnInAll(manifests) \subseteq Tools
  <2>1. DOMAIN q = 1..Len(q)
    BY ExtensionsAssumption
  <2>2. DOMAIN manifests = 1..Len(q) /\ \A i \in 1..Len(q) : OnIds(manifests[i]) = Brings(q, i)
    BY <2>1, <1>2 DEF InMemory, Brings
  <2> QED BY <2>2, ReadableEntry DEF OnInAll
<1> QED BY <1>1, <1>2

\* What becomes the registry.
LEMMA RegistryBecomes ==
    ASSUME NEW p, Sound(p), Becomes(p)
    PROVE  /\ Sound(Registry')
           /\ list' = p.list /\ executor' = p.executor /\ loaded' = p.loaded /\ state' = p.state
           /\ \A q : Live(q, p) => Live(q, Registry')
<1>1. Registry' = [list |-> p.list, executor |-> p.executor, loaded |-> p.loaded,
                   state |-> p.state, claimed |-> {}]
  BY DEF Becomes, Registry
<1>2. Sound(Registry')
  BY <1>1 DEF Sound
<1>3. \A q : Live(q, p) => Live(q, Registry')
  BY <1>1 DEF Live, Reached, Owned, Callable
<1> QED BY <1>2, <1>3 DEF Becomes

-----------------------------------------------------------------------------
(* The steps. *)

\* The gateway is off, and nothing is registered.
LEMMA InvInit == Init => ExtensionsInv
<1> SUFFICES ASSUME Init PROVE ExtensionsInv
  OBVIOUS
<1>1. Registry = [list |-> [t \in Tools |-> Unlisted], executor |-> [t \in Tools |-> "none"],
                  loaded |-> {}, state |-> [x \in ExtIds |-> "none"], claimed |-> {}]
  BY DEF Init, Registry
<1>2. Sound(Registry)
  BY <1>1 DEF Sound, Owners, States
<1>3. \A t \in Tools : executor[t] \notin ExtIds
  BY ExtensionsAssumption DEF Init
<1> QED BY <1>2, <1>3 DEF Init, ExtensionsInv, ExtensionTypes, BeforeActivation, WhileUp, AtStop,
            StopLeavesNothing

\* The registry as it is.
LEMMA RegistryFields ==
    /\ Registry.list = list /\ Registry.executor = executor /\ Registry.loaded = loaded
    /\ Registry.state = state
  BY DEF Registry

\* A start or a reload makes the catalog that it reads live.
LEMMA ActivationStep ==
    ASSUME ExtensionsInv, StartActivate \/ ReloadActivate
    PROVE  ExtensionsInv'
<1> DEFINE a == ActivateAll(Registry)
           b == EnsureOpsTools(a)
           c == EnsureServiceTools(b)
           d == RegisterRuntimeTools(c, FinalTools, "host", "host")
<1>1. /\ onDisk \in Catalogs /\ onDisk' = onDisk /\ host' = "up" /\ active' = TRUE
      /\ manifests' = InMemory(onDisk)
      /\ Becomes(c) \/ Becomes(d)
  BY DEF ExtensionsInv, ExtensionTypes, StartActivate, ReloadActivate, LoadCatalog, InMemory,
         ActivateRuntimeRegistry
<1>2. Turns(onDisk, Len(onDisk), a)
  <2>1. Sound(Registry) /\ \A t \in Tools : Registry.executor[t] \notin ExtIds
    BY RegistryFields DEF ExtensionsInv, ExtensionTypes, BeforeActivation, StartActivate,
       ReloadActivate
  <2> QED BY <1>1, <2>1, ActivatesAll
<1> HIDE DEF a
<1>3. Sound(a) /\ Live(onDisk, a)
  BY <1>1, <1>2, ActivationLive DEF Turns
<1>4. Sound(b) /\ Live(onDisk, b)
  BY <1>1, <1>3, OpsOverwrite, StaysLive DEF Overwritten
<1> HIDE DEF b
<1>5. Sound(c) /\ Live(onDisk, c)
  BY <1>1, <1>4, ServicesOverwrite, StaysLive DEF Overwritten, EnsureServiceTools
<1> HIDE DEF c
<1>6. Sound(d) /\ Live(onDisk, d)
  BY <1>1, <1>5, ServicesOverwrite, StaysLive DEF Overwritten
<1> HIDE DEF d
<1>7. Sound(Registry') /\ Live(onDisk, Registry')
  BY <1>1, <1>5, <1>6, RegistryBecomes
<1> QED BY <1>1, <1>7 DEF ExtensionsInv, ExtensionTypes, BeforeActivation, WhileUp, AtStop,
            StopLeavesNothing

\* Before that, no executor is an extension's.
LEMMA ListingStep ==
    ASSUME ExtensionsInv, StartEarlyRuntime \/ StartList \/ ReloadList
    PROVE  ExtensionsInv'
<1>1. Sound(Registry) /\ OnInAll(manifests) \subseteq Tools
  BY MemoryTools DEF ExtensionsInv, ExtensionTypes
<1>2. ASSUME NEW r, Sound(r), Becomes(r), \A t \in Tools : r.executor[t] \notin ExtIds,
             host' \in {"early", "listed", "relisted"}, onDisk' = onDisk,
             manifests' = manifests, active' \in BOOLEAN
      PROVE  ExtensionsInv'
  <2>1. Sound(Registry') /\ executor' = r.executor
    BY <1>2, RegistryBecomes
  <2> QED BY <1>2, <2>1 DEF ExtensionsInv, ExtensionTypes, BeforeActivation, WhileUp, AtStop,
              StopLeavesNothing
<1>3. CASE StartEarlyRuntime
  <2> DEFINE a == EnsureOpsTools(Registry)
             b == EnsureServiceTools(a)
  <2>1. PICK skills \in SkillSets : Becomes(LoadSkillToolsFromDirectory(b, skills[1]))
    BY <1>3 DEF StartEarlyRuntime
  <2> DEFINE c == LoadSkillToolsFromDirectory(b, skills[1])
  <2>2. Overwritten(Registry, a)
    BY <1>1, OpsOverwrite
  <2> HIDE DEF a
  <2>3. Overwritten(a, b)
    BY <2>2, ServicesOverwrite DEF Overwritten, EnsureServiceTools
  <2> HIDE DEF b
  <2>4. Overwritten(b, c)
    BY <2>3, SkillsOverwrite DEF Overwritten
  <2> HIDE DEF c
  <2>5. \A t \in Tools : Registry.executor[t] \notin ExtIds
    BY <1>3, RegistryFields DEF ExtensionsInv, BeforeActivation, StartEarlyRuntime
  <2>6. Sound(c) /\ \A t \in Tools : c.executor[t] \notin ExtIds
    BY <2>2, <2>3, <2>4, <2>5 DEF Overwritten
  <2>7. Becomes(c)
    BY <2>1 DEF c
  <2> QED BY <2>6, <2>7, <1>2, <1>3 DEF StartEarlyRuntime, ExtensionsInv, ExtensionTypes
<1>4. CASE StartList
  <2> DEFINE a == LoadExtensionToolsFromCatalog(Registry)
  <2>1. PICK skills \in SkillSets : Becomes(LoadSkillToolsFromDirectory(a, skills[1]))
    BY <1>4 DEF StartList
  <2> DEFINE b == LoadSkillToolsFromDirectory(a, skills[1])
  <2>2. Sound(a) /\ a.executor = executor
    BY <1>1, CatalogWritesList, RegistryFields
  <2> HIDE DEF a
  <2>3. Overwritten(a, b)
    BY <2>2, SkillsOverwrite
  <2> HIDE DEF b
  <2>4. Sound(b) /\ \A t \in Tools : b.executor[t] \notin ExtIds
    BY <2>2, <2>3, <1>4 DEF Overwritten, ExtensionsInv, BeforeActivation, StartList
  <2>5. Becomes(b)
    BY <2>1 DEF b
  <2> QED BY <2>4, <2>5, <1>2, <1>4 DEF StartList, ExtensionsInv, ExtensionTypes
<1>5. CASE ReloadList
  <2> DEFINE a == DeactivateAll(Registry)
             b == LoadExtensionToolsFromCatalog(a)
  <2>1. Becomes(b)
    BY <1>5 DEF ReloadList
  <2>2. /\ Sound(a)
        /\ \A t \in OnInAll(manifests) : a.executor[t] = "none"
        /\ \A t \in Tools : a.executor[t] = "none" \/ a.executor[t] = executor[t]
    BY <1>1, DeactivatesAll, RegistryFields
  <2> HIDE DEF a
  <2>3. Sound(b) /\ b.executor = a.executor
    BY <2>2, CatalogWritesList
  <2> HIDE DEF b
  <2>4. \A t \in Tools : executor[t] \in ExtIds => t \in OnInAll(manifests)
    <3>1. PICK q \in Catalogs : manifests = InMemory(q) /\ Live(q, Registry)
      BY <1>5 DEF ExtensionsInv, WhileUp, ReloadList
    <3>2. DOMAIN q = 1..Len(q)
      BY ExtensionsAssumption
    <3>3. \A i \in 1..Len(q) : i \in DOMAIN manifests /\ OnIds(manifests[i]) = Brings(q, i)
      BY <3>1, <3>2 DEF InMemory, Brings
    <3> QED BY <3>1, <3>3, RegistryFields DEF Live, Owned, OnInAll
  <2>5. \A t \in Tools : b.executor[t] \notin ExtIds
    BY <2>2, <2>3, <2>4, ExtensionsAssumption
  <2> QED BY <2>1, <2>3, <2>5, <1>2, <1>5 DEF ReloadList, DeactivateRuntimeRegistry
<1> QED BY <1>3, <1>4, <1>5

\* Skills are published.
LEMMA SkillsStep ==
    ASSUME ExtensionsInv, SetSkillsCatalogState
    PROVE  ExtensionsInv'
<1>1. PICK skills \in SkillSets :
         Becomes(SyncSkillToolsManifestFirst(Registry, skills[1], skills[2]))
  BY DEF SetSkillsCatalogState
<1> DEFINE p == SyncSkillToolsManifestFirst(Registry, skills[1], skills[2])
<1>2. Sound(Registry)
  BY DEF ExtensionsInv, ExtensionTypes
<1>3. Overwritten(Registry, p) /\ p.executor = executor /\ p.loaded = loaded
  <2>1. Overwritten(Registry, p)
    BY <1>2, SkillsOverwrite
  <2>2. \E l : p = WithList(Registry, l)
    BY DEF SyncSkillToolsManifestFirst, WithList
  <2> HIDE DEF p
  <2> QED BY <2>1, <2>2, <1>2, WritesList, RegistryFields DEF Written
<1> HIDE DEF p
<1>4. /\ Sound(Registry') /\ executor' = executor /\ loaded' = loaded
      /\ \A q : Live(q, p) => Live(q, Registry')
  BY <1>1, <1>3, RegistryBecomes DEF p, Overwritten
<1>5. /\ onDisk' = onDisk /\ host' = host /\ manifests' = manifests /\ active' = active
      /\ surface' = surface
  BY DEF SetSkillsCatalogState
<1>6. ExtensionTypes'
  BY <1>4, <1>5 DEF ExtensionTypes, ExtensionsInv
<1>7. WhileUp'
  BY <1>3, <1>4, <1>5, StaysLive DEF WhileUp, ExtensionsInv
<1>8. StopLeavesNothing'
  BY <1>4, <1>5 DEF StopLeavesNothing, ExtensionsInv, OnInAll
<1>9. BeforeActivation' /\ AtStop'
  BY <1>4, <1>5 DEF BeforeActivation, AtStop, ExtensionsInv
<1> QED BY <1>6, <1>7, <1>8, <1>9 DEF ExtensionsInv

\* The catalog is edited.
LEMMA EditStep ==
    ASSUME ExtensionsInv, EditCatalog
    PROVE  ExtensionsInv'
<1>1. /\ onDisk' \in Catalogs /\ host' = host /\ list' = list /\ executor' = executor
      /\ loaded' = loaded /\ manifests' = manifests /\ state' = state /\ active' = active
      /\ surface' = surface
  BY DEF EditCatalog
<1>2. Registry' = Registry
  BY <1>1 DEF Registry
<1>3. ExtensionTypes' /\ WhileUp'
  BY <1>1, <1>2 DEF ExtensionsInv, ExtensionTypes, WhileUp
<1>4. BeforeActivation' /\ AtStop'
  BY <1>1 DEF ExtensionsInv, BeforeActivation, AtStop
<1>5. StopLeavesNothing'
  BY <1>1 DEF ExtensionsInv, StopLeavesNothing, OnInAll
<1> QED BY <1>3, <1>4, <1>5 DEF ExtensionsInv

\* The runtimes are unloaded, and then the extensions deactivated.
LEMMA StopStep ==
    ASSUME ExtensionsInv, NotifyPluginGlobalStopPrelude \/ Stop
    PROVE  ExtensionsInv'
<1>1. Sound(Registry) /\ OnInAll(manifests) \subseteq Tools
  BY MemoryTools DEF ExtensionsInv, ExtensionTypes
<1>2. CASE NotifyPluginGlobalStopPrelude
  <2>1. /\ onDisk' = onDisk /\ host' = "prelude" /\ manifests' = manifests /\ active' = active
        /\ loaded' = {} /\ executor' = executor /\ state' = state
    BY <1>2 DEF NotifyPluginGlobalStopPrelude
  <2>2. Sound(Registry')
    BY <1>1, <2>1 DEF Sound, Registry
  <2> QED BY <2>1, <2>2 DEF ExtensionsInv, ExtensionTypes, BeforeActivation, WhileUp, AtStop,
              StopLeavesNothing
<1>3. CASE Stop
  <2> DEFINE p == DeactivateAll(Registry)
  <2>1. /\ Becomes(p) /\ onDisk' = onDisk /\ host' = "stopped" /\ manifests' = manifests
        /\ active' = FALSE /\ surface' = Released(surface) /\ loaded = {}
    BY <1>3 DEF Stop, DeactivateRuntimeRegistry, ExtensionsInv, AtStop
  <2>2. /\ Sound(p) /\ p.loaded \subseteq loaded
        /\ \A t \in OnInAll(manifests) : p.executor[t] = "none"
    BY <1>1, DeactivatesAll, RegistryFields
  <2> HIDE DEF p
  <2>3. Sound(Registry') /\ executor' = p.executor /\ loaded' = {}
    BY <2>1, <2>2, RegistryBecomes
  <2>4. OnInAll(manifests)' = OnInAll(manifests)
    BY <2>1 DEF OnInAll
  <2>5. \A t \in OnInAll(manifests) : executor'[t] \notin ExtIds \cup {"fallback"}
    BY <2>2, <2>3, ExtensionsAssumption
  <2>6. \A f \in HostSurfaces : ~surface'[f].shows /\ ~surface'[f].pinned
    BY <2>1 DEF Released, Synced
  <2>7. StopLeavesNothing'
    BY <2>1, <2>3, <2>4, <2>5, <2>6 DEF StopLeavesNothing
  <2> QED BY <2>1, <2>3, <2>7 DEF ExtensionsInv, ExtensionTypes, BeforeActivation, WhileUp,
              AtStop
<1> QED BY <1>2, <1>3

\* A step that changes nothing.
LEMMA StutterStep ==
    ASSUME ExtensionsInv, UNCHANGED vars
    PROVE  ExtensionsInv'
<1>1. /\ onDisk' = onDisk /\ host' = host /\ list' = list /\ executor' = executor
      /\ loaded' = loaded /\ manifests' = manifests /\ state' = state /\ active' = active
      /\ surface' = surface
  BY DEF vars
<1>2. Registry' = Registry
  BY <1>1 DEF Registry
<1>3. ExtensionTypes' /\ WhileUp'
  BY <1>1, <1>2 DEF ExtensionsInv, ExtensionTypes, WhileUp
<1>4. BeforeActivation' /\ AtStop'
  BY <1>1 DEF ExtensionsInv, BeforeActivation, AtStop
<1>5. StopLeavesNothing'
  BY <1>1 DEF ExtensionsInv, StopLeavesNothing, OnInAll
<1> QED BY <1>3, <1>4, <1>5 DEF ExtensionsInv

\* Every step keeps the invariant.
LEMMA InvStep == ExtensionsInv /\ [Next]_vars => ExtensionsInv'
  BY ActivationStep, ListingStep, SkillsStep, EditStep, StopStep, StutterStep DEF Next

\* Whatever happens, the invariant holds.
LEMMA Invariance == Spec => []ExtensionsInv
  BY InvInit, InvStep, PTL DEF Spec

\* The manifest of an extension in the catalog that is in memory.
LEMMA ManifestIs ==
    ASSUME NEW q \in Catalogs, manifests = InMemory(q), NEW i \in 1..Len(q)
    PROVE  OnIds(Manifest(q[i].id)) = Brings(q, i)
<1> DEFINE x == q[i].id
           all == {manifests[j] : j \in DOMAIN manifests}
<1>1. DOMAIN q = 1..Len(q) /\ DOMAIN manifests = 1..Len(q)
  BY ExtensionsAssumption DEF InMemory
<1>2. \A j \in 1..Len(q) : manifests[j] = Readable(q[j]) /\ manifests[j].id = q[j].id
  BY <1>1, ReadableEntry DEF InMemory
<1>3. manifests[i] \in all /\ manifests[i].id = x
  BY <1>1, <1>2
<1>4. \A m \in all : m.id = x => m = manifests[i]
  BY <1>1, <1>2, OwnIds
<1> HIDE DEF x, all
<1>5. (CHOOSE m \in all : m.id = x) = manifests[i]
  BY <1>3, <1>4
<1>6. Manifest(x) = manifests[i]
  BY <1>5 DEF Manifest, all
<1> QED BY <1>2, <1>6 DEF Brings, x

\* What the invariant says of the extensions and their tools.
LEMMA LiveMeans ==
    ASSUME ExtensionsInv
    PROVE  RunsOnlyActive /\ (DifferentTools => ActiveRuns)
<1> SUFFICES ASSUME host = "up" PROVE RunsOnlyActive /\ (DifferentTools => ActiveRuns)
  BY DEF RunsOnlyActive, ActiveRuns
<1>1. PICK q \in Catalogs : manifests = InMemory(q) /\ Live(q, Registry)
  BY DEF ExtensionsInv, WhileUp
<1>2. \A i \in 1..Len(q) : OnIds(Manifest(q[i].id)) = Brings(q, i)
  BY <1>1, ManifestIs
<1>3. RunsOnlyActive
  BY <1>1, <1>2, RegistryFields DEF RunsOnlyActive, Live, Owned
<1>4. ASSUME DifferentTools, NEW x \in ExtIds, state[x] = "active"
      PROVE  /\ \A t \in OnIds(Manifest(x)) : list[t].on /\ executor[t] \in {x, "fallback"}
             /\ OnIds(Manifest(x)) # {} => x \in loaded
  <2>1. PICK i \in 1..Len(q) : q[i].id = x
    BY <1>1, <1>4, RegistryFields DEF Live, Reached
  <2>2. (Brings(q, i) # {} => x \in loaded) /\ Callable(q, i, Registry)
    BY <2>1, <1>1, <1>4, RegistryFields DEF Live
  <2>3. OnIds(Manifest(x)) = Brings(q, i)
    BY <2>1, <1>2
  <2> QED BY <2>1, <2>2, <2>3, RegistryFields DEF Callable
<1> QED BY <1>3, <1>4 DEF ActiveRuns

-----------------------------------------------------------------------------
(* Theorems. *)

\* An executor of an extension belongs to one that is active and brings the tool, whatever
\* catalogs are read, whatever tools they name and however activation fails
\* (ExtensionLifecycleManager.cpp:643-672).
THEOREM OnlyActiveRun == Spec => []RunsOnlyActive
<1>1. ExtensionsInv => RunsOnlyActive
  BY LiveMeans
<1> QED BY <1>1, Invariance, PTL

\* As long as extensions, the host and the skills name their tools apart, what is active can
\* be called too (ExtensionLifecycleManager.cpp:613-676).
THEOREM ActiveCallable == DifferentTools => (Spec => []CallableMeansActive)
<1> SUFFICES ASSUME DifferentTools PROVE Spec => []CallableMeansActive
  OBVIOUS
<1>1. ExtensionsInv => CallableMeansActive
  BY LiveMeans DEF CallableMeansActive
<1> QED BY <1>1, Invariance, PTL

\* A stop leaves no extension loaded, no surface on the old registry and no executor of a tool
\* that an extension has enabled (GatewayHost.cpp:779-798).
THEOREM StopClears == Spec => []StopLeavesNothing
<1>1. ExtensionsInv => StopLeavesNothing
  BY DEF ExtensionsInv
<1> QED BY <1>1, Invariance, PTL
=============================================================================
