------------------------- MODULE ChatRuntimeProofs -------------------------
(***************************************************************************)
(* Theorems about CChatRuntime, for any number of calls, run ids, aborting   *)
(* threads and any queue capacity.                                         *)
(***************************************************************************)
EXTENDS ChatRuntime, WellFoundedInduction, TLAPS

(***************************************************************************)
(* Induction by a least counterexample.                                    *)
(***************************************************************************)

\* Every non-empty set of naturals has a least element.
LEMMA LeastNat ==
    ASSUME NEW T \in SUBSET Nat, T # {}
    PROVE  \E n \in T : \A m \in T : ~(m < n)
<1>1. \E x \in T : \A y \in T : ~ (<<y, x>> \in OpToRel(<, Nat))
  BY WFMin, NatLessThanWellFounded, Zenon
<1> QED BY <1>1 DEF OpToRel
-----------------------------------------------------------------------------
(***************************************************************************)
(* What Erase leaves of a queue.                                           *)
(***************************************************************************)

\* f[i] is what is left of the first i jobs of q, for i up to n.
IsKept(q, D, n, f) ==
    f = [i \in 0..n |->
           IF i = 0 THEN << >>
           ELSE IF q[i] \in D THEN f[i - 1] ELSE Append(f[i - 1], q[i])]

\* The recursion in Erase defines a function.
LEMMA KeptExists ==
    ASSUME NEW q, NEW D, NEW N \in Nat
    PROVE  \E f : IsKept(q, D, N, f)
<1> DEFINE Bad == {n \in Nat : ~\E f : IsKept(q, D, n, f)}
<1> SUFFICES ASSUME Bad # {} PROVE FALSE
  OBVIOUS
<1>1. PICK n \in Bad : \A m \in Bad : ~(m < n)
  BY LeastNat
<1>2. n # 0
  <2> DEFINE f == [i \in 0..0 |-> << >>]
  <2>1. IsKept(q, D, 0, f)
    BY DEF IsKept
  <2> QED BY <2>1, <1>1
<1>3. n - 1 \in Nat /\ n - 1 \notin Bad
  BY <1>1, <1>2
<1>4. PICK f : IsKept(q, D, n - 1, f)
  BY <1>3
<1> DEFINE last == IF q[n] \in D THEN f[n - 1] ELSE Append(f[n - 1], q[n])
           g == [i \in 0..n |-> IF i = n THEN last ELSE f[i]]
<1>5. \A i \in 0..(n - 1) : g[i] = f[i]
  BY <1>1
<1>6. ASSUME NEW i \in 0..n
      PROVE  g[i] = IF i = 0 THEN << >>
                    ELSE IF q[i] \in D THEN g[i - 1] ELSE Append(g[i - 1], q[i])
  <2>1. CASE i = n
    <3>1. g[n - 1] = f[n - 1]
      BY <1>5, <1>3
    <3> QED BY <2>1, <3>1, <1>2
  <2>2. CASE i # n
    <3>1. i \in 0..(n - 1)
      BY <2>2, <1>1
    <3>2. i # 0 => g[i - 1] = f[i - 1]
      BY <3>1, <1>5, <1>1
    <3>3. f[i] = IF i = 0 THEN << >>
                 ELSE IF q[i] \in D THEN f[i - 1] ELSE Append(f[i - 1], q[i])
      BY <3>1, <1>4 DEF IsKept
    <3> QED BY <3>1, <3>2, <3>3, <1>5
  <2> QED BY <2>1, <2>2
<1>7. IsKept(q, D, n, g)
  BY <1>6, Zenon DEF IsKept
<1> QED BY <1>7, <1>1

\* A job put behind a queue without it is there once.
LEMMA AppendDistinct ==
    ASSUME NEW S, NEW q \in Seq(S), NEW e \in S
    PROVE  /\ Contents(Append(q, e)) = Contents(q) \cup {e}
           /\ Distinct(q) /\ e \notin Contents(q) => Distinct(Append(q, e))
<1> DEFINE r == Append(q, e)
<1>1. /\ Len(r) = Len(q) + 1 /\ r[Len(q) + 1] = e
      /\ \A k \in 1..Len(q) : r[k] = q[k]
      /\ 1..Len(r) = 1..Len(q) \cup {Len(q) + 1}
  OBVIOUS
<1> HIDE DEF r
<1>2. Contents(r) = Contents(q) \cup {e}
  BY <1>1 DEF Contents
<1>3. ASSUME Distinct(q), e \notin Contents(q),
             NEW k \in 1..Len(r), NEW l \in 1..Len(r), r[k] = r[l]
      PROVE  k = l
  <2>1. \A m \in 1..Len(q) : r[m] # e
    BY <1>1, <1>3 DEF Contents
  <2>2. CASE k \in 1..Len(q) /\ l \in 1..Len(q)
    BY <2>2, <1>1, <1>3 DEF Distinct
  <2>3. CASE k = Len(q) + 1 /\ l \in 1..Len(q)
    BY <2>1, <2>3, <1>1, <1>3
  <2>4. CASE k \in 1..Len(q) /\ l = Len(q) + 1
    BY <2>1, <2>4, <1>1, <1>3
  <2> QED BY <2>2, <2>3, <2>4, <1>1
<1>4. Distinct(q) /\ e \notin Contents(q) => Distinct(r)
  BY <1>3 DEF Distinct
<1> QED BY <1>2, <1>4 DEF r

\* What is left has no job of D, no new job, no job twice that was there once, and
\* is not longer.
LEMMA KeptFacts ==
    ASSUME NEW S, NEW q \in Seq(S), NEW D, NEW f, IsKept(q, D, Len(q), f)
    PROVE  \A i \in 0..Len(q) :
               /\ f[i] \in Seq(S)
               /\ Len(f[i]) <= i
               /\ Contents(f[i]) = {q[k] : k \in 1..i} \ D
               /\ Distinct(q) => Distinct(f[i])
<1> DEFINE P(n) == /\ f[n] \in Seq(S)
                   /\ Len(f[n]) <= n
                   /\ Contents(f[n]) = {q[k] : k \in 1..n} \ D
                   /\ Distinct(q) => Distinct(f[n])
           Bad == {n \in 0..Len(q) : ~P(n)}
<1>1. P(0)
  <2>1. f[0] = << >>
    BY DEF IsKept
  <2> QED BY <2>1 DEF Contents, Distinct
<1>2. ASSUME NEW n \in 1..Len(q), P(n - 1)
      PROVE  P(n)
  <2>1. f[n] = IF q[n] \in D THEN f[n - 1] ELSE Append(f[n - 1], q[n])
    <3>1. n \in 0..Len(q) /\ n # 0
      OBVIOUS
    <3> HIDE DEF P
    <3> QED BY <3>1, Zenon DEF IsKept
  <2>2. {q[k] : k \in 1..n} = {q[k] : k \in 1..(n - 1)} \cup {q[n]}
    <3>1. 1..n = 1..(n - 1) \cup {n}
      OBVIOUS
    <3> QED BY <3>1, Zenon
  <2>3. CASE q[n] \in D
    BY <2>1, <2>2, <2>3, <1>2
  <2>4. CASE q[n] \notin D
    <3> DEFINE g == f[n - 1]
    <3>1. f[n] = Append(g, q[n]) /\ q[n] \in S /\ g \in Seq(S)
      BY <2>1, <2>4, <1>2
    <3>2. f[n] \in Seq(S) /\ Len(f[n]) <= n
      BY <3>1, <1>2
    <3>3. Contents(f[n]) = Contents(g) \cup {q[n]}
      BY <3>1, AppendDistinct
    <3>4. Contents(f[n]) = {q[k] : k \in 1..n} \ D
      BY <3>3, <2>2, <2>4, <1>2
    <3>5. Distinct(q) => q[n] \notin Contents(g)
      <4>1. Distinct(q) => \A k \in 1..(n - 1) : q[k] # q[n]
        BY DEF Distinct
      <4> QED BY <4>1, <1>2
    <3>6. Distinct(q) => Distinct(f[n])
      BY <3>1, <3>5, <1>2, AppendDistinct
    <3> QED BY <3>2, <3>4, <3>6
  <2> QED BY <2>3, <2>4
<1> HIDE DEF P
<1>3. Bad = {}
  <2> SUFFICES ASSUME Bad # {} PROVE FALSE
    OBVIOUS
  <2>1. PICK n \in Bad : \A m \in Bad : ~(m < n)
    <3>1. Bad \in SUBSET Nat
      OBVIOUS
    <3> HIDE DEF Bad
    <3> QED BY <3>1, LeastNat
  <2>2. n \in 1..Len(q) /\ n - 1 \in 0..Len(q)
    BY <2>1, <1>1
  <2>3. P(n - 1)
    BY <2>1, <2>2
  <2> QED BY <2>1, <2>2, <2>3, <1>2
<1>4. \A i \in 0..Len(q) : P(i)
  BY <1>3
<1> QED BY <1>4 DEF P

\* Erase returns a shorter queue with exactly the jobs outside D, each still once.
LEMMA EraseFacts ==
    ASSUME NEW S, NEW q \in Seq(S), NEW D
    PROVE  /\ Erase(q, D) \in Seq(S)
           /\ Len(Erase(q, D)) <= Len(q)
           /\ Contents(Erase(q, D)) = Contents(q) \ D
           /\ Distinct(q) => Distinct(Erase(q, D))
<1> DEFINE f == CHOOSE g : IsKept(q, D, Len(q), g)
<1>1. IsKept(q, D, Len(q), f)
  BY KeptExists
<1>2. Erase(q, D) = f[Len(q)]
  BY Zenon DEF Erase, IsKept
<1>3. Len(q) \in 0..Len(q) /\ Contents(q) = {q[k] : k \in 1..Len(q)}
  BY DEF Contents
<1> HIDE DEF f
<1>4. \A i \in 0..Len(q) :
               /\ f[i] \in Seq(S)
               /\ Len(f[i]) <= i
               /\ Contents(f[i]) = {q[k] : k \in 1..i} \ D
               /\ Distinct(q) => Distinct(f[i])
  BY <1>1, KeptFacts
<1> QED BY <1>2, <1>3, <1>4
-----------------------------------------------------------------------------
(***************************************************************************)
(* Type correctness.                                                       *)
(***************************************************************************)

\* The empty queue is a sequence of any kind, and holds nothing.
LEMMA EmptyQueue ==
    /\ << >> \in Seq(Jobs) /\ Len(<< >>) = 0
    /\ Contents(<< >>) = {} /\ Distinct(<< >>)
  BY DEF Contents, Distinct

\* TypeOK needs to know that the worker has a job exactly when it is serving one.
TypeInv == TypeOK /\ WorkerPlace

\* Init: the empty runtime that the CChatRuntime members are initialised to.
LEMMA TypeInit == Init => TypeInv
<1> SUFFICES ASSUME Init PROVE TypeInv
  OBVIOUS
<1> USE DEF Init, NoResult, Untracked
<1>1. /\ queue \in Seq(Jobs) /\ Len(queue) <= QueueCapacity
      /\ abandoned \in Seq(Jobs)
  BY EmptyQueue, ConstantsAssumption
<1>2. WorkerPlace
  BY DEF WorkerPlace
<1> QED BY <1>1, <1>2 DEF TypeInv, TypeOK, CallerPlaces, WorkerPlaces, AbortPlaces, StopPlaces

\* No step of Execute, WorkerLoop, Abort, StartWorker or StopWorker breaks a type.
LEMMA TypeStep == TypeInv /\ [Next]_vars => TypeInv'
<1> SUFFICES ASSUME TypeInv, [Next]_vars PROVE TypeInv'
  OBVIOUS
<1> USE ConstantsAssumption DEF TypeInv, TypeOK, WorkerPlace, NoResult, Untracked, Status,
Results,
       Threads, CallerPlaces, WorkerPlaces, AbortPlaces, StopPlaces, Go,
       runtimeVars, jobVars, workerVars, abortVars, stopVars
<1>1. ASSUME NEW j \in Jobs, ExecuteInline(j) PROVE TypeInv'
  BY <1>1 DEF ExecuteInline, Executes
\* The queue setting is a guard here and a value in TypeOK: one step for each.
<1>2. ASSUME NEW j \in Jobs, RejectUnavailable(j) PROVE TypeInv'
  <2>1. asyncQueueEnabled' \in AsyncSettings
    BY <1>2, Zenon DEF RejectUnavailable
  <2>2. /\ Returns(j, "unavailable")
        /\ UNCHANGED <<queue, jobsByRunId, runsById, available, stopRequested, activeRunId,
                       completed, result, executors, workerVars, abortVars, stopVars>>
    BY <1>2, Zenon DEF RejectUnavailable
  <2> QED BY <2>1, <2>2 DEF Returns
<1>3. ASSUME NEW j \in Jobs, RejectFull(j) PROVE TypeInv'
  <2>1. asyncQueueEnabled' \in AsyncSettings
    BY <1>3, Zenon DEF RejectFull
  <2>2. /\ Returns(j, "queueFull")
        /\ UNCHANGED <<queue, jobsByRunId, runsById, available, stopRequested, activeRunId,
                       completed, result, executors, workerVars, abortVars, stopVars>>
    BY <1>3, Zenon DEF RejectFull
  <2> QED BY <2>1, <2>2 DEF Returns
<1>4. ASSUME NEW j \in Jobs, Enqueue(j) PROVE TypeInv'
  <2>1. asyncQueueEnabled' \in AsyncSettings
    BY <1>4, Zenon DEF Enqueue
  <2>2. /\ HasRoom /\ PushBack(j) /\ Go(j, "waiting")
        /\ jobsByRunId' = [jobsByRunId EXCEPT ![RunOf[j]] = j]
        /\ runsById' = [runsById EXCEPT ![RunOf[j]] = "Queued"]
        /\ UNCHANGED <<available, stopRequested, activeRunId, completed, result, outcome,
                       executors, workerVars, abortVars, stopVars>>
    BY <1>4, Zenon DEF Enqueue
  <2> QED BY <2>1, <2>2 DEF HasRoom, PushBack
<1>5. ASSUME NEW j \in Jobs, ReturnResult(j) PROVE TypeInv'
  BY <1>5 DEF ReturnResult, Returns
<1>6. ASSUME NEW j \in Jobs, Promote(j) PROVE TypeInv'
  <2>1. /\ Erase(queue, JobsOf(RunOf[j])) \in Seq(Jobs)
        /\ Len(Erase(queue, JobsOf(RunOf[j]))) <= Len(queue)
    BY EraseFacts
  <2> QED BY <2>1, <1>6 DEF Promote, ForgetRun, ForgetEntries, Executes
<1>7. ASSUME NEW j \in Jobs, NEW r \in BodyResults, CallerEnd(j, r) PROVE TypeInv'
  BY <1>7 DEF CallerEnd, Returns
<1>8. ASSUME NEW j \in Jobs, GiveUp(j) PROVE TypeInv'
  BY <1>8 DEF GiveUp
<1>9. ASSUME NEW j \in Jobs, TimeoutMark(j) PROVE TypeInv'
  BY <1>9 DEF TimeoutMark
<1>10. ASSUME NEW j \in Jobs, TimeoutCancel(j) PROVE TypeInv'
  BY <1>10 DEF TimeoutCancel
<1>11. ASSUME NEW j \in Jobs, TimeoutErase(j) PROVE TypeInv'
  <2>1. /\ Erase(queue, JobsOf(RunOf[j])) \in Seq(Jobs)
        /\ Len(Erase(queue, JobsOf(RunOf[j]))) <= Len(queue)
    BY EraseFacts
  <2> QED BY <2>1, <1>11 DEF TimeoutErase, ForgetRun, ForgetEntries
<1>12. ASSUME NEW j \in Jobs, TimeoutCleanup(j) PROVE TypeInv'
  BY <1>12 DEF TimeoutCleanup, Returns
<1>13. ASSUME NEW late \in BOOLEAN, WorkerPop(late) PROVE TypeInv'
  BY <1>13 DEF WorkerPop, StatusOnPop
<1>14. ASSUME WorkerBegin PROVE TypeInv'
  BY <1>14 DEF WorkerBegin, Executes
<1>15. ASSUME NEW r \in BodyResults, NEW overran \in BOOLEAN, WorkerEnd(r,
overran) PROVE TypeInv'
  BY <1>15 DEF WorkerEnd
<1>16. ASSUME NEW cancelled \in BOOLEAN, WorkerCheckCancelled(cancelled) PROVE TypeInv'
  BY <1>16 DEF WorkerCheckCancelled
<1>17. ASSUME WorkerFinish PROVE TypeInv'
  BY <1>17 DEF WorkerFinish, ForgetEntries
<1>18. ASSUME WorkerNotify PROVE TypeInv'
  BY <1>18 DEF WorkerNotify
<1>19. ASSUME WorkerComplete PROVE TypeInv'
  BY <1>19 DEF WorkerComplete, Complete
<1>20. ASSUME WorkerExit PROVE TypeInv'
  BY <1>20 DEF WorkerExit
<1>21. ASSUME NEW a \in Aborters, NEW r \in RunIds, AbortBegin(a, r) PROVE TypeInv'
  <2> DEFINE job == jobsByRunId[r]
  <2>1. /\ Erase(queue, {job}) \in Seq(Jobs)
        /\ Len(Erase(queue, {job})) <= Len(queue)
    BY EraseFacts
  <2>2. CASE job # NoJob /\ InQueue(job)
    BY <2>1, <2>2, <1>21 DEF AbortBegin, Unqueue, AfterAbort
  <2>3. CASE ~(job # NoJob /\ InQueue(job))
    BY <2>3, <1>21 DEF AbortBegin, AfterAbort
  <2> QED BY <2>2, <2>3
<1>22. ASSUME NEW a \in Aborters, AbortComplete(a) PROVE TypeInv'
  <2>1. /\ result' \in [Jobs -> Results \cup {NoResult}]
        /\ completed' \in [Jobs -> BOOLEAN]
        /\ apc' \in [Aborters -> AbortPlaces]
    BY <1>22 DEF AbortComplete, Complete
  <2> QED BY <2>1, <1>22 DEF AbortComplete
<1>23. ASSUME NEW a \in Aborters, AbortNotify(a) PROVE TypeInv'
  BY <1>23 DEF AbortNotify
<1>24. ASSUME NEW a \in Aborters, AbortCancel(a) PROVE TypeInv'
  BY <1>24 DEF AbortCancel
<1>25. ASSUME StartWorker PROVE TypeInv'
  BY <1>25 DEF StartWorker
<1>26. ASSUME StopBegin PROVE TypeInv'
  <2>1. queue' \in Seq(Jobs) /\ Len(queue') <= QueueCapacity
    BY <1>26, EmptyQueue DEF StopBegin
  <2>2. /\ jobsByRunId' \in [RunIds -> Jobs \cup {NoJob}]
        /\ runsById' \in [RunIds -> Status \cup {Untracked}]
    BY <1>26 DEF StopBegin
  <2> QED BY <2>1, <2>2, <1>26 DEF StopBegin, RequestStop, AbandonQueue
<1>27. ASSUME StopCancelActive PROVE TypeInv'
  BY <1>27 DEF StopCancelActive
<1>28. ASSUME StopComplete PROVE TypeInv'
  BY <1>28 DEF StopComplete, Complete
<1>29. ASSUME StopJoin PROVE TypeInv'
  BY <1>29 DEF StopJoin
<1>30. ASSUME StopEnd PROVE TypeInv'
  <2>1. queue' \in Seq(Jobs) /\ Len(queue') <= QueueCapacity
    BY <1>30, EmptyQueue DEF StopEnd
  <2>2. /\ jobsByRunId' \in [RunIds -> Jobs \cup {NoJob}]
        /\ runsById' \in [RunIds -> Status \cup {Untracked}]
    BY <1>30 DEF StopEnd
  <2> QED BY <2>1, <2>2, <1>30 DEF StopEnd
<1>31. CASE UNCHANGED vars
  BY <1>31 DEF vars
<1> HIDE DEF TypeInv, TypeOK, WorkerPlace, Go
<1>32. CASE \E j \in Jobs : Caller(j)
  BY <1>1, <1>2, <1>3, <1>4, <1>5, <1>6, <1>7, <1>8, <1>9, <1>10, <1>11, <1>12, <1>32
  DEF Caller
<1>33. CASE Worker
  BY <1>13, <1>14, <1>15, <1>16, <1>17, <1>18, <1>19, <1>20, <1>33 DEF Worker
<1>34. CASE \E a \in Aborters : Aborter(a)
  BY <1>21, <1>22, <1>23, <1>24, <1>34 DEF Aborter
<1>35. CASE Manager
  BY <1>25, <1>26, <1>27, <1>28, <1>29, <1>30, <1>35 DEF Manager
<1> QED BY <1>31, <1>32, <1>33, <1>34, <1>35 DEF Next

\* Every variable keeps its type, and the queue its capacity (CChatRuntime.cpp:117).
THEOREM TypeCorrect == Spec => []TypeOK
<1>1. TypeInv => TypeOK
  BY DEF TypeInv
<1> QED BY TypeInit, TypeStep, <1>1, PTL DEF Spec
-----------------------------------------------------------------------------
(***************************************************************************)
(* Ownership.                                                              *)
(***************************************************************************)

\* What m_queue holds are jobs.
LEMMA ContentsType ==
    ASSUME NEW S, NEW q \in Seq(S)
    PROVE  Contents(q) \subseteq S
  BY DEF Contents

\* Popping the front job leaves exactly the others (CChatRuntime.cpp:315-316).
LEMMA HeadTail ==
    ASSUME NEW S, NEW q \in Seq(S), q # << >>
    PROVE  /\ Head(q) \in S /\ Tail(q) \in Seq(S)
           /\ Contents(q) = Contents(Tail(q)) \cup {Head(q)}
           /\ Distinct(q) => Distinct(Tail(q)) /\ Head(q) \notin Contents(Tail(q))
<1> DEFINE t == Tail(q)
<1>1. /\ t \in Seq(S) /\ Len(t) = Len(q) - 1 /\ Len(q) \in Nat \ {0}
      /\ Head(q) = q[1] /\ Head(q) \in S
      /\ \A k \in 1..Len(t) : t[k] = q[k + 1]
  OBVIOUS
<1> HIDE DEF t
<1>2. Contents(q) \subseteq Contents(t) \cup {q[1]}
  <2> SUFFICES ASSUME NEW k \in 1..Len(q), k # 1 PROVE q[k] \in Contents(t)
    BY DEF Contents
  <2>1. k - 1 \in 1..Len(t) /\ t[k - 1] = q[k]
    BY <1>1
  <2> QED BY <2>1 DEF Contents
<1>3. Contents(t) \cup {q[1]} \subseteq Contents(q)
  <2>1. \A k \in 1..Len(t) : k + 1 \in 1..Len(q)
    BY <1>1
  <2>2. 1 \in 1..Len(q)
    BY <1>1
  <2> QED BY <2>1, <2>2, <1>1 DEF Contents
<1>4. Distinct(q) => Distinct(t) /\ q[1] \notin Contents(t)
  <2> SUFFICES ASSUME Distinct(q) PROVE Distinct(t) /\ q[1] \notin Contents(t)
    OBVIOUS
  <2>1. \A k \in 1..Len(t) : k + 1 \in 1..Len(q) /\ k + 1 # 1
    BY <1>1
  <2>2. \A k, l \in 1..Len(t) : t[k] = t[l] => k = l
    <3> SUFFICES ASSUME NEW k \in 1..Len(t), NEW l \in 1..Len(t), t[k] = t[l] PROVE k = l
      OBVIOUS
    <3>1. q[k + 1] = q[l + 1]
      BY <1>1
    <3>2. k + 1 = l + 1
      BY <2>1, <3>1 DEF Distinct
    <3> QED BY <3>2
  <2>3. ASSUME NEW k \in 1..Len(t) PROVE t[k] # q[1]
    <3>1. t[k] = q[k + 1]
      BY <1>1
    <3>2. 1 \in 1..Len(q)
      BY <1>1
    <3> QED BY <2>1, <3>1, <3>2 DEF Distinct
  <2> QED BY <2>2, <2>3 DEF Contents, Distinct
<1> QED BY <1>1, <1>2, <1>3, <1>4 DEF t

\* chat.send gives every run an id of its own (GatewayHost.Handlers.Runtime.
\* ChatPipeline.cpp:523-528).
UniqueRuns == \A j, k \in Jobs : RunOf[j] = RunOf[k] => j = k

Inv == TypeInv /\ Ownership

\* Nobody starts a job twice if no executor is added, no job becomes idle, and whoever
\* may start a job, or has it on the worker, could already, or takes a job not yet called.
LEMMA RunsOnceKept ==
    ASSUME RunsOnce, UNCHANGED executors,
           \A j \in Jobs : pc'[j] = "idle" => pc[j] = "idle",
           \A j \in Jobs : MayStart(j)' => MayStart(j) \/ pc[j] = "idle",
           \A j \in Jobs : WorkerHas(j)' => WorkerHas(j) \/ MayStart(j)
    PROVE  RunsOnce'
<1>1. \A j \in Jobs : executors'[j] = executors[j]
  OBVIOUS
<1>2. \A j \in Jobs : pc'[j] = "idle" \/ MayStart(j)' => executors'[j] = {}
  BY <1>1 DEF RunsOnce
<1>3. \A j \in Jobs : WorkerHas(j)' => "caller" \notin executors'[j]
  BY <1>1 DEF RunsOnce
<1>4. AtMostOnce'
  BY <1>1 DEF RunsOnce, AtMostOnce
<1> QED BY <1>2, <1>3, <1>4 DEF RunsOnce

\* A caller that goes to a place where it neither waits nor runs the body takes no part.
LEMMA CallerMoves ==
    ASSUME Inv, NEW j \in Jobs, NEW place,
           pc' = [pc EXCEPT ![j] = place], place \notin {"idle", "waiting", "executing"},
           UNCHANGED <<runtimeVars, completed, executors, workerVars, abortVars, stopVars>>
    PROVE  Ownership'
<1> USE ConstantsAssumption DEF UniqueRuns, Inv, TypeInv, TypeOK, NoResult, Untracked, Status,
       Threads, Ownership,
       runtimeVars, workerVars, abortVars, stopVars
<1>1. PlacesAgree'
  BY DEF PlacesAgree, WorkerPlace
<1>2. EntriesAgree'
  BY DEF EntriesAgree, QueuedStatusMatchesQueue, InQueue
<1>3. OwnedOnce'
  BY DEF OwnedOnce, SoleOwner, Owned, InQueue, WorkerHas, AborterHas, StopHas
<1>4. RunsOnce'
  BY DEF RunsOnce, MayStart, AtMostOnce, InQueue, WorkerHas, AborterHas, StopHas, OwnedOnce,
        SoleOwner, Owned
<1>5. NoStrandedCaller'
  BY DEF NoStrandedCaller, Owned, InQueue, WorkerHas, AborterHas, StopHas
<1> QED BY <1>1, <1>2, <1>3, <1>4, <1>5

\* Nor does a thread that hands no job over and starts none.
LEMMA NoHandover ==
    ASSUME Inv, PlacesAgree', wpc' = "popped" => wpc = "popped",
           \A a \in Aborters, j \in Jobs : AborterHas(a, j)' <=> AborterHas(a, j),
           UNCHANGED <<queue, jobsByRunId, runsById, jobVars, wjob, abandoned>>
    PROVE  Ownership'
<1> USE DEF Inv, Ownership, jobVars
<1>1. EntriesAgree'
  BY DEF EntriesAgree, QueuedStatusMatchesQueue, InQueue
<1>2. OwnedOnce'
  BY DEF OwnedOnce, SoleOwner, Owned, InQueue, WorkerHas, StopHas
<1>3. RunsOnce'
  BY DEF RunsOnce, MayStart, AtMostOnce, InQueue, WorkerHas, StopHas, OwnedOnce, SoleOwner,
        Owned
<1>4. NoStrandedCaller'
  BY DEF NoStrandedCaller, Owned, InQueue, WorkerHas, StopHas
<1> QED BY <1>1, <1>2, <1>3, <1>4

\* Every step hands a job over whole: one case per operation of CChatRuntime.cpp:41-436.
LEMMA OwnershipStep ==
    ASSUME UniqueRuns, Inv, TypeInv', [Next]_vars
    PROVE  Ownership'
<1> USE ConstantsAssumption DEF UniqueRuns, Inv, TypeInv, TypeOK, NoResult, Untracked, Status,
       Threads, Ownership, Go, runtimeVars, jobVars, workerVars, abortVars, stopVars
<1>. "worker" \in Threads /\ "worker" \notin {"caller"}
  OBVIOUS
<1>0. Contents(queue) \subseteq Jobs /\ Contents(abandoned) \subseteq Jobs
  BY ContentsType
<1>1. ASSUME NEW j \in Jobs, ExecuteInline(j) PROVE Ownership'
  <2>1. PlacesAgree'
    BY <1>1 DEF ExecuteInline, Executes, PlacesAgree, WorkerPlace
  <2>2. EntriesAgree'
    BY <1>1 DEF ExecuteInline, Executes, EntriesAgree, QueuedStatusMatchesQueue, InQueue
  <2>3. OwnedOnce'
    BY <1>1 DEF ExecuteInline, Executes, OwnedOnce, SoleOwner, Owned, InQueue, WorkerHas,
          AborterHas, StopHas
  <2>4. RunsOnce'
    <3>1. ~MayStart(j) /\ ~WorkerHas(j) /\ executors' = [executors EXCEPT ![j] = @ \cup {"caller"}]
      BY <1>1 DEF ExecuteInline, Executes, OwnedOnce, Owned, MayStart
    <3>2. /\ pc' = [pc EXCEPT ![j] = "executing"] /\ pc[j] = "idle"
          /\ \A k \in Jobs : (MayStart(k)' <=> MayStart(k)) /\ (WorkerHas(k)' <=> WorkerHas(k))
      BY <1>1 DEF ExecuteInline, MayStart, InQueue, WorkerHas, AborterHas, StopHas
    <3>3. executors[j] = {}
      BY <3>2 DEF RunsOnce
    <3>5. executors'[j] = {"caller"}
      BY <3>1, <3>3
    <3>6. executors'[j] # Threads
      BY <3>5
    <3>4. \A k \in Jobs : k # j => executors'[k] = executors[k] /\ pc'[k] = pc[k]
      BY <3>1, <3>2
    <3> HIDE DEF Threads
    <3>7. \A k \in Jobs : pc'[k] = "idle" \/ MayStart(k)' => executors'[k] = {}
      BY <3>1, <3>2, <3>4 DEF RunsOnce
    <3>8. \A k \in Jobs : WorkerHas(k)' => "caller" \notin executors'[k]
      BY <3>1, <3>2, <3>4 DEF RunsOnce
    <3>9. AtMostOnce'
      BY <3>4, <3>6 DEF RunsOnce, AtMostOnce
    <3> QED BY <3>7, <3>8, <3>9 DEF RunsOnce
  <2>5. NoStrandedCaller'
    BY <1>1 DEF ExecuteInline, Executes, NoStrandedCaller, Owned, InQueue, WorkerHas,
          AborterHas, StopHas
  <2> QED BY <2>1, <2>2, <2>3, <2>4, <2>5
<1>2. ASSUME NEW j \in Jobs, RejectUnavailable(j) PROVE Ownership'
  BY <1>2, CallerMoves DEF RejectUnavailable, Returns
<1>3. ASSUME NEW j \in Jobs, RejectFull(j) PROVE Ownership'
  BY <1>3, CallerMoves DEF RejectFull, Returns
<1>4. ASSUME NEW j \in Jobs, Enqueue(j) PROVE Ownership'
  <2>1. Contents(queue') = Contents(queue) \cup {j} /\ (j \notin Contents(queue) => Distinct(queue'))
    BY <1>4, AppendDistinct DEF Enqueue, PushBack, OwnedOnce
  <2>2. PlacesAgree'
    BY <2>1, <1>4 DEF Enqueue, Accepting, HasRoom, PushBack, PlacesAgree, WorkerPlace
  <2>3. EntriesAgree'
    BY <2>1, <1>4 DEF Enqueue, Accepting, HasRoom, PushBack, EntriesAgree,
          QueuedStatusMatchesQueue, InQueue
  <2>4. OwnedOnce'
    BY <2>1, <1>4 DEF Enqueue, Accepting, HasRoom, PushBack, OwnedOnce, SoleOwner, Owned,
          InQueue, WorkerHas, AborterHas, StopHas
  <2>5. RunsOnce'
    <3>1. /\ UNCHANGED executors /\ \A k \in Jobs : pc'[k] = "idle" => pc[k] = "idle"
      BY <2>1, <1>4 DEF Enqueue, Accepting, HasRoom, PushBack
    <3>2. \A k \in Jobs : MayStart(k)' => MayStart(k) \/ pc[k] = "idle"
      BY <2>1, <1>4 DEF Enqueue, Accepting, HasRoom, PushBack, MayStart, InQueue, WorkerHas,
            AborterHas, StopHas
    <3>3. \A k \in Jobs : WorkerHas(k)' => WorkerHas(k) \/ MayStart(k)
      BY <2>1, <1>4 DEF Enqueue, Accepting, HasRoom, PushBack, MayStart, InQueue, WorkerHas
    <3> QED BY <3>1, <3>2, <3>3, RunsOnceKept
  <2>6. NoStrandedCaller'
    BY <2>1, <1>4 DEF Enqueue, Accepting, HasRoom, PushBack, NoStrandedCaller, Owned, InQueue,
          WorkerHas, AborterHas, StopHas
  <2> QED BY <2>2, <2>3, <2>4, <2>5, <2>6
<1>5. ASSUME NEW j \in Jobs, ReturnResult(j) PROVE Ownership'
  BY <1>5, CallerMoves DEF ReturnResult, WaitEnded, Returns
<1>6. ASSUME NEW j \in Jobs, Promote(j) PROVE Ownership'
  <2>1. /\ Contents(queue') = Contents(queue) \ {j} /\ Distinct(queue')
        /\ queue = << >> => queue' = << >>
    BY <1>6, EraseFacts DEF Promote, ForgetRun, JobsOf, OwnedOnce
  <2>2. PlacesAgree'
    BY <2>1, <1>6 DEF Promote, WaitTimedOut, StillQueued, ForgetRun, ForgetEntries, Executes,
          PlacesAgree, WorkerPlace
  <2>3. EntriesAgree'
    BY <2>1, <1>0, <1>6 DEF Promote, ForgetRun, ForgetEntries, EntriesAgree,
          QueuedStatusMatchesQueue, InQueue
  <2>7. InQueue(j)
    BY <1>0, <1>6 DEF Promote, StillQueued, EntriesAgree, QueuedStatusMatchesQueue, InQueue
  <2>8. /\ pc' = [pc EXCEPT ![j] = "executing"]
        /\ executors' = [executors EXCEPT ![j] = @ \cup {"caller"}]
        /\ UNCHANGED <<completed, wpc, wjob, apc, ajob, abandoned>>
    BY <1>6 DEF Promote, Executes
  <2>4. OwnedOnce'
    BY <2>1, <2>7, <2>8 DEF OwnedOnce, SoleOwner, Owned, InQueue, WorkerHas, AborterHas, StopHas
  <2>5. RunsOnce'
    <3>1. executors[j] = {} /\ ~WorkerHas(j) /\ ~MayStart(j)'
      BY <2>1, <2>7, <2>8 DEF RunsOnce, MayStart, OwnedOnce, SoleOwner, InQueue, WorkerHas,
            AborterHas, StopHas
    <3>2. \A k \in Jobs : (MayStart(k)' => MayStart(k)) /\ (WorkerHas(k)' <=> WorkerHas(k))
      BY <2>1, <2>8 DEF MayStart, InQueue, WorkerHas, AborterHas, StopHas
    <3>3. executors'[j] = {"caller"} /\ pc'[j] = "executing"
      BY <3>1, <2>8
    <3>6. executors'[j] # Threads
      BY <3>3
    <3>4. \A k \in Jobs : k # j => executors'[k] = executors[k] /\ pc'[k] = pc[k]
      BY <2>8
    <3> HIDE DEF Threads
    <3>7. \A k \in Jobs : pc'[k] = "idle" \/ MayStart(k)' => executors'[k] = {}
      BY <3>1, <3>2, <3>3, <3>4 DEF RunsOnce
    <3>8. \A k \in Jobs : WorkerHas(k)' => "caller" \notin executors'[k]
      BY <3>1, <3>2, <3>4 DEF RunsOnce
    <3>9. AtMostOnce'
      BY <3>4, <3>6 DEF RunsOnce, AtMostOnce
    <3> QED BY <3>7, <3>8, <3>9 DEF RunsOnce
  <2>6. NoStrandedCaller'
    BY <2>1, <1>6 DEF Promote, WaitTimedOut, StillQueued, ForgetRun, ForgetEntries, Executes,
          NoStrandedCaller, Owned, InQueue, WorkerHas, AborterHas, StopHas
  <2> QED BY <2>2, <2>3, <2>4, <2>5, <2>6
<1>7. ASSUME NEW j \in Jobs, NEW r \in BodyResults, CallerEnd(j, r) PROVE Ownership'
  BY <1>7, CallerMoves DEF CallerEnd, Returns
<1>8. ASSUME NEW j \in Jobs, GiveUp(j) PROVE Ownership'
  BY <1>8, CallerMoves DEF GiveUp
<1>9. ASSUME NEW j \in Jobs, TimeoutMark(j) PROVE Ownership'
  BY <1>9, CallerMoves DEF TimeoutMark
<1>10. ASSUME NEW j \in Jobs, TimeoutCancel(j) PROVE Ownership'
  BY <1>10, CallerMoves DEF TimeoutCancel
<1>11. ASSUME NEW j \in Jobs, TimeoutErase(j) PROVE Ownership'
  <2>1. /\ Contents(queue') = Contents(queue) \ {j} /\ Distinct(queue')
        /\ queue = << >> => queue' = << >>
    BY <1>11, EraseFacts DEF TimeoutErase, ForgetRun, JobsOf, OwnedOnce
  <2>2. PlacesAgree'
    BY <2>1, <1>11 DEF TimeoutErase, ForgetRun, ForgetEntries, PlacesAgree, WorkerPlace
  <2>3. EntriesAgree'
    BY <2>1, <1>0, <1>11 DEF TimeoutErase, ForgetRun, ForgetEntries, EntriesAgree,
          QueuedStatusMatchesQueue, InQueue
  <2>4. OwnedOnce'
    BY <2>1, <1>11 DEF TimeoutErase, ForgetRun, ForgetEntries, OwnedOnce, SoleOwner, Owned,
          InQueue, WorkerHas, AborterHas, StopHas
  <2>5. RunsOnce'
    <3>1. /\ UNCHANGED executors /\ \A k \in Jobs : pc'[k] = "idle" => pc[k] = "idle"
      BY <2>1, <1>11 DEF TimeoutErase, ForgetRun, ForgetEntries
    <3>2. \A k \in Jobs : MayStart(k)' => MayStart(k) \/ pc[k] = "idle"
      BY <2>1, <1>11 DEF TimeoutErase, ForgetRun, ForgetEntries, MayStart, InQueue, WorkerHas,
            AborterHas, StopHas
    <3>3. \A k \in Jobs : WorkerHas(k)' => WorkerHas(k) \/ MayStart(k)
      BY <2>1, <1>11 DEF TimeoutErase, ForgetRun, ForgetEntries, MayStart, InQueue, WorkerHas
    <3> QED BY <3>1, <3>2, <3>3, RunsOnceKept
  <2>6. NoStrandedCaller'
    BY <2>1, <1>11 DEF TimeoutErase, ForgetRun, ForgetEntries, NoStrandedCaller, Owned,
          InQueue, WorkerHas, AborterHas, StopHas
  <2> QED BY <2>2, <2>3, <2>4, <2>5, <2>6
<1>12. ASSUME NEW j \in Jobs, TimeoutCleanup(j) PROVE Ownership'
  BY <1>12, CallerMoves DEF TimeoutCleanup, Returns
<1>13. ASSUME NEW late \in BOOLEAN, WorkerPop(late) PROVE Ownership'
  <2>1. /\ Head(queue) \in Jobs /\ Distinct(queue')
        /\ Contents(queue) = Contents(queue') \cup {Head(queue)}
        /\ Head(queue) \notin Contents(queue')
    BY <1>13, HeadTail DEF WorkerPop, OwnedOnce
  <2>2. PlacesAgree'
    BY <2>1, <1>13 DEF WorkerPop, StatusOnPop, PlacesAgree, WorkerPlace
  <2>3. EntriesAgree'
    <3> DEFINE job == Head(queue)
    <3>1. /\ jobsByRunId' = jobsByRunId
          /\ \A r \in RunIds : runsById'[r] = IF r = RunOf[job] THEN StatusOnPop(r) ELSE runsById[r]
      BY <2>1, <1>13 DEF WorkerPop
    <3>2. StatusOnPop(RunOf[job]) # "Queued"
      BY DEF StatusOnPop
    <3>3. \A k \in Contents(queue') : RunOf[k] # RunOf[job]
      BY <2>1, <1>0
    <3> HIDE DEF job
    <3>4. Contents(queue) = Contents(queue') \cup {job}
      BY <2>1 DEF job
    <3> QED BY <3>1, <3>2, <3>3, <3>4, <1>0 DEF EntriesAgree, QueuedStatusMatchesQueue, InQueue
  <2>4. OwnedOnce'
    BY <2>1, <1>13 DEF WorkerPop, StatusOnPop, OwnedOnce, SoleOwner, Owned, InQueue, WorkerHas,
          AborterHas, StopHas, PlacesAgree, WorkerPlace
  <2>5. RunsOnce'
    <3>1. /\ UNCHANGED executors /\ \A k \in Jobs : pc'[k] = "idle" => pc[k] = "idle"
      BY <2>1, <1>13 DEF WorkerPop, StatusOnPop
    <3>2. \A k \in Jobs : MayStart(k)' => MayStart(k) \/ pc[k] = "idle"
      BY <2>1, <1>13 DEF WorkerPop, StatusOnPop, MayStart, InQueue, WorkerHas,
            AborterHas, StopHas,
            PlacesAgree, WorkerPlace
    <3>3. \A k \in Jobs : WorkerHas(k)' => WorkerHas(k) \/ MayStart(k)
      BY <2>1, <1>13 DEF WorkerPop, StatusOnPop, MayStart, InQueue, WorkerHas,
            PlacesAgree, WorkerPlace
    <3> QED BY <3>1, <3>2, <3>3, RunsOnceKept
  <2>6. NoStrandedCaller'
    <3>1. wjob' = Head(queue) /\ wjob = NoJob /\ UNCHANGED <<pc, completed, apc, ajob,
    abandoned>>
      BY <1>13 DEF WorkerPop, PlacesAgree, WorkerPlace
    <3> QED BY <2>1, <3>1 DEF NoStrandedCaller, Owned, InQueue, WorkerHas, AborterHas, StopHas
  <2> QED BY <2>2, <2>3, <2>4, <2>5, <2>6
<1>14. ASSUME WorkerBegin PROVE Ownership'
  <2>1. PlacesAgree'
    BY <1>14 DEF WorkerBegin, Executes, PlacesAgree, WorkerPlace
  <2>2. EntriesAgree'
    BY <1>14 DEF WorkerBegin, Executes, EntriesAgree, QueuedStatusMatchesQueue, InQueue
  <2>3. OwnedOnce'
    BY <1>14 DEF WorkerBegin, Executes, OwnedOnce, SoleOwner, Owned, InQueue, WorkerHas,
          AborterHas, StopHas, PlacesAgree, WorkerPlace
  <2>4. RunsOnce'
    <3>1. /\ wpc = "popped" /\ wpc' = "executing" /\ wjob \in Jobs
          /\ executors' = [executors EXCEPT ![wjob] = @ \cup {"worker"}]
          /\ UNCHANGED <<queue, pc, wjob, apc, ajob, abandoned>>
      BY <1>14 DEF WorkerBegin, Executes, PlacesAgree, WorkerPlace
    <3>2. executors[wjob] = {} /\ pc[wjob] # "idle"
      BY <3>1 DEF RunsOnce, MayStart, OwnedOnce, Owned, WorkerHas
    <3>3. ~MayStart(wjob)'
      BY <3>1 DEF MayStart, OwnedOnce, SoleOwner, InQueue, WorkerHas, AborterHas, StopHas
    <3>4. \A k \in Jobs : (MayStart(k)' => MayStart(k)) /\ (WorkerHas(k)' <=> WorkerHas(k))
      BY <3>1 DEF MayStart, InQueue, WorkerHas, AborterHas, StopHas
    <3> QED BY <3>1, <3>2, <3>3, <3>4 DEF RunsOnce, AtMostOnce, WorkerHas
  <2>5. NoStrandedCaller'
    BY <1>14 DEF WorkerBegin, Executes, NoStrandedCaller, Owned, InQueue, WorkerHas,
          AborterHas, StopHas
  <2> QED BY <2>1, <2>2, <2>3, <2>4, <2>5
<1>15. ASSUME NEW r \in BodyResults, NEW overran \in BOOLEAN, WorkerEnd(r,
overran) PROVE Ownership'
  <2>1. PlacesAgree'
    BY <1>15 DEF WorkerEnd, PlacesAgree, WorkerPlace
  <2> QED BY <2>1, <1>15, NoHandover DEF WorkerEnd, AborterHas
<1>16. ASSUME NEW cancelled \in BOOLEAN, WorkerCheckCancelled(cancelled) PROVE Ownership'
  <2>1. PlacesAgree'
    BY <1>16 DEF WorkerCheckCancelled, PlacesAgree, WorkerPlace
  <2> QED BY <2>1, <1>16, NoHandover DEF WorkerCheckCancelled, AborterHas
<1>17. ASSUME WorkerFinish PROVE Ownership'
  <2>1. PlacesAgree'
    BY <1>17 DEF WorkerFinish, ForgetEntries, PlacesAgree, WorkerPlace
  <2>2. EntriesAgree'
    <3>1. wjob \in Jobs /\ wjob \notin Contents(queue) /\ queue' = queue
      BY <1>17 DEF WorkerFinish, PlacesAgree, WorkerPlace, OwnedOnce, SoleOwner, InQueue,
            WorkerHas
    <3>2. \A k \in Contents(queue) : RunOf[k] # RunOf[wjob]
      BY <3>1, <1>0
    <3> QED BY <3>1, <3>2, <1>0, <1>17 DEF WorkerFinish, ForgetEntries, EntriesAgree,
              QueuedStatusMatchesQueue, InQueue
  <2>3. OwnedOnce'
    BY <1>17 DEF WorkerFinish, ForgetEntries, OwnedOnce, SoleOwner, Owned, InQueue, WorkerHas,
          AborterHas, StopHas
  <2>4. RunsOnce'
    <3>1. /\ UNCHANGED executors /\ \A k \in Jobs : pc'[k] = "idle" => pc[k] = "idle"
      BY <1>17 DEF WorkerFinish, ForgetEntries
    <3>2. \A k \in Jobs : MayStart(k)' => MayStart(k) \/ pc[k] = "idle"
      BY <1>17 DEF WorkerFinish, ForgetEntries, MayStart, InQueue, WorkerHas,
            AborterHas, StopHas
    <3>3. \A k \in Jobs : WorkerHas(k)' => WorkerHas(k) \/ MayStart(k)
      BY <1>17 DEF WorkerFinish, ForgetEntries, MayStart, InQueue, WorkerHas
    <3> QED BY <3>1, <3>2, <3>3, RunsOnceKept
  <2>5. NoStrandedCaller'
    BY <1>17 DEF WorkerFinish, ForgetEntries, NoStrandedCaller, Owned, InQueue, WorkerHas,
          AborterHas, StopHas
  <2> QED BY <2>1, <2>2, <2>3, <2>4, <2>5
<1>18. ASSUME WorkerNotify PROVE Ownership'
  <2>1. PlacesAgree'
    BY <1>18 DEF WorkerNotify, PlacesAgree, WorkerPlace
  <2> QED BY <2>1, <1>18, NoHandover DEF WorkerNotify, AborterHas
<1>19. ASSUME WorkerComplete PROVE Ownership'
  <2>1. PlacesAgree'
    BY <1>19 DEF WorkerComplete, Complete, PlacesAgree, WorkerPlace
  <2>2. EntriesAgree'
    BY <1>19 DEF WorkerComplete, Complete, EntriesAgree, QueuedStatusMatchesQueue, InQueue
  <2>3. OwnedOnce'
    BY <1>19 DEF WorkerComplete, Complete, OwnedOnce, SoleOwner, Owned, InQueue, WorkerHas,
          AborterHas, StopHas, PlacesAgree, WorkerPlace
  <2>4. RunsOnce'
    <3>1. /\ UNCHANGED executors /\ \A k \in Jobs : pc'[k] = "idle" => pc[k] = "idle"
      BY <1>19 DEF WorkerComplete, Complete
    <3>2. \A k \in Jobs : MayStart(k)' => MayStart(k) \/ pc[k] = "idle"
      BY <1>19 DEF WorkerComplete, Complete, MayStart, InQueue, WorkerHas,
            AborterHas, StopHas,
            PlacesAgree, WorkerPlace
    <3>3. \A k \in Jobs : WorkerHas(k)' => WorkerHas(k) \/ MayStart(k)
      BY <1>19 DEF WorkerComplete, Complete, MayStart, InQueue, WorkerHas,
            PlacesAgree, WorkerPlace
    <3> QED BY <3>1, <3>2, <3>3, RunsOnceKept
  <2>5. NoStrandedCaller'
    BY <1>19 DEF WorkerComplete, Complete, NoStrandedCaller, Owned, InQueue, WorkerHas,
          AborterHas, StopHas
  <2> QED BY <2>1, <2>2, <2>3, <2>4, <2>5
<1>20. ASSUME WorkerExit PROVE Ownership'
  <2>1. PlacesAgree'
    BY <1>20 DEF WorkerExit, PlacesAgree, WorkerPlace
  <2> QED BY <2>1, <1>20, NoHandover DEF WorkerExit, AborterHas
<1>21. ASSUME NEW a \in Aborters, NEW r \in RunIds, AbortBegin(a, r) PROVE Ownership'
  <2> DEFINE job == jobsByRunId[r]
  <2>1. CASE job # NoJob /\ InQueue(job)
    <3>1. /\ Contents(queue') = Contents(queue) \ {job} /\ Distinct(queue')
          /\ queue = << >> => queue' = << >>
      BY <2>1, <1>21, EraseFacts DEF AbortBegin, Unqueue, OwnedOnce
    <3>2. /\ jobsByRunId' = [jobsByRunId EXCEPT ![r] = NoJob]
          /\ runsById' = [runsById EXCEPT ![r] = Untracked]
          /\ ajob' = [ajob EXCEPT ![a] = job]
          /\ apc[a] = "idle" /\ apc' = [apc EXCEPT ![a] = "complete"]
          /\ UNCHANGED <<available, pc, completed, executors, wpc, wjob, mpc, abandoned>>
      BY <2>1, <1>21 DEF AbortBegin, AfterAbort
    <3>3. job \in Jobs /\ RunOf[job] = r /\ job \in Contents(queue)
      BY <2>1 DEF EntriesAgree, InQueue
    <3> HIDE DEF job
    <3>4. PlacesAgree'
      BY <3>1, <3>2, <3>3 DEF PlacesAgree, WorkerPlace
    <3>5. EntriesAgree'
      <4>1. \A k \in Contents(queue') : RunOf[k] # r
        BY <3>1, <3>3, <1>0
      <4> QED BY <3>1, <3>2, <3>3, <4>1, <1>0 DEF EntriesAgree, QueuedStatusMatchesQueue,
      InQueue
    <3>6. \A b \in Aborters, k \in Jobs :
              AborterHas(b, k)' <=> IF b = a THEN k = job ELSE AborterHas(b, k)
      BY <3>2 DEF AborterHas
    <3>7. OwnedOnce'
      BY <3>1, <3>2, <3>3, <3>6 DEF OwnedOnce, SoleOwner, Owned, InQueue, WorkerHas, StopHas
    <3>8. RunsOnce'
      <4>1. \A k \in Jobs : MayStart(k)' => MayStart(k)
        BY <3>1, <3>2, <3>3, <3>6 DEF MayStart, InQueue, WorkerHas, StopHas
      <4> QED BY <4>1, <3>2 DEF RunsOnce, AtMostOnce, WorkerHas
    <3>9. NoStrandedCaller'
      <4>1. ~\E k \in Jobs : AborterHas(a, k)
        BY <3>2 DEF AborterHas
      <4>2. \A k \in Jobs : Owned(k) => Owned(k)'
        BY <3>1, <3>2, <3>3, <3>6, <4>1 DEF Owned, InQueue, WorkerHas, StopHas
      <4> QED BY <4>2, <3>2 DEF NoStrandedCaller
    <3> QED BY <3>4, <3>5, <3>7, <3>8, <3>9
  <2>2. CASE ~(job # NoJob /\ InQueue(job))
    <3>1. /\ UNCHANGED <<queue, jobsByRunId, available, pc, completed, executors, wpc, wjob,
                         mpc, abandoned>>
          /\ runsById' = [runsById EXCEPT ![r] = IF @ = Untracked THEN Untracked ELSE "Cancelled"]
          /\ apc[a] = "idle" /\ apc' = [apc EXCEPT ![a] = "notify"]
          /\ \A b \in Aborters : b # a => ajob'[b] = ajob[b]
      <4>1. /\ UNCHANGED <<available, pc, completed, executors, wpc, wjob, mpc, abandoned>>
            /\ apc[a] = "idle" /\ ajob' = [ajob EXCEPT ![a] = NoJob]
        BY <2>2, <1>21 DEF AbortBegin
      <4>2. queue' = queue /\ apc' = [apc EXCEPT ![a] = "notify"]
        BY <2>2, <1>21 DEF AbortBegin, AfterAbort
      <4>3. jobsByRunId' = jobsByRunId
        BY <2>2, <1>21 DEF AbortBegin
      <4>4. runsById' = [runsById EXCEPT ![r] = IF @ = Untracked THEN Untracked ELSE "Cancelled"]
        BY <2>2, <1>21 DEF AbortBegin
      <4> QED BY <4>1, <4>2, <4>3, <4>4
    <3>2. \A b \in Aborters, k \in Jobs : AborterHas(b, k)' <=> AborterHas(b, k)
      BY <3>1 DEF AborterHas
    <3>3. \A k \in Contents(queue) : RunOf[k] # r
      BY <2>2, <1>0 DEF EntriesAgree, InQueue
    <3>4. PlacesAgree'
      BY <3>1 DEF PlacesAgree, WorkerPlace
    <3>5. EntriesAgree'
      BY <3>1, <3>3, <1>0 DEF EntriesAgree, QueuedStatusMatchesQueue, InQueue
    <3>6. OwnedOnce' /\ RunsOnce' /\ NoStrandedCaller'
      BY <3>1, <3>2 DEF OwnedOnce, SoleOwner, RunsOnce, MayStart, AtMostOnce, NoStrandedCaller,
            Owned, InQueue, WorkerHas, StopHas
    <3> QED BY <3>4, <3>5, <3>6
  <2> QED BY <2>1, <2>2
<1>22. ASSUME NEW a \in Aborters, AbortComplete(a) PROVE Ownership'
  <2>1. PlacesAgree'
    BY <1>22 DEF AbortComplete, Complete, PlacesAgree, WorkerPlace
  <2>2. EntriesAgree'
    BY <1>22 DEF AbortComplete, Complete, EntriesAgree, QueuedStatusMatchesQueue, InQueue
  <2>3. OwnedOnce'
    BY <1>22 DEF AbortComplete, Complete, OwnedOnce, SoleOwner, Owned, InQueue, WorkerHas,
          AborterHas, StopHas
  <2>4. RunsOnce'
    <3>1. /\ UNCHANGED executors /\ \A k \in Jobs : pc'[k] = "idle" => pc[k] = "idle"
      BY <1>22 DEF AbortComplete, Complete
    <3>2. \A k \in Jobs : MayStart(k)' => MayStart(k) \/ pc[k] = "idle"
      BY <1>22 DEF AbortComplete, Complete, MayStart, InQueue, WorkerHas,
            AborterHas, StopHas
    <3>3. \A k \in Jobs : WorkerHas(k)' => WorkerHas(k) \/ MayStart(k)
      BY <1>22 DEF AbortComplete, Complete, MayStart, InQueue, WorkerHas
    <3> QED BY <3>1, <3>2, <3>3, RunsOnceKept
  <2>5. NoStrandedCaller'
    BY <1>22 DEF AbortComplete, Complete, NoStrandedCaller, Owned, InQueue, WorkerHas,
          AborterHas, StopHas
  <2> QED BY <2>1, <2>2, <2>3, <2>4, <2>5
<1>23. ASSUME NEW a \in Aborters, AbortNotify(a) PROVE Ownership'
  <2>1. PlacesAgree'
    BY <1>23 DEF AbortNotify, PlacesAgree, WorkerPlace
  <2> QED BY <2>1, <1>23, NoHandover DEF AbortNotify, AborterHas
<1>24. ASSUME NEW a \in Aborters, AbortCancel(a) PROVE Ownership'
  <2>1. PlacesAgree'
    BY <1>24 DEF AbortCancel, PlacesAgree, WorkerPlace
  <2> QED BY <2>1, <1>24, NoHandover DEF AbortCancel, AborterHas
<1>25. ASSUME StartWorker PROVE Ownership'
  <2>1. PlacesAgree'
    BY <1>25 DEF StartWorker, PlacesAgree, WorkerPlace
  <2> QED BY <2>1, <1>25, NoHandover DEF StartWorker, AborterHas
<1>26. ASSUME StopBegin PROVE Ownership'
  <2>1. /\ queue' = << >> /\ Contents(queue') = {} /\ Distinct(queue')
        /\ abandoned' = queue /\ abandoned = << >> /\ Contents(abandoned) = {}
    BY <1>26, EmptyQueue DEF StopBegin, AbandonQueue, PlacesAgree
  <2>2. PlacesAgree'
    BY <2>1, <1>26 DEF StopBegin, RequestStop, AbandonQueue, PlacesAgree, WorkerPlace
  <2>3. EntriesAgree'
    BY <2>1, <1>26 DEF StopBegin, RequestStop, AbandonQueue, EntriesAgree,
          QueuedStatusMatchesQueue, InQueue
  <2>4. OwnedOnce'
    BY <2>1, <1>26 DEF StopBegin, RequestStop, AbandonQueue, OwnedOnce, SoleOwner, Owned,
          InQueue, WorkerHas, AborterHas, StopHas, PlacesAgree, WorkerPlace
  <2>5. RunsOnce'
    <3>1. /\ UNCHANGED executors /\ \A k \in Jobs : pc'[k] = "idle" => pc[k] = "idle"
      BY <2>1, <1>26 DEF StopBegin, RequestStop, AbandonQueue
    <3>2. \A k \in Jobs : MayStart(k)' => MayStart(k) \/ pc[k] = "idle"
      BY <2>1, <1>26 DEF StopBegin, RequestStop, AbandonQueue, MayStart, InQueue, WorkerHas,
            AborterHas, StopHas,
            PlacesAgree, WorkerPlace
    <3>3. \A k \in Jobs : WorkerHas(k)' => WorkerHas(k) \/ MayStart(k)
      BY <2>1, <1>26 DEF StopBegin, RequestStop, AbandonQueue, MayStart, InQueue, WorkerHas,
            PlacesAgree, WorkerPlace
    <3> QED BY <3>1, <3>2, <3>3, RunsOnceKept
  <2>6. NoStrandedCaller'
    BY <2>1, <1>26 DEF StopBegin, RequestStop, AbandonQueue, NoStrandedCaller, Owned, InQueue,
          WorkerHas, AborterHas, StopHas, PlacesAgree, WorkerPlace
  <2> QED BY <2>2, <2>3, <2>4, <2>5, <2>6
<1>27. ASSUME StopCancelActive PROVE Ownership'
  <2>1. PlacesAgree'
    BY <1>27 DEF StopCancelActive, PlacesAgree, WorkerPlace
  <2> QED BY <2>1, <1>27, NoHandover DEF StopCancelActive, AborterHas
<1>28. ASSUME StopComplete PROVE Ownership'
  <2>1. /\ Head(abandoned) \in Jobs /\ Distinct(abandoned')
        /\ Contents(abandoned) = Contents(abandoned') \cup {Head(abandoned)}
        /\ Head(abandoned) \notin Contents(abandoned')
    BY <1>28, HeadTail DEF StopComplete, OwnedOnce
  <2>2. PlacesAgree'
    BY <2>1, <1>28 DEF StopComplete, Complete, PlacesAgree, WorkerPlace
  <2>3. EntriesAgree'
    BY <2>1, <1>28 DEF StopComplete, Complete, EntriesAgree, QueuedStatusMatchesQueue, InQueue
  <2>4. OwnedOnce'
    BY <2>1, <1>28 DEF StopComplete, Complete, OwnedOnce, SoleOwner, Owned, InQueue, WorkerHas,
          AborterHas, StopHas, PlacesAgree, WorkerPlace
  <2>5. RunsOnce'
    <3>1. /\ UNCHANGED executors /\ \A k \in Jobs : pc'[k] = "idle" => pc[k] = "idle"
      BY <2>1, <1>28 DEF StopComplete, Complete
    <3>2. \A k \in Jobs : MayStart(k)' => MayStart(k) \/ pc[k] = "idle"
      BY <2>1, <1>28 DEF StopComplete, Complete, MayStart, InQueue, WorkerHas,
            AborterHas, StopHas
    <3>3. \A k \in Jobs : WorkerHas(k)' => WorkerHas(k) \/ MayStart(k)
      BY <2>1, <1>28 DEF StopComplete, Complete, MayStart, InQueue, WorkerHas
    <3> QED BY <3>1, <3>2, <3>3, RunsOnceKept
  <2>6. NoStrandedCaller'
    BY <2>1, <1>28 DEF StopComplete, Complete, NoStrandedCaller, Owned, InQueue, WorkerHas,
          AborterHas, StopHas
  <2> QED BY <2>2, <2>3, <2>4, <2>5, <2>6
<1>29. ASSUME StopJoin PROVE Ownership'
  <2>1. PlacesAgree'
    BY <1>29 DEF StopJoin, PlacesAgree, WorkerPlace
  <2> QED BY <2>1, <1>29, NoHandover DEF StopJoin, AborterHas
<1>30. ASSUME StopEnd PROVE Ownership'
  <2>1. queue' = queue /\ Contents(queue) = {}
    BY <1>30, EmptyQueue DEF StopEnd, PlacesAgree
  <2>2. PlacesAgree'
    BY <2>1, <1>30 DEF StopEnd, PlacesAgree, WorkerPlace
  <2>3. EntriesAgree'
    BY <2>1, <1>30 DEF StopEnd, EntriesAgree, QueuedStatusMatchesQueue, InQueue
  <2>4. OwnedOnce'
    BY <2>1, <1>30 DEF StopEnd, OwnedOnce, SoleOwner, Owned, InQueue, WorkerHas, AborterHas,
          StopHas
  <2>5. RunsOnce'
    <3>1. /\ UNCHANGED executors /\ \A k \in Jobs : pc'[k] = "idle" => pc[k] = "idle"
      BY <2>1, <1>30 DEF StopEnd
    <3>2. \A k \in Jobs : MayStart(k)' => MayStart(k) \/ pc[k] = "idle"
      BY <2>1, <1>30 DEF StopEnd, MayStart, InQueue, WorkerHas,
            AborterHas, StopHas
    <3>3. \A k \in Jobs : WorkerHas(k)' => WorkerHas(k) \/ MayStart(k)
      BY <2>1, <1>30 DEF StopEnd, MayStart, InQueue, WorkerHas
    <3> QED BY <3>1, <3>2, <3>3, RunsOnceKept
  <2>6. NoStrandedCaller'
    BY <2>1, <1>30 DEF StopEnd, NoStrandedCaller, Owned, InQueue, WorkerHas, AborterHas,
          StopHas, PlacesAgree, WorkerPlace
  <2> QED BY <2>2, <2>3, <2>4, <2>5, <2>6
<1>31. CASE UNCHANGED vars
  BY <1>31, NoHandover DEF vars, AborterHas, PlacesAgree, WorkerPlace
<1> HIDE DEF Ownership, Inv
<1>32. CASE \E j \in Jobs : Caller(j)
  BY <1>1, <1>2, <1>3, <1>4, <1>5, <1>6, <1>7, <1>8, <1>9, <1>10, <1>11, <1>12, <1>32
  DEF Caller
<1>33. CASE Worker
  BY <1>13, <1>14, <1>15, <1>16, <1>17, <1>18, <1>19, <1>20, <1>33 DEF Worker
<1>34. CASE \E a \in Aborters : Aborter(a)
  BY <1>21, <1>22, <1>23, <1>24, <1>34 DEF Aborter
<1>35. CASE Manager
  BY <1>25, <1>26, <1>27, <1>28, <1>29, <1>30, <1>35 DEF Manager
<1> QED BY <1>31, <1>32, <1>33, <1>34, <1>35 DEF Next

\* Nothing is owned in the empty runtime.
LEMMA InvInit == Init => Inv
<1> SUFFICES ASSUME Init PROVE Ownership
  BY TypeInit DEF Inv
<1>1. Contents(queue) = {} /\ Contents(abandoned) = {} /\ Distinct(queue) /\ Distinct(abandoned)
  BY EmptyQueue DEF Init
<1>2. \A j \in Jobs : ~Owned(j) /\ ~MayStart(j)
  BY <1>1, ConstantsAssumption DEF Init, Owned, MayStart, InQueue, WorkerHas, AborterHas,
        StopHas
<1>3. PlacesAgree
  BY DEF Init, PlacesAgree, WorkerPlace
<1>4. EntriesAgree
  BY <1>1 DEF Init, EntriesAgree, QueuedStatusMatchesQueue, InQueue, Untracked
<1>5. OwnedOnce
  BY <1>1, <1>2 DEF Init, OwnedOnce, SoleOwner, Owned
<1>6. RunsOnce
  BY <1>2, ConstantsAssumption DEF Init, RunsOnce, AtMostOnce, WorkerHas, Threads
<1>7. NoStrandedCaller
  BY DEF Init, NoStrandedCaller
<1> QED BY <1>3, <1>4, <1>5, <1>6, <1>7 DEF Ownership

\* Types and ownership together are inductive.
LEMMA InvStep ==
    ASSUME UniqueRuns
    PROVE  Inv /\ [Next]_vars => Inv'
<1> SUFFICES ASSUME Inv, [Next]_vars PROVE Inv'
  OBVIOUS
<1>1. TypeInv'
  BY TypeStep DEF Inv
<1> QED BY <1>1, OwnershipStep DEF Inv

\* Every job is in one pair of hands, no waiting caller is stranded, and the model runs
\* at most once for a call, for any number of threads (CChatRuntime.cpp:41-436).
THEOREM OwnershipHolds ==
    ASSUME UniqueRuns
    PROVE  Spec => []Ownership
<1>1. Inv => Ownership
  BY DEF Inv
<1> QED BY InvInit, InvStep, <1>1, PTL DEF Spec

\* The parts of it that the run runtime_safety checks, by name: who may complete a job
\* (CChatRuntime.cpp:154-233, 270-280, 431-434), and Queued means queued (line 168).
COROLLARY SafetyHolds ==
    ASSUME UniqueRuns
    PROVE  Spec => [](SoleOwner /\ NoStrandedCaller /\ AtMostOnce /\ QueuedStatusMatchesQueue)
<1>1. Ownership => SoleOwner /\ NoStrandedCaller /\ AtMostOnce /\ QueuedStatusMatchesQueue
  BY DEF Ownership, OwnedOnce, RunsOnce, EntriesAgree
<1> QED BY OwnershipHolds, <1>1, PTL

\* When StopWorker has returned nobody is left waiting for it (CChatRuntime.cpp:41-94).
THEOREM StopAnswersEverybody ==
    ASSUME UniqueRuns
    PROVE  Spec => []StoppedMeansAnswered
<1>1. Ownership => StoppedMeansAnswered
  <2> SUFFICES ASSUME Ownership, mpc = "down", NEW j \in Jobs, pc[j] = "waiting", ~completed[j]
               PROVE  \E a \in Aborters : AborterHas(a, j)
    BY DEF StoppedMeansAnswered
  <2>1. Owned(j)
    BY DEF Ownership, NoStrandedCaller
  <2>2. ~InQueue(j) /\ ~StopHas(j) /\ wjob = NoJob
    BY EmptyQueue DEF Ownership, PlacesAgree, WorkerPlace, InQueue, StopHas
  <2> QED BY <2>1, <2>2, ConstantsAssumption DEF Owned, WorkerHas
<1> QED BY OwnershipHolds, <1>1, PTL

\* A step that touches one job leaves the completed ones alone if that one is not.
Untouched(S) ==
    \A j \in Jobs \ S : UNCHANGED <<completed[j], result[j], executors[j]>>

\* The steps that write job->result or start a body do so to a job that is not completed.
LEMMA TouchesOpenJob ==
    ASSUME Inv, Next
    PROVE  \E S \in SUBSET Jobs : Untouched(S) /\ \A j \in S : ~completed[j]
<1> USE ConstantsAssumption DEF Inv, TypeInv, TypeOK, Ownership, OwnedOnce, Untouched,
runtimeVars,
       jobVars, workerVars, abortVars, stopVars
<1>1. ASSUME NEW j \in Jobs, ExecuteInline(j) \/ Promote(j)
      PROVE  Untouched({j}) /\ ~completed[j]
  BY <1>1 DEF ExecuteInline, Promote, WaitTimedOut, Executes
<1>2. ASSUME WorkerBegin \/ WorkerComplete
      PROVE  wjob \in Jobs /\ Untouched({wjob}) /\ ~completed[wjob]
  <2>1. wjob \in Jobs
    BY <1>2 DEF WorkerBegin, WorkerComplete, PlacesAgree, WorkerPlace
  <2>2. ~completed[wjob]
    BY <2>1 DEF SoleOwner, Owned, WorkerHas
  <2> QED BY <2>1, <2>2, <1>2 DEF WorkerBegin, WorkerComplete, Executes, Complete
<1>3. ASSUME NEW a \in Aborters, AbortComplete(a)
      PROVE  ajob[a] \in Jobs /\ Untouched({ajob[a]}) /\ ~completed[ajob[a]]
  <2>1. ajob[a] \in Jobs
    BY <1>3 DEF AbortComplete, PlacesAgree
  <2>2. ~completed[ajob[a]]
    BY <2>1, <1>3 DEF AbortComplete, SoleOwner, Owned, AborterHas
  <2> QED BY <2>1, <2>2, <1>3 DEF AbortComplete, Complete
<1>4. ASSUME StopComplete
      PROVE  Head(abandoned) \in Jobs /\ Untouched({Head(abandoned)})
             /\ ~completed[Head(abandoned)]
  <2>1. Head(abandoned) \in Jobs /\ Head(abandoned) \in Contents(abandoned)
    BY <1>4, HeadTail DEF StopComplete
  <2>2. ~completed[Head(abandoned)]
    BY <2>1 DEF SoleOwner, Owned, StopHas
  <2> QED BY <2>1, <2>2, <1>4 DEF StopComplete, Complete
<1>5. ASSUME NEW j \in Jobs, Caller(j), ~ExecuteInline(j), ~Promote(j)
      PROVE  Untouched({})
  BY <1>5 DEF Caller, RejectUnavailable, RejectFull, Enqueue, ReturnResult, CallerEnd, GiveUp,
        TimeoutMark, TimeoutCancel, TimeoutErase, TimeoutCleanup
<1>6. ASSUME Worker, ~WorkerBegin, ~WorkerComplete
      PROVE  Untouched({})
  BY <1>6 DEF Worker, WorkerPop, WorkerEnd, WorkerCheckCancelled, WorkerFinish, WorkerNotify,
        WorkerExit
<1>7. ASSUME NEW a \in Aborters, Aborter(a), ~AbortComplete(a)
      PROVE  Untouched({})
  BY <1>7 DEF Aborter, AbortBegin, AbortNotify, AbortCancel
<1>8. ASSUME Manager, ~StopComplete
      PROVE  Untouched({})
  BY <1>8 DEF Manager, StartWorker, StopBegin, StopCancelActive, StopJoin, StopEnd
<1> HIDE DEF Inv, Untouched
<1>9. CASE \E j \in Jobs : Caller(j)
  <2>1. PICK j \in Jobs : Caller(j)
    BY <1>9
  <2>2. CASE ExecuteInline(j) \/ Promote(j)
    <3>1. {j} \in SUBSET Jobs /\ Untouched({j}) /\ \A k \in {j} : ~completed[k]
      BY <1>1, <2>2
    <3> QED BY <3>1
  <2>3. CASE ~ExecuteInline(j) /\ ~Promote(j)
    BY <1>5, <2>1, <2>3
  <2> QED BY <2>2, <2>3
<1>10. CASE Worker
  BY <1>2, <1>6, <1>10
<1>11. CASE \E a \in Aborters : Aborter(a)
  <2>1. PICK a \in Aborters : Aborter(a)
    BY <1>11
  <2>2. CASE AbortComplete(a)
    <3>1. /\ {ajob[a]} \in SUBSET Jobs /\ Untouched({ajob[a]})
          /\ \A k \in {ajob[a]} : ~completed[k]
      BY <1>3, <2>2
    <3> QED BY <3>1
  <2>3. CASE ~AbortComplete(a)
    BY <1>7, <2>1, <2>3
  <2> QED BY <2>2, <2>3
<1>12. CASE Manager
  BY <1>4, <1>8, <1>12
<1> QED BY <1>9, <1>10, <1>11, <1>12 DEF Next

\* A completed job keeps its result and is never started: an aborted or abandoned call
\* does not reach the model (CChatRuntime.cpp:72-81, 270-280).
THEOREM CompletionIsFinal ==
    ASSUME UniqueRuns
    PROVE  Spec => CompletedIsFinal
<1>1. Inv /\ [Next]_vars =>
        [\A j \in Jobs : completed[j] => UNCHANGED <<completed[j], result[j],
        executors[j]>>]_vars
  BY TouchesOpenJob DEF Untouched
<1> QED BY InvInit, InvStep, <1>1, PTL DEF Spec, CompletedIsFinal
-----------------------------------------------------------------------------
(***************************************************************************)
(* The entries of m_runsById and m_jobsByRunId.                            *)
(***************************************************************************)
Entry(r)  == runsById[r] # Untracked \/ jobsByRunId[r] # NoJob
Queued(r) == \E j \in Contents(queue) : RunOf[j] = r
Stopping  == mpc \notin {"up", "down"}

\* An entry belongs to a queued job, to the worker's until the worker has erased it, or
\* to a runtime that is stopping; only a running runtime has a queue.
EntryInv ==
    /\ TypeInv
    /\ available => mpc = "up"
    /\ mpc # "up" => queue = << >>
    /\ \A r \in RunIds : jobsByRunId[r] # NoJob => RunOf[jobsByRunId[r]] = r
    /\ \A r \in RunIds :
           Entry(r) => \/ Queued(r) \/ Stopping
                       \/ (wjob # NoJob /\ RunOf[wjob] = r /\ wpc \notin {"notify", "complete"})

\* Execute, the worker, Abort and StopWorker erase an entry with the job it belongs to
\* (CChatRuntime.cpp:57-59, 86-91, 170-181, 211-219, 262-280, 417-421).
LEMMA EntryStep ==
    ASSUME EntryInv, TypeInv', [Next]_vars
    PROVE  EntryInv'
<1> USE ConstantsAssumption DEF EntryInv, TypeInv, TypeOK, WorkerPlace, runtimeVars, jobVars,
       workerVars, abortVars, stopVars, Entry, Stopping, Untracked
<1> DEFINE Mine(r) == wjob # NoJob /\ RunOf[wjob] = r /\ wpc \notin {"notify", "complete"}
<1>0. Contents(<< >>) = {}
  BY EmptyQueue
<1>1. ASSUME UNCHANGED <<queue, jobsByRunId, runsById, available, mpc>>,
             \A r \in RunIds : Mine(r) => Mine(r)'
      PROVE  EntryInv'
  BY <1>1 DEF Queued
<1>2. ASSUME NEW r \in RunIds, UNCHANGED <<available, mpc, wjob, wpc>>,
             queue = << >> => queue' = << >>,
             \A k \in Contents(queue) : k \in Contents(queue') \/ RunOf[k] = r,
             runsById' = [runsById EXCEPT ![r] = "none"],
             jobsByRunId' = [jobsByRunId EXCEPT ![r] = NoJob]
      PROVE  EntryInv'
  <2>1. ASSUME NEW s \in RunIds, s # r PROVE Entry(s)' <=> Entry(s)
    BY <1>2, <2>1
  <2>2. ~Entry(r)'
    BY <1>2
  <2>3. ASSUME NEW s \in RunIds, s # r, Queued(s) PROVE Queued(s)'
    BY <1>2, <2>3 DEF Queued
  <2>4. \A s \in RunIds : Entry(s)' => Queued(s)' \/ Stopping' \/ Mine(s)'
    BY <1>2, <2>1, <2>2, <2>3
  <2>5. \A s \in RunIds : jobsByRunId'[s] # NoJob => RunOf[jobsByRunId'[s]] = s
    BY <1>2
  <2> QED BY <1>2, <2>4, <2>5
<1>3. ASSUME NEW j \in Jobs, Enqueue(j) PROVE EntryInv'
  <2>1. Contents(queue') = Contents(queue) \cup {j}
    BY <1>3, AppendDistinct DEF Enqueue, PushBack
  <2>2. /\ jobsByRunId' = [jobsByRunId EXCEPT ![RunOf[j]] = j]
        /\ runsById' = [runsById EXCEPT ![RunOf[j]] = "Queued"]
        /\ UNCHANGED <<available, mpc, wjob, wpc>> /\ mpc = "up"
    BY <1>3 DEF Enqueue, Accepting
  <2>3. ASSUME NEW s \in RunIds, s # RunOf[j] PROVE Entry(s)' <=> Entry(s)
    BY <2>2, <2>3
  <2>4. \A s \in RunIds : (Queued(s) => Queued(s)') /\ Queued(RunOf[j])'
    BY <2>1 DEF Queued
  <2>5. \A s \in RunIds : Entry(s)' => Queued(s)' \/ Stopping' \/ Mine(s)'
    BY <2>2, <2>3, <2>4
  <2>6. \A s \in RunIds : jobsByRunId'[s] # NoJob => RunOf[jobsByRunId'[s]] = s
    BY <2>2
  <2> QED BY <2>2, <2>5, <2>6
<1>4. ASSUME NEW j \in Jobs, Promote(j) \/ TimeoutErase(j) PROVE EntryInv'
  <2>1. /\ UNCHANGED <<available, mpc, wjob, wpc>> /\ ForgetRun(RunOf[j])
    BY <1>4 DEF Promote, TimeoutErase
  <2>2. /\ Contents(queue') = Contents(queue) \ JobsOf(RunOf[j])
        /\ queue = << >> => queue' = << >>
    BY <2>1, EraseFacts DEF ForgetRun
  <2>3. \A k \in Contents(queue) : k \in Contents(queue') \/ RunOf[k] = RunOf[j]
    BY <2>2 DEF JobsOf
  <2> QED BY <1>2, <2>1, <2>2, <2>3 DEF ForgetRun, ForgetEntries
<1>5. ASSUME NEW j \in Jobs, Caller(j), ~Enqueue(j), ~Promote(j), ~TimeoutErase(j)
      PROVE  EntryInv'
  <2>1. UNCHANGED <<queue, jobsByRunId, runsById, available, mpc, wjob, wpc>>
    BY <1>5 DEF Caller, ExecuteInline, RejectUnavailable, RejectFull, ReturnResult, CallerEnd,
          GiveUp, TimeoutMark, TimeoutCancel, TimeoutCleanup
  <2> QED BY <2>1, <1>1
<1>6. ASSUME NEW late \in BOOLEAN, WorkerPop(late) PROVE EntryInv'
  <2>0. PICK job \in Jobs : job = Head(queue)
    BY <1>6, HeadTail DEF WorkerPop
  <2>1. Contents(queue) = Contents(queue') \cup {job} /\ queue # << >>
    BY <2>0, <1>6, HeadTail DEF WorkerPop
  <2>2. /\ UNCHANGED <<jobsByRunId, available, mpc>>
        /\ runsById' = [runsById EXCEPT ![RunOf[job]] = StatusOnPop(RunOf[job])]
        /\ wjob' = job /\ wpc' \in {"popped", "finish"}
    BY <2>0, <1>6 DEF WorkerPop
  <2>3. \A s \in RunIds : s # RunOf[job] => (Entry(s)' <=> Entry(s)) /\ (Queued(s) => Queued(s)')
    BY <2>1, <2>2 DEF Queued
  <2>4. Mine(RunOf[job])'
    BY <2>1, <2>2
  <2>5. wjob = NoJob
    BY <1>6 DEF WorkerPop
  <2>6. \A s \in RunIds : Entry(s)' => Queued(s)' \/ Stopping' \/ Mine(s)'
    BY <2>2, <2>3, <2>4, <2>5
  <2> QED BY <2>1, <2>2, <2>6
<1>7. ASSUME WorkerFinish PROVE EntryInv'
  <2> DEFINE r == RunOf[wjob]
  <2>1. /\ wjob \in Jobs /\ wjob' = wjob /\ wpc' = "notify"
        /\ runsById' = [runsById EXCEPT ![r] = "none"]
        /\ jobsByRunId' = [jobsByRunId EXCEPT ![r] = NoJob]
        /\ UNCHANGED <<queue, available, mpc>>
    BY <1>7 DEF WorkerFinish, ForgetEntries
  <2>2. \A s \in RunIds : s # r => (Entry(s)' <=> Entry(s)) /\ ~Mine(s)
    BY <2>1
  <2>3. ~Entry(r)' /\ \A s \in RunIds : Queued(s)' <=> Queued(s)
    BY <2>1 DEF Queued
  <2>4. \A s \in RunIds : Entry(s)' => Queued(s)' \/ Stopping' \/ Mine(s)'
    BY <2>1, <2>2, <2>3
  <2>5. \A s \in RunIds : jobsByRunId'[s] # NoJob => RunOf[jobsByRunId'[s]] = s
    BY <2>1
  <2> QED BY <2>1, <2>4, <2>5
<1>8. ASSUME Worker, ~WorkerFinish, ~\E late \in BOOLEAN : WorkerPop(late) PROVE EntryInv'
  <2>1. UNCHANGED <<queue, jobsByRunId, runsById, available, mpc>>
    BY <1>8 DEF Worker, WorkerBegin, WorkerEnd, WorkerCheckCancelled, WorkerNotify,
          WorkerComplete, WorkerExit
  <2>2. \/ wjob' = wjob /\ (wpc' \in {"notify", "complete"} => wpc \in {"notify", "complete"})
        \/ wpc = "complete"
    BY <1>8 DEF Worker, WorkerBegin, WorkerEnd, WorkerCheckCancelled, WorkerNotify,
          WorkerComplete, WorkerExit
  <2> QED BY <2>1, <2>2, <1>1
<1>9. ASSUME NEW a \in Aborters, NEW r \in RunIds, AbortBegin(a, r) PROVE EntryInv'
  <2> DEFINE job == jobsByRunId[r]
  <2>0. UNCHANGED <<available, mpc, wjob, wpc>>
    BY <1>9 DEF AbortBegin
  <2>1. CASE job # NoJob /\ InQueue(job)
    <3>1. /\ Contents(queue') = Contents(queue) \ {job}
          /\ queue = << >> => queue' = << >>
      BY <2>1, <1>9, EraseFacts DEF AbortBegin, Unqueue
    <3>2. /\ jobsByRunId' = [jobsByRunId EXCEPT ![r] = NoJob]
          /\ runsById' = [runsById EXCEPT ![r] = "none"]
      BY <2>1, <1>9 DEF AbortBegin
    <3>3. RunOf[job] = r
      BY <2>1
    <3> HIDE DEF job
    <3> QED BY <2>0, <3>1, <3>2, <3>3, <1>2
  <2>2. CASE ~(job # NoJob /\ InQueue(job))
    <3>1. /\ queue' = queue /\ jobsByRunId' = jobsByRunId
          /\ runsById' = [runsById EXCEPT ![r] =
                              IF @ = "none" THEN "none" ELSE "Cancelled"]
      <4>1. queue' = queue
        BY <2>2, <1>9 DEF AbortBegin
      <4>2. jobsByRunId' = jobsByRunId
        BY <2>2, <1>9 DEF AbortBegin
      <4>3. runsById' = [runsById EXCEPT ![r] = IF @ = "none" THEN "none" ELSE "Cancelled"]
        BY <2>2, <1>9 DEF AbortBegin
      <4> QED BY <4>1, <4>2, <4>3
    <3>2. \A s \in RunIds : Entry(s)' <=> Entry(s)
      BY <3>1
    <3> QED BY <2>0, <3>1, <3>2 DEF Queued
  <2> QED BY <2>1, <2>2
<1>10. ASSUME NEW a \in Aborters, AbortComplete(a) \/ AbortNotify(a) \/ AbortCancel(a)
       PROVE  EntryInv'
  <2>1. UNCHANGED <<queue, jobsByRunId, runsById, available, mpc, wjob, wpc>>
    BY <1>10 DEF AbortComplete, AbortNotify, AbortCancel
  <2> QED BY <2>1, <1>1
<1>11. ASSUME StartWorker PROVE EntryInv'
  <2>1. /\ mpc = "down" /\ mpc' = "up"
        /\ UNCHANGED <<queue, jobsByRunId, runsById, wjob>>
    BY <1>11 DEF StartWorker
  <2>2. wjob = NoJob /\ queue = << >> /\ \A r \in RunIds : ~Queued(r)
    BY <2>1, <1>0 DEF Queued
  <2>3. \A r \in RunIds : ~Entry(r) /\ ~Entry(r)'
    BY <2>1, <2>2
  <2> QED BY <2>1, <2>3
<1>12. ASSUME StopBegin PROVE EntryInv'
  <2>1. /\ queue' = << >> /\ mpc' = "cancel" /\ available' = FALSE
        /\ jobsByRunId' = [r \in RunIds |-> NoJob]
    BY <1>12 DEF StopBegin, RequestStop
  <2> QED BY <2>1
<1>13. ASSUME StopEnd PROVE EntryInv'
  <2>1. /\ queue' = << >> /\ mpc = "join" /\ mpc' = "down" /\ available' = available
        /\ jobsByRunId' = [r \in RunIds |-> NoJob]
        /\ runsById' = [r \in RunIds |-> "none"]
    BY <1>13 DEF StopEnd
  <2> QED BY <2>1
<1>14. ASSUME StopCancelActive \/ StopComplete \/ StopJoin PROVE EntryInv'
  <2>1. /\ UNCHANGED <<queue, jobsByRunId, runsById, available>>
        /\ mpc \in {"cancel", "complete"} /\ mpc' \in {"complete", "join"}
    BY <1>14 DEF StopCancelActive, StopComplete, StopJoin
  <2> QED BY <2>1
<1>15. CASE UNCHANGED vars
  <2>1. UNCHANGED <<queue, jobsByRunId, runsById, available, mpc, wjob, wpc>>
    BY <1>15 DEF vars
  <2> QED BY <2>1, <1>1
<1> HIDE DEF EntryInv
<1>16. CASE \E j \in Jobs : Caller(j)
  BY <1>3, <1>4, <1>5, <1>16
<1>17. CASE Worker
  BY <1>6, <1>7, <1>8, <1>17
<1>18. CASE \E a \in Aborters : Aborter(a)
  BY <1>9, <1>10, <1>18 DEF Aborter
<1>19. CASE Manager
  BY <1>11, <1>12, <1>13, <1>14, <1>19 DEF Manager
<1> QED BY <1>15, <1>16, <1>17, <1>18, <1>19 DEF Next

\* No entry outlives its run, even when calls share a run id
\* (CChatRuntime.cpp:57-59, 170-181, 211-219, 417-421).
THEOREM EntriesErased == Spec => []NoStaleEntry
<1>1. Init => EntryInv
  <2> SUFFICES ASSUME Init PROVE EntryInv
    OBVIOUS
  <2>1. \A r \in RunIds : ~Entry(r) /\ jobsByRunId[r] = NoJob
    BY DEF Init, Entry, Untracked
  <2> QED BY <2>1, TypeInit DEF EntryInv, Init
<1>2. EntryInv /\ [Next]_vars => EntryInv'
  BY TypeStep, EntryStep DEF EntryInv
<1>3. EntryInv => NoStaleEntry
  BY DEF EntryInv, NoStaleEntry, Entry, Queued, Stopping
<1> QED BY <1>1, <1>2, <1>3, PTL DEF Spec
-----------------------------------------------------------------------------
(***************************************************************************)
(* The order of m_queue.                                                   *)
(***************************************************************************)

\* Any two elements of e stand in the same order among the first i of q.
SameOrder(e, q, i) ==
    \A k, l \in 1..Len(e) :
        k < l => \E m, n \in 1..i : m < n /\ q[m] = e[k] /\ q[n] = e[l]

\* Erase leaves the other jobs in their order.
LEMMA EraseKeepsOrder ==
    ASSUME NEW S, NEW q \in Seq(S), NEW D
    PROVE  SameOrder(Erase(q, D), q, Len(q))
<1> DEFINE f == CHOOSE g : IsKept(q, D, Len(q), g)
<1>1. IsKept(q, D, Len(q), f)
  BY KeptExists
<1>2. Erase(q, D) = f[Len(q)]
  BY Zenon DEF Erase, IsKept
<1> HIDE DEF f
<1>3. \A i \in 0..Len(q) :
               /\ f[i] \in Seq(S)
               /\ Len(f[i]) <= i
               /\ Contents(f[i]) = {q[k] : k \in 1..i} \ D
               /\ Distinct(q) => Distinct(f[i])
  BY <1>1, KeptFacts
<1> DEFINE P(i) == SameOrder(f[i], q, i)
           Bad == {i \in 0..Len(q) : ~P(i)}
<1>4. P(0)
  <2>1. f[0] = << >>
    BY <1>1 DEF IsKept
  <2> QED BY <2>1 DEF SameOrder
<1>5. ASSUME NEW i \in 1..Len(q), P(i - 1)
      PROVE  P(i)
  <2>1. f[i] = IF q[i] \in D THEN f[i - 1] ELSE Append(f[i - 1], q[i])
    <3>1. i \in 0..Len(q) /\ i # 0
      OBVIOUS
    <3> HIDE DEF P
    <3> QED BY <3>1, <1>1, Zenon DEF IsKept
  <2>2. CASE q[i] \in D
    <3>1. f[i] = f[i - 1] /\ 1..(i - 1) \subseteq 1..i
      BY <2>1, <2>2
    <3>2. ASSUME NEW k \in 1..Len(f[i]), NEW l \in 1..Len(f[i]), k < l
          PROVE  \E m, n \in 1..i : m < n /\ q[m] = f[i][k] /\ q[n] = f[i][l]
      <4>0. \A a, b \in 1..Len(f[i - 1]) :
                a < b => \E m, n \in 1..(i - 1) :
                             m < n /\ q[m] = f[i - 1][a] /\ q[n] = f[i - 1][b]
        BY <1>5, Zenon DEF SameOrder
      <4>1. k \in 1..Len(f[i - 1]) /\ l \in 1..Len(f[i - 1])
        BY <3>1
      <4>2. \E m, n \in 1..(i - 1) : m < n /\ q[m] = f[i - 1][k] /\ q[n] = f[i - 1][l]
        BY <4>0, <4>1, <3>2, Zenon
      <4>3. PICK m \in 1..(i - 1), n \in 1..(i - 1) :
                m < n /\ q[m] = f[i - 1][k] /\ q[n] = f[i - 1][l]
        BY <4>2, Zenon
      <4>4. m \in 1..i /\ n \in 1..i
        OBVIOUS
      <4> QED BY <4>3, <4>4, <3>1, Zenon
    <3> QED BY <3>2 DEF SameOrder
  <2>3. CASE q[i] \notin D
    <3> DEFINE e == f[i - 1]
    <3>1. e \in Seq(S) /\ f[i] = Append(e, q[i]) /\ q[i] \in S
      BY <1>3, <2>1, <2>3
    <3>2. /\ Len(f[i]) = Len(e) + 1 /\ f[i][Len(e) + 1] = q[i] /\ Len(e) \in Nat
          /\ \A k \in 1..Len(e) : f[i][k] = e[k]
      BY <3>1
    <3>3. \A k \in 1..Len(e) : \E m \in 1..(i - 1) : q[m] = e[k]
      <4>1. Contents(e) \subseteq {q[m] : m \in 1..(i - 1)}
        <5>1. i - 1 \in 0..Len(q)
          OBVIOUS
        <5> QED BY <5>1, <1>3
      <4> HIDE DEF e
      <4> QED BY <4>1 DEF Contents
    <3>4. \A k, l \in 1..Len(e) :
              k < l => \E m, n \in 1..(i - 1) : m < n /\ q[m] = e[k] /\ q[n] = e[l]
      BY <1>5 DEF SameOrder
    <3> HIDE DEF e
    <3>5. ASSUME NEW k \in 1..Len(f[i]), NEW l \in 1..Len(f[i]), k < l
          PROVE  \E m, n \in 1..i : m < n /\ q[m] = f[i][k] /\ q[n] = f[i][l]
      <4>1. k \in 1..Len(e) /\ f[i][k] = e[k]
        BY <3>2, <3>5
      <4>2. CASE l \in 1..Len(e)
        <5>1. PICK m \in 1..(i - 1), n \in 1..(i - 1) : m < n /\ q[m] = e[k] /\ q[n] = e[l]
          BY <3>4, <3>5, <4>1, <4>2
        <5> QED BY <5>1, <3>2, <4>1, <4>2
      <4>3. CASE l \notin 1..Len(e)
        <5>1. l = Len(e) + 1 /\ f[i][l] = q[i]
          BY <3>2, <4>3
        <5>2. PICK m \in 1..(i - 1) : q[m] = e[k]
          BY <3>3, <4>1
        <5>3. m \in 1..i /\ i \in 1..i /\ m < i
          OBVIOUS
        <5> QED BY <4>1, <5>1, <5>2, <5>3
      <4> QED BY <4>2, <4>3
    <3> QED BY <3>5 DEF SameOrder
  <2> QED BY <2>2, <2>3
<1> HIDE DEF P
<1>6. Bad = {}
  <2> SUFFICES ASSUME Bad # {} PROVE FALSE
    OBVIOUS
  <2>1. PICK i \in Bad : \A m \in Bad : ~(m < i)
    <3>1. Bad \in SUBSET Nat
      OBVIOUS
    <3> HIDE DEF Bad
    <3> QED BY <3>1, LeastNat
  <2>2. i \in 1..Len(q) /\ i - 1 \in 0..Len(q)
    BY <2>1, <1>4
  <2>3. P(i - 1)
    BY <2>1, <2>2
  <2> QED BY <2>1, <2>2, <2>3, <1>5
<1>7. P(Len(q))
  BY <1>6
<1> QED BY <1>2, <1>7 DEF P

\* A job that nobody has submitted is not in the queue.
OrderInv == TypeInv /\ \A j \in Jobs : InQueue(j) => pc[j] # "idle"

\* What a step may do to the queue.
OrderKept ==
    \A k, l \in 1..Len(queue') :
        k < l => \/ (l = Len(queue') /\ ~InQueue(queue'[l]))
                 \/ \E m, n \in 1..Len(queue) :
                        m < n /\ queue[m] = queue'[k] /\ queue[n] = queue'[l]

\* The queue grows at its end, and shrinks anywhere (CChatRuntime.cpp:57, 133, 164, 270, 315).
LEMMA OrderStep ==
    ASSUME OrderInv, TypeInv', [Next]_vars
    PROVE  OrderInv' /\ OrderKept
<1> USE ConstantsAssumption DEF runtimeVars, jobVars, workerVars, abortVars, stopVars
<1>0. /\ queue \in Seq(Jobs) /\ Contents(queue) \subseteq Jobs
      /\ pc \in [Jobs -> CallerPlaces]
      /\ \A j \in Contents(queue) : pc[j] # "idle"
  BY ContentsType DEF OrderInv, TypeInv, TypeOK, InQueue
<1>1. ASSUME Contents(queue') \subseteq Contents(queue),
             \A j \in Jobs : pc'[j] = "idle" => pc[j] = "idle"
      PROVE  OrderInv'
  BY <1>0, <1>1 DEF OrderInv, InQueue
<1>2. ASSUME queue' = queue
      PROVE  OrderKept
  BY <1>0, <1>2 DEF OrderKept
<1>3. ASSUME SameOrder(queue', queue, Len(queue))
      PROVE  OrderKept
  BY <1>3 DEF SameOrder, OrderKept
<1>4. ASSUME NEW D, queue' = Erase(queue, D)
      PROVE  Contents(queue') \subseteq Contents(queue) /\ OrderKept
  BY <1>0, <1>3, <1>4, EraseFacts, EraseKeepsOrder
<1>5. ASSUME queue' = << >>
      PROVE  Contents(queue') \subseteq Contents(queue) /\ OrderKept
  BY <1>5, EmptyQueue DEF OrderKept
<1>6. ASSUME NEW j \in Jobs, Enqueue(j) PROVE OrderInv' /\ OrderKept
  <2>1. /\ pc[j] = "idle" /\ pc' = [pc EXCEPT ![j] = "waiting"] /\ queue' = Append(queue, j)
    BY <1>6 DEF Enqueue, PushBack, Go
  <2>2. Contents(queue') = Contents(queue) \cup {j} /\ j \notin Contents(queue)
    BY <1>0, <2>1, AppendDistinct
  <2>3. OrderInv'
    BY <1>0, <2>1, <2>2 DEF OrderInv, InQueue
  <2>4. /\ Len(queue') = Len(queue) + 1 /\ queue'[Len(queue) + 1] = j /\ Len(queue) \in Nat
        /\ \A k \in 1..Len(queue) : queue'[k] = queue[k]
    BY <1>0, <2>1
  <2>5. OrderKept
    BY <2>2, <2>4 DEF OrderKept, InQueue
  <2> QED BY <2>3, <2>5
<1>7. ASSUME NEW j \in Jobs, Promote(j) \/ TimeoutErase(j) PROVE OrderInv' /\ OrderKept
  <2>1. queue' = Erase(queue, JobsOf(RunOf[j]))
    BY <1>7 DEF Promote, TimeoutErase, ForgetRun
  <2>2. \E place \in {"executing", "cleanup"} : pc' = [pc EXCEPT ![j] = place]
    BY <1>7 DEF Promote, TimeoutErase, Go
  <2> QED BY <1>0, <1>1, <1>4, <2>1, <2>2
<1>8. ASSUME NEW j \in Jobs, Caller(j), ~Enqueue(j), ~Promote(j), ~TimeoutErase(j)
      PROVE  OrderInv' /\ OrderKept
  <2>1. /\ queue' = queue
        /\ \E place \in {"executing", "done", "mark", "cancel", "erase"} :
               pc' = [pc EXCEPT ![j] = place]
    BY <1>8 DEF Caller, ExecuteInline, RejectUnavailable, RejectFull, ReturnResult, CallerEnd,
          GiveUp, TimeoutMark, TimeoutCancel, TimeoutCleanup, Returns, Go
  <2> QED BY <1>0, <1>1, <1>2, <2>1
<1>9. ASSUME NEW late \in BOOLEAN, WorkerPop(late) PROVE OrderInv' /\ OrderKept
  <2>1. queue # << >> /\ queue' = Tail(queue) /\ pc' = pc
    BY <1>9 DEF WorkerPop
  <2>2. /\ Len(queue') = Len(queue) - 1 /\ Len(queue) \in Nat
        /\ \A k \in 1..Len(queue') : queue'[k] = queue[k + 1]
    BY <1>0, <2>1
  <2>3. \A k, l \in 1..Len(queue') :
            k < l => /\ k + 1 \in 1..Len(queue) /\ l + 1 \in 1..Len(queue) /\ k + 1 < l + 1
                     /\ queue[k + 1] = queue'[k] /\ queue[l + 1] = queue'[l]
    BY <2>2
  <2>4. SameOrder(queue', queue, Len(queue))
    BY <2>3, Zenon DEF SameOrder
  <2>5. Contents(queue') \subseteq Contents(queue)
    BY <1>0, <2>1, HeadTail
  <2> QED BY <1>1, <1>3, <2>1, <2>4, <2>5
<1>10. ASSUME NEW a \in Aborters, NEW r \in RunIds, AbortBegin(a, r) PROVE OrderInv' /\ OrderKept
  <2>1. pc' = pc /\ (queue' = queue \/ queue' = Erase(queue, {jobsByRunId[r]}))
    BY <1>10 DEF AbortBegin, Unqueue
  <2> QED BY <1>1, <1>2, <1>4, <2>1
<1>11. ASSUME StopBegin \/ StopEnd PROVE OrderInv' /\ OrderKept
  <2>1. pc' = pc /\ queue' = << >>
    BY <1>11 DEF StopBegin, StopEnd
  <2> QED BY <1>1, <1>5, <2>1
<1>12. ASSUME \/ Worker /\ ~\E late \in BOOLEAN : WorkerPop(late)
              \/ \E a \in Aborters : AbortComplete(a) \/ AbortNotify(a) \/ AbortCancel(a)
              \/ StartWorker \/ StopCancelActive \/ StopComplete \/ StopJoin
              \/ UNCHANGED vars
       PROVE  OrderInv' /\ OrderKept
  <2>1. pc' = pc /\ queue' = queue
    BY <1>12 DEF Worker, WorkerBegin, WorkerEnd, WorkerCheckCancelled, WorkerFinish, WorkerNotify,
          WorkerComplete, WorkerExit, AbortComplete, AbortNotify, AbortCancel, StartWorker,
          StopCancelActive, StopComplete, StopJoin, vars
  <2> QED BY <1>1, <1>2, <2>1
<1>13. CASE \E j \in Jobs : Caller(j)
  BY <1>6, <1>7, <1>8, <1>13
<1>14. CASE Worker
  BY <1>9, <1>12, <1>14
<1>15. CASE \E a \in Aborters : Aborter(a)
  BY <1>10, <1>12, <1>15 DEF Aborter
<1>16. CASE Manager
  BY <1>11, <1>12, <1>16 DEF Manager
<1> QED BY <1>12, <1>13, <1>14, <1>15, <1>16 DEF Next

\* The jobs are served in the order in which they were queued, whatever timeouts and
\* aborts take out of the middle, even when calls share a run id (CChatRuntime.cpp:164-181,
\* 270, 315).
THEOREM OrderIsKept == Spec => QueueOrderKept
<1>1. Init => OrderInv
  <2> SUFFICES ASSUME Init PROVE OrderInv
    OBVIOUS
  <2>1. Contents(queue) = {}
    BY EmptyQueue DEF Init
  <2> QED BY <2>1, TypeInit DEF OrderInv, InQueue
<1>2. OrderInv /\ [Next]_vars => OrderInv' /\ OrderKept
  BY TypeStep, OrderStep DEF OrderInv
<1> QED BY <1>1, <1>2, PTL DEF Spec, QueueOrderKept, OrderKept

-----------------------------------------------------------------------------
(* CChatRuntime implements what Execute promises (ChatJobs), for any number *)
(* of calls, aborting threads and any queue capacity.                       *)

\* What job->result may say of job j: an answer of the model means that the model was
\* called, and "unavailable" that it was not.
TrueOf(j, r) ==
    /\ r \in Results \ {"queueFull"}
    /\ r \in {"ok", "failed"} => executors[j] # {}
    /\ r = "unavailable" => executors[j] = {}

\* What a thread that is about to answer knows.
CallersTrue ==
    \A j \in Jobs :
        /\ pc[j] # "done" => outcome[j] = NoResult
        /\ pc[j] = "executing" => executors[j] # {}
        /\ completed[j] => TrueOf(j, result[j])

\* A caller that is gone while somebody has its job answered "timed out".
LeftBehind == \A j \in Jobs : pc[j] = "done" /\ Owned(j) => outcome[j] = "timedOut"

WorkerTrue ==
    /\ wpc = "executing" => executors[wjob] # {}
    /\ wpc \in {"check", "finish", "notify", "complete"} =>
           TrueOf(wjob, wresult) /\ wresult # "unavailable"

AnswersTrue == CallersTrue /\ LeftBehind /\ WorkerTrue

RefInv == Inv /\ AnswersTrue
-----------------------------------------------------------------------------
\* Only Enqueue makes somebody the owner of a job that nobody had.
LEMMA OwnedBefore ==
    ASSUME Inv, Inv', [Next]_vars, NEW j \in Jobs, Owned(j)'
    PROVE  Owned(j) \/ (pc[j] = "idle" /\ pc'[j] = "waiting")
<1> USE ConstantsAssumption DEF Owned, InQueue, WorkerHas, AborterHas, StopHas, runtimeVars,
        jobVars, workerVars, abortVars, stopVars, Inv, TypeInv, TypeOK, Ownership
<1>0. Contents(<< >>) = {}
  BY EmptyQueue
<1>1. ASSUME NEW k \in Jobs, Enqueue(k)
      PROVE  Owned(j) \/ (pc[j] = "idle" /\ pc'[j] = "waiting")
  <2>1. Contents(queue') = Contents(queue) \cup {k}
    BY <1>1, AppendDistinct DEF Enqueue, PushBack
  <2>2. pc[k] = "idle" /\ pc'[k] = "waiting"
    BY <1>1 DEF Enqueue, Go
  <2>3. UNCHANGED <<wjob, apc, ajob, abandoned>>
    BY <1>1 DEF Enqueue
  <2> QED BY <2>1, <2>2, <2>3
<1>2. ASSUME NEW k \in Jobs, Promote(k) \/ TimeoutErase(k)
      PROVE  Owned(j)
  <2>1. Contents(queue') \subseteq Contents(queue)
    BY <1>2, EraseFacts DEF Promote, TimeoutErase, ForgetRun
  <2> QED BY <1>2, <2>1 DEF Promote, TimeoutErase
<1>3. ASSUME NEW k \in Jobs, Caller(k), ~Enqueue(k), ~Promote(k), ~TimeoutErase(k)
      PROVE  Owned(j)
  BY <1>3 DEF Caller, ExecuteInline, RejectUnavailable, RejectFull, ReturnResult, CallerEnd,
        GiveUp, TimeoutMark, TimeoutCancel, TimeoutCleanup
<1>4. ASSUME NEW late \in BOOLEAN, WorkerPop(late)
      PROVE  Owned(j)
  <2>1. Contents(queue) = Contents(queue') \cup {wjob'}
    BY <1>4, HeadTail DEF WorkerPop
  <2> QED BY <1>4, <2>1 DEF WorkerPop
<1>5. ASSUME Worker, ~\E late \in BOOLEAN : WorkerPop(late)
      PROVE  Owned(j)
  BY <1>5 DEF Worker, WorkerBegin, WorkerEnd, WorkerCheckCancelled, WorkerFinish, WorkerNotify,
        WorkerComplete, WorkerExit
<1>6. ASSUME NEW a \in Aborters, NEW r \in RunIds, AbortBegin(a, r)
      PROVE  Owned(j)
  <2> DEFINE job == jobsByRunId[r]
  <2>1. CASE job # NoJob /\ InQueue(job)
    <3>1. Contents(queue') \subseteq Contents(queue) /\ job \in Contents(queue)
      BY <2>1, <1>6, EraseFacts DEF AbortBegin, Unqueue
    <3>2. /\ UNCHANGED <<wjob, abandoned>>
          /\ ajob' = [ajob EXCEPT ![a] = job]
          /\ \A b \in Aborters : b # a => apc'[b] = apc[b]
      BY <2>1, <1>6 DEF AbortBegin
    <3> HIDE DEF job
    <3> QED BY <3>1, <3>2
  <2>2. CASE ~(job # NoJob /\ InQueue(job))
    <3>1. /\ UNCHANGED <<queue, wjob, abandoned>>
          /\ apc'[a] = "notify" /\ ajob' = [ajob EXCEPT ![a] = NoJob]
          /\ \A b \in Aborters : b # a => apc'[b] = apc[b]
      <4>1. UNCHANGED <<wjob, abandoned>> /\ ajob' = [ajob EXCEPT ![a] = NoJob]
        BY <2>2, <1>6 DEF AbortBegin
      <4>2. queue' = queue
        BY <2>2, <1>6 DEF AbortBegin
      <4>3. apc' = [apc EXCEPT ![a] = "notify"]
        BY <2>2, <1>6 DEF AbortBegin, AfterAbort
      <4> QED BY <4>1, <4>2, <4>3
    <3> QED BY <3>1
  <2> QED BY <2>1, <2>2
<1>7. ASSUME NEW a \in Aborters, AbortComplete(a) \/ AbortNotify(a) \/ AbortCancel(a)
      PROVE  Owned(j)
  BY <1>7 DEF AbortComplete, AbortNotify, AbortCancel
<1>8. ASSUME StopBegin
      PROVE  Owned(j)
  BY <1>8, <1>0 DEF StopBegin, AbandonQueue
<1>9. ASSUME StopComplete
      PROVE  Owned(j)
  <2>1. Contents(abandoned') \subseteq Contents(abandoned)
    BY <1>9, HeadTail DEF StopComplete
  <2> QED BY <1>9, <2>1 DEF StopComplete
<1>10. ASSUME StartWorker \/ StopCancelActive \/ StopJoin \/ StopEnd
       PROVE  Owned(j)
  BY <1>10, <1>0 DEF StartWorker, StopCancelActive, StopJoin, StopEnd
<1>11. CASE UNCHANGED vars
  <2>1. UNCHANGED <<queue, wjob, apc, ajob, abandoned>>
    BY <1>11 DEF vars
  <2> QED BY <2>1
<1> HIDE DEF Inv, Owned
<1>12. CASE \E k \in Jobs : Caller(k)
  BY <1>1, <1>2, <1>3, <1>12
<1>13. CASE Worker
  BY <1>4, <1>5, <1>13
<1>14. CASE \E a \in Aborters : Aborter(a)
  BY <1>6, <1>7, <1>14 DEF Aborter
<1>15. CASE Manager
  BY <1>8, <1>9, <1>10, <1>15 DEF Manager
<1> QED BY <1>11, <1>12, <1>13, <1>14, <1>15 DEF Next
-----------------------------------------------------------------------------
\* A step that leaves the answers and the executors alone disturbs nothing.
LEMMA NothingSaid ==
    ASSUME RefInv, LeftBehind', UNCHANGED <<completed, result, outcome, executors>>,
           \A j \in Jobs : pc'[j] = "executing" => pc[j] = "executing",
           \A j \in Jobs : pc[j] = "done" => pc'[j] = "done",
           wpc' = "executing" => wpc = "executing" /\ wjob' = wjob,
           wpc' \in {"check", "finish", "notify", "complete"} =>
               /\ wpc \in {"check", "finish", "notify", "complete"}
               /\ wjob' = wjob /\ wresult' = wresult
    PROVE  AnswersTrue'
<1>1. CallersTrue'
  BY DEF RefInv, AnswersTrue, CallersTrue, TrueOf
<1>2. WorkerTrue'
  BY DEF RefInv, AnswersTrue, WorkerTrue, TrueOf
<1> QED BY <1>1, <1>2 DEF AnswersTrue

\* A caller that returns takes its answer along, and nobody else's.
LEMMA Returned ==
    ASSUME RefInv, NEW j \in Jobs, NEW r, Returns(j, r), LeftBehind',
           UNCHANGED <<completed, result, executors, wpc, wjob, wresult>>
    PROVE  AnswersTrue'
<1>1. CallersTrue'
  BY DEF RefInv, Inv, TypeInv, TypeOK, AnswersTrue, CallersTrue, TrueOf, Returns, Go
<1>2. WorkerTrue'
  BY DEF RefInv, AnswersTrue, WorkerTrue, TrueOf
<1> QED BY <1>1, <1>2 DEF AnswersTrue

\* Every step keeps the answers true: one case per operation of CChatRuntime.cpp:41-436.
LEMMA AnswersStep ==
    ASSUME RefInv, Inv', [Next]_vars
    PROVE  AnswersTrue'
<1> USE ConstantsAssumption DEF Go, runtimeVars, jobVars, workerVars, abortVars, stopVars
<1>0. /\ pc \in [Jobs -> CallerPlaces] /\ wjob \in Jobs \cup {NoJob}
      /\ executors \in [Jobs -> SUBSET Threads]
      /\ outcome \in [Jobs -> Results \cup {NoResult}]
      /\ result \in [Jobs -> Results \cup {NoResult}]
      /\ completed \in [Jobs -> BOOLEAN]
      /\ wjob = NoJob <=> wpc \in {"off", "idle", "exited"}
      /\ \A j \in Jobs : Owned(j) \/ completed[j] => pc[j] # "idle"
      /\ \A j \in Jobs : Owned(j) => ~completed[j] /\ pc[j] # "executing"
  BY DEF RefInv, Inv, TypeInv, TypeOK, WorkerPlace, Ownership, OwnedOnce, SoleOwner
<1>1. ASSUME NEW j \in Jobs, Owned(j)', pc'[j] = "done"
      PROVE  /\ Owned(j) /\ ~completed[j] /\ pc[j] \notin {"idle", "executing"}
             /\ ~completed'[j]
  <2>1. Owned(j)
    BY <1>1, OwnedBefore DEF RefInv
  <2>2. ~completed'[j]
    BY <1>1 DEF Inv, Ownership, OwnedOnce, SoleOwner
  <2> QED BY <2>1, <2>2, <1>0
<1>2. ASSUME \A j \in Jobs : pc'[j] = "done" /\ Owned(j)' => pc[j] = "done",
             \A j \in Jobs : pc[j] = "done" => outcome'[j] = outcome[j]
      PROVE  LeftBehind'
  BY <1>1, <1>2 DEF RefInv, AnswersTrue, LeftBehind
<1>3. CallersTrue /\ WorkerTrue
  BY DEF RefInv, AnswersTrue
<1>4. ASSUME NEW j \in Jobs, ExecuteInline(j) PROVE AnswersTrue'
  <2>1. /\ pc[j] = "idle" /\ pc' = [pc EXCEPT ![j] = "executing"]
        /\ executors' = [executors EXCEPT ![j] = @ \cup {"caller"}]
        /\ UNCHANGED <<completed, result, outcome, wpc, wjob, wresult>>
    BY <1>4 DEF ExecuteInline, Executes
  <2>2. ~completed[j] /\ wjob # j
    BY <2>1, <1>0 DEF Owned, WorkerHas
  <2>3. LeftBehind'
    BY <1>2, <1>0, <2>1
  <2>4. CallersTrue'
    BY <1>0, <1>3, <2>1, <2>2 DEF CallersTrue, TrueOf
  <2>5. WorkerTrue'
    BY <1>0, <1>3, <2>1, <2>2 DEF WorkerTrue, TrueOf
  <2> QED BY <2>3, <2>4, <2>5 DEF AnswersTrue
<1>5. ASSUME NEW j \in Jobs, RejectUnavailable(j) PROVE AnswersTrue'
  <2>1. LeftBehind'
    BY <1>0, <1>1, <1>2, <1>5 DEF RejectUnavailable, Returns
  <2> QED BY <2>1, <1>5, Returned DEF RejectUnavailable
<1>6. ASSUME NEW j \in Jobs, RejectFull(j) PROVE AnswersTrue'
  <2>1. LeftBehind'
    BY <1>0, <1>1, <1>2, <1>6 DEF RejectFull, Returns
  <2> QED BY <2>1, <1>6, Returned DEF RejectFull
<1>7. ASSUME NEW j \in Jobs, Enqueue(j) PROVE AnswersTrue'
  <2>1. /\ pc[j] = "idle" /\ pc' = [pc EXCEPT ![j] = "waiting"]
        /\ UNCHANGED <<executors, completed, result, outcome, wpc, wjob, wresult>>
    BY <1>7 DEF Enqueue
  <2>2. LeftBehind'
    BY <1>0, <1>2, <2>1
  <2> QED BY <1>0, <2>1, <2>2, NothingSaid
<1>8. ASSUME NEW j \in Jobs, ReturnResult(j) PROVE AnswersTrue'
  <2>1. LeftBehind'
    BY <1>0, <1>1, <1>2, <1>8 DEF ReturnResult, WaitEnded, Returns
  <2> QED BY <2>1, <1>8, Returned DEF ReturnResult
<1>9. ASSUME NEW j \in Jobs, Promote(j) PROVE AnswersTrue'
  <2>1. /\ pc[j] = "waiting" /\ ~completed[j] /\ pc' = [pc EXCEPT ![j] = "executing"]
        /\ executors' = [executors EXCEPT ![j] = @ \cup {"caller"}]
        /\ UNCHANGED <<completed, result, outcome, wpc, wjob, wresult>>
    BY <1>9 DEF Promote, WaitTimedOut, Executes
  <2>2. LeftBehind'
    BY <1>0, <1>2, <2>1
  <2>3. CallersTrue'
    BY <1>0, <1>3, <2>1 DEF CallersTrue, TrueOf
  <2>4. WorkerTrue'
    BY <1>0, <1>3, <2>1 DEF WorkerTrue, TrueOf
  <2> QED BY <2>2, <2>3, <2>4 DEF AnswersTrue
<1>10. ASSUME NEW j \in Jobs, NEW r \in BodyResults, CallerEnd(j, r) PROVE AnswersTrue'
  <2>1. LeftBehind'
    BY <1>0, <1>1, <1>2, <1>10 DEF CallerEnd, Returns
  <2> QED BY <2>1, <1>10, Returned DEF CallerEnd
<1>11. ASSUME NEW j \in Jobs,
              GiveUp(j) \/ TimeoutMark(j) \/ TimeoutCancel(j) \/ TimeoutErase(j)
       PROVE  AnswersTrue'
  <2>1. /\ \E place \in {"mark", "cancel", "erase", "cleanup"} :
               pc' = [pc EXCEPT ![j] = place]
        /\ pc[j] # "done"
        /\ UNCHANGED <<executors, completed, result, outcome, wpc, wjob, wresult>>
    BY <1>11 DEF GiveUp, WaitTimedOut, TimeoutMark, TimeoutCancel, TimeoutErase
  <2>2. LeftBehind'
    BY <1>0, <1>2, <2>1
  <2> QED BY <1>0, <2>1, <2>2, NothingSaid
<1>12. ASSUME NEW j \in Jobs, TimeoutCleanup(j) PROVE AnswersTrue'
  <2>1. /\ pc' = [pc EXCEPT ![j] = "done"] /\ outcome' = [outcome EXCEPT ![j] = "timedOut"]
    BY <1>12 DEF TimeoutCleanup, Returns
  <2>2. LeftBehind'
    BY <1>0, <1>1, <2>1 DEF RefInv, AnswersTrue, LeftBehind
  <2> QED BY <2>2, <1>12, Returned DEF TimeoutCleanup
<1>13. ASSUME NEW late \in BOOLEAN, WorkerPop(late) PROVE AnswersTrue'
  <2>1. UNCHANGED <<pc, completed, result, outcome, executors>>
    BY <1>13 DEF WorkerPop
  <2>2. LeftBehind'
    BY <1>2, <2>1
  <2>3. CallersTrue'
    BY <1>3, <2>1 DEF CallersTrue, TrueOf
  <2>4. wpc' \in {"popped", "finish"} /\ (wpc' = "finish" => wresult' \in {"cancelled", "timedOut"})
    BY <1>13 DEF WorkerPop, NoResult
  <2>5. WorkerTrue'
    BY <2>4 DEF WorkerTrue, TrueOf, Results
  <2> QED BY <2>2, <2>3, <2>5 DEF AnswersTrue
<1>14. ASSUME WorkerBegin PROVE AnswersTrue'
  <2>1. /\ wpc = "popped" /\ wpc' = "executing" /\ wjob' = wjob /\ wjob \in Jobs
        /\ executors' = [executors EXCEPT ![wjob] = @ \cup {"worker"}]
        /\ UNCHANGED <<pc, completed, result, outcome>>
    BY <1>14, <1>0 DEF WorkerBegin, Executes
  <2>2. ~completed[wjob]
    BY <2>1, <1>0 DEF Owned, WorkerHas
  <2>3. LeftBehind'
    BY <1>2, <2>1
  <2>4. CallersTrue'
    BY <1>0, <1>3, <2>1, <2>2 DEF CallersTrue, TrueOf
  <2>5. WorkerTrue'
    BY <1>0, <2>1 DEF WorkerTrue
  <2> QED BY <2>3, <2>4, <2>5 DEF AnswersTrue
<1>15. ASSUME NEW r \in BodyResults, NEW overran \in BOOLEAN, WorkerEnd(r, overran)
       PROVE  AnswersTrue'
  <2>1. /\ wpc = "executing" /\ wpc' = "check"
        /\ wresult' \in {"ok", "failed", "cancelled", "timedOut"}
        /\ UNCHANGED <<wjob, pc, completed, result, outcome, executors>>
    BY <1>15 DEF WorkerEnd
  <2>2. LeftBehind'
    BY <1>2, <2>1
  <2>3. CallersTrue'
    BY <1>3, <2>1 DEF CallersTrue, TrueOf
  <2>4. WorkerTrue'
    BY <1>3, <2>1 DEF WorkerTrue, TrueOf, Results
  <2> QED BY <2>2, <2>3, <2>4 DEF AnswersTrue
<1>16. ASSUME NEW cancelled \in BOOLEAN, WorkerCheckCancelled(cancelled) PROVE AnswersTrue'
  <2>1. /\ wpc = "check" /\ wpc' = "finish"
        /\ wresult' \in {wresult, "cancelled"}
        /\ UNCHANGED <<wjob, pc, completed, result, outcome, executors>>
    BY <1>16 DEF WorkerCheckCancelled
  <2>2. LeftBehind'
    BY <1>2, <2>1
  <2>3. CallersTrue'
    BY <1>3, <2>1 DEF CallersTrue, TrueOf
  <2>4. WorkerTrue'
    BY <1>3, <2>1 DEF WorkerTrue, TrueOf, Results
  <2> QED BY <2>2, <2>3, <2>4 DEF AnswersTrue
<1>17. ASSUME WorkerFinish \/ WorkerNotify \/ WorkerExit PROVE AnswersTrue'
  <2>1. /\ UNCHANGED <<wjob, wresult, pc, completed, result, outcome, executors>>
        /\ \/ wpc = "finish" /\ wpc' = "notify"
           \/ wpc = "notify" /\ wpc' = "complete"
           \/ wpc = "idle" /\ wpc' = "exited"
    BY <1>17 DEF WorkerFinish, WorkerNotify, WorkerExit
  <2>2. LeftBehind'
    BY <1>2, <2>1
  <2> QED BY <2>1, <2>2, NothingSaid
<1>18. ASSUME WorkerComplete PROVE AnswersTrue'
  <2>1. /\ wpc = "complete" /\ wpc' = "idle" /\ wjob \in Jobs
        /\ result' = [result EXCEPT ![wjob] = wresult]
        /\ completed' = [completed EXCEPT ![wjob] = TRUE]
        /\ UNCHANGED <<pc, outcome, executors>>
    BY <1>18, <1>0 DEF WorkerComplete, Complete
  <2>2. LeftBehind'
    BY <1>2, <2>1
  <2>3. TrueOf(wjob, wresult)
    BY <1>3, <2>1 DEF WorkerTrue
  <2>4. CallersTrue'
    BY <1>0, <1>3, <2>1, <2>3 DEF CallersTrue, TrueOf
  <2>5. WorkerTrue'
    BY <2>1 DEF WorkerTrue
  <2> QED BY <2>2, <2>4, <2>5 DEF AnswersTrue
<1>19. ASSUME NEW a \in Aborters, AbortComplete(a) PROVE AnswersTrue'
  <2>1. /\ ajob[a] \in Jobs
        /\ result' = [result EXCEPT ![ajob[a]] = "cancelled"]
        /\ completed' = [completed EXCEPT ![ajob[a]] = TRUE]
        /\ UNCHANGED <<pc, outcome, executors, wpc, wjob, wresult>>
    BY <1>19 DEF AbortComplete, Complete, RefInv, Inv, Ownership, PlacesAgree
  <2>2. LeftBehind'
    BY <1>2, <2>1
  <2>3. CallersTrue'
    BY <1>0, <1>3, <2>1 DEF CallersTrue, TrueOf, Results
  <2>4. WorkerTrue'
    BY <1>3, <2>1 DEF WorkerTrue, TrueOf
  <2> QED BY <2>2, <2>3, <2>4 DEF AnswersTrue
<1>20. ASSUME NEW a \in Aborters,
              (\E r \in RunIds : AbortBegin(a, r)) \/ AbortNotify(a) \/ AbortCancel(a)
       PROVE  AnswersTrue'
  <2>1. UNCHANGED <<pc, completed, result, outcome, executors, wpc, wjob, wresult>>
    BY <1>20 DEF AbortBegin, AbortNotify, AbortCancel
  <2>2. LeftBehind'
    BY <1>2, <2>1
  <2> QED BY <2>1, <2>2, NothingSaid
<1>21. ASSUME StopComplete PROVE AnswersTrue'
  <2> DEFINE job == Head(abandoned)
  <2>1. /\ result' = [result EXCEPT ![job] = "unavailable"]
        /\ completed' = [completed EXCEPT ![job] = TRUE]
        /\ UNCHANGED <<pc, outcome, executors, wpc, wjob, wresult>>
    BY <1>21 DEF StopComplete, Complete
  <2>2. job \in Jobs /\ job \in Contents(abandoned)
    BY <1>21, HeadTail DEF StopComplete, RefInv, Inv, TypeInv, TypeOK
  <2>3. executors[job] = {}
    BY <2>2 DEF RefInv, Inv, Ownership, RunsOnce, MayStart, StopHas
  <2> HIDE DEF job
  <2>4. LeftBehind'
    BY <1>2, <2>1
  <2>5. CallersTrue'
    BY <1>0, <1>3, <2>1, <2>2, <2>3 DEF CallersTrue, TrueOf, Results
  <2>6. WorkerTrue'
    BY <1>3, <2>1 DEF WorkerTrue, TrueOf
  <2> QED BY <2>4, <2>5, <2>6 DEF AnswersTrue
<1>22. ASSUME StartWorker \/ StopJoin PROVE AnswersTrue'
  <2>1. /\ UNCHANGED <<wjob, wresult, pc, completed, result, outcome, executors>>
        /\ wpc' \in {"idle", "off"}
    BY <1>22 DEF StartWorker, StopJoin
  <2>2. LeftBehind'
    BY <1>2, <2>1
  <2> QED BY <2>1, <2>2, NothingSaid
<1>23. ASSUME StopBegin \/ StopCancelActive \/ StopEnd \/ UNCHANGED vars PROVE AnswersTrue'
  <2>1. UNCHANGED <<pc, completed, result, outcome, executors, wpc, wjob, wresult>>
    BY <1>23 DEF StopBegin, StopCancelActive, StopEnd, vars
  <2>2. LeftBehind'
    BY <1>2, <2>1
  <2> QED BY <2>1, <2>2, NothingSaid
<1>24. CASE \E j \in Jobs : Caller(j)
  BY <1>4, <1>5, <1>6, <1>7, <1>8, <1>9, <1>10, <1>11, <1>12, <1>24 DEF Caller
<1>25. CASE Worker
  BY <1>13, <1>14, <1>15, <1>16, <1>17, <1>18, <1>25 DEF Worker
<1>26. CASE \E a \in Aborters : Aborter(a)
  BY <1>19, <1>20, <1>26 DEF Aborter
<1>27. CASE Manager
  BY <1>21, <1>22, <1>23, <1>27 DEF Manager
<1> QED BY <1>23, <1>24, <1>25, <1>26, <1>27 DEF Next
-----------------------------------------------------------------------------
\* A thread may start the model for a job that is submitted, not answered or answered
\* "timed out", and not started.
LEMMA MayRun ==
    ASSUME RefInv, NEW j \in Jobs, NEW thread \in Threads, Owned(j), MayStart(j),
           executors' = [executors EXCEPT ![j] = @ \cup {thread}],
           outcome' = outcome, AbstractCall' = AbstractCall
    PROVE  Promise!Run(j, thread)
<1>1. executors[j] = {} /\ executors'[j] = {thread} /\ pc[j] # "idle"
  BY DEF RefInv, Inv, TypeInv, TypeOK, Ownership, RunsOnce, OwnedOnce
<1>2. outcome[j] \in {NoResult, "timedOut"}
  BY DEF RefInv, AnswersTrue, CallersTrue, LeftBehind
<1>3. executors' = [executors EXCEPT ![j] = {thread}]
  BY <1>1
<1> QED BY <1>1, <1>2, <1>3 DEF Promise!Run, AbstractCall

\* A caller in the middle of its call answers it with what it may say.
LEMMA MayAnswer ==
    ASSUME RefInv, NEW j \in Jobs, NEW r, pc[j] \notin {"idle", "done"}, Returns(j, r),
           TrueOf(j, r), executors' = executors
    PROVE  Promise!Answer(j, r)
<1>1. pc \in [Jobs -> CallerPlaces] /\ pc' = [pc EXCEPT ![j] = "done"]
  BY DEF RefInv, Inv, TypeInv, TypeOK, Returns, Go
<1>2. AbstractCall' = [AbstractCall EXCEPT ![j] = "answered"] /\ AbstractCall[j] = "pending"
  BY <1>1 DEF AbstractCall
<1> QED BY <1>2 DEF Promise!Answer, TrueOf, Returns

\* Every step of the runtime is a step of the promise, or leaves the calls alone.
LEMMA PromiseStep ==
    ASSUME UniqueRuns, RefInv, [Next]_vars
    PROVE  [Promise!Next]_(Promise!abstractVars)
<1> USE ConstantsAssumption DEF Go, runtimeVars, jobVars, workerVars, abortVars, stopVars
<1> DEFINE Unseen == AbstractCall' = AbstractCall /\ outcome' = outcome /\ executors' = executors
<1>0. /\ pc \in [Jobs -> CallerPlaces] /\ executors \in [Jobs -> SUBSET Threads]
      /\ outcome \in [Jobs -> Results \cup {NoResult}]
  BY DEF RefInv, Inv, TypeInv, TypeOK
<1>1. Unseen => UNCHANGED Promise!abstractVars
  BY DEF Promise!abstractVars
<1>2. UNCHANGED <<pc, outcome, executors>> => Unseen
  BY DEF AbstractCall
<1> HIDE DEF Unseen
<1>3. ASSUME NEW j \in Jobs, ExecuteInline(j) PROVE Promise!SubmitAndRun(j)
  <2>1. /\ pc[j] = "idle" /\ pc' = [pc EXCEPT ![j] = "executing"] /\ outcome' = outcome
        /\ executors' = [executors EXCEPT ![j] = @ \cup {"caller"}]
    BY <1>3 DEF ExecuteInline, Executes
  <2>2. executors[j] = {}
    BY <2>1 DEF RefInv, Inv, Ownership, RunsOnce
  <2>3. executors' = [executors EXCEPT ![j] = {"caller"}]
    BY <1>0, <2>1, <2>2
  <2>4. AbstractCall' = [AbstractCall EXCEPT ![j] = "pending"] /\ AbstractCall[j] = "new"
    BY <1>0, <2>1 DEF AbstractCall
  <2> QED BY <2>1, <2>3, <2>4 DEF Promise!SubmitAndRun
<1>4. ASSUME NEW j \in Jobs, RejectUnavailable(j) \/ RejectFull(j)
      PROVE  \E r \in Results : Promise!Refuse(j, r)
  <2>1. PICK r \in {"unavailable", "queueFull"} :
            /\ pc[j] = "idle" /\ pc' = [pc EXCEPT ![j] = "done"] /\ executors' = executors
            /\ outcome' = [outcome EXCEPT ![j] = r]
    BY <1>4 DEF RejectUnavailable, RejectFull, Returns
  <2>2. AbstractCall' = [AbstractCall EXCEPT ![j] = "answered"] /\ AbstractCall[j] = "new"
    BY <1>0, <2>1 DEF AbstractCall
  <2>3. r \in Results
    BY DEF Results
  <2> QED BY <2>1, <2>2, <2>3 DEF Promise!Refuse
<1>5. ASSUME NEW j \in Jobs, Enqueue(j) PROVE Promise!Submit(j)
  <2>1. /\ pc[j] = "idle" /\ pc' = [pc EXCEPT ![j] = "waiting"]
        /\ executors' = executors /\ outcome' = outcome
    BY <1>5 DEF Enqueue
  <2>2. AbstractCall' = [AbstractCall EXCEPT ![j] = "pending"] /\ AbstractCall[j] = "new"
    BY <1>0, <2>1 DEF AbstractCall
  <2> QED BY <2>1, <2>2 DEF Promise!Submit
<1>6. ASSUME NEW j \in Jobs, ReturnResult(j)
      PROVE  result[j] \in Results /\ Promise!Answer(j, result[j])
  <2>1. /\ pc[j] = "waiting" /\ completed[j] /\ Returns(j, result[j]) /\ executors' = executors
    BY <1>6 DEF ReturnResult, WaitEnded
  <2>2. TrueOf(j, result[j])
    BY <2>1 DEF RefInv, AnswersTrue, CallersTrue
  <2> QED BY <2>1, <2>2, MayAnswer DEF TrueOf
<1>7. ASSUME NEW j \in Jobs, Promote(j) PROVE Promise!Run(j, "caller")
  <2>1. /\ pc[j] = "waiting" /\ pc' = [pc EXCEPT ![j] = "executing"] /\ outcome' = outcome
        /\ executors' = [executors EXCEPT ![j] = @ \cup {"caller"}]
    BY <1>7 DEF Promote, WaitTimedOut, Executes
  <2>2. InQueue(j)
    <3>1. PICK k \in Contents(queue) : RunOf[k] = RunOf[j]
      BY <1>7 DEF Promote, StillQueued, RefInv, Inv, Ownership, EntriesAgree,
            QueuedStatusMatchesQueue
    <3>2. k \in Jobs
      BY ContentsType DEF RefInv, Inv, TypeInv, TypeOK
    <3> QED BY <3>1, <3>2 DEF InQueue, UniqueRuns
  <2>3. AbstractCall' = AbstractCall
    BY <1>0, <2>1 DEF AbstractCall
  <2>4. "caller" \in Threads
    BY DEF Threads
  <2> QED BY <2>1, <2>2, <2>3, <2>4, MayRun DEF Owned, MayStart
<1>8. ASSUME NEW j \in Jobs, NEW r \in BodyResults, CallerEnd(j, r)
      PROVE  r \in Results /\ Promise!Answer(j, r)
  <2>1. /\ pc[j] = "executing" /\ Returns(j, r) /\ executors' = executors
    BY <1>8 DEF CallerEnd
  <2>2. TrueOf(j, r)
    BY <2>1 DEF RefInv, AnswersTrue, CallersTrue, TrueOf, Results
  <2> QED BY <2>1, <2>2, MayAnswer DEF TrueOf
<1>9. ASSUME NEW j \in Jobs,
             GiveUp(j) \/ TimeoutMark(j) \/ TimeoutCancel(j) \/ TimeoutErase(j)
      PROVE  Unseen
  <2>1. PICK place \in {"mark", "cancel", "erase", "cleanup"} :
            /\ pc[j] \notin {"idle", "done"} /\ pc' = [pc EXCEPT ![j] = place]
            /\ outcome' = outcome /\ executors' = executors
    BY <1>9 DEF GiveUp, WaitTimedOut, TimeoutMark, TimeoutCancel, TimeoutErase
  <2> QED BY <1>0, <2>1 DEF Unseen, AbstractCall
<1>10. ASSUME NEW j \in Jobs, TimeoutCleanup(j)
       PROVE  "timedOut" \in Results /\ Promise!Answer(j, "timedOut")
  <2>1. /\ pc[j] = "cleanup" /\ Returns(j, "timedOut") /\ executors' = executors
    BY <1>10 DEF TimeoutCleanup
  <2>2. TrueOf(j, "timedOut")
    BY DEF TrueOf, Results
  <2> QED BY <2>1, <2>2, MayAnswer DEF TrueOf
<1>11. ASSUME WorkerBegin PROVE wjob \in Jobs /\ Promise!Run(wjob, "worker")
  <2>1. /\ wpc = "popped" /\ wjob \in Jobs /\ UNCHANGED <<pc, outcome>>
        /\ executors' = [executors EXCEPT ![wjob] = @ \cup {"worker"}]
    BY <1>11 DEF WorkerBegin, Executes, RefInv, Inv, Ownership, PlacesAgree, WorkerPlace, TypeInv,
          TypeOK
  <2>2. AbstractCall' = AbstractCall /\ Owned(wjob) /\ MayStart(wjob) /\ "worker" \in Threads
    BY <2>1 DEF AbstractCall, Owned, MayStart, WorkerHas, Threads
  <2> QED BY <2>1, <2>2, MayRun
<1>12. ASSUME Worker, ~WorkerBegin PROVE Unseen
  <2>1. UNCHANGED <<pc, outcome, executors>>
    BY <1>12 DEF Worker, WorkerPop, WorkerEnd, WorkerCheckCancelled, WorkerFinish, WorkerNotify,
          WorkerComplete, WorkerExit
  <2> QED BY <2>1, <1>2
<1>13. ASSUME NEW a \in Aborters, Aborter(a) PROVE Unseen
  <2>1. UNCHANGED <<pc, outcome, executors>>
    BY <1>13 DEF Aborter, AbortBegin, AbortComplete, AbortNotify, AbortCancel
  <2> QED BY <2>1, <1>2
<1>14. ASSUME Manager \/ UNCHANGED vars PROVE Unseen
  <2>1. UNCHANGED <<pc, outcome, executors>>
    BY <1>14 DEF Manager, StartWorker, StopBegin, StopCancelActive, StopComplete, StopJoin,
          StopEnd, vars
  <2> QED BY <2>1, <1>2
<1>15. "caller" \in Threads /\ "worker" \in Threads
  BY DEF Threads
<1>16. CASE \E j \in Jobs : Caller(j)
  <2>1. PICK j \in Jobs : Caller(j)
    BY <1>16
  <2>2. Unseen \/ \/ Promise!Submit(j) \/ Promise!SubmitAndRun(j)
                  \/ \E thread \in Threads : Promise!Run(j, thread)
                  \/ \E r \in Results : Promise!Refuse(j, r) \/ Promise!Answer(j, r)
    BY <1>3, <1>4, <1>5, <1>6, <1>7, <1>8, <1>9, <1>10, <1>15, <2>1 DEF Caller
  <2> QED BY <2>2, <1>1 DEF Promise!Next
<1>17. CASE Worker
  BY <1>1, <1>11, <1>12, <1>15, <1>17 DEF Promise!Next
<1> QED BY <1>1, <1>13, <1>14, <1>16, <1>17 DEF Next

\* CChatRuntime implements what Execute promises its callers: one answer for each call,
\* the model called at most once for it and not at all for a call that is refused,
\* aborted in the queue or abandoned by a stop (CChatRuntime.cpp:41-436).
THEOREM RuntimeKeepsPromise ==
    ASSUME UniqueRuns
    PROVE  Spec => PromiseKept
<1>1. Init => RefInv
  <2> SUFFICES ASSUME Init PROVE AnswersTrue
    BY InvInit DEF RefInv
  <2>1. CallersTrue /\ LeftBehind /\ WorkerTrue
    BY DEF Init, CallersTrue, LeftBehind, WorkerTrue
  <2> QED BY <2>1 DEF AnswersTrue
<1>2. RefInv /\ [Next]_vars => RefInv'
  BY InvStep, AnswersStep DEF RefInv
<1>3. Init => Promise!Init
  BY DEF Init, Promise!Init, AbstractCall
<1>4. RefInv /\ [Next]_vars => [Promise!Next]_(Promise!abstractVars)
  BY PromiseStep
<1> QED BY <1>1, <1>2, <1>3, <1>4, PTL DEF Spec, PromiseKept, Promise!Spec
=============================================================================
