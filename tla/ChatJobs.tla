------------------------------ MODULE ChatJobs ------------------------------
(***************************************************************************)
(* What CChatRuntime::Execute promises its callers, without queue, worker   *)
(* or locks.  A call is answered once.  The model runs at most once for a   *)
(* call; an answer of the model means that it ran; a call refused because   *)
(* the queue is full or the runtime is down, and a call answered            *)
(* "cancelled", never reaches the model afterwards.  Only a call answered   *)
(* "timedOut" may still start: the worker may hold it already.              *)
(***************************************************************************)
CONSTANTS Jobs, Threads, Results, NoResult

VARIABLES call, answer, ranOn

abstractVars == <<call, answer, ranOn>>

Init ==
    /\ call = [j \in Jobs |-> "new"]
    /\ answer = [j \in Jobs |-> NoResult]
    /\ ranOn = [j \in Jobs |-> {}]

Submit(j) ==
    /\ call[j] = "new"
    /\ call' = [call EXCEPT ![j] = "pending"]
    /\ UNCHANGED <<answer, ranOn>>

\* An Execute call that runs the body on its own thread at once.
SubmitAndRun(j) ==
    /\ call[j] = "new"
    /\ call' = [call EXCEPT ![j] = "pending"]
    /\ ranOn' = [ranOn EXCEPT ![j] = {"caller"}]
    /\ UNCHANGED answer

Refuse(j, r) ==
    /\ call[j] = "new"
    /\ r \in {"unavailable", "queueFull"}
    /\ call' = [call EXCEPT ![j] = "answered"]
    /\ answer' = [answer EXCEPT ![j] = r]
    /\ UNCHANGED ranOn

Run(j, thread) ==
    /\ call[j] # "new" /\ answer[j] \in {NoResult, "timedOut"}
    /\ ranOn[j] = {}
    /\ ranOn' = [ranOn EXCEPT ![j] = {thread}]
    /\ UNCHANGED <<call, answer>>

Answer(j, r) ==
    /\ call[j] = "pending"
    /\ r \in {"ok", "failed"} => ranOn[j] # {}
    /\ r = "unavailable" => ranOn[j] = {}
    /\ r # "queueFull"
    /\ call' = [call EXCEPT ![j] = "answered"]
    /\ answer' = [answer EXCEPT ![j] = r]
    /\ UNCHANGED ranOn

Next ==
    \E j \in Jobs :
        \/ Submit(j) \/ SubmitAndRun(j)
        \/ \E thread \in Threads : Run(j, thread)
        \/ \E r \in Results : Refuse(j, r) \/ Answer(j, r)

Spec == Init /\ [][Next]_abstractVars
=============================================================================
