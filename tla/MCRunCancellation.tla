------------------------- MODULE MCRunCancellation -------------------------
(***************************************************************************)
(* Instances of RunCancellation for TLC: two DeepSeek runs on the queue, and *)
(* the three kinds of runs side by side without it.                         *)
(***************************************************************************)
EXTENDS RunCancellation, TLC

CONSTANTS j1, j2

OwnRun == [j \in Jobs |-> j]
AllDeepSeek == [r \in RunIds |-> "deepseek"]
OneOfEach ==
    [r \in RunIds |-> CASE r = j1 -> "deepseek" [] r = j2 -> "local" [] OTHER -> "routed"]

\* Runs of one kind can be exchanged.
Symmetry == Permutations(Jobs)
=============================================================================
