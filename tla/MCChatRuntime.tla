--------------------------- MODULE MCChatRuntime ---------------------------
(***************************************************************************)
(* Instances of ChatRuntime for TLC.  Every call has a run id of its own:   *)
(* chat.send uses the request id or the client's idempotency key.           *)
(***************************************************************************)
EXTENDS ChatRuntime, TLC

OwnRun == [j \in Jobs |-> j]
SharedRun == [j \in Jobs |-> CHOOSE r \in RunIds : TRUE]

Symmetry == Permutations(Jobs)
=============================================================================
