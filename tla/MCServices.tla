----------------------------- MODULE MCServices -----------------------------
(***************************************************************************)
(* NodeServices, ApprovalTokens, TransportRecipients and Extensions for TLC. *)
(* The pairing of nodes, the actions that wait for them, the approvals, the  *)
(* recipients of tool events and the extensions share no state, so a         *)
(* behaviour exercises one of them, or the waiting actions with the wakes,   *)
(* and leaves the others as they began.                                      *)
(***************************************************************************)
EXTENDS NodeServices, ApprovalTokens, TransportRecipients, MCExtensions, TLC

VARIABLE focus

MCRequiredScope == [s \in Surfaces |-> IF s = "plain" THEN "approve" ELSE "system"]

\* The catalog that a behaviour about something else has and does not read.
MCInit ==
    /\ NodeInit /\ ApprovalInit /\ RecipientsInit /\ Init
    /\ focus \in {"pairing", "actions", "wakes", "approvals", "recipients", "extensions"}
    /\ focus # "extensions" => onDisk = <<>>
    /\ focus # "approvals" => file = Empty

\* Bound: one run at most is sent again, refused, cut short or moved to another session; once
\* it was moved, one thread sends at a time.
OneIrregularRun ==
    /\ Cardinality(moved' \cup loose') <= 1
    /\ moved' # {} => Cardinality({t \in Sends : sending'[t] # NoSend}) <= 1

\* Bound: where nodes are woken, one action at most waits.
OneAction == nextAction' <= 2

MCNext ==
    /\ \/ /\ focus = "pairing" /\ PairingNext
          /\ UNCHANGED <<approvalVars, recipientVars, vars>>
       \/ /\ focus = "actions" /\ (Tick \/ ActionsNext) /\ UNCHANGED woken
          /\ UNCHANGED <<approvalVars, recipientVars, vars>>
       \/ /\ focus = "wakes" /\ (Tick \/ ActionsNext) /\ OneAction
          /\ UNCHANGED <<approvalVars, recipientVars, vars>>
       \/ /\ focus = "approvals" /\ ApprovalNext
          /\ UNCHANGED <<nodeVars, recipientVars, vars>>
       \/ /\ focus = "recipients" /\ RecipientsNext /\ OneIrregularRun
          /\ UNCHANGED <<nodeVars, approvalVars, vars>>
       \/ /\ focus = "extensions" /\ Next
          /\ UNCHANGED <<nodeVars, approvalVars, recipientVars>>
    /\ UNCHANGED focus

MCSpec == MCInit /\ [][MCNext]_<<nodeVars, approvalVars, recipientVars, vars, focus>>

\* Threads (of the approvals and of chat.send), runs and sessions can be exchanged.
Symmetry == UNION {Permutations(Threads), Permutations(RunIds), Permutations(ChatSessions)}

\* What no step depends on is hidden: the last call; of what was sent, all but whether it was
\* approved; the recipients of a run on whose life nothing is claimed.
View == <<now, pairingVars, actionVars, woken, clock, file, temp, ready, threadVars,
          blind, closed, kept, SentAsApproved, registry, [r \in RunIds \ loose |-> toolEvents[r]], chatRuns, ends,
          sending, instant, moved, loose, vars, focus>>
=============================================================================
