---------------------------- MODULE MCChatGateway ----------------------------
EXTENDS ChatGateway, TLC

CONSTANTS r1, r2, i1, ss1, ss2

\* Each send has its own key: a send is named by it.
OwnKeys == {[s \in Sends |-> s]}

\* Or a client sends again with the key of its other send.
AnyKeys == OwnKeys \cup {[s \in Sends |-> r] : r \in RunIds}

OneSession  == [r \in RunIds |-> ss1]
TwoSessions == (r1 :> ss1) @@ (r2 :> ss2)

SendSymmetry == Permutations(Sends)
=============================================================================
