---------------------------- MODULE MCChatPolling ----------------------------
EXTENDS ChatPolling

CONSTANTS r1, r2, ss1

\* Each send has its own key: a send is named by it.
OwnKeys == {[s \in Sends |-> s]}

OneSession == [r \in RunIds |-> ss1]
=============================================================================
