-------------------------- MODULE MCPersistentInbox -------------------------
(* A small instance of PersistentInbox for TLC.  The hosts are alike, so    *)
(* that one of them may stand for the first owner.                         *)
EXTENDS PersistentInbox, TLC

FirstInit == InboxInit /\ owner = CHOOSE h \in Hosts : TRUE
FromFirst == FirstInit /\ [][InboxNext]_inboxVars /\ InboxFairness
=============================================================================
