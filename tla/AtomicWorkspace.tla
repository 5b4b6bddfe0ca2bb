--------------------------- MODULE AtomicWorkspace --------------------------
(***************************************************************************)
(* What schema transactions promise of the workspace: a transaction        *)
(* changes all the files it declares at once, together with the            *)
(* workspace's generation, or it changes none of them; only a transaction  *)
(* whose rollback failed, and which says so, may leave a part behind.      *)
(***************************************************************************)
EXTENDS Naturals

CONSTANTS
  Transactions,
  Files,
  Touches,     \* of each transaction, the files it declares
  Original,    \* the content of every file at first
  Edited       \* what somebody outside writes into a file

VARIABLES
  content,     \* of each file, the transaction that wrote it, Original or Edited
  generation,  \* how many transactions have committed
  committed,
  quarantined

vars == <<content, generation, committed, quarantined>>

Init ==
  /\ content = [f \in Files |-> Original]
  /\ generation = 0 /\ committed = {} /\ quarantined = {}

Open(t) == t \notin committed \cup quarantined

\* f's content, with t's content in the files of part
Written(t, part) == [f \in Files |-> IF f \in part THEN t ELSE content[f]]

Commit(t) ==
  /\ Open(t)
  /\ content' = Written(t, Touches[t])
  /\ generation' = generation + 1
  /\ committed' = committed \cup {t}
  /\ UNCHANGED quarantined

Quarantine(t) ==
  /\ Open(t)
  /\ \E part \in SUBSET Touches[t] : content' = Written(t, part)
  /\ quarantined' = quarantined \cup {t}
  /\ UNCHANGED <<generation, committed>>

\* Somebody outside writes files that no transaction declares.
Edit ==
  /\ \E part \in SUBSET (Files \ UNION {Touches[t] : t \in Transactions}) :
       content' = Written(Edited, part)
  /\ UNCHANGED <<generation, committed, quarantined>>

Next == (\E t \in Transactions : Commit(t) \/ Quarantine(t)) \/ Edit

Spec == Init /\ [][Next]_vars
=============================================================================
