------------------------- MODULE VersionedRegisters -------------------------
(***************************************************************************)
(* What the shared state of the mesh promises its writers: one register    *)
(* per key with a version that every write raises by one, a conditional    *)
(* write that takes effect only on the version it names, and a deletion    *)
(* that keeps the version until it is forgotten.                           *)
(***************************************************************************)
EXTENDS Naturals

CONSTANTS Keys, Absent, Writes

VARIABLE cell   \* of each key: [version, value]

Cell == [version : Nat, value : Writes \cup {Absent}]

Unwritten == [version |-> 0, value |-> Absent]

Init == cell = [k \in Keys |-> Unwritten]

\* A write of k, unconditional or on the version it expects.
Write(k, v) == cell' = [cell EXCEPT ![k] = [version |-> @.version + 1, value |-> v]]

\* A deletion of k; deleted keys may be forgotten at the same time.
Erase(k, forgotten) ==
  LET erased == [cell EXCEPT ![k].value = Absent]
  IN  /\ cell[k].value # Absent
      /\ \A j \in forgotten : erased[j].value = Absent
      /\ cell' = [j \in Keys |-> IF j \in forgotten THEN Unwritten ELSE erased[j]]

Next ==
  \E k \in Keys :
    \/ \E v \in Writes : Write(k, v)
    \/ \E forgotten \in SUBSET Keys : Erase(k, forgotten)

Spec == Init /\ [][Next]_cell
=============================================================================
