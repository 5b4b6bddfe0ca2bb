--------------------------- MODULE MCControlPlane ---------------------------
(* Small instances of ControlPlane for TLC. *)
EXTENDS ControlPlane, TLC

Symmetry == Permutations(Commands) \cup Permutations(Owners)
WithinTimeout == {-1, 0, 1}
=============================================================================
