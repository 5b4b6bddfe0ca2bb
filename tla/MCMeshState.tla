---------------------------- MODULE MCMeshState -----------------------------
(* Small instances of MeshState for TLC. *)
EXTENDS MeshState, TLC

Symmetry == Permutations(Procs) \cup Permutations(Keys)
=============================================================================
