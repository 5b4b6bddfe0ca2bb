----------------------------- MODULE MCMeshLock -----------------------------
(* Small instances of MeshLock for TLC. *)
EXTENDS MeshLock, TLC

\* The processes are interchangeable (safety runs only).
ProcSymmetry == Permutations(Procs)
=============================================================================
