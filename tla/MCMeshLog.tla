----------------------------- MODULE MCMeshLog ------------------------------
(* A small instance of MeshLog for TLC. *)
EXTENDS MeshLog, TLC

CONSTANTS a, x

\* An event without an id, and an event with one.
TwoRequests == {[id |-> NoId, val |-> x], [id |-> a, val |-> x]}
=============================================================================
