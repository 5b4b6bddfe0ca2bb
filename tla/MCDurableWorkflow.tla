------------------------- MODULE MCDurableWorkflow --------------------------
(* A small instance of DurableWorkflow for TLC: p3 depends on p1 and p2, and *)
(* p1 may be tried twice. *)
EXTENDS DurableWorkflow, TLC

CONSTANTS p1, p2, p3

JoinDeps == (p1 :> {}) @@ (p2 :> {}) @@ (p3 :> {p1, p2})
JoinAttempts == (p1 :> 2) @@ (p2 :> 1) @@ (p3 :> 1)
=============================================================================
