------------------------- MODULE MCLifecycleBroker -------------------------
(* A small instance of LifecycleBroker for TLC. *)
EXTENDS LifecycleBroker, TLC
=============================================================================
