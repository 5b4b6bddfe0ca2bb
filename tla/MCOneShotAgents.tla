--------------------------- MODULE MCOneShotAgents --------------------------
(* A small instance of OneShotAgents for TLC. *)
EXTENDS OneShotAgents, TLC
=============================================================================
