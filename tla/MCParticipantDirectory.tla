----------------------- MODULE MCParticipantDirectory -----------------------
(* A small instance of ParticipantDirectory for TLC. *)
EXTENDS ParticipantDirectory, TLC
=============================================================================
