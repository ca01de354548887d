-------------------------- MODULE MCTurnDetection --------------------------
(* Small instances of TurnDetection for TLC. *)
EXTENDS TurnDetection
=============================================================================
