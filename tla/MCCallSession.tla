--------------------------- MODULE MCCallSession ---------------------------
(* Small instances of CallSession for TLC. *)
EXTENDS CallSession
=============================================================================
