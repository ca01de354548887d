---------------------------- MODULE MCCallRecord ----------------------------
(* Small instances of CallRecord for TLC. *)
EXTENDS CallRecord

CONSTANTS c1, c2
=============================================================================
