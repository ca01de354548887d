------------------------- MODULE MCDashboardSession -------------------------
(* Small instances of DashboardSession for TLC. *)
EXTENDS DashboardSession
=============================================================================
