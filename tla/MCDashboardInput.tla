-------------------------- MODULE MCDashboardInput --------------------------
(***************************************************************************)
(* An instance of DashboardInput for TLC: two windows of one session, one  *)
(* of another.                                                             *)
(***************************************************************************)
EXTENDS DashboardInput

TwoSessions == {<<1, 1>>, <<1, 2>>, <<2, 1>>}
=============================================================================
