------------------------- MODULE MCDashboardRefresh -------------------------
(* Model-checking instances of DashboardRefresh.                             *)
EXTENDS DashboardRefresh
=============================================================================
