--------------------------- MODULE MCDashboardUsers ---------------------------
(* Accounts, browsers and bounds for TLC: see DashboardUsers.cfg.          *)
EXTENDS DashboardUsers
=============================================================================
