--------------------------- MODULE MCMaintenance ---------------------------
(* Small instance of Maintenance for TLC: everybody ticks the same parts. *)
EXTENDS Maintenance
Chosen == {{"database", "certificates"}}
=============================================================================
