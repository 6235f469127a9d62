------------------------------ MODULE MCBackups ------------------------------
(* Small instance of Backups for TLC: a unit is a day, weeks have two. *)
EXTENDS Backups
DaysAndWeeks == <<[long |-> 1, keep |-> 2], [long |-> 2, keep |-> 2]>>
Ahead == {4, -2}
=============================================================================
