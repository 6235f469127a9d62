------------------------------- MODULE MCClock -------------------------------
(* Small instance of Clock for TLC, with the nights of days of three minutes. *)
EXTENDS Clock
OneTypo == {3}
=============================================================================
