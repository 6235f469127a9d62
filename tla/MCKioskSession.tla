-------------------------- MODULE MCKioskSession ----------------------------
(* Small instances of KioskSession for TLC. *)
EXTENDS KioskSession, TLC

MCWorkers == Permutations(Workers)
=============================================================================
