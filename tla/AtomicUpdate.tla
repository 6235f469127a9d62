---------------------------- MODULE AtomicUpdate ----------------------------
(***************************************************************************)
(* What docs/ARCHITECTURE.md ("What makes it safe to run unattended")      *)
(* promises of an update, without saying how: the device is one version,   *)
(* an update replaces it in one step or leaves it, only a version the      *)
(* device accepts replaces it, and no step of it takes back a booking the  *)
(* ledger already had.                                                     *)
(***************************************************************************)
EXTENDS Naturals

CONSTANTS Versions, InitialVersion, Accepts(_, _)

VARIABLES version, ledger

Init == version = InitialVersion /\ ledger = {}

\* Bookings the new version took while it was on trial become part of the ledger with it.
Install(v) ==
  /\ Accepts(v, version)
  /\ version' = v
  /\ ledger \subseteq ledger'

Book ==
  /\ UNCHANGED version
  /\ ledger \subseteq ledger'

Next == Book \/ \E v \in Versions : Install(v)

Spec == Init /\ [][Next]_<<version, ledger>>
=============================================================================
