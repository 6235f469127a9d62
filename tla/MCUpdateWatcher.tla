-------------------------- MODULE MCUpdateWatcher --------------------------
(* Small instances of UpdateWatcher for TLC. *)
EXTENDS UpdateWatcher

MCVersions == 1..3
MCPreReleases == {2}
=============================================================================
