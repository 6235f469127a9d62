-------------------------- MODULE MCStorageHelper ---------------------------
(* Sticks, paths and bounds for TLC: see StorageHelper.cfg.                *)
EXTENDS StorageHelper
=============================================================================
