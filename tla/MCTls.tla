-------------------------------- MODULE MCTls --------------------------------
(* Processes and bounds for TLC: see Tls.cfg.                              *)
EXTENDS Tls
=============================================================================
