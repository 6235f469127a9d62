-------------------------- MODULE MCReaderStatus ----------------------------
(* Small instances of ReaderStatus for TLC. *)
EXTENDS ReaderStatus
=============================================================================
