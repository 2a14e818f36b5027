----------------------------- MODULE MCShutdown -----------------------------
(* Small instances of Shutdown for TLC. *)
EXTENDS Shutdown, TLC
=============================================================================
