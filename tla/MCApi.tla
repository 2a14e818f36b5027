-------------------------------- MODULE MCApi -------------------------------
(* A small instance of Api for TLC. *)
EXTENDS Api, TLC
=============================================================================
