----------------------------- MODULE MCIncident -----------------------------
(* Small instances of Incident for TLC. *)
EXTENDS Incident, TLC

\* Workers are interchangeable.
Symmetry == Permutations(Workers)
=============================================================================
