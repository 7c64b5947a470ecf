------------------------------- MODULE MCCs42l42 -------------------------------
(* Instances of Cs42l42 for TLC. *)
EXTENDS Cs42l42
=============================================================================
