------------------------------ MODULE MCStreamPath ------------------------------
(* Instances of StreamPath for TLC. *)
EXTENDS StreamPath
=============================================================================
