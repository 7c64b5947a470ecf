------------------------------ MODULE MCAudioRoute ------------------------------
(* Instances of AudioRoute for TLC. *)
EXTENDS AudioRoute
=============================================================================
