---------------------------- MODULE MCCs8409I2c ----------------------------
(* Instances of Cs8409I2c for TLC. *)
EXTENDS Cs8409I2c
=============================================================================
