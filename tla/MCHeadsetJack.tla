----------------------------- MODULE MCHeadsetJack -----------------------------
(***************************************************************************)
(* Model checking of HeadsetJack.  Four moves of the plug are two complete *)
(* plug-and-unplug rounds, so whatever the first leaves behind meets the   *)
(* second; the user's moves being bounded, the system comes to rest and    *)
(* deadlock is not an error.  Two rounds of the status loop make both its  *)
(* exits reachable, the limit and the line.                                *)
(***************************************************************************)
EXTENDS HeadsetJack
=============================================================================
