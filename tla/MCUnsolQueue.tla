----------------------------- MODULE MCUnsolQueue -----------------------------
(***************************************************************************)
(* Model checking of UnsolQueue.  Two slots make a full queue reachable    *)
(* with three causes, and two queued items are enough for two drains to     *)
(* meet on one item.                                                       *)
(***************************************************************************)
EXTENDS UnsolQueue
=============================================================================
