------------------------- MODULE MCHostCallbackBridge -------------------------
(***************************************************************************)
(* Instances of HostCallbackBridge for TLC.                                *)
(***************************************************************************)
EXTENDS HostCallbackBridge, TLC

CONSTANTS r1, r2, t1, t2
=============================================================================
