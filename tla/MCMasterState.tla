---------------------------- MODULE MCMasterState ----------------------------
(* MasterState over two buses, two backend modes and one adapter: two buses  *)
(* are what it takes to see a topology change, one adapter is never compared *)
(* with another.  MaxRevision = 6 lets a Master connect, scan, cycle, fault, *)
(* restart and connect again.                                                *)
EXTENDS MasterState
=============================================================================
