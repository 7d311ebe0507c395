---------------------------- MODULE MCHostSupervisor ----------------------------
(* HostSupervisor with a UI request, the end of the application and up to     *)
(* two generations of the core.                                               *)
EXTENDS HostSupervisor
=============================================================================
