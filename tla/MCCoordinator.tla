---------------------------- MODULE MCCoordinator ----------------------------
(***************************************************************************)
(* Instances of Coordinator for TLC.                                       *)
(***************************************************************************)
EXTENDS Coordinator

CONSTANTS t1, n1, a1, a2
==============================================================================
