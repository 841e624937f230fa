------------------------------- MODULE MCNodePool -------------------------------
(* An instance of NodePool for TLC: see the node_pool configuration.        *)
EXTENDS NodePool, TLC

CONSTANT n1
================================================================================
