-------------------------------- MODULE MCService -------------------------------
(* An instance of Service for TLC: see the service configuration.           *)
EXTENDS Service

CONSTANTS agent, api, e1, e2
================================================================================
