------------------------------ MODULE MCAgent ------------------------------
(* Instances of Agent for TLC: the bounds are in the configurations.       *)
EXTENDS Agent
=============================================================================
