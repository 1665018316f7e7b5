----------------------------- MODULE MCCodeMode -----------------------------
(* Instances of CodeMode for TLC: the sets are in the configurations.      *)
EXTENDS CodeMode
=============================================================================
