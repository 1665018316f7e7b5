-------------------------- MODULE MCWorkspaceIndex --------------------------
(* Instances of WorkspaceIndex for TLC: the sets and bounds are in the      *)
(* configurations.                                                          *)
EXTENDS WorkspaceIndex
=============================================================================
