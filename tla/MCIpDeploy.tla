------------------------------ MODULE MCIpDeploy ------------------------------
(***************************************************************************)
(* IpDeploy for TLC: the processes, services and generation names are      *)
(* model values, and any two of a kind are alike.                          *)
(***************************************************************************)
EXTENDS IpDeploy, TLC

Symmetry == Permutations(Hooks) \cup Permutations(Services) \cup Permutations(Names)
=============================================================================
