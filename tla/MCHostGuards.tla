---------------------------- MODULE MCHostGuards ----------------------------
(* The instance of HostGuards that TLC checks. *)
EXTENDS HostGuards
=============================================================================
