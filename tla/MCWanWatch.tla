----------------------------- MODULE MCWanWatch -----------------------------
(* The instances of WanWatch that TLC checks. *)
EXTENDS WanWatch
=============================================================================
