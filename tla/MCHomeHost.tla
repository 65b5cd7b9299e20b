----------------------------- MODULE MCHomeHost -----------------------------
(* The instances of HomeHost that TLC checks. *)
EXTENDS HomeHost
=============================================================================
