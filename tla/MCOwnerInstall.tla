--------------------------- MODULE MCOwnerInstall ---------------------------
(* The instances of OwnerInstall that TLC checks. *)
EXTENDS OwnerInstall
=============================================================================
