------------------------ MODULE MCRenewalSchedule ------------------------
(* The instance of RenewalSchedule that TLC checks. *)
EXTENDS RenewalSchedule
=============================================================================
