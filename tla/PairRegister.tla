---------------------------- MODULE PairRegister ----------------------------
(***************************************************************************)
(* What the deploy hook promises whoever reads the published certificate:  *)
(* tls/current behaves as one register that holds a whole renewed pair,    *)
(* never a half of one, and that a power loss can only set back to a value *)
(* written since the last sync.  This is the module docstring of           *)
(* ip_deploy.py: "Publish immutable pairs through one atomic link, so      *)
(* failed renewal cannot replace a working pair with half a pair."         *)
(***************************************************************************)
EXTENDS Integers

VARIABLES
  issued,  \* how many pairs Certbot has issued: pair number v is one of 1 .. issued
  shown,   \* the pair a reader gets, 0 when nothing is published
  saved    \* the values a power loss could leave

register == <<issued, shown, saved>>

Init == issued = 1 /\ shown = 0 /\ saved = {0}

Issue == issued' = issued + 1 /\ UNCHANGED <<shown, saved>>

\* A new pair, the previous one again, or none after a failed first attempt.
Write ==
  /\ shown' \in 0 .. issued
  /\ saved' = saved \cup {shown'}
  /\ UNCHANGED issued

Settle == saved' = {shown} /\ UNCHANGED <<issued, shown>>

PowerLoss ==
  /\ shown' \in saved
  /\ saved' = {shown'}
  /\ UNCHANGED issued

Next == Issue \/ Write \/ Settle \/ PowerLoss

Spec == Init /\ [][Next]_register
=============================================================================
