----------------------------- MODULE PairInstall -----------------------------
(***************************************************************************)
(* What the owner refresh promises an operator who recovers the owner      *)
(* directory: installing a pair is one step.  The pair that can be         *)
(* recovered is the last one installed, and what is installed is the pair  *)
(* that was published when the refresh began; a refresh that is killed has *)
(* installed it or has not.  TLS.md says why that takes a backup: "The two *)
(* existing owner files cannot be atomically renamed as one."              *)
(***************************************************************************)
EXTENDS Integers

VARIABLES
  published,   \* the pair the deploy hook has published last
  installing,  \* the pair a refresh is about to install, 0 when none runs
  installed,   \* the pair the owner directory holds
  saved        \* the pairs a power loss could leave in it

install == <<published, installing, installed, saved>>

Init == published = 1 /\ installing = 0 /\ installed = 1 /\ saved = {1}

Publish == published' = published + 1 /\ UNCHANGED <<installing, installed, saved>>

Begin ==
  /\ installing = 0
  /\ installing' = published
  /\ UNCHANGED <<published, installed, saved>>

\* The whole pair at once; the directory is synced, unless the refresh is
\* killed before that.
Install ==
  /\ installing # 0
  /\ installed' = installing
  /\ \/ saved' = {installing}                /\ UNCHANGED installing
     \/ saved' = saved \cup {installing}     /\ installing' = 0
  /\ UNCHANGED published

\* The refresh reports its success, gives up or is killed.
End == installing' = 0 /\ UNCHANGED <<published, installed, saved>>

Sync == saved' = {installed} /\ UNCHANGED <<published, installing, installed>>

PowerLoss ==
  /\ installed' \in saved
  /\ saved' = {installed'}
  /\ installing' = 0
  /\ UNCHANGED published

Next == Publish \/ Begin \/ Install \/ End \/ Sync \/ PowerLoss

Spec == Init /\ [][Next]_install
=============================================================================
