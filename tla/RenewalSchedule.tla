-------------------------- MODULE RenewalSchedule --------------------------
(***************************************************************************)
(* The lifetimes of the home IP certificate: the renewal timer and service *)
(* of self_hosted.py, the lifetime check of validate_pair in renew.py, and *)
(* what the deploy hook and the owner refresh leave in use.                *)
(*                                                                         *)
(* Time passes in periods of several hourly timer runs.  A pair is known   *)
(* by the periods it has left.  Certbot renews a pair that is due and then *)
(* runs the deploy hook once: a hook that fails is not run again before    *)
(* the next renewal, unless an operator does.  IpDeploy, OwnerInstall and  *)
(* HomeHost have the steps of a deployment; here it is one step, with      *)
(* every outcome they have.  One that succeeds may leave a service on the  *)
(* pair it replaced: only what was sampled as active is restarted, and a   *)
(* refresh that is under way already is joined.                            *)
(***************************************************************************)
EXTENDS Integers, FiniteSets

CONSTANTS
  Public,        \* the services that load tls/current
  Server,        \* the owner server, whose files a refresh installs
  Lifetime,      \* periods a new pair is valid
  RenewBefore,   \* Certbot renews a pair with no more than this left
  MinRemaining,  \* -checkend of validate_pair for an IP certificate
  DNSMinimum,    \* and for a DNS certificate
  MaxFaults      \* bound: failures, kills, joined refreshes, periods without power

ASSUME ScheduleAssumption ==
  /\ Server \notin Public
  /\ Lifetime \in Nat /\ RenewBefore \in 1 .. Lifetime - 1
  /\ MinRemaining \in 1 .. Lifetime
  /\ DNSMinimum \in Nat /\ MaxFaults \in Nat

VARIABLES
  lineage,    \* periods left of the newest pair in /etc/letsencrypt
  current,    \* of the pair tls/current leads to
  owner,      \* of the owner pair, or of the kept one while that is not whole
  backup,     \* the backup directory of a refresh that failed is there
  serving,    \* of the pair each service has loaded
  ran,        \* the timer has run in this period
  outcome,    \* history: of the last deployment, which Certbot reports
  overtaken,  \* history: what the last successful one has left on another pair
  raced,      \* history: a start has come between a sample and the move of the files
  missed,     \* history: periods since the last issue in which a due renewal was not made
  quiet,      \* history: periods passed since the last disturbance, up to Lifetime
  faults      \* faults so far

vars == <<lineage, current, owner, backup, serving, ran,
          outcome, overtaken, raced, missed, quiet, faults>>
inUse == <<current, owner, backup, serving, outcome, overtaken, raced>>

Services == Public \cup {Server}
Left == 0 .. Lifetime
Down == Lifetime + 1  \* as an entry of serving: the service does not run

Init ==
  /\ lineage = Lifetime /\ current = Lifetime /\ owner = Lifetime
  /\ backup = FALSE
  /\ serving = [s \in Services |-> Down]
  /\ ran = FALSE
  /\ outcome = "deployed" /\ overtaken = {} /\ raced = FALSE
  /\ missed = 0 /\ quiet = 0 /\ faults = 0

-----------------------------------------------------------------------------
\* Definitions marked "mutant" are bugs the code does not have; no action uses one.
Fault == faults < MaxFaults /\ faults' = faults + 1 /\ quiet' = 0

\* Mutant: the threshold of the DNS certificates.
LongLived(left) == left >= DNSMinimum
\* openssl x509 -checkend.
Accepted(left) == left >= MinRemaining

\* Mutant: a pair is renewed when the check would refuse it.
RefusedSoon == lineage < MinRemaining
Due == lineage <= RenewBefore

\* What a service loads when it starts.
File(s) == IF s = Server THEN owner ELSE current

-----------------------------------------------------------------------------
(***************************************************************************)
(* The outcomes of a deployment of pair.                                   *)
(***************************************************************************)
\* Services that were sampled as inactive and came up before their files changed:
\* after a stop, or in the restart delay, or after a wait for the address check.
Late(candidates, pair) == SUBSET {s \in candidates : File(s) # pair}
Raced(late) == IF late = {} THEN UNCHANGED <<raced, quiet>> ELSE raced' = TRUE /\ quiet' = 0

\* Mutant: the services are started where they have to be restarted.
Started(pair, o, late) == serving
\* What was active is restarted on the pair, the server on the owner pair o.
Restarted(pair, o, late) ==
  [s \in Services |-> IF s \in late THEN File(s)
                      ELSE IF serving[s] = Down THEN Down
                      ELSE IF s = Server THEN o ELSE pair]

\* What a refresh that somebody started before the move of the link may install.
Joinable == IF Accepted(current) THEN {current} ELSE {}

\* The hook succeeds, and so does the refresh it has started or joined.
Deployed(pair) ==
  /\ ~backup
  /\ current' = pair
  /\ \E late \in Late(Services, pair), o \in {pair} \cup Joinable :
       /\ owner' = o
       /\ serving' = Restarted(pair, o, late)
       /\ overtaken' = IF o = pair THEN late ELSE late \cup {Server}
       /\ IF o = pair THEN Raced(late) /\ UNCHANGED faults
                      ELSE Fault /\ raced' = IF late = {} THEN raced ELSE TRUE
  /\ outcome' = "deployed"
  /\ UNCHANGED backup

\* The pair is published; the refresh stops the server, meets the backup of an
\* earlier one and gives up, this time and every time until the repair.
Refused(pair) ==
  /\ backup
  /\ current' = pair
  /\ \E late \in Late(Public, pair) :
       serving' = Restarted(pair, Down, late) /\ Raced(late)
  /\ outcome' = "refused"
  /\ UNCHANGED <<owner, backup, overtaken, faults>>

\* A command of the hook or of the refresh fails or either is killed: the link is
\* moved, put back or neither, the owner pair likewise with or without its backup,
\* and a service is on its old pair, on one that was in its place or down.
Failed(pair) ==
  /\ Fault
  /\ current' \in {current, pair}
  /\ owner' \in IF backup THEN {owner} ELSE {owner, pair} \cup Joinable
  /\ backup' \in {backup, TRUE}
  /\ serving' \in [Services -> {pair, current, owner, Down} \cup {serving[s] : s \in Services}]
  /\ \A s \in Public : serving'[s] \in {serving[s], current, pair, Down}
  /\ serving'[Server] \in {serving[Server], owner, current, pair, Down}
  /\ outcome' = "failed"
  /\ UNCHANGED <<overtaken, raced>>

-----------------------------------------------------------------------------
(***************************************************************************)
(* aura-acme-renew: the timer, certbot renew and its deploy hook.          *)
(***************************************************************************)
NotDue ==
  /\ ~ran /\ ~Due
  /\ ran' = TRUE
  /\ UNCHANGED <<lineage, inUse, missed, quiet, faults>>

Issue ==
  /\ ~ran /\ Due
  /\ ran' = TRUE
  /\ lineage' = Lifetime /\ missed' = 0

Renew ==
  /\ Issue
  /\ IF Accepted(Lifetime) THEN Deployed(Lifetime) \/ Refused(Lifetime)
     ELSE /\ outcome' = "failed"
          /\ UNCHANGED <<current, owner, backup, serving, overtaken, raced, quiet, faults>>

\* The pair is issued, and its deployment fails; the timer does not come back to it.
DeployFails == Issue /\ Accepted(Lifetime) /\ Failed(Lifetime)

\* No run of the period reaches the CA.
IssueFails ==
  /\ ~ran /\ Due
  /\ Fault
  /\ ran' = TRUE
  /\ missed' = missed + 1
  /\ UNCHANGED <<lineage, inUse>>

\* An operator runs the hook on the pair that is there.
Rerun ==
  /\ Accepted(lineage)
  /\ Deployed(lineage) \/ Refused(lineage) \/ Failed(lineage)
  /\ UNCHANGED <<lineage, ran, missed>>

-----------------------------------------------------------------------------
(***************************************************************************)
(* aura-owner-tls-refresh, started by somebody else than the hook.         *)
(***************************************************************************)
RefreshOwner ==
  /\ Accepted(current) /\ ~backup
  /\ owner' = current
  /\ \E late \in Late({Server}, current) :
       /\ serving' = [serving EXCEPT ![Server] = Restarted(current, current, late)[Server]]
       /\ overtaken' = (overtaken \ {Server}) \cup late
       /\ Raced(late)
  /\ UNCHANGED <<lineage, current, backup, ran, outcome, missed, faults>>

\* It stops the server and meets the backup.
RefreshRefused ==
  /\ Accepted(current) /\ backup
  /\ serving' = [serving EXCEPT ![Server] = Down]
  /\ UNCHANGED <<lineage, current, owner, backup, ran, outcome, overtaken, raced,
                 missed, quiet, faults>>

RefreshFails ==
  /\ Accepted(current)
  /\ Fault
  /\ owner' \in IF backup THEN {owner} ELSE {owner, current}
  /\ backup' \in {backup, TRUE}
  /\ \E v \in {serving[Server], owner, current, Down} : serving' = [serving EXCEPT ![Server] = v]
  /\ UNCHANGED <<lineage, current, ran, outcome, overtaken, raced, missed>>

\* The operator's offline review of the backup.
Repair ==
  /\ backup /\ serving[Server] = Down
  /\ backup' = FALSE /\ quiet' = 0
  /\ UNCHANGED <<lineage, current, owner, serving, ran, outcome, overtaken, raced, missed, faults>>

-----------------------------------------------------------------------------
(***************************************************************************)
(* The services, and time.                                                 *)
(***************************************************************************)
\* A start or a restart loads the files, whoever asks for it.
Load(s) ==
  /\ serving' = [serving EXCEPT ![s] = File(s)]
  /\ overtaken' = IF File(s) = lineage THEN overtaken \ {s} ELSE overtaken
  /\ UNCHANGED <<lineage, current, owner, backup, ran, outcome, raced, missed, quiet, faults>>

Stop(s) ==
  /\ serving[s] # Down
  /\ serving' = [serving EXCEPT ![s] = Down]
  /\ UNCHANGED <<lineage, current, owner, backup, ran, outcome, overtaken, raced,
                 missed, quiet, faults>>

Older(left) == IF left \in {0, Down} THEN left ELSE left - 1

Pass ==
  /\ lineage' = Older(lineage) /\ current' = Older(current) /\ owner' = Older(owner)
  /\ ran' = FALSE
  /\ UNCHANGED <<outcome, overtaken, raced>>

\* OnCalendar=hourly: a period the host is on for does not end before a run.
Tick ==
  /\ ran
  /\ Pass
  /\ serving' = [s \in Services |-> Older(serving[s])]
  /\ quiet' = IF quiet < Lifetime THEN quiet + 1 ELSE quiet
  /\ UNCHANGED <<backup, missed, faults>>

\* Persistent=true: the run is made after the next boot.  Neither the creation of the
\* backup directory nor its removal is synced.
TickOff ==
  /\ ~ran
  /\ Fault
  /\ Pass
  /\ serving' = [s \in Services |-> Down]
  /\ backup' \in BOOLEAN
  /\ missed' = IF lineage <= RenewBefore THEN missed + 1 ELSE missed

Next ==
  \/ NotDue \/ Renew \/ DeployFails \/ IssueFails \/ Rerun
  \/ RefreshOwner \/ RefreshRefused \/ RefreshFails \/ Repair
  \/ \E s \in Services : Load(s) \/ Stop(s)
  \/ Tick \/ TickOff

Spec == Init /\ [][Next]_vars

\* Time passes and the timer runs; nobody has to intervene.
LiveSpec == Spec /\ WF_vars(Tick) /\ WF_vars(NotDue \/ Renew)

-----------------------------------------------------------------------------
\* Every variable keeps its type; a period is missed by a fault.
TypeOK ==
  /\ lineage \in Left /\ current \in Left /\ owner \in Left
  /\ serving \in [Services -> Left \cup {Down}]
  /\ backup \in BOOLEAN /\ ran \in BOOLEAN /\ raced \in BOOLEAN
  /\ outcome \in {"deployed", "failed", "refused"}
  /\ overtaken \subseteq Services
  /\ missed \in 0 .. faults /\ faults \in 0 .. MaxFaults
  /\ quiet \in 0 .. Lifetime

\* A service that presents an expired certificate has one of three causes: the last
\* deployment has failed, or renewals have for as many periods as Certbot renews
\* ahead, both of which Certbot has logged; or the last deployment, which succeeded,
\* has overtaken a start of this service or joined a refresh, and nobody has said so.
ExpiryWasAnnounced ==
  \A s \in Services : serving[s] = 0 =>
    outcome # "deployed" \/ missed >= RenewBefore \/ s \in overtaken

\* At most one fault, and then no start that was overtaken.
Calm == faults = 0 \/ (faults = 1 /\ ~raced)

\* With a pair that is renewed at half of its life or earlier, the timer's next run
\* mends what one fault lets expire, and what starts let expire that any number of
\* deployments have overtaken without a fault; except for a server whose refresh
\* has met the backup of the fault, which waits for the operator.
OneFailureMended ==
  Calm /\ Lifetime <= 2 * RenewBefore =>
    \A s \in Services : serving[s] = 0 => ~ran \/ (s = Server /\ outcome = "refused")

Fresh(s) == File(s) = lineage /\ serving[s] \in {lineage, Down}

\* Whatever has happened before, and however often: when there was no failure, no
\* overtaken start and no repair for as long as a pair is in use before it is due,
\* everything is on the newest pair again, and that one is not short of renewal;
\* only a server whose refresh waits for the repair is not.
HealedInTime ==
  quiet > Lifetime - RenewBefore =>
    /\ lineage >= RenewBefore
    /\ \A s \in Public : Fresh(s)
    /\ backup \/ Fresh(Server)

(***************************************************************************)
(* Why these hold: the parts of an inductive invariant.                    *)
(***************************************************************************)
\* A deployment that succeeds leaves only what it has overtaken on another pair.
SettledInv ==
  outcome = "deployed" => current = lineage /\ \A s \in Services \ overtaken : Fresh(s)

\* A pair runs short only by the periods missed, and a run without a failure leaves
\* none that is due.
RenewedInv ==
  /\ lineage + missed >= RenewBefore
  /\ ran => lineage + missed > RenewBefore
  /\ quiet > 0 /\ ran => lineage > RenewBefore
  /\ quiet > 1 => lineage >= RenewBefore

\* Without a fault a start that was overtaken is all that is behind.  One renewal
\* behind is the most that starts without a fault or one fault leave, and a fault
\* that costs a renewal leaves nothing behind.
Recent(left) == left >= lineage - (Lifetime - RenewBefore)
FaultInv ==
  /\ faults = 0 => /\ outcome = "deployed" /\ missed = 0 /\ owner = lineage /\ ~backup
                   /\ ~raced => overtaken = {}
  /\ Calm => /\ Recent(current) /\ \A s \in Public : Recent(serving[s])
             /\ outcome # "refused" => Recent(owner) /\ Recent(serving[Server])
             /\ missed > 0 => current = lineage /\ \A s \in Services : Fresh(s)

\* What is behind has been disturbed since its successor was issued.
PublicBehind == current # lineage \/ \E s \in Public : ~Fresh(s)
ServerBehind == ~backup /\ ~Fresh(Server)
BehindInv == PublicBehind \/ ServerBehind => quiet + lineage <= Lifetime

\* All of it: by this the schedule bounds the age of what is in use.
ScheduleInv == TypeOK /\ SettledInv /\ RenewedInv /\ FaultInv /\ BehindInv

\* Whatever has failed, once nothing disturbs the deployments any more every service
\* that runs ends up with a valid certificate for good, without an intervention: the
\* renewal that comes next mends a deployment that was never repeated.  A server whose
\* refresh has left its backup stays down or gets old until the operator repairs it.
HealsByItself ==
  <>[](quiet > 0) => <>[](\A s \in Services : serving[s] # 0 \/ (s = Server /\ backup))
=============================================================================
