----------------------- MODULE RenewalSchedule_proofs -----------------------
(***************************************************************************)
(* Proofs about the renewal schedule, for any lifetime and thresholds, any *)
(* number of services, failures and starts that deployments overtake:      *)
(* ScheduleInv is inductive, and bounds what any service presents.         *)
(***************************************************************************)
EXTENDS RenewalSchedule, TLAPS

-----------------------------------------------------------------------------
(***************************************************************************)
(* The operators.                                                          *)
(***************************************************************************)
\* One more fault is within the bound, and ends the quiet.
LEMMA FaultFacts ==
  ASSUME TypeOK, Fault
  PROVE  faults' \in 0 .. MaxFaults /\ faults' = faults + 1 /\ quiet' = 0
  BY ScheduleAssumption DEF TypeOK, Fault

\* Time takes a period from what is not over yet, and nothing from what is down.
LEMMA OlderFacts ==
  /\ Older(Down) = Down
  /\ \A left \in Left : /\ Older(left) \in Left /\ Older(left) <= left
                        /\ Older(left) >= left - 1 /\ (left # 0 => Older(left) = left - 1)
  BY ScheduleAssumption DEF Older, Left, Down

\* A period that passes without a fault: the quiet grows by what the pair loses, and
\* after its first period it is the run of the period before that kept the pair.
LEMMA QuietPeriod ==
  ASSUME NEW q \in Nat, NEW r \in Nat, NEW left \in Left,
         r <= q + 1, r <= Lifetime, q > 0 => left > RenewBefore
  PROVE  /\ q + left <= Lifetime => r + Older(left) <= Lifetime
         /\ r > 1 => Older(left) >= RenewBefore
<1> USE ScheduleAssumption
<1>0. left \in 0 .. Lifetime /\ left # Down
  BY DEF Left, Down
<1>1. CASE left = 0
  BY <1>1 DEF Older
<1>2. CASE left # 0
  <2>1. Older(left) = left - 1
    BY <1>0, <1>2 DEF Older
  <2> QED
    BY <1>0, <1>2, <2>1
<1> QED
  BY <1>1, <1>2

\* What nothing has happened to is on the newest pair.
LEMMA AllFresh ==
  ASSUME ScheduleInv, faults = 0
  PROVE  /\ current = lineage /\ owner = lineage /\ missed = 0 /\ ~backup
         /\ ~raced => overtaken = {} /\ \A s \in Services : Fresh(s)
  BY DEF ScheduleInv, FaultInv, SettledInv

-----------------------------------------------------------------------------
(***************************************************************************)
(* Deployments.  The pair is the newest one, or the one that succeeds it.  *)
(***************************************************************************)
Deploying(pair) ==
  /\ lineage' = pair
  /\ \/ pair = lineage /\ missed' = missed /\ ran' = ran
     \/ pair = Lifetime /\ lineage <= RenewBefore /\ missed' = 0 /\ ran' = TRUE

\* What a service has loaded after a deployment that restarts what is active.
LEMMA RestartedFacts ==
  ASSUME TypeOK, NEW pair \in Left, NEW o \in Left \cup {Down}, NEW late \in SUBSET Services
  PROVE  /\ Restarted(pair, o, late) \in [Services -> Left \cup {Down}]
         /\ \A s \in late : Restarted(pair, o, late)[s] = File(s)
         /\ \A s \in Services \ late :
              Restarted(pair, o, late)[s] \in {Down, IF s = Server THEN o ELSE pair}
<1>1. \A s \in Services : File(s) \in Left /\ serving[s] \in Left \cup {Down}
  BY DEF TypeOK, File
<1> QED
  BY <1>1 DEF Restarted

\* A deployment that succeeds, by what it leaves.
LEMMA DeployedFacts ==
  ASSUME TypeOK, NEW pair \in Left, Deployed(pair)
  PROVE  /\ ~backup /\ backup' = backup /\ current' = pair /\ outcome' = "deployed"
         /\ \E late \in SUBSET Services, o \in {pair, current} :
              /\ owner' = o
              /\ serving' \in [Services -> Left \cup {Down}]
              /\ \A s \in late : serving'[s] = File(s) /\ File(s) # pair
              /\ \A s \in Services \ late : serving'[s] \in {Down, IF s = Server THEN o ELSE pair}
              /\ overtaken' = IF o = pair THEN late ELSE late \cup {Server}
              /\ IF late = {} THEN raced' = raced ELSE raced' = TRUE /\ quiet' = 0
              /\ IF o = pair THEN faults' = faults /\ (late = {} => quiet' = quiet) ELSE Fault
<1>1. PICK late \in Late(Services, pair), o \in {pair} \cup Joinable :
        /\ owner' = o
        /\ serving' = Restarted(pair, o, late)
        /\ overtaken' = IF o = pair THEN late ELSE late \cup {Server}
        /\ IF o = pair THEN Raced(late) /\ UNCHANGED faults
                       ELSE Fault /\ raced' = IF late = {} THEN raced ELSE TRUE
  BY DEF Deployed
<1>2. o \in {pair, current} /\ o \in Left
  BY DEF Joinable, TypeOK
<1>3. late \in SUBSET Services /\ \A s \in late : File(s) # pair
  BY DEF Late
<1>4. /\ serving' \in [Services -> Left \cup {Down}]
      /\ \A s \in late : serving'[s] = File(s)
      /\ \A s \in Services \ late : serving'[s] \in {Down, IF s = Server THEN o ELSE pair}
  BY <1>1, <1>2, <1>3, RestartedFacts
<1>5. /\ IF late = {} THEN raced' = raced ELSE raced' = TRUE /\ quiet' = 0
      /\ IF o = pair THEN faults' = faults /\ (late = {} => quiet' = quiet) ELSE Fault
  <2>1. CASE o = pair
    BY <1>1, <2>1 DEF Raced
  <2>2. CASE o # pair
    BY <1>1, <2>2 DEF Fault
  <2> QED
    BY <2>1, <2>2
<1> QED
  BY <1>1, <1>2, <1>3, <1>4, <1>5 DEF Deployed

\* One that meets the backup of an earlier refresh.
LEMMA RefusedFacts ==
  ASSUME TypeOK, NEW pair \in Left, Refused(pair)
  PROVE  /\ backup /\ backup' = backup /\ current' = pair /\ owner' = owner
         /\ outcome' = "refused" /\ overtaken' = overtaken /\ faults' = faults
         /\ \E late \in SUBSET Public :
              /\ serving' \in [Services -> Left \cup {Down}]
              /\ \A s \in late : serving'[s] = File(s)
              /\ \A s \in Public \ late : serving'[s] \in {Down, pair}
              /\ serving'[Server] = Down
              /\ IF late = {} THEN raced' = raced /\ quiet' = quiet ELSE raced' = TRUE /\ quiet' = 0
<1>1. PICK late \in Late(Public, pair) : serving' = Restarted(pair, Down, late) /\ Raced(late)
  BY DEF Refused
<1>2. late \in SUBSET Public /\ late \in SUBSET Services
  BY DEF Late, Services
<1>3. /\ serving' \in [Services -> Left \cup {Down}]
      /\ \A s \in late : serving'[s] = File(s)
      /\ \A s \in Public \ late : serving'[s] \in {Down, pair}
      /\ serving'[Server] = Down
  BY <1>1, <1>2, RestartedFacts, ScheduleAssumption DEF Services
<1> QED
  BY <1>1, <1>2, <1>3 DEF Refused, Raced

\* One that fails leaves nothing older than what was there, or stops it.
LEMMA FailedFacts ==
  ASSUME TypeOK, NEW pair \in Left, Failed(pair)
  PROVE  /\ current' \in {current, pair} /\ owner' \in {owner, pair, current}
         /\ backup' \in BOOLEAN /\ outcome' = "failed"
         /\ overtaken' = overtaken /\ raced' = raced
         /\ serving' \in [Services -> Left \cup {Down}]
         /\ \A s \in Public : serving'[s] \in {serving[s], current, pair, Down}
         /\ serving'[Server] \in {serving[Server], owner, current, pair, Down}
         /\ faults' \in 0 .. MaxFaults /\ faults' = faults + 1 /\ quiet' = 0
<1>1. serving' \in [Services -> Left \cup {Down}]
  <2>1. \A s \in Services : serving[s] \in Left \cup {Down}
    BY DEF TypeOK
  <2>2. {pair, current, owner, Down} \cup {serving[s] : s \in Services} \subseteq Left \cup {Down}
    BY <2>1 DEF TypeOK
  <2> QED
    BY <2>2 DEF Failed
<1>2. backup' \in BOOLEAN
  BY Zenon DEF Failed, TypeOK
<1>3. owner' \in {owner, pair, current}
  BY DEF Failed, Joinable
<1>4. Fault
  BY DEF Failed
<1> QED
  BY <1>1, <1>2, <1>3, <1>4, FaultFacts DEF Failed

\* The counters and the timer after a deployment.
LEMMA DeployingTypes ==
  ASSUME TypeOK, NEW pair \in Left, Deploying(pair), faults' \in {faults, faults + 1}
  PROVE  lineage' \in Left /\ ran' \in BOOLEAN /\ missed' \in 0 .. faults'
<1>1. ran' \in BOOLEAN
  BY Zenon DEF Deploying, TypeOK
<1>2. lineage' \in Left /\ missed' \in 0 .. faults'
  BY ScheduleAssumption DEF Deploying, TypeOK
<1> QED
  BY <1>1, <1>2

\* A deployment that succeeds keeps the invariant.
LEMMA DeployedInv ==
  ASSUME ScheduleInv, NEW pair \in Left, Deploying(pair), Deployed(pair)
  PROVE  ScheduleInv'
<1> USE ScheduleAssumption DEF Left, Down
<1>0. TypeOK
  BY DEF ScheduleInv
<1>1. ~backup /\ backup' = backup /\ current' = pair /\ outcome' = "deployed" /\ lineage' = pair
  BY <1>0, DeployedFacts DEF Deploying
<1>2. PICK late \in SUBSET Services, o \in {pair, current} :
         /\ owner' = o
         /\ serving' \in [Services -> Left \cup {Down}]
         /\ \A s \in late : serving'[s] = File(s) /\ File(s) # pair
         /\ \A s \in Services \ late : serving'[s] \in {Down, IF s = Server THEN o ELSE pair}
         /\ overtaken' = IF o = pair THEN late ELSE late \cup {Server}
         /\ IF late = {} THEN raced' = raced ELSE raced' = TRUE /\ quiet' = 0
         /\ IF o = pair THEN faults' = faults /\ (late = {} => quiet' = quiet) ELSE Fault
  BY <1>0, DeployedFacts
<1>3. /\ faults' \in 0 .. MaxFaults /\ faults' \in {faults, faults + 1}
      /\ quiet' \in {0, quiet} /\ ((late = {} /\ o = pair) \/ quiet' = 0)
      /\ o # pair => faults' = faults + 1
  BY <1>0, <1>2, FaultFacts DEF TypeOK
<1>4. /\ raced' \in BOOLEAN /\ backup' \in BOOLEAN
      /\ ~raced' => late = {} /\ ~raced
  <2>1. CASE late = {}
    BY <1>0, <1>1, <1>2, <2>1, Zenon DEF TypeOK
  <2>2. CASE late # {}
    BY <1>0, <1>1, <1>2, <2>2, Zenon DEF TypeOK
  <2> QED
    BY <2>1, <2>2
<1>5. TypeOK'
  <2>1. lineage' \in Left /\ ran' \in BOOLEAN /\ missed' \in 0 .. faults'
    BY <1>0, <1>3, DeployingTypes
  <2>2. current' \in Left /\ owner' \in Left /\ overtaken' \subseteq Services /\ quiet' \in 0 .. Lifetime
    BY <1>0, <1>1, <1>2, <1>3 DEF TypeOK, Services
  <2> QED
    BY <1>1, <1>2, <1>3, <1>4, <2>1, <2>2 DEF TypeOK
<1>6. \A s \in Services \ overtaken' : Fresh(s)'
  BY <1>1, <1>2 DEF Fresh, File
<1>7. SettledInv'
  BY <1>1, <1>6 DEF SettledInv
<1>8. RenewedInv'
  BY <1>0, <1>1, <1>3 DEF RenewedInv, ScheduleInv, Deploying, TypeOK
<1>9. FaultInv'
  <2>1. ASSUME faults' = 0
        PROVE  /\ missed' = 0 /\ owner' = lineage' /\ ~backup'
               /\ ~raced' => overtaken' = {}
    <3>1. faults = 0 /\ o = pair
      BY <1>0, <1>3, <2>1 DEF TypeOK
    <3>2. missed' = 0
      BY <3>1, AllFresh DEF Deploying
    <3> QED
      BY <1>1, <1>2, <1>4, <3>1, <3>2
  <2>2. ASSUME Calm'
        PROVE  /\ Recent(current)' /\ \A s \in Services : Recent(serving[s])'
               /\ Recent(owner)'
               /\ missed' > 0 => \A s \in Services : Fresh(s)'
    <3>1. CASE faults = 0
      <4>1. current = lineage /\ owner = lineage /\ missed = 0 /\ missed' = 0
        BY <3>1, AllFresh DEF Deploying
      <4>2. lineage >= lineage' - (Lifetime - RenewBefore)
        BY <1>0, <4>1 DEF Deploying, ScheduleInv, RenewedInv, TypeOK
      <4>3. \A s \in Services : File(s) = lineage
        BY <4>1 DEF File
      <4>4. \A s \in Services : serving'[s] \in {lineage, pair, Down}
        BY <1>2, <4>1, <4>3
      <4> QED
        BY <1>0, <1>1, <1>2, <4>1, <4>2, <4>4 DEF Recent, TypeOK
    <3>2. CASE faults # 0
      <4>1. faults' = 1 /\ faults = 1 /\ late = {} /\ o = pair
        BY <1>0, <1>3, <1>4, <2>2, <3>2 DEF Calm, TypeOK
      <4>2. \A s \in Services : Fresh(s)' /\ serving'[s] \in {pair, Down}
        BY <1>1, <1>2, <4>1 DEF Fresh, File
      <4> QED
        BY <1>0, <1>1, <1>2, <4>1, <4>2 DEF Recent, TypeOK
    <3> QED
      BY <3>1, <3>2
  <2> QED
    BY <1>1, <2>1, <2>2 DEF FaultInv, Services
<1>10. BehindInv'
  <2>1. CASE late = {} /\ o = pair
    <3>1. \A s \in Services : Fresh(s)'
      BY <1>1, <1>2, <2>1 DEF Fresh, File
    <3> QED
      BY <1>1, <3>1 DEF BehindInv, PublicBehind, ServerBehind, Services
  <2>2. CASE quiet' = 0
    BY <1>1, <2>2 DEF BehindInv
  <2> QED
    BY <1>3, <2>1, <2>2
<1> QED
  BY <1>5, <1>7, <1>8, <1>9, <1>10 DEF ScheduleInv

\* One that meets the backup keeps it: a backup is there only after a fault.
LEMMA RefusedInv ==
  ASSUME ScheduleInv, NEW pair \in Left, Deploying(pair), Refused(pair)
  PROVE  ScheduleInv'
<1> USE ScheduleAssumption DEF Left, Down
<1>0. TypeOK
  BY DEF ScheduleInv
<1>1. /\ backup /\ backup' = backup /\ current' = pair /\ owner' = owner /\ lineage' = pair
      /\ outcome' = "refused" /\ overtaken' = overtaken /\ faults' = faults
  BY <1>0, RefusedFacts DEF Deploying
<1>2. PICK late \in SUBSET Public :
         /\ serving' \in [Services -> Left \cup {Down}]
         /\ \A s \in late : serving'[s] = File(s)
         /\ \A s \in Public \ late : serving'[s] \in {Down, pair}
         /\ serving'[Server] = Down
         /\ IF late = {} THEN raced' = raced /\ quiet' = quiet ELSE raced' = TRUE /\ quiet' = 0
  BY <1>0, RefusedFacts
<1>3. quiet' \in {0, quiet} /\ (late = {} \/ quiet' = 0)
  BY <1>2
<1>4. /\ raced' \in BOOLEAN /\ backup' \in BOOLEAN
      /\ ~raced' => late = {} /\ ~raced
  <2>1. CASE late = {}
    BY <1>0, <1>1, <1>2, <2>1, Zenon DEF TypeOK
  <2>2. CASE late # {}
    BY <1>0, <1>1, <1>2, <2>2, Zenon DEF TypeOK
  <2> QED
    BY <2>1, <2>2
<1>5. TypeOK'
  <2>1. lineage' \in Left /\ ran' \in BOOLEAN /\ missed' \in 0 .. faults'
    BY <1>0, <1>1, DeployingTypes
  <2>2. quiet' \in 0 .. Lifetime
    BY <1>0, <1>3 DEF TypeOK
  <2> QED
    BY <1>0, <1>1, <1>2, <1>4, <2>1, <2>2 DEF TypeOK
<1>6. SettledInv'
  BY <1>1 DEF SettledInv
<1>7. RenewedInv'
  BY <1>0, <1>1, <1>3 DEF RenewedInv, ScheduleInv, Deploying, TypeOK
<1>8. FaultInv'
  <2>1. faults # 0 /\ faults' # 0
    BY <1>1, AllFresh
  <2>2. ASSUME Calm'
        PROVE  /\ Recent(current)' /\ \A s \in Public : Recent(serving[s])'
               /\ missed' > 0 => \A s \in Services : Fresh(s)'
    <3>1. late = {} /\ Calm
      BY <1>0, <1>1, <1>4, <2>1, <2>2 DEF Calm, TypeOK
    <3>2. \A s \in Public : serving'[s] \in {Down, pair}
      BY <1>2, <3>1
    <3>3. Recent(current)' /\ \A s \in Public : Recent(serving[s])'
      BY <1>1, <3>2 DEF Recent
    <3>4. ASSUME missed' > 0
          PROVE  owner = pair
      <4>1. missed > 0 /\ pair = lineage
        BY <3>4 DEF Deploying
      <4>2. Fresh(Server)
        BY <3>1, <4>1 DEF ScheduleInv, FaultInv, Services
      <4> QED
        BY <4>1, <4>2 DEF Fresh, File
    <3>5. missed' > 0 => \A s \in Services : Fresh(s)'
      BY <1>1, <1>2, <3>2, <3>4 DEF Fresh, File, Services
    <3> QED
      BY <3>3, <3>5
  <2> QED
    BY <1>1, <2>1, <2>2 DEF FaultInv
<1>9. BehindInv'
  <2>1. CASE late = {}
    <3>1. \A s \in Public : Fresh(s)'
      BY <1>1, <1>2, <2>1 DEF Fresh, File
    <3> QED
      BY <1>1, <3>1 DEF BehindInv, PublicBehind, ServerBehind
  <2>2. CASE quiet' = 0
    BY <1>1, <2>2 DEF BehindInv
  <2> QED
    BY <1>3, <2>1, <2>2
<1> QED
  BY <1>5, <1>6, <1>7, <1>8, <1>9 DEF ScheduleInv

\* One that fails keeps it: the first fault finds everything one renewal behind at most.
LEMMA FailedInv ==
  ASSUME ScheduleInv, NEW pair \in Left, Deploying(pair), Failed(pair)
  PROVE  ScheduleInv'
<1> USE ScheduleAssumption DEF Left, Down
<1>0. TypeOK
  BY DEF ScheduleInv
<1>1. /\ current' \in {current, pair} /\ owner' \in {owner, pair, current}
      /\ backup' \in BOOLEAN /\ outcome' = "failed" /\ lineage' = pair
      /\ overtaken' = overtaken /\ raced' = raced
      /\ serving' \in [Services -> Left \cup {Down}]
      /\ \A s \in Public : serving'[s] \in {serving[s], current, pair, Down}
      /\ serving'[Server] \in {serving[Server], owner, current, pair, Down}
      /\ faults' \in 0 .. MaxFaults /\ faults' = faults + 1 /\ quiet' = 0
  BY <1>0, FailedFacts DEF Deploying
<1>2. raced' \in BOOLEAN
  BY <1>0, <1>1, Zenon DEF TypeOK
<1>3. TypeOK'
  <2>1. lineage' \in Left /\ ran' \in BOOLEAN /\ missed' \in 0 .. faults'
    BY <1>0, <1>1, DeployingTypes
  <2>2. current' \in Left /\ owner' \in Left /\ overtaken' \subseteq Services
    BY <1>0, <1>1 DEF TypeOK
  <2> QED
    BY <1>1, <1>2, <2>1, <2>2 DEF TypeOK
<1>4. SettledInv'
  BY <1>1 DEF SettledInv
<1>5. RenewedInv'
  BY <1>0, <1>1 DEF RenewedInv, ScheduleInv, Deploying, TypeOK
<1>6. FaultInv'
  <2>1. faults' # 0
    BY <1>0, <1>1 DEF TypeOK
  <2>2. ASSUME Calm'
        PROVE  /\ Recent(current)' /\ \A s \in Services : Recent(serving[s])'
               /\ Recent(owner)'
               /\ missed' = 0
    <3>1. faults = 0 /\ ~raced
      <4>1. faults' # 0 /\ ~raced'
        BY <2>1, <2>2 DEF Calm
      <4>2. faults = 0
        BY <1>0, <1>1, <2>2 DEF Calm, TypeOK
      <4> QED
        BY <1>1, <4>1, <4>2, Zenon
    <3>2. /\ current = lineage /\ owner = lineage /\ missed = 0 /\ missed' = 0
          /\ \A s \in Services : serving[s] \in {lineage, Down}
      BY <3>1, AllFresh DEF Deploying, Fresh
    <3>3. lineage >= lineage' - (Lifetime - RenewBefore)
      BY <1>0, <3>2 DEF Deploying, ScheduleInv, RenewedInv, TypeOK
    <3>4. \A s \in Services : serving'[s] \in {lineage, pair, Down}
      BY <1>1, <3>2 DEF Services
    <3> QED
      BY <1>0, <1>1, <3>2, <3>3, <3>4 DEF Recent, TypeOK
  <2> QED
    BY <2>1, <2>2 DEF FaultInv, Services
<1>7. BehindInv'
  BY <1>1 DEF BehindInv
<1> QED
  BY <1>3, <1>4, <1>5, <1>6, <1>7 DEF ScheduleInv

-----------------------------------------------------------------------------
(***************************************************************************)
(* The other steps.                                                        *)
(***************************************************************************)
LEMMA InitInv ==
  Init => ScheduleInv
<1> SUFFICES ASSUME Init PROVE ScheduleInv
  OBVIOUS
<1> USE ScheduleAssumption DEF Init, Left, Down
<1>1. TypeOK
  <2>1. backup \in BOOLEAN /\ ran \in BOOLEAN /\ raced \in BOOLEAN
    BY Zenon
  <2> QED
    BY <2>1 DEF TypeOK
<1>2. \A s \in Services : Fresh(s) /\ serving[s] = Down
  BY DEF Fresh, File
<1>3. SettledInv /\ BehindInv
  BY <1>2 DEF SettledInv, BehindInv, PublicBehind, ServerBehind, Services
<1>4. RenewedInv
  BY DEF RenewedInv
<1>5. FaultInv
  BY <1>2 DEF FaultInv, Recent, Services
<1> QED
  BY <1>1, <1>3, <1>4, <1>5 DEF ScheduleInv

\* A renewal that is issued deploys the pair that succeeds.
LEMMA IssueFacts ==
  ASSUME Issue
  PROVE  Deploying(Lifetime) /\ Lifetime \in Left
<1>1. Deploying(Lifetime)
  BY Zenon DEF Issue, Due, Deploying
<1>2. Lifetime \in Left
  BY ScheduleAssumption DEF Left
<1> QED
  BY <1>1, <1>2

LEMMA RenewInv ==
  ASSUME ScheduleInv, Renew \/ DeployFails \/ Rerun
  PROVE  ScheduleInv'
<1>0. TypeOK /\ Accepted(Lifetime)
  BY ScheduleAssumption DEF ScheduleInv, Accepted
<1>1. CASE Renew
  BY <1>0, <1>1, IssueFacts, DeployedInv, RefusedInv DEF Renew
<1>2. CASE DeployFails
  BY <1>2, IssueFacts, FailedInv DEF DeployFails
<1>3. CASE Rerun
  <2>1. Deploying(lineage) /\ lineage \in Left
    BY <1>0, <1>3 DEF Rerun, Deploying, TypeOK
  <2> QED
    BY <1>3, <2>1, DeployedInv, RefusedInv, FailedInv DEF Rerun
<1> QED
  BY <1>1, <1>2, <1>3

\* A run that finds nothing due.
LEMMA NotDueInv ==
  ASSUME ScheduleInv, NotDue
  PROVE  ScheduleInv'
<1> USE ScheduleAssumption DEF Left, Down, NotDue, inUse
<1>1. TypeOK /\ TypeOK'
  BY DEF ScheduleInv, TypeOK
<1>2. SettledInv'
  BY DEF ScheduleInv, SettledInv, Fresh, File
<1>3. RenewedInv'
  BY <1>1 DEF ScheduleInv, RenewedInv, Due, TypeOK
<1>4. FaultInv'
  BY DEF ScheduleInv, FaultInv, Calm, Recent, Fresh, File
<1>5. BehindInv'
  BY DEF ScheduleInv, BehindInv, PublicBehind, ServerBehind, Fresh, File
<1> QED
  BY <1>1, <1>2, <1>3, <1>4, <1>5 DEF ScheduleInv

\* A renewal that does not come: the first one missed finds everything on the newest pair.
LEMMA IssueFailsInv ==
  ASSUME ScheduleInv, IssueFails
  PROVE  ScheduleInv'
<1> USE ScheduleAssumption DEF Left, Down, IssueFails, inUse
<1>0. TypeOK
  BY DEF ScheduleInv
<1>1. faults' \in 0 .. MaxFaults /\ faults' = faults + 1 /\ quiet' = 0
  BY <1>0, FaultFacts
<1>2. TypeOK'
  BY <1>0, <1>1 DEF TypeOK
<1>3. SettledInv'
  BY DEF ScheduleInv, SettledInv, Fresh, File
<1>4. RenewedInv'
  BY <1>0, <1>1 DEF ScheduleInv, RenewedInv, TypeOK
<1>5. FaultInv'
  <2>1. faults' # 0
    BY <1>0, <1>1 DEF TypeOK
  <2>2. ASSUME Calm'
        PROVE  /\ current = lineage /\ owner = lineage
               /\ \A s \in Services : Fresh(s) /\ serving[s] \in {lineage, Down}
    <3>1. faults' # 0 /\ ~raced'
      BY <2>1, <2>2 DEF Calm
    <3>2. faults = 0 /\ ~raced
      BY <1>0, <1>1, <2>2, <3>1 DEF Calm, TypeOK
    <3> QED
      BY <3>2, AllFresh DEF Fresh
  <2>3. Calm' => Recent(current)' /\ Recent(owner)' /\ \A s \in Services : Recent(serving[s])'
    BY <1>0, <2>2 DEF Recent, TypeOK
  <2>4. Calm' => current' = lineage' /\ \A s \in Services : Fresh(s)'
    BY <2>2 DEF Fresh, File
  <2> QED
    BY <2>1, <2>3, <2>4 DEF FaultInv, Services
<1>6. BehindInv'
  BY <1>0, <1>1 DEF BehindInv, TypeOK
<1> QED
  BY <1>2, <1>3, <1>4, <1>5, <1>6 DEF ScheduleInv

\* A refresh that succeeds: the server has what is current, or has come up too early.
LEMMA RefreshOwnerInv ==
  ASSUME ScheduleInv, RefreshOwner
  PROVE  ScheduleInv'
<1> USE ScheduleAssumption DEF Left, Down
<1>0. TypeOK
  BY DEF ScheduleInv
<1>1. PICK late \in Late({Server}, current) :
         /\ serving' = [serving EXCEPT ![Server] = Restarted(current, current, late)[Server]]
         /\ overtaken' = (overtaken \ {Server}) \cup late
         /\ Raced(late)
  BY DEF RefreshOwner
<1>2. /\ ~backup /\ backup' = backup /\ owner' = current
      /\ lineage' = lineage /\ current' = current /\ ran' = ran
      /\ outcome' = outcome /\ missed' = missed /\ faults' = faults
  BY DEF RefreshOwner
<1>3. late \in SUBSET {Server}
  BY DEF Late
<1>4. /\ serving' \in [Services -> Left \cup {Down}]
      /\ \A s \in Public : serving'[s] = serving[s]
      /\ serving'[Server] \in {Down, current, owner}
      /\ late = {} => serving'[Server] \in {Down, current}
  BY <1>0, <1>1 DEF Restarted, File, TypeOK, Services
<1>5. /\ raced' \in BOOLEAN /\ backup' \in BOOLEAN /\ ran' \in BOOLEAN
      /\ ~raced' => late = {} /\ ~raced
  <2>1. CASE late = {}
    BY <1>0, <1>1, <1>2, <2>1, Zenon DEF TypeOK, Raced
  <2>2. CASE late # {}
    BY <1>0, <1>1, <1>2, <2>2, Zenon DEF TypeOK, Raced
  <2> QED
    BY <2>1, <2>2
<1>6. IF late = {} THEN quiet' = quiet ELSE quiet' = 0
  BY <1>1 DEF Raced
<1>7. TypeOK'
  BY <1>0, <1>1, <1>2, <1>3, <1>4, <1>5, <1>6 DEF TypeOK, Services
<1>8. \A s \in Public : Fresh(s) <=> Fresh(s)'
  BY <1>2, <1>4 DEF Fresh, File
<1>9. late = {} /\ current = lineage => Fresh(Server)'
  BY <1>2, <1>4 DEF Fresh, File
<1>10. SettledInv'
  BY <1>1, <1>2, <1>3, <1>8, <1>9 DEF ScheduleInv, SettledInv, Services
<1>11. RenewedInv'
  BY <1>0, <1>2, <1>6 DEF ScheduleInv, RenewedInv, TypeOK
<1>12. FaultInv'
  <2>1. ASSUME faults' = 0
        PROVE  /\ outcome' = "deployed" /\ missed' = 0 /\ owner' = lineage' /\ ~backup'
               /\ ~raced' => overtaken' = {}
    <3>1. faults = 0 /\ outcome = "deployed"
      BY <1>2, <2>1 DEF ScheduleInv, FaultInv
    <3>2. ~raced' => overtaken' = {}
      BY <1>1, <1>5, <3>1, AllFresh
    <3> QED
      BY <1>2, <3>1, <3>2, AllFresh
  <2>2. ASSUME Calm'
        PROVE  /\ Calm
               /\ missed' > 0 => late = {}
    <3>1. CASE faults = 0
      BY <1>2, <3>1, AllFresh DEF Calm
    <3>2. CASE faults # 0
      <4>1. faults = 1 /\ ~raced'
        BY <1>2, <2>2, <3>2 DEF Calm
      <4> QED
        BY <1>5, <4>1 DEF Calm
    <3> QED
      BY <3>1, <3>2
  <2>3. ASSUME Calm'
        PROVE  /\ Recent(current)' /\ \A s \in Public : Recent(serving[s])'
               /\ outcome' # "refused" => Recent(owner)' /\ Recent(serving[Server])'
    BY <1>0, <1>2, <1>4, <2>2, <2>3 DEF ScheduleInv, FaultInv, Recent, TypeOK
  <2>4. ASSUME Calm', missed' > 0
        PROVE  current' = lineage' /\ \A s \in Services : Fresh(s)'
    BY <1>2, <1>8, <1>9, <2>2, <2>4 DEF ScheduleInv, FaultInv, Services
  <2> QED
    BY <2>1, <2>3, <2>4 DEF FaultInv
<1>13. BehindInv'
  <2>1. CASE late = {}
    BY <1>2, <1>6, <1>8, <1>9, <2>1 DEF ScheduleInv, BehindInv, PublicBehind, ServerBehind
  <2>2. CASE late # {}
    BY <1>0, <1>2, <1>6, <2>2 DEF BehindInv, TypeOK
  <2> QED
    BY <2>1, <2>2
<1> QED
  BY <1>7, <1>10, <1>11, <1>12, <1>13 DEF ScheduleInv

\* A service that is stopped, by an operator or by a refresh that meets the backup.
LEMMA StoppedInv ==
  ASSUME ScheduleInv, NEW s \in Services,
         serving' = [serving EXCEPT ![s] = Down],
         UNCHANGED <<lineage, current, owner, backup, ran, outcome, overtaken, raced,
                     missed, quiet, faults>>
  PROVE  ScheduleInv'
<1> USE ScheduleAssumption DEF Left, Down
<1>0. TypeOK
  BY DEF ScheduleInv
<1>1. TypeOK'
  BY <1>0 DEF TypeOK
<1>2. \A t \in Services : /\ serving'[t] = (IF t = s THEN Down ELSE serving[t])
                          /\ Fresh(t) => Fresh(t)'
  BY <1>0 DEF TypeOK, Fresh, File
<1>3. SettledInv' /\ RenewedInv'
  BY <1>2 DEF ScheduleInv, SettledInv, RenewedInv
<1>4. FaultInv'
  BY <1>0, <1>2 DEF ScheduleInv, FaultInv, Calm, Recent, TypeOK, Services
<1>5. BehindInv'
  BY <1>2 DEF ScheduleInv, BehindInv, PublicBehind, ServerBehind, Services
<1> QED
  BY <1>1, <1>3, <1>4, <1>5 DEF ScheduleInv

\* One that starts.
LEMMA LoadInv ==
  ASSUME ScheduleInv, NEW s \in Services, Load(s)
  PROVE  ScheduleInv'
<1> USE ScheduleAssumption DEF Left, Down, Load
<1>0. TypeOK /\ File(s) \in Left
  BY DEF ScheduleInv, TypeOK, File
<1>1. TypeOK'
  BY <1>0 DEF TypeOK
<1>2. \A t \in Services : /\ serving'[t] = (IF t = s THEN File(s) ELSE serving[t])
                          /\ File(t)' = File(t)
                          /\ Fresh(t) => Fresh(t)'
  BY <1>0 DEF TypeOK, Fresh, File
<1>3. s \in Services \ overtaken' /\ s \in overtaken => Fresh(s)'
  BY <1>2 DEF Fresh
<1>4. overtaken \ {s} \subseteq overtaken' /\ overtaken' \subseteq overtaken
  OBVIOUS
<1>5. SettledInv'
  BY <1>2, <1>3, <1>4 DEF ScheduleInv, SettledInv
<1>6. RenewedInv'
  BY DEF ScheduleInv, RenewedInv
<1>7. FaultInv'
  BY <1>0, <1>2, <1>4 DEF ScheduleInv, FaultInv, Calm, Recent, File, TypeOK, Services
<1>8. BehindInv'
  BY <1>2 DEF ScheduleInv, BehindInv, PublicBehind, ServerBehind, Services
<1> QED
  BY <1>1, <1>5, <1>6, <1>7, <1>8 DEF ScheduleInv

\* A refresh that fails: the first fault finds everything on the newest pair, or nothing
\* is promised.
LEMMA RefreshFailsInv ==
  ASSUME ScheduleInv, RefreshFails
  PROVE  ScheduleInv'
<1> USE ScheduleAssumption DEF Left, Down
<1>0. TypeOK
  BY DEF ScheduleInv
<1>1. /\ lineage' = lineage /\ current' = current /\ ran' = ran /\ missed' = missed
      /\ outcome' = outcome /\ overtaken' = overtaken /\ raced' = raced
      /\ owner' \in {owner, current}
      /\ faults' \in 0 .. MaxFaults /\ faults' = faults + 1 /\ quiet' = 0
  BY <1>0, FaultFacts DEF RefreshFails
<1>2. PICK v \in {serving[Server], owner, current, Down} : serving' = [serving EXCEPT ![Server] = v]
  BY DEF RefreshFails
<1>3. /\ serving' \in [Services -> Left \cup {Down}]
      /\ \A s \in Public : serving'[s] = serving[s]
      /\ serving'[Server] \in {serving[Server], owner, current, Down}
  BY <1>0, <1>2 DEF TypeOK, Services
<1>4. backup' \in BOOLEAN /\ ran' \in BOOLEAN /\ raced' \in BOOLEAN
  BY <1>0, <1>1, Zenon DEF RefreshFails, TypeOK
<1>5. TypeOK'
  BY <1>0, <1>1, <1>3, <1>4 DEF TypeOK
<1>6. SettledInv'
  BY <1>1, <1>3 DEF ScheduleInv, SettledInv, Fresh, File, Services
<1>7. RenewedInv'
  BY <1>0, <1>1 DEF ScheduleInv, RenewedInv, TypeOK
<1>8. FaultInv'
  <2>1. faults' # 0
    BY <1>0, <1>1 DEF TypeOK
  <2>2. ASSUME Calm'
        PROVE  /\ current = lineage /\ owner = lineage /\ missed = 0
               /\ \A s \in Services : serving[s] \in {lineage, Down}
    <3>1. faults' # 0 /\ ~raced'
      BY <2>1, <2>2 DEF Calm
    <3>2. faults = 0
      BY <1>0, <1>1, <2>2, <3>1 DEF Calm, TypeOK
    <3>3. ~raced
      BY <1>1, <3>1, Zenon
    <3> QED
      BY <3>2, <3>3, AllFresh DEF Fresh
  <2>3. ASSUME Calm'
        PROVE  /\ Recent(current)' /\ Recent(owner)' /\ missed' = 0
               /\ \A s \in Services : Recent(serving[s])'
    <3>1. \A s \in Services : serving'[s] \in {lineage, Down}
      BY <1>3, <2>2, <2>3 DEF Services
    <3> QED
      BY <1>0, <1>1, <2>2, <2>3, <3>1 DEF Recent, TypeOK
  <2> QED
    BY <2>1, <2>3 DEF FaultInv, Services
<1>9. BehindInv'
  BY <1>0, <1>1 DEF BehindInv, TypeOK
<1> QED
  BY <1>5, <1>6, <1>7, <1>8, <1>9 DEF ScheduleInv

\* A backup that is repaired: it was there, so there was a fault.
LEMMA RepairInv ==
  ASSUME ScheduleInv, Repair
  PROVE  ScheduleInv'
<1> USE ScheduleAssumption DEF Left, Down, Repair
<1>1. TypeOK /\ TypeOK'
  <2>1. backup' \in BOOLEAN
    BY Zenon
  <2> QED
    BY <2>1 DEF ScheduleInv, TypeOK
<1>2. faults # 0
  BY AllFresh
<1>3. SettledInv' /\ RenewedInv'
  BY DEF ScheduleInv, SettledInv, RenewedInv, Fresh, File
<1>4. FaultInv'
  BY <1>2 DEF ScheduleInv, FaultInv, Calm, Recent, Fresh, File
<1>5. BehindInv'
  BY <1>1 DEF BehindInv, TypeOK
<1> QED
  BY <1>1, <1>3, <1>4, <1>5 DEF ScheduleInv

\* A period with the host on ends after its run.
LEMMA TickInv ==
  ASSUME ScheduleInv, Tick
  PROVE  ScheduleInv'
<1> USE ScheduleAssumption
<1>0. TypeOK
  BY DEF ScheduleInv
<1>1. /\ ran /\ ran' = FALSE
      /\ lineage' = Older(lineage) /\ current' = Older(current) /\ owner' = Older(owner)
      /\ serving' = [s \in Services |-> Older(serving[s])]
      /\ outcome' = outcome /\ overtaken' = overtaken /\ raced' = raced
      /\ backup' = backup /\ missed' = missed /\ faults' = faults
  BY DEF Tick, Pass
<1>2. quiet \in 0 .. Lifetime /\ quiet' \in 0 .. Lifetime /\ quiet' <= quiet + 1
  BY <1>0 DEF Tick, TypeOK
<1>3. /\ \A s \in Services : serving[s] \in Left \cup {Down}
      /\ lineage \in Left /\ current \in Left /\ owner \in Left
  BY <1>0 DEF TypeOK
<1>4. \A s \in Services : serving'[s] = Older(serving[s]) /\ serving'[s] \in Left \cup {Down}
  BY <1>1, <1>3, OlderFacts
<1>5. TypeOK'
  <2>1. ran' \in BOOLEAN
    BY <1>1, Zenon
  <2>2. serving' \in [Services -> Left \cup {Down}]
    BY <1>1, <1>4
  <2> QED
    BY <1>0, <1>1, <1>2, <1>3, <2>1, <2>2, OlderFacts DEF TypeOK
<1>6. \A s \in Services : File(s)' = Older(File(s)) /\ (Fresh(s) => Fresh(s)')
  BY <1>1, <1>4, OlderFacts DEF Fresh, File
<1>7. SettledInv'
  BY <1>1, <1>6 DEF ScheduleInv, SettledInv
<1>8. RenewedInv'
  <2>1. lineage + missed > RenewBefore /\ missed \in Nat /\ (quiet > 0 => lineage > RenewBefore)
    BY <1>0, <1>1, <1>2 DEF ScheduleInv, RenewedInv, TypeOK
  <2>2. quiet' > 1 => lineage' >= RenewBefore
    BY <1>1, <1>2, <1>3, <2>1, QuietPeriod
  <2>3. lineage' + missed' >= RenewBefore
    BY <1>1, <1>3, <2>1, OlderFacts DEF Left
  <2> QED
    BY <1>1, <2>2, <2>3 DEF RenewedInv
<1>9. \A left \in Left \cup {Down} : Recent(left) => Recent(Older(left))'
  BY <1>1, <1>3, OlderFacts DEF Recent, Left, Down
<1>10. FaultInv'
  BY <1>1, <1>3, <1>4, <1>6, <1>9 DEF ScheduleInv, FaultInv, Calm, Recent, Services
<1>11. BehindInv'
  <2>1. quiet + lineage <= Lifetime => quiet' + lineage' <= Lifetime
    <3>1. quiet > 0 => lineage > RenewBefore
      BY <1>1, <1>2 DEF ScheduleInv, RenewedInv
    <3> QED
      BY <1>1, <1>2, <1>3, <3>1, QuietPeriod
  <2>2. (PublicBehind \/ ServerBehind)' => PublicBehind \/ ServerBehind
    BY <1>1, <1>6 DEF PublicBehind, ServerBehind, Services
  <2> QED
    BY <2>1, <2>2 DEF ScheduleInv, BehindInv
<1> QED
  BY <1>5, <1>7, <1>8, <1>10, <1>11 DEF ScheduleInv

\* A period without power: the first fault, or nothing is promised.
LEMMA TickOffInv ==
  ASSUME ScheduleInv, TickOff
  PROVE  ScheduleInv'
<1> USE ScheduleAssumption
<1>0. TypeOK
  BY DEF ScheduleInv
<1>1. /\ lineage' = Older(lineage) /\ current' = Older(current) /\ owner' = Older(owner)
      /\ serving' = [s \in Services |-> Down]
      /\ ran' = FALSE /\ outcome' = outcome /\ overtaken' = overtaken /\ raced' = raced
      /\ backup' \in BOOLEAN
      /\ missed' = IF lineage <= RenewBefore THEN missed + 1 ELSE missed
      /\ faults' \in 0 .. MaxFaults /\ faults' = faults + 1 /\ quiet' = 0
  BY <1>0, FaultFacts DEF TickOff, Pass
<1>2. /\ lineage \in Left /\ current \in Left /\ owner \in Left
      /\ missed \in 0 .. faults /\ faults \in Nat
  BY <1>0 DEF TypeOK
<1>3. TypeOK'
  <2>1. ran' \in BOOLEAN /\ raced' \in BOOLEAN
    BY <1>0, <1>1, Zenon DEF TypeOK
  <2>2. missed' \in 0 .. faults'
    BY <1>1, <1>2
  <2>3. lineage' \in Left /\ current' \in Left /\ owner' \in Left
    BY <1>1, <1>2, OlderFacts
  <2> QED
    BY <1>0, <1>1, <2>1, <2>2, <2>3 DEF TypeOK
<1>4. \A s \in Services : serving'[s] = Down /\ File(s)' = Older(File(s)) /\ (Fresh(s) => Fresh(s)')
  BY <1>1 DEF Fresh, File
<1>5. SettledInv'
  BY <1>1, <1>4 DEF ScheduleInv, SettledInv
<1>6. RenewedInv'
  <2>1. lineage' + missed' >= RenewBefore
    BY <1>1, <1>2, OlderFacts DEF ScheduleInv, RenewedInv, Left
  <2> QED
    BY <1>1, <2>1 DEF RenewedInv
<1>7. FaultInv'
  <2>1. faults' # 0
    BY <1>1, <1>2
  <2>2. ASSUME Calm'
        PROVE  current = lineage /\ owner = lineage /\ \A s \in Services : Fresh(s)'
    <3>1. faults' # 0 /\ ~raced'
      BY <2>1, <2>2 DEF Calm
    <3>2. faults = 0
      BY <1>1, <1>2, <2>2, <3>1 DEF Calm
    <3>3. ~raced
      BY <1>1, <3>1, Zenon
    <3> QED
      BY <1>4, <3>2, <3>3, AllFresh
  <2>3. ASSUME Calm'
        PROVE  Recent(current)' /\ Recent(owner)' /\ \A s \in Services : Recent(serving[s])'
    BY <1>1, <1>2, <1>4, <2>2, <2>3, OlderFacts DEF Recent, Left, Down
  <2>4. Calm' => current' = lineage'
    BY <1>1, <2>2
  <2> QED
    BY <2>1, <2>2, <2>3, <2>4 DEF FaultInv, Services
<1>8. BehindInv'
  BY <1>1, <1>2, OlderFacts DEF BehindInv, Left
<1> QED
  BY <1>3, <1>5, <1>6, <1>7, <1>8 DEF ScheduleInv

-----------------------------------------------------------------------------
(***************************************************************************)
(* The invariant, and what it bounds.                                      *)
(***************************************************************************)
LEMMA NextInv ==
  ScheduleInv /\ [Next]_vars => ScheduleInv'
<1> SUFFICES ASSUME ScheduleInv, [Next]_vars PROVE ScheduleInv'
  OBVIOUS
<1>1. CASE NotDue
  BY <1>1, NotDueInv
<1>2. CASE Renew \/ DeployFails \/ Rerun
  BY <1>2, RenewInv
<1>3. CASE IssueFails
  BY <1>3, IssueFailsInv
<1>4. CASE RefreshOwner
  BY <1>4, RefreshOwnerInv
<1>5. CASE RefreshRefused
  BY <1>5, StoppedInv DEF RefreshRefused, Services
<1>6. CASE RefreshFails
  BY <1>6, RefreshFailsInv
<1>7. CASE Repair
  BY <1>7, RepairInv
<1>8. ASSUME NEW s \in Services, Load(s) \/ Stop(s)
      PROVE  ScheduleInv'
  <2>1. CASE Load(s)
    BY <2>1, LoadInv
  <2>2. CASE Stop(s)
    BY <2>2, StoppedInv DEF Stop
  <2> QED
    BY <1>8, <2>1, <2>2
<1>9. CASE Tick
  BY <1>9, TickInv
<1>10. CASE TickOff
  BY <1>10, TickOffInv
<1>11. CASE UNCHANGED vars
  BY <1>11 DEF vars, ScheduleInv, TypeOK, SettledInv, RenewedInv, FaultInv, Calm, Recent,
               BehindInv, PublicBehind, ServerBehind, Fresh, File
<1> QED
  BY <1>1, <1>2, <1>3, <1>4, <1>5, <1>6, <1>7, <1>8, <1>9, <1>10, <1>11 DEF Next

\* The age of everything in use is bounded by what has failed and what deployments have
\* overtaken, whatever order renewals, refreshes, starts, stops and repairs come in.
THEOREM ScheduleInvHolds == Spec => []ScheduleInv
  BY InitInv, NextInv, PTL DEF Spec

\* An expired certificate is presented only after a failure that Certbot has logged, or by
\* a service whose start the last deployment has overtaken, or whose refresh it has joined.
THEOREM ExpiryAnnounced == Spec => []ExpiryWasAnnounced
<1>1. ScheduleInv => ExpiryWasAnnounced
  <2> SUFFICES ASSUME ScheduleInv, NEW s \in Services, serving[s] = 0,
                      outcome = "deployed", s \notin overtaken
               PROVE  missed >= RenewBefore
    BY DEF ExpiryWasAnnounced
  <2>1. lineage = 0
    BY ScheduleAssumption DEF ScheduleInv, SettledInv, Fresh, Down
  <2> QED
    BY <2>1 DEF ScheduleInv, RenewedInv, TypeOK
<1> QED
  BY <1>1, ScheduleInvHolds, PTL

\* One fault, or starts that deployments overtake without one, expire nothing that the
\* timer's next run does not mend, but a server that waits for a repair.
THEOREM OneFailureIsMended == Spec => []OneFailureMended
<1>1. ScheduleInv => OneFailureMended
  <2> SUFFICES ASSUME ScheduleInv, Calm, Lifetime <= 2 * RenewBefore,
                      NEW s \in Services, serving[s] = 0, ran,
                      s = Server => outcome # "refused"
               PROVE  FALSE
    BY DEF OneFailureMended
  <2> USE ScheduleAssumption
  <2>1. /\ lineage \in 0 .. Lifetime /\ missed \in 0 .. 1
        /\ lineage + missed > RenewBefore
    BY DEF ScheduleInv, TypeOK, RenewedInv, Calm, Left
  <2>2. Recent(0)
    BY DEF ScheduleInv, FaultInv, Services
  <2>3. CASE missed = 0
    BY <2>1, <2>2, <2>3 DEF Recent
  <2>4. CASE missed # 0
    <3>1. Fresh(s)
      BY <2>1, <2>4 DEF ScheduleInv, FaultInv
    <3> QED
      BY <2>1, <3>1 DEF Fresh, Down
  <2> QED
    BY <2>3, <2>4
<1> QED
  BY <1>1, ScheduleInvHolds, PTL

\* Nothing stays on an older pair for longer than a pair is in use before it is due, when
\* nothing disturbs the deployments for that long.
THEOREM HealsInTime == Spec => []HealedInTime
<1>1. ScheduleInv => HealedInTime
  <2> SUFFICES ASSUME ScheduleInv, quiet > Lifetime - RenewBefore
               PROVE  /\ lineage >= RenewBefore
                      /\ ~(PublicBehind \/ ServerBehind)
    BY DEF HealedInTime, PublicBehind, ServerBehind
  <2> USE ScheduleAssumption
  <2>1. quiet \in Nat /\ quiet > 1 /\ lineage \in Nat
    BY DEF ScheduleInv, TypeOK, Left
  <2>2. lineage >= RenewBefore
    BY <2>1 DEF ScheduleInv, RenewedInv
  <2>3. ~(quiet + lineage <= Lifetime)
    BY <2>1, <2>2
  <2> QED
    BY <2>2, <2>3 DEF ScheduleInv, BehindInv
<1> QED
  BY <1>1, ScheduleInvHolds, PTL

=============================================================================
