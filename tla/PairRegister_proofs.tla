------------------------- MODULE PairRegister_proofs -------------------------
(***************************************************************************)
(* tls/current implements the register of whole pairs: every step of       *)
(* IpDeploy is a step of PairRegister or leaves the register alone.        *)
(***************************************************************************)
EXTENDS IpDeploy_proofs

-----------------------------------------------------------------------------
(***************************************************************************)
(* No copy is newer than the lineage.  Absent and Torn are older than any  *)
(* version.                                                                *)
(***************************************************************************)
IssuedInv ==
  /\ \A h \in Hooks : job[h].snap["cert"] <= lineage["cert"]
  /\ \A g \in Names : \A p \in pairLog[g] : p["cert"] <= lineage["cert"]

\* What the certificate of a pair can be, and what an update makes of it.
LEMMA CertFacts ==
  ASSUME NEW p \in Pair, NEW f \in File, NEW v \in Version \cup {Absent, Torn}
  PROVE  /\ p["cert"] \in Int
         /\ [p EXCEPT ![f] = v]["cert"] \in {p["cert"], v}
BY DEF Pair, File, Version, Absent, Torn

\* The contents of a generation a step of a hook adds.
LEMMA IssuedStep ==
  ASSUME TypeOK, TypeOK', IssuedInv, NEW g \in Names, lineage'["cert"] = lineage["cert"],
         \A h \in Hooks : job'[h].snap["cert"] <= lineage["cert"],
         \A k \in Names \ {g} : pairLog'[k] \subseteq pairLog[k] \cup {Empty},
         \A p \in pairLog'[g] : p["cert"] <= lineage["cert"]
  PROVE  IssuedInv'
<1>1. Empty["cert"] <= lineage["cert"]
  BY DEF TypeOK, Empty, File, Version, Absent
<1> QED
  BY <1>1 DEF IssuedInv

\* Only the copies through Certbot's links bring in anything newer.
LEMMA IssuedNext == DeployInv /\ IssuedInv /\ [Next]_vars => IssuedInv'
<1> SUFFICES ASSUME DeployInv, IssuedInv, [Next]_vars PROVE IssuedInv'
  OBVIOUS
<1>a. TypeOK /\ TypeOK'
  BY NextType DEF DeployInv
<1>b. lineage["cert"] \in Version /\ lineage'["cert"] \in Version
  BY <1>a DEF TypeOK, File
<1>c. NoJob.snap["cert"] <= lineage["cert"] /\ Empty["cert"] <= lineage["cert"]
      /\ Absent <= lineage["cert"] /\ Torn <= lineage["cert"]
  BY <1>b DEF NoJob, Empty, File, Version, Absent, Torn
<1>d. ASSUME NEW h \in Hooks, Leave(h)
      PROVE  \A k \in Hooks : job'[k].snap["cert"] <= lineage["cert"]
  BY <1>d, <1>a, <1>c DEF Leave, IssuedInv, TypeOK
<1>e. ASSUME UNCHANGED <<lineage, pairLog>>,
             \A h \in Hooks : job'[h].snap["cert"] <= lineage["cert"]
      PROVE  IssuedInv'
  BY <1>e DEF IssuedInv
<1>f. \A h \in Hooks : job[h] \in Job /\ job[h].snap \in Pair
  BY <1>a, JobFields DEF TypeOK
<1>1. ASSUME NEW h \in Hooks,
             \/ Validate(h) \/ Stage(h) \/ Replace(h) \/ Unlink(h) \/ SyncRoot(h) \/ Check(h)
             \/ Acquire(h) \/ Restarted(h) \/ Restored(h) \/ Pruned(h)
             \/ \E s \in Services : Sample(h, s) \/ Restart(h, s) \/ RestartFails(h, s) \/ Restore(h, s)
      PROVE  IssuedInv'
  <2>1. UNCHANGED <<lineage, pairLog>>
    BY <1>1 DEF Acquire, Validate, Stage, Replace, Unlink, SyncRoot, Check, Restarted, Restored,
                Pruned, Sample, Restart, RestartFails, Restore, diskVars
  <2>2. ASSUME NEW k \in Hooks PROVE job'[k].snap = job[k].snap
    <3>1. CASE Acquire(h) \/ Stage(h) \/ Replace(h) \/ Unlink(h) \/ Restarted(h) \/ Restored(h) \/ Pruned(h)
      BY <3>1 DEF Acquire, Stage, Replace, Unlink, Restarted, Restored, Pruned
    <3>2. ASSUME RollBack(h) PROVE job'[k].snap = job[k].snap
      BY <3>2, <1>a, <1>f DEF RollBack, TypeOK, Job
    <3>3. CASE Check(h)
      BY <3>2, <3>3, <1>a, <1>f DEF Check, TypeOK, Job
    <3>4. CASE Validate(h) \/ SyncRoot(h)
      BY <3>4, <1>a, <1>f DEF Validate, SyncRoot, TypeOK, Job
    <3>5. ASSUME NEW s \in Services, Sample(h, s) \/ Restart(h, s) \/ RestartFails(h, s) \/ Restore(h, s)
          PROVE  job'[k].snap = job[k].snap
      BY <3>5, <3>2, <1>a, <1>f DEF Sample, Restart, RestartFails, Restore, TypeOK, Job
    <3> QED
      BY <1>1, <3>1, <3>3, <3>4, <3>5
  <2> QED
    BY <2>1, <2>2, <1>e DEF IssuedInv
<1>2. ASSUME NEW h \in Hooks, Reject(h) \/ Refuse(h) \/ Release(h) \/ Abort(h) PROVE IssuedInv'
  BY <1>2, <1>d, <1>e DEF Reject, Refuse, Release, Abort, diskVars
<1>3. ASSUME NEW h \in Hooks, CopySnapshot(h) PROVE IssuedInv'
  <2>1. PICK f \in File : job' = [job EXCEPT ![h].snap[f] = lineage[f]] /\ UNCHANGED <<lineage, pairLog>>
    BY <1>3 DEF CopySnapshot, Copy, File, diskVars
  <2>2. ASSUME NEW k \in Hooks PROVE job'[k].snap["cert"] \in {job[k].snap["cert"], lineage["cert"]}
    BY <2>1, <1>a, <1>f DEF TypeOK, Job, Pair, File
  <2> QED
    BY <2>1, <2>2, <1>b, <1>e DEF IssuedInv, Version
<1>4. ASSUME NEW h \in Hooks, Enter(h) PROVE IssuedInv'
  <2>1. PICK g \in FreeNames :
          /\ pairLog' = [pairLog EXCEPT ![g] = {Empty}]
          /\ job' = [job EXCEPT ![h].gen = g, ![h].prev = root.current, ![h].target = g]
    BY <1>4 DEF Enter
  <2>2. ASSUME NEW k \in Hooks PROVE job'[k].snap = job[k].snap
    BY <2>1, <1>a, <1>f DEF TypeOK, Job
  <2> QED
    BY <1>4, <2>1, <2>2, <1>a, <1>c, IssuedStep DEF Enter, FreeNames, TypeOK, IssuedInv
<1>5. ASSUME NEW h \in Hooks, NEW f \in File, NEW from \in Writing, NEW to, WriteFile(h, f, from, to)
      PROVE  IssuedInv'
  <2> DEFINE g == job[h].gen
  <2>1. g \in Names
    BY <1>5, <1>a DEF WriteFile, DeployInv, HookInv, MaterialInv, Working, TypeOK, Root
  <2>2. /\ pairLog'[g] = pairLog[g] \cup {[p EXCEPT ![f] = job[h].snap[f]] : p \in pairLog[g]}
        /\ \A k \in Names \ {g} : pairLog'[k] = pairLog[k]
    BY <2>1, <1>5, <1>a DEF WriteFile, TypeOK
  <2>3. ASSUME NEW q \in pairLog'[g] PROVE q["cert"] <= lineage["cert"]
    <3>1. PICK p \in pairLog[g] : q = p \/ q = [p EXCEPT ![f] = job[h].snap[f]]
      BY <2>2
    <3>2. p \in Pair
      BY <2>1, <1>a DEF TypeOK
    <3>3. q["cert"] \in {p["cert"], job[h].snap["cert"]}
      BY <3>1, <3>2 DEF Pair, File
    <3> QED
      BY <3>3, <2>1 DEF IssuedInv
  <2>4. lineage' = lineage /\ job' = job
    BY <1>5 DEF WriteFile
  <2> QED
    BY <2>1, <2>2, <2>3, <2>4, <1>a, IssuedStep DEF IssuedInv
<1>6. ASSUME NEW h \in Hooks, WriteFails(h) PROVE IssuedInv'
  <2> DEFINE g == job[h].gen
             f == IF pc[h] = "writeCert" THEN "cert" ELSE "key"
  <2>1. g \in Names /\ f \in File
    BY <1>6, <1>a DEF WriteFails, DeployInv, HookInv, MaterialInv, Working, Writing, TypeOK, Root, File
  <2>2. /\ pairLog'[g] = pairLog[g] \cup {[p EXCEPT ![f] = Torn] : p \in pairLog[g]}
        /\ \A k \in Names \ {g} : pairLog'[k] = pairLog[k]
    BY <2>1, <1>6, <1>a DEF WriteFails, TypeOK
  <2>3. ASSUME NEW q \in pairLog'[g] PROVE q["cert"] <= lineage["cert"]
    <3>1. PICK p \in pairLog[g] : q = p \/ q = [p EXCEPT ![f] = Torn]
      BY <2>2
    <3>2. p \in Pair
      BY <2>1, <1>a DEF TypeOK
    <3>3. q["cert"] \in {p["cert"], Torn}
      BY <3>1, <3>2, <2>1 DEF Pair, File
    <3> QED
      BY <3>3, <2>1, <1>c DEF IssuedInv
  <2> QED
    BY <2>1, <2>2, <2>3, <1>6, <1>d, <1>a, IssuedStep DEF WriteFails
<1>7. ASSUME NEW h \in Hooks, SyncGeneration(h) PROVE IssuedInv'
  BY <1>7, <1>a DEF SyncGeneration, AfterSync, IssuedInv, TypeOK
<1>8. ASSUME NEW h \in Hooks, NEW g \in Names, Prune(h, g) \/ PruneFails(h, g) PROVE IssuedInv'
  <2>1. ASSUME NEW q \in pairLog'[g] PROVE q["cert"] <= lineage["cert"]
    <3>1. \/ q \in pairLog[g] \/ q = Empty \/ q = [pair[g] EXCEPT !["cert"] = Absent]
          \/ \E p \in pairLog[g] : q = [p EXCEPT !["cert"] = Absent]
      BY <1>8, <1>a DEF Prune, PruneFails, TypeOK
    <3>2. \A p \in Pair : [p EXCEPT !["cert"] = Absent]["cert"] = Absent
      BY DEF Pair, File
    <3> QED
      BY <3>1, <3>2, <1>a, <1>c DEF TypeOK, IssuedInv
  <2>2. \A k \in Names \ {g} : pairLog'[k] = pairLog[k]
    BY <1>8, <1>a DEF Prune, PruneFails, TypeOK
  <2>3. lineage' = lineage /\ \A k \in Hooks : job'[k].snap["cert"] <= lineage["cert"]
    BY <1>8, <1>d DEF Prune, PruneFails, hookVars, IssuedInv
  <2> QED
    BY <2>1, <2>2, <2>3, <1>a, IssuedStep
<1>9. CASE PowerLoss
  <2>1. \A g \in Names : pairLog'[g] \subseteq pairLog[g] \cup {Empty}
    BY <1>9 DEF PowerLoss
  <2>2. lineage' = lineage /\ \A k \in Hooks : job'[k].snap["cert"] <= lineage["cert"]
    BY <1>9, <1>c DEF PowerLoss
  <2> QED
    BY <2>1, <2>2, <1>c DEF IssuedInv
<1>10. CASE Renew
  <2>1. lineage["cert"] <= lineage'["cert"] /\ UNCHANGED <<job, pairLog>>
    BY <1>10, <1>a, <1>b DEF Renew, TypeOK, File, Version, hookVars, diskVars
  <2>2. ASSUME NEW v \in Int, v <= lineage["cert"] PROVE v <= lineage'["cert"]
    BY <2>1, <2>2, <1>b DEF Version
  <2>3. /\ \A h \in Hooks : job[h].snap["cert"] \in Int
        /\ \A g \in Names : \A p \in pairLog[g] : p["cert"] \in Int
    <3>1. \A p \in Pair : p["cert"] \in Int
      BY PairTypes DEF File, Version, Absent, Torn
    <3> QED
      BY <3>1, <1>a, <1>f DEF TypeOK
  <2> QED
    BY <2>1, <2>2, <2>3 DEF IssuedInv
<1>11. ASSUME (\E s \in Services : UnitStep(s) \/ UnitEvent(s)) \/ UNCHANGED vars PROVE IssuedInv'
  <2>1. UNCHANGED <<lineage, job, pairLog>>
    BY <1>11 DEF UnitStep, UnitEvent, Load, AutoRestart, UnitFails, OperatorStarts, OperatorStops,
                 vars, hookVars, diskVars
  <2> QED
    BY <2>1 DEF IssuedInv
<1>12. ASSUME NEW h \in Hooks, WritePair(h) PROVE IssuedInv'
  BY <1>5, <1>12 DEF WritePair, File, Writing
<1> QED
  BY <1>1, <1>2, <1>3, <1>4, <1>6, <1>7, <1>8, <1>9, <1>10, <1>11, <1>12
     DEF Next, HookStep, HookFault

-----------------------------------------------------------------------------
(***************************************************************************)
(* The value of the register: what the link of a root leads to.            *)
(***************************************************************************)
Val(r, pairs) == IF r.current = None THEN 0 ELSE pairs[r.current]["cert"]

\* When the generation behind every possible link has one whole content, the
\* readings after a power loss are the values of the roots it could leave.
LEMMA ReadingsAre ==
  ASSUME NEW roots \in SUBSET Root, NEW pairs, NEW logs,
         \A g \in Names : pairs[g] \in logs[g] /\ \A p, q \in logs[g] : Sound(p) /\ Sound(q) => p = q,
         \A r \in roots : r.current # None => \A p \in logs[r.current] : Sound(p)
  PROVE  /\ UNION {IF r.current = None THEN {0} ELSE {Reading(r, p) : p \in logs[r.current]} : r \in roots}
              = {Val(r, pairs) : r \in roots}
         /\ \A r \in roots :
              (IF r.current = None THEN 0 ELSE Reading(r, pairs[r.current])) = Val(r, pairs)
<1>1. ASSUME NEW r \in roots, r.current # None
      PROVE  /\ logs[r.current] = {pairs[r.current]}
             /\ Reading(r, pairs[r.current]) = Val(r, pairs)
  <2>1. r.current \in Names
    BY <1>1 DEF Root
  <2> QED
    BY <2>1, <1>1 DEF Reading, Val
<1>2. ASSUME NEW r \in roots
      PROVE  (IF r.current = None THEN {0} ELSE {Reading(r, p) : p \in logs[r.current]}) = {Val(r, pairs)}
  BY <1>1 DEF Val
<1> QED
  BY <1>1, <1>2 DEF Val

\* No step but a power loss changes the pair behind any possible link.
LEMMA LoggedStable ==
  ASSUME DeployInv, [Next]_vars, ~PowerLoss, NEW r \in rootLog, r.current # None
  PROVE  pair'[r.current] = pair[r.current]
<1> DEFINE g == r.current
<1>a. TypeOK /\ (\A h \in Hooks : HookInv(h)) /\ g \in Names /\ g \in r.dirs
  BY DEF DeployInv, TypeOK, CurrentSurvivesPowerLoss, Root
<1>1. ASSUME NEW h \in Hooks, Enter(h) PROVE pair'[g] = pair[g]
  BY <1>1, <1>a DEF Enter, FreeNames, TypeOK
<1>2. ASSUME NEW h \in Hooks, WritePair(h) \/ WriteFails(h) PROVE pair'[g] = pair[g]
  <2>1. pc[h] \in Writing
    BY <1>2 DEF WritePair, WriteFile, WriteFails, Writing
  <2>2. job[h].gen # g
    BY <2>1, <1>a DEF HookInv, WriteInv
  <2> QED
    BY <2>2, <1>2, <1>a DEF WritePair, WriteFile, WriteFails, TypeOK
<1>3. ASSUME NEW h \in Hooks, NEW k \in Names, Prune(h, k) \/ PruneFails(h, k) PROVE pair'[g] = pair[g]
  <2>1. job[h].gen = g
    BY <1>3, <1>a DEF Prune, PruneFails, HookInv, LinkInv, Linked
  <2> QED
    BY <2>1, <1>3, <1>a DEF Prune, PruneFails, Prunable, Kept, TypeOK
<1>4. ASSUME NEW h \in Hooks,
             \/ Acquire(h) \/ CopySnapshot(h) \/ Validate(h) \/ Reject(h) \/ Refuse(h)
             \/ Stage(h) \/ Replace(h) \/ Unlink(h) \/ SyncRoot(h) \/ Check(h) \/ SyncGeneration(h)
             \/ Restarted(h) \/ Restored(h) \/ Pruned(h) \/ Release(h) \/ Abort(h)
             \/ \E s \in Services : Sample(h, s) \/ Restart(h, s) \/ RestartFails(h, s) \/ Restore(h, s)
      PROVE  pair' = pair
  BY <1>4 DEF Acquire, CopySnapshot, Copy, Validate, Reject, Refuse, Stage, Replace, Unlink,
              SyncRoot, Check, SyncGeneration, Restarted, Restored, Pruned, Release, Abort, Sample,
              Restart, RestartFails, Restore, diskVars
<1>5. ASSUME (\E s \in Services : UnitStep(s) \/ UnitEvent(s)) \/ Renew \/ UNCHANGED vars
      PROVE  pair' = pair
  BY <1>5 DEF UnitStep, UnitEvent, Load, AutoRestart, UnitFails, OperatorStarts, OperatorStops,
              Renew, vars, diskVars
<1> QED
  BY <1>1, <1>2, <1>3, <1>4, <1>5 DEF Next, HookStep, HookFault

-----------------------------------------------------------------------------
(***************************************************************************)
(* The refinement.                                                         *)
(***************************************************************************)
MapInv == DeployInv /\ OneWhole /\ IssuedInv

Shown == IF root.current = None THEN 0 ELSE Reading(root, pair[root.current])

\* The mapping of IpDeploy, in terms of Val.
LEMMA Mapped == MapInv => Shown = Val(root, pair) /\ PossibleReadings = {Val(r, pair) : r \in rootLog}
<1> SUFFICES ASSUME MapInv PROVE Shown = Val(root, pair) /\ PossibleReadings = {Val(r, pair) : r \in rootLog}
  OBVIOUS
<1>1. root \in rootLog /\ rootLog \in SUBSET Root
  BY DEF MapInv, DeployInv, LogInv, TypeOK
<1>2. \A g \in Names : pair[g] \in pairLog[g] /\ \A p, q \in pairLog[g] : Sound(p) /\ Sound(q) => p = q
  BY DEF MapInv, DeployInv, LogInv, OneWhole
<1>3. \A r \in rootLog : r.current # None => \A p \in pairLog[r.current] : Sound(p)
  BY DEF MapInv, DeployInv, CurrentSurvivesPowerLoss
<1>4. /\ UNION {IF r.current = None THEN {0} ELSE {Reading(r, p) : p \in pairLog[r.current]} : r \in rootLog}
           = {Val(r, pair) : r \in rootLog}
      /\ \A r \in rootLog :
           (IF r.current = None THEN 0 ELSE Reading(r, pair[r.current])) = Val(r, pair)
  BY <1>1, <1>2, <1>3, ReadingsAre
<1> QED
  BY <1>1, <1>4 DEF Shown, PossibleReadings

LEMMA MappedNext ==
  MapInv' => Shown' = Val(root', pair') /\ PossibleReadings' = {Val(r, pair') : r \in rootLog'}
<1> SUFFICES ASSUME MapInv'
             PROVE  Shown' = Val(root', pair') /\ PossibleReadings' = {Val(r, pair') : r \in rootLog'}
  OBVIOUS
<1>1. root' \in rootLog' /\ rootLog' \in SUBSET Root
  BY DEF MapInv, DeployInv, LogInv, TypeOK
<1>2. \A g \in Names : pair'[g] \in pairLog'[g] /\ \A p, q \in pairLog'[g] : Sound(p) /\ Sound(q) => p = q
  BY DEF MapInv, DeployInv, LogInv, OneWhole
<1>3. \A r \in rootLog' : r.current # None => \A p \in pairLog'[r.current] : Sound(p)
  BY DEF MapInv, DeployInv, CurrentSurvivesPowerLoss
<1>4. /\ UNION {IF r.current = None THEN {0} ELSE {Reading(r, p) : p \in pairLog'[r.current]} : r \in rootLog'}
           = {Val(r, pair') : r \in rootLog'}
      /\ \A r \in rootLog' :
           (IF r.current = None THEN 0 ELSE Reading(r, pair'[r.current])) = Val(r, pair')
  BY <1>1, <1>2, <1>3, ReadingsAre
<1> QED
  BY <1>1, <1>4 DEF Shown, PossibleReadings

\* What the steps of the register are, in terms of the mapping.
LEMMA RegisterSteps ==
  ASSUME \/ /\ lineage'["cert"] = lineage["cert"]
            /\ \/ Shown' = Shown /\ PossibleReadings' = PossibleReadings
               \/ Shown' \in 0 .. lineage["cert"] /\ PossibleReadings' = PossibleReadings \cup {Shown'}
               \/ Shown' = Shown /\ PossibleReadings' = {Shown}
               \/ Shown' \in PossibleReadings /\ PossibleReadings' = {Shown'}
         \/ /\ lineage'["cert"] = lineage["cert"] + 1
            /\ Shown' = Shown /\ PossibleReadings' = PossibleReadings
  PROVE  [Register!Next]_(Register!register)
BY DEF Shown, Register!Next, Register!register, Register!Issue, Register!Write, Register!Settle,
       Register!PowerLoss

\* The register never shows a pair that was not issued.
LEMMA ShownIssued == MapInv' => Shown' \in 0 .. lineage'["cert"]
<1> SUFFICES ASSUME MapInv' PROVE Shown' \in 0 .. lineage'["cert"]
  OBVIOUS
<1>1. Shown' = Val(root', pair')
  BY MappedNext
<1>2. lineage'["cert"] \in Version /\ root' \in Root /\ root' \in rootLog'
  BY DEF MapInv, DeployInv, TypeOK, LogInv, File
<1>3. ASSUME root'.current # None PROVE pair'[root'.current]["cert"] \in 1 .. lineage'["cert"]
  <2>1. root'.current \in Names /\ pair'[root'.current] \in pairLog'[root'.current]
    BY <1>2, <1>3 DEF MapInv, DeployInv, LogInv, Root
  <2>2. Sound(pair'[root'.current])
    BY <1>2, <1>3, <2>1 DEF MapInv, DeployInv, CurrentSurvivesPowerLoss
  <2>3. pair'[root'.current]["cert"] <= lineage'["cert"]
    BY <2>1 DEF MapInv, IssuedInv
  <2> QED
    BY <2>2, <2>3, <1>2 DEF Sound, Version
<1> QED
  BY <1>1, <1>2, <1>3 DEF Val, Version

\* Every step of the hooks, the units and the surroundings is a step of the
\* register or leaves it alone.
LEMMA StepImplements == MapInv /\ MapInv' /\ [Next]_vars => [Register!Next]_(Register!register)
<1> SUFFICES ASSUME MapInv, MapInv', [Next]_vars PROVE [Register!Next]_(Register!register)
  OBVIOUS
<1>a. DeployInv /\ TypeOK /\ root \in rootLog /\ root \in Root
  BY DEF MapInv, DeployInv, LogInv, TypeOK
<1>b. Shown = Val(root, pair) /\ PossibleReadings = {Val(r, pair) : r \in rootLog}
  BY Mapped
<1>c. Shown' = Val(root', pair') /\ PossibleReadings' = {Val(r, pair') : r \in rootLog'}
  BY MappedNext
<1>d. ~PowerLoss => \A r \in rootLog : Val(r, pair') = Val(r, pair)
  BY <1>a, LoggedStable DEF Val
<1>e. ASSUME ~PowerLoss, lineage'["cert"] = lineage["cert"], UNCHANGED <<root, rootLog>>
      PROVE  [Register!Next]_(Register!register)
  BY <1>a, <1>b, <1>c, <1>d, <1>e, RegisterSteps
<1>f. ASSUME ~PowerLoss, lineage' = lineage, NEW r, Edit(r)
      PROVE  Shown' = Val(r, pair') /\ PossibleReadings' = PossibleReadings \cup {Shown'}
  <2>1. root' = r /\ rootLog' = rootLog \cup {r}
    BY <1>f DEF Edit
  <2>2. {Val(q, pair') : q \in rootLog} = {Val(q, pair) : q \in rootLog}
    BY <1>d, <1>f
  <2>3. {Val(q, pair') : q \in rootLog \cup {r}} = {Val(q, pair') : q \in rootLog} \cup {Val(r, pair')}
    OBVIOUS
  <2> QED
    BY <2>1, <2>2, <2>3, <1>b, <1>c
<1>g. ASSUME ~PowerLoss, lineage' = lineage, NEW r, Edit(r), r.current = root.current
      PROVE  [Register!Next]_(Register!register)
  <2>1. Val(r, pair') = Val(root, pair)
    BY <1>g, <1>a, <1>d DEF Val
  <2>2. Val(root, pair) \in PossibleReadings
    BY <1>a, <1>b
  <2> QED
    BY <2>1, <2>2, <1>f, <1>g, <1>b, RegisterSteps
<1>h. ASSUME ~PowerLoss, lineage' = lineage, NEW r, Edit(r)
      PROVE  [Register!Next]_(Register!register)
  BY <1>f, <1>h, ShownIssued, RegisterSteps
<1>1. CASE PowerLoss
  <2>1. /\ root' \in rootLog /\ rootLog' = {root'} /\ lineage' = lineage
        /\ \A g \in root'.dirs : g \in Names => pair'[g] \in pairLog[g]
    BY <1>1 DEF PowerLoss
  <2>2. root' \in Root
    BY <2>1, <1>a DEF TypeOK
  <2>3. ASSUME root'.current # None PROVE pair'[root'.current] = pair[root'.current]
    <3> DEFINE g == root'.current
    <3>1. g \in Names /\ pair'[g] \in pairLog[g] /\ pair[g] \in pairLog[g]
      BY <2>1, <2>2, <2>3, <1>a DEF DeployInv, LogInv, CurrentSurvivesPowerLoss, Root
    <3>2. \A p \in pairLog[g] : Sound(p)
      BY <2>1, <2>3, <1>a DEF DeployInv, CurrentSurvivesPowerLoss
    <3> QED
      BY <3>1, <3>2 DEF MapInv, OneWhole
  <2>4. Val(root', pair') = Val(root', pair)
    BY <2>3 DEF Val
  <2>5. Shown' \in PossibleReadings /\ PossibleReadings' = {Shown'}
    BY <2>1, <2>4, <1>b, <1>c
  <2> QED
    BY <2>1, <2>5, RegisterSteps
<1>2. CASE Renew
  <2>1. UNCHANGED <<root, rootLog, pair>>
    BY <1>2 DEF Renew, diskVars
  <2>2. Shown' = Shown /\ PossibleReadings' = PossibleReadings
    BY <2>1, <1>b, <1>c
  <2>3. lineage'["cert"] \in {lineage["cert"], lineage["cert"] + 1}
    BY <1>2, <1>a DEF Renew, TypeOK, File
  <2> QED
    BY <2>2, <2>3, RegisterSteps
<1>3. ASSUME ~PowerLoss, NEW h \in Hooks, Enter(h) \/ Stage(h) PROVE [Register!Next]_(Register!register)
  <2>1. PICK r : Edit(r) /\ r.current = root.current
    <3>1. \A D, n : /\ [root EXCEPT !.dirs = D].current = root.current
                    /\ [root EXCEPT !.next = n].current = root.current
      BY <1>a DEF Root
    <3>2. CASE Enter(h)
      <4>1. PICK g \in FreeNames : Edit([root EXCEPT !.dirs = @ \cup {g}])
        BY <3>2 DEF Enter
      <4> QED
        BY <3>1, <4>1
    <3>3. CASE Stage(h)
      <4>1. Edit([root EXCEPT !.next = job[h].target])
        BY <3>3 DEF Stage
      <4> QED
        BY <3>1, <4>1
    <3> QED
      BY <1>3, <3>2, <3>3
  <2> QED
    BY <2>1, <1>3, <1>g DEF Enter, Stage
<1>4. ASSUME ~PowerLoss, NEW h \in Hooks, NEW g \in Names, Prune(h, g)
      PROVE  [Register!Next]_(Register!register)
  <2>1. PICK r : Edit(r) /\ r.current = root.current
    BY <1>4, <1>a DEF Prune, Root
  <2> QED
    BY <2>1, <1>4, <1>g DEF Prune
<1>5. ASSUME ~PowerLoss, NEW h \in Hooks, Replace(h) \/ Unlink(h) PROVE [Register!Next]_(Register!register)
  BY <1>5, <1>h DEF Replace, Unlink
<1>6. ASSUME ~PowerLoss, NEW h \in Hooks, SyncRoot(h) PROVE [Register!Next]_(Register!register)
  <2>1. rootLog' = {root} /\ UNCHANGED <<lineage, root, pair>>
    BY <1>6 DEF SyncRoot
  <2>2. Shown' = Shown /\ PossibleReadings' = {Shown}
    BY <2>1, <1>b, <1>c
  <2> QED
    BY <2>1, <2>2, RegisterSteps
<1>7. ASSUME NEW h \in Hooks,
             \/ Acquire(h) \/ CopySnapshot(h) \/ Validate(h) \/ Reject(h) \/ Refuse(h) \/ WritePair(h)
             \/ Check(h) \/ SyncGeneration(h) \/ Restarted(h) \/ Restored(h) \/ Pruned(h) \/ Release(h)
             \/ \E s \in Services : Sample(h, s) \/ Restart(h, s) \/ Restore(h, s)
             \/ HookFault(h)
      PROVE  UNCHANGED <<lineage, root, rootLog>>
  BY <1>7 DEF Acquire, CopySnapshot, Copy, Validate, Reject, Refuse, WritePair, WriteFile, Check,
              SyncGeneration, Restarted, Restored, Pruned, Release, Sample, Restart, Restore,
              HookFault, WriteFails, Abort, RestartFails, PruneFails, diskVars
<1>8. ASSUME (\E s \in Services : UnitStep(s) \/ UnitEvent(s)) \/ UNCHANGED vars
      PROVE  UNCHANGED <<lineage, root, rootLog>>
  BY <1>8 DEF UnitStep, UnitEvent, Load, AutoRestart, UnitFails, OperatorStarts, OperatorStops,
              vars, diskVars
<1> QED
  BY <1>1, <1>2, <1>3, <1>4, <1>5, <1>6, <1>7, <1>8, <1>e DEF Next, HookStep

\* What a reader of tls/current gets, and what it would get after a power loss,
\* behave as one register of whole pairs: written, settled, or set back to a value
\* written since the last sync, for any hooks, services, renewals and faults.
THEOREM RegisterImplemented == Spec => ImplementsRegister
<1>1. Init => MapInv
  BY InitInv, InitType DEF Init, MapInv, OneWhole, IssuedInv, NoJob, Empty, File, Absent
<1>2. MapInv /\ [Next]_vars => MapInv'
  BY NextInv, OneWholeNext, IssuedNext DEF MapInv
<1>3. Init => Register!Init
  BY DEF Init, Register!Init, PossibleReadings, File
<1> QED
  BY <1>1, <1>2, <1>3, StepImplements, PTL DEF Spec, ImplementsRegister, Register!Spec
=============================================================================
