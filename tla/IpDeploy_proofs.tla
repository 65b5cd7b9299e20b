--------------------------- MODULE IpDeploy_proofs ---------------------------
(***************************************************************************)
(* Theorems about IpDeploy, for every set of hooks, services and           *)
(* generation names and every number of renewals and faults.               *)
(***************************************************************************)
EXTENDS IpDeploy, FiniteSetTheorems, TLAPS

USE ConstantsAssumption DEF ConstantsAssumption

-----------------------------------------------------------------------------
(***************************************************************************)
(* Type correctness.                                                       *)
(***************************************************************************)
\* The contents a file step writes are contents of a pair.
LEMMA PairTypes ==
  /\ Empty \in Pair
  /\ \A p \in Pair, f \in File, v \in Version \cup {Absent, Torn} : [p EXCEPT ![f] = v] \in Pair
  /\ \A p \in Pair, f \in File : p[f] \in Version \cup {Absent, Torn}
BY DEF Pair, File, Empty

\* Every update of a hook's local variables yields local variables.
LEMMA JobTypes ==
  /\ \A j \in Job, p \in Pair : [j EXCEPT !.snap = p] \in Job
  /\ \A j \in Job, S \in SUBSET Services : [j EXCEPT !.todo = S] \in Job
  /\ \A j \in Job, S, T \in SUBSET Services : [j EXCEPT !.todo = S, !.active = T] \in Job
  /\ \A j \in Job, S \in SUBSET Services : [j EXCEPT !.todo = S, !.at = None] \in Job
  /\ \A j \in Job, s \in Services : [j EXCEPT !.at = s] \in Job
  /\ \A j \in Job, g \in Names \cup {None} : [j EXCEPT !.target = g, !.at = None] \in Job
  /\ \A j \in Job, g, n \in Names \cup {None} :
       [j EXCEPT !.gen = g, !.prev = n, !.target = g] \in Job
BY DEF Job

\* Updating one local variable leaves the others alone.
LEMMA JobFields ==
  ASSUME NEW j \in Job
  PROVE  /\ j.snap \in Pair
         /\ j.active \in SUBSET Services /\ j.todo \in SUBSET Services
         /\ j.at \in Services \cup {None}
         /\ j.gen \in Names \cup {None}
         /\ j.prev \in Names \cup {None}
         /\ j.target \in Names \cup {None}
BY DEF Job

\* The three unit states the actions name are states of a unit.
LEMMA UnitTypes == {Down, Backoff, Loading} \subseteq UnitState
BY PairTypes DEF Down, Backoff, Loading, UnitState

\* Type correctness of the initial state.
LEMMA InitType == Init => TypeOK
<1> SUFFICES ASSUME Init PROVE TypeOK
  OBVIOUS
<1>1. NoJob \in Job
  BY PairTypes DEF NoJob, Job
<1>2. root \in Root
  BY DEF Init, Root
<1> QED
  BY <1>1, <1>2, PairTypes, UnitTypes DEF Init, TypeOK, Version, File, Label

\* Every step of a hook, a unit or the surroundings keeps the types.
LEMMA NextType == TypeOK /\ [Next]_vars => TypeOK'
<1> SUFFICES ASSUME TypeOK, [Next]_vars PROVE TypeOK'
  OBVIOUS
<1> USE DEF TypeOK
<1>a. NoJob \in Job
  BY PairTypes DEF NoJob, Job
<1>b. ASSUME NEW h \in Hooks, lock = h, Leave(h)
      PROVE  lock' \in Hooks \cup {None} /\ pc' \in [Hooks -> Label] /\ job' \in [Hooks -> Job]
             /\ \A k \in Hooks : pc'[k] # "idle" <=> lock' = k
  BY <1>a, <1>b DEF Leave, Goto, Label
<1>c. ASSUME NEW r \in Root, Edit(r)
      PROVE  root' \in Root /\ rootLog' \subseteq Root
  BY <1>c DEF Edit
<1>d. ASSUME NEW h \in Hooks, NEW l \in Label \ {"idle"}, pc[h] # "idle", Goto(h, l)
      PROVE  pc' \in [Hooks -> Label] /\ \A k \in Hooks : pc'[k] # "idle" <=> lock = k
  BY <1>d DEF Goto
<1>e. ASSUME NEW s \in Services, NEW u \in UnitState, Set(s, u)
      PROVE  unit' \in [Services -> UnitState]
  BY <1>e DEF Set
<1>f. Fault => faults' \in 0 .. MaxFaults
  BY DEF Fault
<1> USE DEF hookVars, diskVars
<1>1. ASSUME NEW h \in Hooks, Acquire(h) PROVE TypeOK'
  BY <1>1 DEF Acquire, LockFree, Goto, Label
<1>2. ASSUME NEW h \in Hooks, CopySnapshot(h) PROVE TypeOK'
  <2>1. ASSUME NEW f \in File, NEW from, NEW to \in Label \ {"idle"}, from # "idle", Copy(h, f, from, to)
        PROVE TypeOK'
    <3>1. [job[h] EXCEPT !.snap[f] = lineage[f]] \in Job
      <4>1. [job[h].snap EXCEPT ![f] = lineage[f]] \in Pair
        BY JobFields, PairTypes
      <4> QED
        BY <4>1, JobTypes
    <3>2. job' \in [Hooks -> Job]
      BY <3>1, <2>1 DEF Copy
    <3> QED
      BY <3>2, <2>1, <1>d DEF Copy
  <2> QED
    BY <2>1, <1>2 DEF CopySnapshot, File, Label
<1>3. ASSUME NEW h \in Hooks, Validate(h) PROVE TypeOK'
  <2>1. job' \in [Hooks -> Job]
    BY <1>3, JobTypes DEF Validate
  <2> QED
    BY <2>1, <1>3, <1>d DEF Validate, Label
<1>4. ASSUME NEW h \in Hooks, Reject(h) \/ Refuse(h) \/ Release(h) PROVE TypeOK'
  BY <1>4, <1>b DEF Reject, Refuse, Release
<1>5. ASSUME NEW h \in Hooks, NEW s \in Services, Sample(h, s) PROVE TypeOK'
  <2> DEFINE S == job[h].todo \ {s}
             T == IF IsActive(s) THEN job[h].active \cup {s} ELSE job[h].active
  <2>a. S \in SUBSET Services /\ T \in SUBSET Services
    BY JobFields
  <2>b. [job[h] EXCEPT !.todo = S, !.active = T] \in Job
    BY <2>a, JobTypes
  <2>1. job' \in [Hooks -> Job]
    BY <2>b, <1>5 DEF Sample
  <2> QED
    BY <2>1, <1>5, <1>d DEF Sample, Label
<1>6. ASSUME NEW h \in Hooks, Enter(h) PROVE TypeOK'
  <2>1. PICK g \in FreeNames :
          /\ Edit([root EXCEPT !.dirs = @ \cup {g}])
          /\ pair' = [pair EXCEPT ![g] = Empty]
          /\ pairLog' = [pairLog EXCEPT ![g] = {Empty}]
          /\ job' = [job EXCEPT ![h].gen = g, ![h].prev = root.current, ![h].target = g]
    BY <1>6 DEF Enter
  <2>2. g \in Names
    BY DEF FreeNames
  <2>3. [root EXCEPT !.dirs = @ \cup {g}] \in Root
    BY <2>2 DEF Root
  <2>a. root.current \in Names \cup {None}
    BY DEF Root
  <2>4. job' \in [Hooks -> Job]
    <3>1. job' = [job EXCEPT ![h] = [@ EXCEPT !.gen = g, !.prev = root.current, !.target = g]]
      BY <2>1
    <3> HIDE DEF Root
    <3>2. [job[h] EXCEPT !.gen = g, !.prev = root.current, !.target = g] \in Job
      BY <2>2, <2>a, JobTypes
    <3> QED
      BY <3>1, <3>2
  <2>5. pair' \in [Names -> Pair] /\ pairLog' \in [Names -> SUBSET Pair]
    BY <2>1, <2>2, PairTypes
  <2> QED
    BY <2>1, <2>3, <2>4, <2>5, <1>6, <1>c, <1>d DEF Enter, Label
<1>7. ASSUME NEW h \in Hooks, WritePair(h) PROVE TypeOK'
  <2>1. ASSUME NEW f \in File, NEW from, NEW to \in Label \ {"idle"}, from # "idle", WriteFile(h, f, from, to)
        PROVE TypeOK'
    <3>1. job[h].snap \in Pair /\ job[h].snap[f] \in Version \cup {Absent, Torn}
      BY PairTypes DEF Job
    <3>2. pair' \in [Names -> Pair]
      BY <3>1, <2>1, PairTypes DEF WriteFile
    <3>3. pairLog' \in [Names -> SUBSET Pair]
      <4> DEFINE g == job[h].gen
      <4>1. CASE g \in Names
        <5>1. {[p EXCEPT ![f] = job[h].snap[f]] : p \in pairLog[g]} \subseteq Pair
          <6>1. ASSUME NEW p \in pairLog[g] PROVE [p EXCEPT ![f] = job[h].snap[f]] \in Pair
            BY <3>1, <4>1, PairTypes
          <6> QED
            BY <6>1
        <5> QED
          BY <5>1, <4>1, <2>1 DEF WriteFile
      <4>2. CASE g \notin Names
        BY <4>2, <2>1 DEF WriteFile
      <4> QED
        BY <4>1, <4>2
    <3> QED
      BY <3>2, <3>3, <2>1, <1>d DEF WriteFile
  <2> QED
    BY <2>1, <1>7 DEF WritePair, File, Label
<1>8. ASSUME NEW h \in Hooks, WriteFails(h) PROVE TypeOK'
  <2> DEFINE g == job[h].gen
             f == IF pc[h] = "writeCert" THEN "cert" ELSE "key"
  <2>1. f \in File
    BY DEF File
  <2>2. pair' \in [Names -> Pair]
    BY <2>1, <1>8, PairTypes DEF WriteFails
  <2>3. pairLog' \in [Names -> SUBSET Pair]
    <3>1. CASE g \in Names
      <4>1. {[p EXCEPT ![f] = Torn] : p \in pairLog[g]} \subseteq Pair
        <5>1. ASSUME NEW p \in pairLog[g] PROVE [p EXCEPT ![f] = Torn] \in Pair
          BY <2>1, <3>1, PairTypes
        <5> QED
          BY <5>1
      <4> QED
        BY <4>1, <3>1, <1>8 DEF WriteFails
    <3>2. CASE g \notin Names
      BY <3>2, <1>8 DEF WriteFails
    <3> QED
      BY <3>1, <3>2
  <2> QED
    BY <2>2, <2>3, <1>8, <1>b, <1>f DEF WriteFails
<1>9. ASSUME NEW h \in Hooks, SyncGeneration(h) PROVE TypeOK'
  <2>1. pairLog' \in [Names -> SUBSET Pair]
    BY <1>9 DEF SyncGeneration, AfterSync
  <2> QED
    BY <2>1, <1>9, <1>d DEF SyncGeneration, Label
<1>10. ASSUME NEW h \in Hooks, Stage(h) \/ Replace(h) \/ Unlink(h) PROVE TypeOK'
  <2>1. ASSUME NEW n \in Names \cup {None}
        PROVE  /\ [root EXCEPT !.next = n] \in Root
               /\ [root EXCEPT !.current = n] \in Root
               /\ [root EXCEPT !.current = n, !.next = None] \in Root
    BY DEF Root
  <2>2. root.next \in Names \cup {None} /\ job[h].target \in Names \cup {None}
    BY DEF Root, Job
  <2>3. root' \in Root /\ rootLog' \subseteq Root
    BY <2>1, <2>2, <1>10, <1>c DEF Stage, Replace, Unlink
  <2> QED
    BY <2>3, <1>10, <1>d DEF Stage, Replace, Unlink, Label
<1>11. ASSUME NEW h \in Hooks, SyncRoot(h) PROVE TypeOK'
  <2>1. job' \in [Hooks -> Job]
    BY <1>11, JobFields, JobTypes DEF SyncRoot
  <2> QED
    BY <2>1, <1>11, <1>d DEF SyncRoot, Label
<1>g. ASSUME NEW h \in Hooks, RollBack(h), pc[h] # "idle"
      PROVE  /\ job' \in [Hooks -> Job]
             /\ pc' \in [Hooks -> Label]
             /\ \A k \in Hooks : pc'[k] # "idle" <=> lock = k
  <2>1. job' \in [Hooks -> Job]
    BY <1>g, JobFields, JobTypes DEF RollBack
  <2> QED
    BY <2>1, <1>g, <1>d DEF RollBack, Label
<1>12. ASSUME NEW h \in Hooks, NEW s \in Services, Restart(h, s) PROVE TypeOK'
  <2>1. job' \in [Hooks -> Job]
    BY <1>12, JobTypes DEF Restart
  <2> QED
    BY <2>1, <1>12, <1>d, <1>e, UnitTypes DEF Restart, AfterRestart, Label
<1>13. ASSUME NEW h \in Hooks, NEW s \in Services, RestartFails(h, s) PROVE TypeOK'
  BY <1>13, <1>e, <1>f, <1>g, UnitTypes DEF RestartFails
<1>14. ASSUME NEW h \in Hooks, Check(h) PROVE TypeOK'
  <2>1. CASE IsActive(job[h].at)
    <3>1. job' \in [Hooks -> Job]
      <4> DEFINE S == job[h].todo \ {job[h].at}
      <4>1. [job[h] EXCEPT !.todo = S, !.at = None] \in Job
        BY JobFields, JobTypes
      <4> QED
        BY <4>1, <2>1, <1>14 DEF Check
    <3> QED
      BY <3>1, <2>1, <1>14, <1>d DEF Check, Label
  <2>2. CASE ~IsActive(job[h].at)
    BY <2>2, <1>14, <1>g DEF Check
  <2> QED
    BY <2>1, <2>2
<1>15. ASSUME NEW h \in Hooks, Restarted(h) \/ Restored(h) \/ Pruned(h) PROVE TypeOK'
  BY <1>15, <1>d DEF Restarted, Restored, Pruned, Label
<1>16. ASSUME NEW h \in Hooks, NEW s \in Services, Restore(h, s) PROVE TypeOK'
  <2>1. job' \in [Hooks -> Job]
    BY <1>16, JobFields, JobTypes DEF Restore
  <2> QED
    BY <2>1, <1>16, <1>e, UnitTypes DEF Restore
<1>17. ASSUME NEW h \in Hooks, NEW g \in Names, Prune(h, g) PROVE TypeOK'
  <2>1. [root EXCEPT !.dirs = @ \ {g}] \in Root
    BY DEF Root
  <2>2. pair' \in [Names -> Pair]
    BY <1>17, PairTypes DEF Prune
  <2>3. pairLog' \in [Names -> SUBSET Pair]
    <3>1. {[p EXCEPT !["cert"] = Absent] : p \in pairLog[g]} \subseteq Pair
      <4>1. ASSUME NEW p \in pairLog[g] PROVE [p EXCEPT !["cert"] = Absent] \in Pair
        BY PairTypes DEF File
      <4> QED
        BY <4>1
    <3> QED
      BY <3>1, <1>17, PairTypes DEF Prune
  <2> QED
    BY <2>1, <2>2, <2>3, <1>17, <1>c DEF Prune
<1>18. ASSUME NEW h \in Hooks, NEW g \in Names, PruneFails(h, g) PROVE TypeOK'
  <2>1. PICK p \in {[pair[g] EXCEPT !["cert"] = Absent], Empty} :
          /\ pair' = [pair EXCEPT ![g] = p]
          /\ pairLog' = [pairLog EXCEPT ![g] =
                            @ \cup {[q EXCEPT !["cert"] = Absent] : q \in @} \cup {p}]
    BY <1>18 DEF PruneFails
  <2>a. [pair[g] EXCEPT !["cert"] = Absent] \in Pair
    BY PairTypes DEF File
  <2>2. p \in Pair
    BY <2>a, PairTypes
  <2>3. {[q EXCEPT !["cert"] = Absent] : q \in pairLog[g]} \subseteq Pair
    <3>1. ASSUME NEW q \in pairLog[g] PROVE [q EXCEPT !["cert"] = Absent] \in Pair
      BY PairTypes DEF File
    <3> QED
      BY <3>1
  <2>4. pair' \in [Names -> Pair] /\ pairLog' \in [Names -> SUBSET Pair]
    BY <2>1, <2>2, <2>3
  <2> QED
    BY <2>4, <1>18, <1>b, <1>f DEF PruneFails
<1>19. ASSUME NEW h \in Hooks, Abort(h) PROVE TypeOK'
  BY <1>19, <1>b, <1>f DEF Abort
<1>20. ASSUME NEW s \in Services, UnitStep(s) \/ UnitEvent(s) PROVE TypeOK'
  <2>1. ASSUME Load(s) PROVE unit' \in [Services -> UnitState]
    <3> DEFINE f     == IF unit[s].creds["cert"] = Absent THEN "cert" ELSE "key"
               file  == IF root.current = None THEN Absent ELSE pair[root.current][f]
               creds == [unit[s].creds EXCEPT ![f] = file]
               u     == IF file = Absent THEN Backoff
                        ELSE IF f = "cert" THEN [state |-> "loading", creds |-> creds]
                        ELSE IF Sound(creds) THEN [state |-> "serving", creds |-> creds]
                        ELSE Backoff
    <3>1. f \in File
      BY DEF File
    <3>2. file \in Version \cup {Absent, Torn}
      BY <3>1, PairTypes DEF Root
    <3>3. creds \in Pair
      BY <3>1, <3>2, PairTypes DEF UnitState
    <3>4. u \in UnitState
      BY <3>3, UnitTypes DEF UnitState
    <3>5. Set(s, u)
      BY <2>1 DEF Load
    <3> QED
      BY <3>4, <3>5, <1>e
  <2>2. unit' \in [Services -> UnitState] /\ faults' \in 0 .. MaxFaults
    BY <2>1, <1>20, <1>e, <1>f, UnitTypes
       DEF UnitStep, UnitEvent, Load, AutoRestart, UnitFails, OperatorStarts, OperatorStops
  <2> QED
    BY <2>2, <1>20 DEF UnitStep, UnitEvent, Load, AutoRestart, UnitFails, OperatorStarts, OperatorStops
<1>21. CASE Renew
  <2>1. lineage' \in [File -> Version]
    BY <1>21 DEF Renew, File, Version
  <2> QED
    BY <2>1, <1>21 DEF Renew
<1>22. CASE PowerLoss
  <2>1. pair' \in [Names -> Pair]
    BY <1>22, PairTypes DEF PowerLoss
  <2>2. unit' \in [Services -> UnitState]
    BY <1>22, UnitTypes DEF PowerLoss
  <2> QED
    BY <2>1, <2>2, <1>22, <1>a, <1>f DEF PowerLoss, Label
<1>23. CASE UNCHANGED vars
  BY <1>23 DEF vars
<1> QED
  BY <1>1, <1>2, <1>3, <1>4, <1>5, <1>6, <1>7, <1>8, <1>9, <1>10, <1>11, <1>12, <1>13, <1>14,
     <1>15, <1>16, <1>17, <1>18, <1>19, <1>20, <1>21, <1>22, <1>23
     DEF Next, HookStep, HookFault

\* Every reachable state is well typed, and the hook at work holds the lock.
THEOREM TypeCorrect == Spec => []TypeOK
BY InitType, NextType, PTL DEF Spec

-----------------------------------------------------------------------------
(***************************************************************************)
(* The published pair survives a power loss.                               *)
(***************************************************************************)
\* Nothing is published or at work at first.
LEMMA InitInv == Init => DeployInv
<1> SUFFICES ASSUME Init PROVE DeployInv
  OBVIOUS
<1>1. TypeOK
  BY InitType
<1>2. LogInv /\ CurrentSurvivesPowerLoss
  BY DEF Init, LogInv, CurrentSurvivesPowerLoss
<1>3. ASSUME NEW h \in Hooks PROVE HookInv(h)
  BY DEF Init, HookInv, MaterialInv, WriteInv, LinkInv, Working, Writing, Linked, Undone
<1> QED
  BY <1>1, <1>2, <1>3 DEF DeployInv

\* A hook that is not at work has nothing to answer for.
LEMMA IdleInv == \A h \in Hooks : pc[h] = "idle" => HookInv(h)
BY DEF HookInv, MaterialInv, WriteInv, LinkInv, Working, Writing, Linked, Undone

\* The same in the next state.
LEMMA IdleInvNext == \A h \in Hooks : pc'[h] = "idle" => HookInv(h)'
BY DEF HookInv, MaterialInv, WriteInv, LinkInv, Working, Writing, Linked, Undone

\* When one hook is at work the others are not, so only its part has to be shown.
LEMMA OneHook ==
  ASSUME NEW h \in Hooks, DeployInv, pc[h] # "idle", TypeOK', LogInv',
         CurrentSurvivesPowerLoss', NEW l, Goto(h, l), HookInv(h)'
  PROVE  DeployInv'
<1>1. ASSUME NEW k \in Hooks \ {h} PROVE pc'[k] = "idle"
  BY DEF Goto, DeployInv, TypeOK
<1> QED
  BY <1>1, IdleInvNext DEF DeployInv

\* A hook that leaves, or dies, leaves only the disk behind.
LEMMA NoHook ==
  ASSUME NEW h \in Hooks, DeployInv, pc[h] # "idle", TypeOK', LogInv',
         CurrentSurvivesPowerLoss', Leave(h)
  PROVE  DeployInv'
<1>1. ASSUME NEW k \in Hooks PROVE pc'[k] = "idle"
  BY DEF Leave, Goto, DeployInv, TypeOK
<1> QED
  BY <1>1, IdleInvNext DEF DeployInv

\* A step that leaves the disk alone leaves what a power loss can do to it alone.
LEMMA SameDisk ==
  ASSUME DeployInv, UNCHANGED diskVars
  PROVE  LogInv' /\ CurrentSurvivesPowerLoss'
BY DEF DeployInv, LogInv, CurrentSurvivesPowerLoss, diskVars

\* An edit of the publication directory is safe when its link is.
LEMMA SafeEdit ==
  ASSUME DeployInv, NEW r, Edit(r), UNCHANGED <<pair, pairLog>>,
         r.current # None => r.current \in r.dirs /\ \A p \in pairLog[r.current] : Sound(p)
  PROVE  LogInv' /\ CurrentSurvivesPowerLoss'
BY DEF DeployInv, LogInv, CurrentSurvivesPowerLoss, Edit

\* Every step keeps the invariant: one case per action.
LEMMA NextInv == DeployInv /\ [Next]_vars => DeployInv'
<1> SUFFICES ASSUME DeployInv, [Next]_vars PROVE DeployInv'
  OBVIOUS
<1>a. TypeOK /\ TypeOK'
  BY NextType DEF DeployInv
<1>b. ASSUME NEW h \in Hooks PROVE HookInv(h) /\ job[h] \in Job
  BY <1>a DEF DeployInv, TypeOK
<1> USE DEF HookInv, Working, Writing, Linked, Undone
<1>1. ASSUME NEW h \in Hooks, Acquire(h) PROVE DeployInv'
  <2>1. HookInv(h)'
    BY <1>1, <1>a DEF Acquire, Goto, TypeOK, MaterialInv, WriteInv, LinkInv
  <2>2. \A k \in Hooks \ {h} : pc'[k] = "idle"
    BY <1>1, <1>a DEF Acquire, LockFree, Goto, TypeOK
  <2> QED
    BY <2>1, <2>2, <1>1, <1>a, SameDisk, IdleInvNext DEF Acquire, DeployInv
<1>2. ASSUME NEW h \in Hooks, CopySnapshot(h) PROVE DeployInv'
  <2>1. HookInv(h)'
    BY <1>2, <1>a DEF CopySnapshot, Copy, Goto, TypeOK, MaterialInv, WriteInv, LinkInv
  <2> QED
    BY <2>1, <1>2, <1>a, SameDisk, OneHook DEF CopySnapshot, Copy
<1>3. ASSUME NEW h \in Hooks, Validate(h) PROVE DeployInv'
  <2>1. HookInv(h)'
    BY <1>3, <1>a, <1>b DEF Validate, Accepted, Goto, TypeOK, Job, MaterialInv, WriteInv, LinkInv
  <2> QED
    BY <2>1, <1>3, <1>a, SameDisk, OneHook DEF Validate
<1>4. ASSUME NEW h \in Hooks, Reject(h) \/ Refuse(h) \/ Release(h) \/ Abort(h) PROVE DeployInv'
  BY <1>4, <1>a, SameDisk, NoHook DEF Reject, Refuse, Release, Abort
<1>5. ASSUME NEW h \in Hooks, NEW s \in Services, Sample(h, s) PROVE DeployInv'
  <2>1. HookInv(h)'
    BY <1>5, <1>a, <1>b DEF Sample, Goto, TypeOK, Job, MaterialInv, WriteInv, LinkInv
  <2> QED
    BY <2>1, <1>5, <1>a, SameDisk, OneHook DEF Sample
<1>6. ASSUME NEW h \in Hooks, Enter(h) PROVE DeployInv'
  <2>1. PICK g \in FreeNames :
          /\ Edit([root EXCEPT !.dirs = @ \cup {g}])
          /\ pair' = [pair EXCEPT ![g] = Empty]
          /\ pairLog' = [pairLog EXCEPT ![g] = {Empty}]
          /\ job' = [job EXCEPT ![h].gen = g, ![h].prev = root.current, ![h].target = g]
    BY <1>6 DEF Enter
  <2>2. g \in Names /\ \A r \in rootLog : g \notin r.dirs /\ r.current # g
    BY <1>a DEF FreeNames, DeployInv, CurrentSurvivesPowerLoss
  <2>3. root \in rootLog /\ root \in Root
    BY <1>a DEF DeployInv, LogInv, TypeOK
  <2>4. /\ root'.dirs = root.dirs \cup {g} /\ root'.current = root.current
        /\ rootLog' = rootLog \cup {root'}
    BY <2>1, <2>3 DEF Edit, Root
  <2>5. /\ pairLog'[g] = {Empty} /\ pair'[g] = Empty
        /\ \A k \in Names \ {g} : pairLog'[k] = pairLog[k] /\ pair'[k] = pair[k]
    BY <2>1, <2>2, <1>a DEF TypeOK
  <2>6. LogInv'
    BY <2>4, <2>5 DEF DeployInv, LogInv
  <2>7. CurrentSurvivesPowerLoss'
    <3>1. ASSUME NEW r \in rootLog, r.current # None
          PROVE  r.current \in r.dirs /\ \A p \in pairLog'[r.current] : Sound(p)
      <4>1. r.current \in Names \ {g}
        BY <2>2, <3>1, <1>a DEF TypeOK, Root
      <4> QED
        BY <4>1, <3>1, <2>5 DEF DeployInv, CurrentSurvivesPowerLoss
    <3>2. root'.current # None =>
            root'.current \in root'.dirs /\ \A p \in pairLog'[root'.current] : Sound(p)
      BY <3>1, <2>3, <2>4
    <3> QED
      BY <3>1, <3>2, <2>4 DEF CurrentSurvivesPowerLoss
  <2>8. /\ job'[h].gen = g /\ job'[h].prev = root.current /\ job'[h].target = g
        /\ job'[h].snap = job[h].snap
    BY <2>1, <1>a, <1>b DEF TypeOK, Job
  <2>9. MaterialInv(h)'
    <3>1. root.current # None => root.current \in root.dirs /\ \A p \in pairLog[root.current] : Sound(p)
      BY <2>3 DEF DeployInv, CurrentSurvivesPowerLoss
    <3>2. root.current \in Names \cup {None} /\ root.current # g
      BY <2>2, <2>3 DEF Root
    <3> QED
      BY <3>1, <3>2, <2>4, <2>5, <2>8, <1>6, <1>a, <1>b DEF Enter, Goto, TypeOK, MaterialInv
  <2>10. pc'[h] = "writeCert"
    BY <1>6, <1>a DEF Enter, Goto, TypeOK
  <2>11. WriteInv(h)' /\ LinkInv(h)'
    BY <2>2, <2>3, <2>4, <2>5, <2>8, <2>10 DEF WriteInv, LinkInv, Empty
  <2> QED
    BY <2>6, <2>7, <2>9, <2>11, <1>6, <1>a, OneHook DEF Enter
<1>7. ASSUME NEW h \in Hooks, NEW f \in File, NEW from, NEW to,
             <<f, from, to>> \in {<<"cert", "writeCert", "writeKey">>,
                                  <<"key", "writeKey", "syncGeneration">>},
             WriteFile(h, f, from, to)
      PROVE  DeployInv'
  <2> DEFINE g == job[h].gen
             v == job[h].snap[f]
  <2>1. pc[h] = from /\ from \in Writing /\ pc'[h] = to /\ pc[h] # "idle"
    BY <1>7, <1>a DEF WriteFile, Goto, TypeOK
  <2>2. g \in Names /\ g \in root.dirs /\ \A r \in rootLog : r.current # g
    BY <2>1, <1>a, <1>b DEF MaterialInv, WriteInv, TypeOK, Root
  <2>3. /\ pair' = [pair EXCEPT ![g] = [@ EXCEPT ![f] = v]]
        /\ pairLog' = [pairLog EXCEPT ![g] = @ \cup {[p EXCEPT ![f] = v] : p \in @}]
        /\ UNCHANGED <<job, root, rootLog>>
    BY <1>7 DEF WriteFile
  <2>4. /\ pair'[g] = [pair[g] EXCEPT ![f] = v]
        /\ pairLog'[g] = pairLog[g] \cup {[p EXCEPT ![f] = v] : p \in pairLog[g]}
        /\ \A k \in Names \ {g} : pairLog'[k] = pairLog[k] /\ pair'[k] = pair[k]
    BY <2>2, <2>3, <1>a DEF TypeOK
  <2>5. LogInv'
    BY <2>2, <2>3, <2>4 DEF DeployInv, LogInv
  <2>6. CurrentSurvivesPowerLoss'
    BY <2>2, <2>3, <2>4, <1>a DEF DeployInv, CurrentSurvivesPowerLoss, TypeOK, Root
  <2>7. MaterialInv(h)'
    <3>1. job[h].prev # None => job[h].prev \in Names \ {g}
      BY <2>1, <1>b DEF MaterialInv, Job
    <3> QED
      BY <3>1, <2>1, <2>3, <2>4, <1>b, <1>7 DEF MaterialInv
  <2>8. ASSUME NEW q \in pairLog'[g], NEW e \in File
        PROVE  q[e] = Absent \/ (q[e] = job[h].snap[e] /\ (e = "key" => f = "key"))
    <3>1. PICK p \in pairLog[g] : q = p \/ q = [p EXCEPT ![f] = v]
      BY <2>4
    <3>2. p \in Pair
      BY <2>2, <1>a DEF TypeOK
    <3>3. p[e] = Absent \/ (p[e] = job[h].snap[e] /\ e = "cert" /\ f = "key")
      BY <2>1, <1>7, <1>b DEF WriteInv, File
    <3> QED
      BY <3>1, <3>2, <3>3, <1>7 DEF Pair, File
  <2>a. pair'[g][f] = v /\ \A e \in File \ {f} : pair'[g][e] = pair[g][e]
    BY <2>2, <2>4, <1>a DEF TypeOK, Pair
  <2>9. WriteInv(h)'
    BY <2>1, <2>2, <2>3, <2>8, <2>a, <1>b, <1>7 DEF WriteInv, File
  <2>10. LinkInv(h)'
    BY <2>1, <1>7 DEF LinkInv
  <2> QED
    BY <2>1, <2>5, <2>6, <2>7, <2>9, <2>10, <1>7, <1>a, OneHook DEF WriteFile
<1>8. ASSUME NEW h \in Hooks, WriteFails(h) PROVE DeployInv'
  <2> DEFINE g == job[h].gen
             f == IF pc[h] = "writeCert" THEN "cert" ELSE "key"
  <2>1. pc[h] \in Writing
    BY <1>8 DEF WriteFails
  <2>2. g \in Names /\ \A r \in rootLog : r.current # g
    BY <2>1, <1>a, <1>b DEF MaterialInv, WriteInv, TypeOK, Root
  <2>3. /\ pair' = [pair EXCEPT ![g] = [@ EXCEPT ![f] = Torn]]
        /\ pairLog' = [pairLog EXCEPT ![g] = @ \cup {[p EXCEPT ![f] = Torn] : p \in @}]
        /\ UNCHANGED <<root, rootLog>>
    BY <1>8 DEF WriteFails
  <2>4. /\ pair'[g] = [pair[g] EXCEPT ![f] = Torn]
        /\ pairLog'[g] = pairLog[g] \cup {[p EXCEPT ![f] = Torn] : p \in pairLog[g]}
        /\ \A k \in Names \ {g} : pairLog'[k] = pairLog[k] /\ pair'[k] = pair[k]
    BY <2>2, <2>3, <1>a DEF TypeOK
  <2>5. LogInv'
    BY <2>2, <2>3, <2>4 DEF DeployInv, LogInv
  <2>6. CurrentSurvivesPowerLoss'
    BY <2>2, <2>3, <2>4, <1>a DEF DeployInv, CurrentSurvivesPowerLoss, TypeOK, Root
  <2> QED
    BY <2>1, <2>5, <2>6, <1>8, <1>a, NoHook DEF WriteFails
<1>9. ASSUME NEW h \in Hooks, SyncGeneration(h) PROVE DeployInv'
  <2> DEFINE g == job[h].gen
  <2>1. pc[h] = "syncGeneration" /\ pc'[h] = "stage" /\ UNCHANGED <<job, root, rootLog, pair>>
    BY <1>9, <1>a DEF SyncGeneration, Goto, TypeOK
  <2>2. g \in Names /\ \A r \in rootLog : r.current # g
    BY <2>1, <1>a, <1>b DEF MaterialInv, WriteInv, TypeOK, Root
  <2>3. /\ pairLog'[g] = {p \in pairLog[g] : BothNamed(p)}
        /\ \A k \in Names \ {g} : pairLog'[k] = pairLog[k]
    BY <2>2, <1>9, <1>a DEF SyncGeneration, AfterSync, TypeOK
  <2>4. \A p \in pairLog'[g] : Sound(p)
    BY <2>1, <2>3, <1>b DEF WriteInv, MaterialInv, BothNamed, Sound, File
  <2>5. BothNamed(pair[g])
    BY <2>1, <1>b DEF WriteInv, MaterialInv, BothNamed, Sound, File, Version, Absent
  <2>6. LogInv'
    BY <2>1, <2>2, <2>3, <2>5 DEF DeployInv, LogInv
  <2>7. CurrentSurvivesPowerLoss'
    BY <2>1, <2>2, <2>3, <1>a DEF DeployInv, CurrentSurvivesPowerLoss, TypeOK, Root
  <2>8. MaterialInv(h)'
    <3>1. job[h].prev # None => job[h].prev \in Names \ {g}
      BY <2>1, <1>b DEF MaterialInv, Job
    <3> QED
      BY <3>1, <2>1, <2>3, <1>b DEF MaterialInv
  <2>9. WriteInv(h)' /\ LinkInv(h)'
    BY <2>1, <2>2, <2>4, <1>b DEF WriteInv, LinkInv
  <2> QED
    BY <2>1, <2>6, <2>7, <2>8, <2>9, <1>9, <1>a, OneHook DEF SyncGeneration
<1>10. ASSUME NEW h \in Hooks, Stage(h) \/ Replace(h) \/ Unlink(h) PROVE DeployInv'
  <2> DEFINE t == job[h].target
  <2>1. /\ pc[h] \in {"stage", "replace", "unlink"} /\ UNCHANGED <<job, pair, pairLog>>
        /\ pc'[h] = IF pc[h] = "stage" THEN "replace" ELSE "syncRoot"
    BY <1>10, <1>a DEF Stage, Replace, Unlink, Goto, TypeOK
  <2>2. root \in rootLog /\ root \in Root
    BY <1>a DEF DeployInv, LogInv, TypeOK
  <2>3. t # None => t \in root.dirs /\ \A p \in pairLog[t] : Sound(p)
    BY <2>1, <1>b DEF MaterialInv, WriteInv
  <2>4. /\ root'.dirs = root.dirs
        /\ pc[h] = "stage" => root'.current = root.current /\ root'.next = t
        /\ pc[h] # "stage" => root'.current = t
        /\ Edit(root')
    BY <2>1, <2>2, <1>b, <1>10 DEF Stage, Replace, Unlink, Edit, Root, LinkInv
  <2>5. root'.current # None =>
          root'.current \in root'.dirs /\ \A p \in pairLog[root'.current] : Sound(p)
    BY <2>1, <2>2, <2>3, <2>4 DEF DeployInv, CurrentSurvivesPowerLoss
  <2>6. LogInv' /\ CurrentSurvivesPowerLoss'
    BY <2>1, <2>4, <2>5, SafeEdit
  <2>7. MaterialInv(h)' /\ WriteInv(h)' /\ LinkInv(h)'
    BY <2>1, <2>4, <1>b DEF MaterialInv, WriteInv, LinkInv
  <2> QED
    BY <2>1, <2>6, <2>7, <1>10, <1>a, OneHook DEF Stage, Replace, Unlink
<1>11. ASSUME NEW h \in Hooks, SyncRoot(h) PROVE DeployInv'
  <2>1. /\ pc[h] = "syncRoot" /\ UNCHANGED <<root, pair, pairLog>> /\ rootLog' = {root}
        /\ pc'[h] = IF job[h].target = job[h].gen THEN "restart" ELSE "restore"
    BY <1>11, <1>a DEF SyncRoot, Goto, TypeOK
  <2>2. LogInv' /\ CurrentSurvivesPowerLoss'
    BY <2>1 DEF DeployInv, LogInv, CurrentSurvivesPowerLoss
  <2>3. /\ job'[h].snap = job[h].snap /\ job'[h].gen = job[h].gen
        /\ job'[h].prev = job[h].prev /\ job'[h].target = job[h].target
    BY <1>11, <1>a, <1>b DEF SyncRoot, TypeOK, Job
  <2>4. MaterialInv(h)' /\ WriteInv(h)' /\ LinkInv(h)'
    BY <2>1, <2>3, <1>b DEF MaterialInv, WriteInv, LinkInv
  <2> QED
    BY <2>1, <2>2, <2>4, <1>11, <1>a, OneHook DEF SyncRoot
<1>c. ASSUME NEW h \in Hooks, pc[h] \in {"restart", "check"}, RollBack(h), UNCHANGED diskVars
      PROVE  HookInv(h)'
  <2>1. /\ job'[h].snap = job[h].snap /\ job'[h].gen = job[h].gen
        /\ job'[h].prev = job[h].prev /\ job'[h].target = job[h].prev
    BY <1>c, <1>a, <1>b DEF RollBack, TypeOK, Job
  <2>2. pc'[h] = IF job[h].prev = None THEN "unlink" ELSE "stage"
    BY <1>c, <1>a DEF RollBack, Goto, TypeOK
  <2> QED
    BY <2>1, <2>2, <1>b, <1>c DEF MaterialInv, WriteInv, LinkInv, diskVars
<1>12. ASSUME NEW h \in Hooks, NEW s \in Services, Restart(h, s) \/ RestartFails(h, s)
       PROVE  DeployInv'
  <2>1. CASE Restart(h, s)
    <3>1. /\ job'[h].snap = job[h].snap /\ job'[h].gen = job[h].gen
          /\ job'[h].prev = job[h].prev /\ job'[h].target = job[h].target
      BY <2>1, <1>a, <1>b DEF Restart, TypeOK, Job
    <3>2. HookInv(h)'
      BY <3>1, <2>1, <1>a, <1>b DEF Restart, Goto, TypeOK, MaterialInv, WriteInv, LinkInv, diskVars
    <3> QED
      BY <3>2, <2>1, <1>a, SameDisk, OneHook DEF Restart
  <2>2. CASE RestartFails(h, s)
    BY <2>2, <1>a, <1>c, SameDisk, OneHook DEF RestartFails, RollBack
  <2> QED
    BY <2>1, <2>2, <1>12
<1>13. ASSUME NEW h \in Hooks, Check(h) PROVE DeployInv'
  <2>1. CASE IsActive(job[h].at)
    <3>1. /\ job'[h].snap = job[h].snap /\ job'[h].gen = job[h].gen
          /\ job'[h].prev = job[h].prev /\ job'[h].target = job[h].target
      BY <2>1, <1>13, <1>a, <1>b DEF Check, TypeOK, Job
    <3>2. HookInv(h)'
      BY <3>1, <2>1, <1>13, <1>a, <1>b
         DEF Check, Goto, TypeOK, MaterialInv, WriteInv, LinkInv, diskVars
    <3> QED
      BY <3>2, <2>1, <1>13, <1>a, SameDisk, OneHook DEF Check
  <2>2. CASE ~IsActive(job[h].at)
    BY <2>2, <1>13, <1>a, <1>c, SameDisk, OneHook DEF Check, RollBack
  <2> QED
    BY <2>1, <2>2
<1>14. ASSUME NEW h \in Hooks, Restarted(h) \/ Restored(h) \/ Pruned(h) PROVE DeployInv'
  <2>1. HookInv(h)'
    BY <1>14, <1>a, <1>b DEF Restarted, Restored, Pruned, Prunable, Kept, Goto, TypeOK,
                             MaterialInv, WriteInv, LinkInv, diskVars
  <2> QED
    BY <2>1, <1>14, <1>a, SameDisk, OneHook DEF Restarted, Restored, Pruned
<1>15. ASSUME NEW h \in Hooks, NEW s \in Services, Restore(h, s) PROVE DeployInv'
  <2>1. /\ job'[h].snap = job[h].snap /\ job'[h].gen = job[h].gen
        /\ job'[h].prev = job[h].prev /\ job'[h].target = job[h].target
    BY <1>15, <1>a, <1>b DEF Restore, TypeOK, Job
  <2>2. HookInv(h)'
    BY <2>1, <1>15, <1>b DEF Restore, MaterialInv, WriteInv, LinkInv, diskVars
  <2>3. Goto(h, "restore")
    BY <1>15, <1>a DEF Restore, Goto, TypeOK
  <2> QED
    BY <2>2, <2>3, <1>15, <1>a, SameDisk, OneHook DEF Restore
<1>16. ASSUME NEW h \in Hooks, NEW g \in Names, Prune(h, g) PROVE DeployInv'
  <2>1. /\ pc[h] = "prune" /\ g \notin {job[h].gen, job[h].prev} /\ UNCHANGED <<job, pc>>
        /\ \A r \in rootLog : r.current = job[h].gen
        /\ job[h].gen \in Names
    BY <1>16, <1>a, <1>b DEF Prune, Prunable, Kept, LinkInv, MaterialInv, TypeOK, Root, hookVars
  <2>2. root \in rootLog /\ root \in Root /\ root.current = job[h].gen
    BY <2>1, <1>a DEF DeployInv, LogInv, TypeOK
  <2>3. /\ root'.dirs = root.dirs \ {g} /\ root'.current = job[h].gen
        /\ rootLog' = rootLog \cup {root'}
    BY <2>2, <1>16 DEF Prune, Edit, Root
  <2>4. /\ pair'[g] = Empty /\ Empty \in pairLog'[g]
        /\ \A k \in Names \ {g} : pairLog'[k] = pairLog[k] /\ pair'[k] = pair[k]
    BY <1>16, <1>a DEF Prune, TypeOK
  <2>5. LogInv'
    BY <2>3, <2>4 DEF DeployInv, LogInv
  <2>6. CurrentSurvivesPowerLoss'
    BY <2>1, <2>2, <2>3, <2>4 DEF DeployInv, CurrentSurvivesPowerLoss
  <2>7. MaterialInv(h)'
    <3>1. job[h].prev # None => job[h].prev \in Names \ {g}
      BY <2>1, <1>b DEF Job
    <3> QED
      BY <3>1, <2>1, <2>2, <2>3, <2>4, <1>b DEF MaterialInv
  <2>8. WriteInv(h)' /\ LinkInv(h)'
    BY <2>1, <2>2, <2>3, <2>4, <1>b DEF WriteInv, LinkInv
  <2>9. Goto(h, "prune") /\ pc[h] # "idle"
    BY <2>1, <1>a DEF Goto, TypeOK
  <2> QED
    BY <2>5, <2>6, <2>7, <2>8, <2>9, <1>a, OneHook
<1>17. ASSUME NEW h \in Hooks, NEW g \in Names, PruneFails(h, g) PROVE DeployInv'
  <2>1. /\ pc[h] = "prune" /\ g # job[h].gen /\ \A r \in rootLog : r.current = job[h].gen
        /\ job[h].gen \in Names
    BY <1>17, <1>a, <1>b DEF PruneFails, Prunable, Kept, LinkInv, MaterialInv, TypeOK, Root
  <2>2. /\ pair'[g] \in pairLog'[g] /\ UNCHANGED <<root, rootLog>>
        /\ \A k \in Names \ {g} : pairLog'[k] = pairLog[k] /\ pair'[k] = pair[k]
    BY <1>17, <1>a DEF PruneFails, TypeOK
  <2>3. LogInv'
    BY <2>2 DEF DeployInv, LogInv
  <2>4. CurrentSurvivesPowerLoss'
    BY <2>1, <2>2 DEF DeployInv, CurrentSurvivesPowerLoss
  <2> QED
    BY <2>1, <2>3, <2>4, <1>17, <1>a, NoHook DEF PruneFails
<1>18. ASSUME UNCHANGED <<hookVars, diskVars>> PROVE DeployInv'
  <2>1. ASSUME NEW h \in Hooks PROVE HookInv(h)'
    BY <1>18, <1>b DEF MaterialInv, WriteInv, LinkInv, Prunable, Kept, hookVars, diskVars
  <2> QED
    BY <2>1, <1>18, <1>a, SameDisk DEF DeployInv
<1>19. ASSUME NEW s \in Services, UnitStep(s) \/ UnitEvent(s) PROVE DeployInv'
  BY <1>18, <1>19 DEF UnitStep, UnitEvent, Load, AutoRestart, UnitFails, OperatorStarts, OperatorStops
<1>20. CASE Renew
  BY <1>18, <1>20 DEF Renew
<1>21. CASE PowerLoss
  <2>1. /\ root' \in rootLog /\ rootLog' = {root'}
        /\ \A g \in Names : pairLog'[g] = {pair'[g]}
        /\ \A g \in root'.dirs : g \in Names => pair'[g] \in pairLog[g]
    BY <1>21 DEF PowerLoss
  <2>2. LogInv'
    BY <2>1 DEF LogInv
  <2>3. root' \in Root
    BY <2>1, <1>a DEF TypeOK
  <2>4. CurrentSurvivesPowerLoss'
    BY <2>1, <2>3 DEF DeployInv, CurrentSurvivesPowerLoss, Root
  <2>5. ASSUME NEW h \in Hooks PROVE HookInv(h)'
    BY <1>21, IdleInvNext DEF PowerLoss
  <2> QED
    BY <2>2, <2>4, <2>5, <1>a DEF DeployInv
<1>22. CASE UNCHANGED vars
  BY <1>18, <1>22 DEF vars
<1>d. ASSUME NEW h \in Hooks, WritePair(h) PROVE DeployInv'
  BY <1>7, <1>d DEF WritePair, File
<1> HIDE DEF HookInv, Working, Writing, Linked, Undone
<1> QED
  BY <1>1, <1>2, <1>3, <1>4, <1>5, <1>6, <1>d, <1>8, <1>9, <1>10, <1>11, <1>12, <1>13, <1>14,
     <1>15, <1>16, <1>17, <1>19, <1>20, <1>21, <1>22
     DEF Next, HookStep, HookFault

\* DeployInv holds in every reachable state: whatever the hook at work relies on
\* can no longer be lost.
THEOREM DeployInvariant == Spec => []DeployInv
BY InitInv, NextInv, PTL DEF Spec

\* Whatever the host forgets when the power is cut, tls/current names a whole
\* renewed pair.
THEOREM PowerLossSafe == Spec => []CurrentSurvivesPowerLoss
<1>1. DeployInv => CurrentSurvivesPowerLoss
  BY DEF DeployInv
<1> QED
  BY <1>1, DeployInvariant, PTL

\* A completed rotation keeps the previous pair and no older one.
THEOREM RotationSafe == Spec => []RotationKeepsPrevious
<1>1. DeployInv => RotationKeepsPrevious
  BY DEF DeployInv, HookInv, MaterialInv, LinkInv, LogInv, RotationKeepsPrevious, TypeOK,
         Prunable, Kept, Working, Linked, Root
<1> QED
  BY <1>1, DeployInvariant, PTL

\* A finished rollback is on the disk.
THEOREM RollbackSafe == Spec => []RollbackIsDurable
<1>1. DeployInv => RollbackIsDurable
  BY DEF DeployInv, HookInv, LinkInv, RollbackIsDurable, Undone
<1> QED
  BY <1>1, DeployInvariant, PTL

-----------------------------------------------------------------------------
(***************************************************************************)
(* The published pair does not change.  A power loss picks one of the      *)
(* contents logged for the generation: it has to be shown that no two of   *)
(* them are whole and different.                                           *)
(***************************************************************************)
OneWhole == \A g \in Names : \A p, q \in pairLog[g] : Sound(p) /\ Sound(q) => p = q

\* A generation being written holds the snapshot as soon as it is whole.
LEMMA WrittenIsSnapshot ==
  ASSUME DeployInv, NEW h \in Hooks, NEW f \in File, pc[h] \in Writing,
         NEW p \in pairLog[job[h].gen], NEW q, q = p \/ q = [p EXCEPT ![f] = job[h].snap[f]],
         Sound(q)
  PROVE  q = job[h].snap
<1>1. job[h] \in Job /\ job[h].gen \in Names /\ HookInv(h)
  BY DEF DeployInv, TypeOK, HookInv, MaterialInv, Working, Root
<1>2. p \in Pair /\ q \in Pair /\ job[h].snap \in Pair
  <2>1. p \in Pair
    BY <1>1 DEF DeployInv, TypeOK
  <2>2. job[h].snap \in Pair /\ job[h].snap[f] \in Version \cup {Absent, Torn}
    BY <1>1, PairTypes, JobFields
  <2> QED
    BY <2>1, <2>2, PairTypes
<1>3. \A e \in File : p[e] = Absent \/ p[e] = job[h].snap[e]
  BY <1>1 DEF HookInv, WriteInv
<1>4. \A e \in File : q[e] = Absent \/ q[e] = job[h].snap[e]
  BY <1>2, <1>3 DEF Pair
<1>5. \A e \in File : q[e] = job[h].snap[e]
  BY <1>4 DEF Sound, File, Version, Absent
<1> QED
  BY <1>2, <1>5 DEF Pair

\* Every step keeps that.
LEMMA OneWholeNext == DeployInv /\ OneWhole /\ [Next]_vars => OneWhole'
<1> SUFFICES ASSUME DeployInv, OneWhole, [Next]_vars PROVE OneWhole'
  OBVIOUS
<1>a. TypeOK /\ (\A h \in Hooks : HookInv(h) /\ job[h] \in Job)
  BY DEF DeployInv, TypeOK
<1>b. ASSUME UNCHANGED pairLog PROVE OneWhole'
  BY <1>b DEF OneWhole
<1>c. ASSUME NEW k \in Names, \A g \in Names \ {k} : pairLog'[g] = pairLog[g],
             \A p, q \in pairLog'[k] : Sound(p) /\ Sound(q) => p = q
      PROVE  OneWhole'
  BY <1>c DEF OneWhole
<1>1. ASSUME NEW h \in Hooks, Enter(h) PROVE OneWhole'
  BY <1>1, <1>a, <1>c DEF Enter, FreeNames, TypeOK
<1>2. ASSUME NEW h \in Hooks, NEW f \in File, NEW from \in Writing, NEW to, WriteFile(h, f, from, to)
      PROVE  OneWhole'
  <2> DEFINE g == job[h].gen
  <2>1. pc[h] \in Writing /\ g \in Names
    BY <1>2, <1>a DEF WriteFile, HookInv, MaterialInv, Working, TypeOK, Root
  <2>2. /\ pairLog'[g] = pairLog[g] \cup {[p EXCEPT ![f] = job[h].snap[f]] : p \in pairLog[g]}
        /\ \A k \in Names \ {g} : pairLog'[k] = pairLog[k]
    BY <2>1, <1>2, <1>a DEF WriteFile, TypeOK
  <2>3. ASSUME NEW q \in pairLog'[g], Sound(q) PROVE q = job[h].snap
    <3>1. PICK p \in pairLog[g] : q = p \/ q = [p EXCEPT ![f] = job[h].snap[f]]
      BY <2>2
    <3> QED
      BY <3>1, <2>1, <2>3, WrittenIsSnapshot
  <2> QED
    BY <2>1, <2>2, <2>3, <1>c
<1>3. ASSUME NEW h \in Hooks, WriteFails(h) PROVE OneWhole'
  <2> DEFINE g == job[h].gen
             f == IF pc[h] = "writeCert" THEN "cert" ELSE "key"
  <2>1. g \in Names
    BY <1>3, <1>a DEF WriteFails, HookInv, MaterialInv, Working, Writing, TypeOK, Root
  <2>2. /\ pairLog'[g] = pairLog[g] \cup {[p EXCEPT ![f] = Torn] : p \in pairLog[g]}
        /\ \A k \in Names \ {g} : pairLog'[k] = pairLog[k]
    BY <2>1, <1>3, <1>a DEF WriteFails, TypeOK
  <2>3. ASSUME NEW p \in pairLog[g] PROVE ~Sound([p EXCEPT ![f] = Torn])
    <3>1. p \in Pair
      BY <2>1, <1>a DEF TypeOK
    <3> QED
      BY <3>1 DEF Sound, Pair, File, Version, Torn
  <2>4. \A q \in pairLog'[g] : Sound(q) => q \in pairLog[g]
    BY <2>2, <2>3
  <2> QED
    BY <2>1, <2>2, <2>4, <1>c DEF OneWhole
<1>4. ASSUME NEW h \in Hooks, SyncGeneration(h) PROVE OneWhole'
  <2> DEFINE g == job[h].gen
  <2>1. g \in Names
    BY <1>4, <1>a DEF SyncGeneration, HookInv, MaterialInv, Working, Writing, TypeOK, Root
  <2> QED
    BY <2>1, <1>4, <1>a, <1>c DEF SyncGeneration, AfterSync, TypeOK, OneWhole
<1>5. ASSUME NEW h \in Hooks, NEW g \in Names, Prune(h, g) \/ PruneFails(h, g) PROVE OneWhole'
  <2>1. ASSUME NEW q \in pairLog'[g], Sound(q) PROVE q \in pairLog[g]
    <3>1. \/ q \in pairLog[g] \/ q = Empty \/ q = [pair[g] EXCEPT !["cert"] = Absent]
          \/ \E p \in pairLog[g] : q = [p EXCEPT !["cert"] = Absent]
      BY <2>1, <1>5, <1>a DEF Prune, PruneFails, TypeOK
    <3>2. \A p \in Pair : ~Sound([p EXCEPT !["cert"] = Absent])
      BY DEF Sound, Pair, File, Version, Absent
    <3>3. ~Sound(Empty)
      BY DEF Sound, Empty, File, Version, Absent
    <3> QED
      BY <3>1, <3>2, <3>3, <2>1, <1>a DEF TypeOK
  <2>2. \A k \in Names \ {g} : pairLog'[k] = pairLog[k]
    BY <1>5, <1>a DEF Prune, PruneFails, TypeOK
  <2> QED
    BY <2>1, <2>2, <1>c DEF OneWhole
<1>6. CASE PowerLoss
  BY <1>6 DEF PowerLoss, OneWhole
<1>7. ASSUME NEW h \in Hooks,
             \/ Acquire(h) \/ CopySnapshot(h) \/ Validate(h) \/ Reject(h) \/ Refuse(h)
             \/ Stage(h) \/ Replace(h) \/ Unlink(h) \/ SyncRoot(h) \/ Check(h)
             \/ Restarted(h) \/ Restored(h) \/ Pruned(h) \/ Release(h) \/ Abort(h)
             \/ \E s \in Services : Sample(h, s) \/ Restart(h, s) \/ RestartFails(h, s) \/ Restore(h, s)
      PROVE  UNCHANGED <<pair, pairLog>>
  BY <1>7 DEF Acquire, CopySnapshot, Copy, Validate, Reject, Refuse, Stage, Replace, Unlink,
              SyncRoot, Check, Restarted, Restored, Pruned, Release, Abort, Sample, Restart,
              RestartFails, Restore, diskVars
<1>8. ASSUME \/ \E s \in Services : UnitStep(s) \/ UnitEvent(s)
             \/ Renew \/ UNCHANGED vars
      PROVE  UNCHANGED <<pair, pairLog>>
  BY <1>8 DEF UnitStep, UnitEvent, Load, AutoRestart, UnitFails, OperatorStarts, OperatorStops,
              Renew, vars, diskVars
<1>9. ASSUME NEW h \in Hooks, WritePair(h) PROVE OneWhole'
  BY <1>2, <1>9 DEF WritePair, File, Writing
<1> QED
  BY <1>1, <1>3, <1>4, <1>5, <1>6, <1>7, <1>8, <1>9, <1>b DEF Next, HookStep, HookFault

\* No step changes the generation the link names.
LEMMA StableStep == DeployInv /\ OneWhole /\ [Next]_vars =>
  [\A g \in Names : root.current = g /\ root'.current = g => pair'[g] = pair[g]]_vars
<1> SUFFICES ASSUME DeployInv, OneWhole, [Next]_vars, NEW g \in Names,
                    root.current = g, root'.current = g, pair'[g] # pair[g]
             PROVE  FALSE
  OBVIOUS
<1>a. TypeOK /\ root \in rootLog /\ \A h \in Hooks : HookInv(h)
  BY DEF DeployInv, LogInv
<1>1. ~(\E h \in Hooks : Enter(h))
  <2>1. g \in root.dirs
    BY <1>a DEF DeployInv, CurrentSurvivesPowerLoss
  <2>2. ASSUME NEW h \in Hooks, Enter(h) PROVE FALSE
    <3>1. PICK k \in FreeNames : pair' = [pair EXCEPT ![k] = Empty]
      BY <2>2 DEF Enter
    <3>2. k # g
      BY <2>1, <1>a DEF FreeNames
    <3> QED
      BY <3>1, <3>2, <1>a DEF TypeOK
  <2> QED
    BY <2>2
<1>2. ~(\E h \in Hooks : WritePair(h) \/ WriteFails(h))
  <2>1. ASSUME NEW h \in Hooks, pc[h] \in Writing PROVE job[h].gen # g
    BY <2>1, <1>a DEF HookInv, WriteInv
  <2> QED
    BY <2>1, <1>a DEF WritePair, WriteFile, WriteFails, Writing, TypeOK
<1>3. ~(\E h \in Hooks, k \in Names : Prune(h, k) \/ PruneFails(h, k))
  <2>1. ASSUME NEW h \in Hooks, pc[h] = "prune" PROVE job[h].gen = g
    BY <2>1, <1>a DEF HookInv, LinkInv, Linked
  <2> QED
    BY <2>1, <1>a DEF Prune, PruneFails, Prunable, Kept, TypeOK
<1>4. ~PowerLoss
  <2>1. ASSUME PowerLoss
        PROVE  pair'[g] \in pairLog[g] /\ Sound(pair'[g])
    BY <2>1 DEF PowerLoss, DeployInv, CurrentSurvivesPowerLoss
  <2>2. pair[g] \in pairLog[g] /\ Sound(pair[g])
    BY <1>a DEF DeployInv, LogInv, CurrentSurvivesPowerLoss
  <2> QED
    BY <2>1, <2>2 DEF OneWhole
<1> QED
  BY <1>1, <1>2, <1>3, <1>4 DEF Next, HookStep, HookFault, UnitStep, UnitEvent, Load, AutoRestart,
     UnitFails, OperatorStarts, OperatorStops, Renew, vars, diskVars, Acquire, CopySnapshot, Copy,
     Validate, Reject, Refuse, Stage, Replace, Unlink, SyncRoot, Check, Restarted, Restored, Pruned,
     Release, Abort, Sample, Restart, RestartFails, Restore, SyncGeneration

\* The generation behind tls/current never changes under a reader, neither by a
\* hook nor by a power loss.
THEOREM PublishedImmutable == Spec => PublishedPairImmutable
<1>1. Init => OneWhole
  BY DEF Init, OneWhole
<1> QED
  BY <1>1, OneWholeNext, StableStep, DeployInvariant, PTL DEF Spec, PublishedPairImmutable

-----------------------------------------------------------------------------
(***************************************************************************)
(* What the restarted services serve.  A service that is restarted begins  *)
(* to load after the link has moved, so every credential it gets is of the *)
(* new generation, however often it fails or is stopped and started.       *)
(***************************************************************************)
\* The services the hook has restarted.
Fresh(h) == {s \in job[h].active : s \notin job[h].todo \/ s = job[h].at}

OnPair(u, p) ==
  /\ u.state = "serving" => u.creds = p
  /\ u.state = "loading" => u.creds["cert"] \in {Absent, p["cert"]}

FreshInv ==
  \A h \in Hooks :
    /\ pc[h] # "check" => job[h].at = None
    /\ pc[h] \in {"prune", "published"} => job[h].todo = {}
    /\ pc[h] \in Linked => \A s \in Fresh(h) : OnPair(unit[s], pair[job[h].gen])

\* A unit that is down, waits for its next attempt or starts anew is on no other pair.
LEMMA NewUnits == \A p \in Pair : OnPair(Down, p) /\ OnPair(Backoff, p) /\ OnPair(Loading, p)
BY DEF OnPair, Down, Backoff, Loading, Empty, File

\* A unit that collects its credentials while the link stays gets those of one pair.
LEMMA LoadsPair ==
  ASSUME DeployInv, NEW s \in Services, NEW g \in Names, root.current = g, Load(s),
         OnPair(unit[s], pair[g])
  PROVE  OnPair(unit'[s], pair[g])
<1> DEFINE f == IF unit[s].creds["cert"] = Absent THEN "cert" ELSE "key"
           creds == [unit[s].creds EXCEPT ![f] = pair[g][f]]
<1>1. /\ unit[s].creds \in Pair /\ pair[g] \in Pair /\ Sound(pair[g]) /\ unit \in [Services -> UnitState]
  BY DEF DeployInv, TypeOK, LogInv, CurrentSurvivesPowerLoss, UnitState
<1>2. pair[g]["cert"] # Absent /\ pair[g]["key"] # Absent /\ f \in File
  BY <1>1 DEF Sound, Version, Absent, File
<1>3. unit[s].state = "loading" /\ g # None
  BY DEF Load
<1>4. unit'[s] = IF f = "cert" THEN [state |-> "loading", creds |-> creds]
                 ELSE IF Sound(creds) THEN [state |-> "serving", creds |-> creds] ELSE Backoff
  BY <1>1, <1>2, <1>3 DEF Load, Set, File
<1>5. CASE f = "cert"
  <2>1. creds["cert"] = pair[g]["cert"]
    BY <1>1, <1>5 DEF Pair, File
  <2> QED
    BY <2>1, <1>4, <1>5 DEF OnPair
<1>6. CASE f = "key"
  <2>1. unit[s].creds["cert"] = pair[g]["cert"]
    BY <1>3, <1>6 DEF OnPair
  <2>2. creds = pair[g]
    BY <2>1, <1>1, <1>6 DEF Pair, File
  <2> QED
    BY <2>2, <1>1, <1>4, <1>6, NewUnits DEF OnPair
<1> QED
  BY <1>5, <1>6

\* Every step keeps the restarted services on the new generation.
LEMMA FreshNext == DeployInv /\ OneWhole /\ FreshInv /\ [Next]_vars => FreshInv'
<1> SUFFICES ASSUME DeployInv, OneWhole, FreshInv, [Next]_vars PROVE FreshInv'
  OBVIOUS
<1>a. TypeOK /\ TypeOK' /\ \A h \in Hooks : HookInv(h) /\ job[h] \in Job
  BY NextType DEF DeployInv, TypeOK
<1>b. ASSUME NEW h \in Hooks, pc[h] # "idle" PROVE \A k \in Hooks \ {h} : pc[k] = "idle" /\ lock # None
  BY <1>a, <1>b DEF TypeOK
<1>c. ASSUME NEW h \in Hooks, pc[h] \in Linked
      PROVE  /\ job[h].gen \in Names /\ root.current = job[h].gen
             /\ pair[job[h].gen] \in Pair
  BY <1>a, <1>c DEF HookInv, MaterialInv, LinkInv, DeployInv, LogInv, TypeOK, Working, Root
<1>d. ASSUME NEW h \in Hooks, pc'[h] \in Linked, job'[h].gen = job[h].gen, pc[h] \in Linked,
             root'.current = root.current
      PROVE  pair'[job'[h].gen] = pair[job[h].gen]
  BY <1>c, <1>d, StableStep DEF vars, diskVars
<1>e. ASSUME NEW h \in Hooks, pc[h] # "idle", Leave(h) PROVE FreshInv'
  <2>1. \A k \in Hooks : pc'[k] = "idle" /\ (k # h => job'[k] = job[k]) /\ job'[h] = NoJob
    BY <1>a, <1>b, <1>e DEF Leave, Goto, TypeOK
  <2> QED
    BY <2>1, <1>b, <1>e DEF FreshInv, Linked, NoJob
<1>f. ASSUME NEW h \in Hooks, pc[h] # "idle", NEW l \in Label \ (Linked \cup {"idle"}), Goto(h, l),
             job'[h].at = None, \A k \in Hooks \ {h} : job'[k] = job[k]
      PROVE  FreshInv'
  <2>1. \A k \in Hooks \ {h} : pc'[k] = "idle" /\ pc[k] = "idle"
    BY <1>a, <1>b, <1>f DEF Goto, TypeOK
  <2>2. pc'[h] = l
    BY <1>a, <1>f DEF Goto, TypeOK
  <2> QED
    BY <2>1, <2>2, <1>f DEF FreshInv, Linked
<1>g. ASSUME NEW h \in Hooks, RollBack(h), pc[h] # "idle" PROVE FreshInv'
  <2>1. job'[h].at = None /\ \A k \in Hooks \ {h} : job'[k] = job[k]
    BY <1>a, <1>g DEF RollBack, TypeOK, Job
  <2> QED
    BY <2>1, <1>f, <1>g DEF RollBack, Label, Linked
<1>1. ASSUME NEW h \in Hooks, Acquire(h) PROVE FreshInv'
  BY <1>1, <1>a DEF Acquire, LockFree, Goto, TypeOK, FreshInv, Linked
<1>2. ASSUME NEW h \in Hooks, Reject(h) \/ Refuse(h) \/ Release(h) \/ Abort(h) \/ WriteFails(h)
                              \/ \E g \in Names : PruneFails(h, g)
      PROVE  FreshInv'
  BY <1>2, <1>e DEF Reject, Refuse, Release, Abort, WriteFails, PruneFails
<1>3. ASSUME NEW h \in Hooks, CopySnapshot(h) \/ Validate(h) \/ \E s \in Services : Sample(h, s)
      PROVE  FreshInv'
  <2>1. pc[h] \notin {"idle", "check"}
    BY <1>3 DEF CopySnapshot, Copy, Validate, Sample
  <2>2. job[h].at = None /\ job \in [Hooks -> Job]
    BY <2>1, <1>a DEF TypeOK, FreshInv
  <2>3. job'[h].at = job[h].at /\ \A k \in Hooks \ {h} : job'[k] = job[k]
    <3>1. CASE CopySnapshot(h)
      BY <2>2, <3>1 DEF CopySnapshot, Copy, Job
    <3>2. CASE Validate(h)
      BY <2>2, <3>2 DEF Validate, Job
    <3>3. CASE \E s \in Services : Sample(h, s)
      BY <2>2, <3>3 DEF Sample, Job
    <3> QED
      BY <1>3, <3>1, <3>2, <3>3
  <2>4. PICK l \in Label \ (Linked \cup {"idle"}) : Goto(h, l)
    BY <1>3 DEF CopySnapshot, Copy, Validate, Sample, Label, Linked
  <2> QED
    BY <2>1, <2>2, <2>3, <2>4, <1>f
<1>4. ASSUME NEW h \in Hooks, Enter(h) PROVE FreshInv'
  <2>1. job'[h].at = job[h].at /\ \A k \in Hooks \ {h} : job'[k] = job[k]
    BY <1>4, <1>a DEF Enter, TypeOK, Job
  <2> QED
    BY <2>1, <1>4, <1>f DEF Enter, FreshInv, Label, Linked
<1>5. ASSUME NEW h \in Hooks,
             WritePair(h) \/ SyncGeneration(h) \/ Stage(h) \/ Replace(h) \/ Unlink(h) \/ Restored(h)
      PROVE  FreshInv'
  <2>1. pc[h] \notin {"idle", "check"} /\ job' = job
    BY <1>5 DEF WritePair, WriteFile, SyncGeneration, Stage, Replace, Unlink, Restored
  <2>2. PICK l \in Label \ (Linked \cup {"idle"}) : Goto(h, l)
    BY <1>5 DEF WritePair, WriteFile, SyncGeneration, Stage, Replace, Unlink, Restored, Label, Linked
  <2> QED
    BY <2>1, <2>2, <1>f DEF FreshInv
<1>6. ASSUME NEW h \in Hooks, NEW s \in Services, Restore(h, s) PROVE FreshInv'
  <2>1. job'[h].at = job[h].at /\ pc' = pc /\ pc[h] = "restore" /\ \A k \in Hooks \ {h} : job'[k] = job[k]
    BY <1>6, <1>a DEF Restore, TypeOK, Job
  <2> QED
    BY <2>1, <1>b DEF FreshInv, Linked
<1>7. ASSUME NEW h \in Hooks, SyncRoot(h) PROVE FreshInv'
  <2>1. pc[h] = "syncRoot" /\ pc'[h] \in {"restart", "restore"} /\ \A k \in Hooks \ {h} : pc'[k] = pc[k]
    BY <1>7, <1>a DEF SyncRoot, Goto, TypeOK
  <2>2. /\ job'[h].at = None /\ job'[h].todo = job'[h].active /\ job'[h].active \subseteq Services
        /\ \A k \in Hooks \ {h} : job'[k] = job[k]
    BY <2>1, <1>7, <1>a DEF SyncRoot, TypeOK, Job, FreshInv
  <2>3. Fresh(h)' = {}
    BY <2>2 DEF Fresh
  <2> QED
    BY <2>1, <2>2, <2>3, <1>b DEF FreshInv, Linked
<1>8. ASSUME NEW h \in Hooks, NEW s \in Services, Restart(h, s) PROVE FreshInv'
  <2>1. /\ pc[h] = "restart" /\ pc'[h] = "check" /\ \A k \in Hooks \ {h} : pc'[k] = "idle" /\ job'[k] = job[k]
        /\ job'[h] = [job[h] EXCEPT !.at = s]
        /\ unit' = [unit EXCEPT ![s] = Loading] /\ UNCHANGED pair
    BY <1>8, <1>a, <1>b DEF Restart, Goto, Set, AfterRestart, TypeOK, diskVars
  <2>2. Fresh(h)' \subseteq Fresh(h) \cup {s} /\ job'[h].gen = job[h].gen
    BY <2>1, <1>a DEF Fresh, FreshInv, Job
  <2>3. ASSUME NEW t \in Fresh(h)' PROVE OnPair(unit'[t], pair[job[h].gen])
    <3>1. job'[h].active \subseteq Services
      BY <1>a DEF TypeOK, Job
    <3>2. t \in Services
      BY <2>3, <3>1 DEF Fresh
    <3> QED
      BY <3>2, <2>1, <2>2, <1>a, <1>c, NewUnits DEF FreshInv, Linked, TypeOK
  <2> QED
    BY <2>1, <2>2, <2>3, <1>b DEF FreshInv, Linked
<1>9. ASSUME NEW h \in Hooks, NEW s \in Services, RestartFails(h, s) PROVE FreshInv'
  BY <1>9, <1>g DEF RestartFails
<1>10. ASSUME NEW h \in Hooks, Check(h) PROVE FreshInv'
  <2>1. CASE ~IsActive(job[h].at)
    BY <1>10, <2>1, <1>g DEF Check
  <2>2. CASE IsActive(job[h].at)
    <3>1. /\ pc[h] = "check" /\ pc'[h] = "restart" /\ UNCHANGED <<unit, pair>>
          /\ \A k \in Hooks \ {h} : pc'[k] = "idle" /\ pc[k] = "idle" /\ job'[k] = job[k]
          /\ job'[h] = [job[h] EXCEPT !.todo = @ \ {job[h].at}, !.at = None]
      BY <1>10, <2>2, <1>a, <1>b DEF Check, Goto, TypeOK, diskVars
    <3>2. Fresh(h)' \subseteq Fresh(h) /\ job'[h].gen = job[h].gen /\ job'[h].at = None
      BY <3>1, <1>a DEF Fresh, Job
    <3> QED
      BY <3>1, <3>2 DEF FreshInv, Linked
  <2> QED
    BY <2>1, <2>2
<1>11. ASSUME NEW h \in Hooks, Restarted(h) \/ Pruned(h) PROVE FreshInv'
  <2>1. /\ pc[h] \in {"restart", "prune"} /\ pc'[h] \in {"prune", "published"} /\ job[h].todo = {}
        /\ \A k \in Hooks \ {h} : pc'[k] = "idle" /\ pc[k] = "idle"
        /\ UNCHANGED <<job, unit, pair>>
    BY <1>11, <1>a, <1>b DEF Restarted, Pruned, Goto, TypeOK, FreshInv, diskVars
  <2> QED
    BY <2>1 DEF FreshInv, Fresh, Linked
<1>12. ASSUME NEW h \in Hooks, NEW g \in Names, Prune(h, g) PROVE FreshInv'
  <2>1. pc[h] = "prune" /\ UNCHANGED <<pc, job, unit>> /\ root'.current = root.current
    BY <1>12, <1>a DEF Prune, Edit, hookVars, TypeOK, Root
  <2>2. pair'[job[h].gen] = pair[job[h].gen]
    BY <2>1, <1>d DEF Linked
  <2> QED
    BY <2>1, <2>2, <1>b DEF FreshInv, Fresh, Linked
<1>13. ASSUME UNCHANGED <<hookVars, diskVars>>, NEW s \in Services,
              \A h \in Hooks : pc[h] \in Linked /\ OnPair(unit[s], pair[job[h].gen]) =>
                 OnPair(unit'[s], pair[job[h].gen]),
              \A t \in Services \ {s} : unit'[t] = unit[t]
       PROVE  FreshInv'
  <2>1. UNCHANGED <<pc, job, pair>>
    BY <1>13 DEF hookVars, diskVars
  <2>2. \A h \in Hooks : Fresh(h) \subseteq Services
    BY <1>a DEF Fresh, Job
  <2> QED
    BY <2>1, <2>2, <1>13 DEF FreshInv, Fresh
<1>14. ASSUME NEW s \in Services, Load(s) PROVE FreshInv'
  <2>1. UNCHANGED <<hookVars, diskVars>> /\ \A t \in Services \ {s} : unit'[t] = unit[t]
    BY <1>14, <1>a DEF Load, Set, TypeOK
  <2> QED
    BY <2>1, <1>14, <1>c, <1>13, LoadsPair
<1>15. ASSUME NEW s \in Services, AutoRestart(s) \/ UnitEvent(s) PROVE FreshInv'
  <2>1. UNCHANGED <<hookVars, diskVars>> /\ unit'[s] \in {Down, Backoff, Loading}
        /\ \A t \in Services \ {s} : unit'[t] = unit[t]
    BY <1>15, <1>a DEF AutoRestart, UnitEvent, UnitFails, OperatorStarts, OperatorStops, Set, TypeOK
  <2> QED
    BY <2>1, <1>c, <1>13, NewUnits
<1>16. ASSUME Renew \/ UNCHANGED vars PROVE FreshInv'
  <2>1. UNCHANGED <<pc, job, pair, unit>>
    BY <1>16 DEF Renew, vars, hookVars, diskVars
  <2> QED
    BY <2>1 DEF FreshInv, Fresh
<1>17. CASE PowerLoss
  BY <1>17 DEF PowerLoss, FreshInv, Linked, NoJob
<1> QED
  BY <1>1, <1>2, <1>3, <1>4, <1>5, <1>6, <1>7, <1>8, <1>9, <1>10, <1>11, <1>12, <1>14, <1>15, <1>16, <1>17
     DEF Next, HookStep, HookFault, UnitStep

\* No service that a successful hook found active serves older material, for any
\* hooks, services, renewals and faults.
THEOREM ActiveServe == Spec => []ActiveServePublished
<1>1. Init => FreshInv /\ OneWhole
  BY DEF Init, FreshInv, Linked, NoJob, OneWhole
<1>2. FreshInv => ActiveServePublished
  BY DEF FreshInv, Fresh, OnPair, ActiveServePublished, Linked
<1> QED
  BY <1>1, <1>2, FreshNext, OneWholeNext, DeployInvariant, PTL DEF Spec

-----------------------------------------------------------------------------
(***************************************************************************)
(* What is published is never withdrawn: from then on every hook finds a   *)
(* previous generation, so that none of them can come to the unlink.       *)
(***************************************************************************)
Standing ==
  /\ \A r \in rootLog : r.current # None
  /\ \A h \in Hooks : pc[h] \in Working \ {"prune", "published"} => job[h].prev # None

\* A successful hook has made it so.
LEMMA PublishedStands ==
  DeployInv /\ (\E h \in Hooks : pc[h] = "published") => Standing
<1> SUFFICES ASSUME DeployInv, NEW h \in Hooks, pc[h] = "published" PROVE Standing
  OBVIOUS
<1>1. HookInv(h) /\ TypeOK
  BY DEF DeployInv
<1>2. job[h].gen # None /\ \A r \in rootLog : r.current = job[h].gen
  BY <1>1 DEF HookInv, MaterialInv, LinkInv, Working, Linked, TypeOK, Root
<1>3. \A k \in Hooks \ {h} : pc[k] = "idle"
  BY <1>1 DEF TypeOK
<1> QED
  BY <1>2, <1>3 DEF Standing, Working, Writing, Linked, Undone

\* No step undoes it.
LEMMA StandingNext == DeployInv /\ Standing /\ [Next]_vars => Standing'
<1> SUFFICES ASSUME DeployInv, Standing, [Next]_vars PROVE Standing'
  OBVIOUS
<1>a. TypeOK /\ root \in rootLog /\ root \in Root /\ \A h \in Hooks : HookInv(h) /\ job[h] \in Job
  BY DEF DeployInv, LogInv, TypeOK
<1> DEFINE Exposed == Working \ {"prune", "published"}
<1>b. ASSUME \A r \in rootLog' : r.current # None, NEW h \in Hooks, NEW l, Goto(h, l),
             \A k \in Hooks \ {h} : job'[k] = job[k], l \in Exposed => job'[h].prev # None
      PROVE  Standing'
  BY <1>a, <1>b DEF Goto, TypeOK, Standing
<1>c. ASSUME NEW h \in Hooks, Leave(h), UNCHANGED rootLog PROVE Standing'
  BY <1>a, <1>b, <1>c DEF Leave, Standing, Working, Writing, Linked, Undone, TypeOK
<1>d. ASSUME NEW h \in Hooks, RollBack(h), pc[h] \in Linked \ {"prune", "published"}, UNCHANGED rootLog PROVE Standing'
  <2>1. job'[h].prev = job[h].prev /\ job[h].prev # None /\ \A k \in Hooks \ {h} : job'[k] = job[k]
    BY <1>a, <1>d DEF RollBack, Standing, Working, TypeOK, Job
  <2> QED
    BY <2>1, <1>b, <1>d DEF RollBack, Standing
<1> HIDE DEF Exposed
<1>1. ASSUME NEW h \in Hooks, Reject(h) \/ Refuse(h) \/ Release(h) \/ Abort(h) \/ WriteFails(h)
                              \/ \E g \in Names : PruneFails(h, g)
      PROVE  Standing'
  BY <1>1, <1>c DEF Reject, Refuse, Release, Abort, WriteFails, PruneFails, diskVars
<1>2. ASSUME NEW h \in Hooks, Acquire(h) \/ CopySnapshot(h) \/ Validate(h) \/ \E s \in Services : Sample(h, s)
      PROVE  Standing'
  <2>1. UNCHANGED rootLog /\ \A k \in Hooks \ {h} : job'[k] = job[k]
    BY <1>2, <1>a DEF Acquire, CopySnapshot, Copy, Validate, Sample, diskVars, TypeOK
  <2>2. PICK l \in Label \ Exposed : Goto(h, l)
    BY <1>2 DEF Acquire, CopySnapshot, Copy, Validate, Sample, Label, Exposed, Working, Writing, Linked, Undone
  <2> QED
    BY <2>1, <2>2, <1>b DEF Standing
<1>3. ASSUME NEW h \in Hooks, Enter(h) PROVE Standing'
  <2>1. PICK g \in FreeNames :
          /\ Edit([root EXCEPT !.dirs = @ \cup {g}])
          /\ job' = [job EXCEPT ![h].gen = g, ![h].prev = root.current, ![h].target = g]
    BY <1>3 DEF Enter
  <2>2. job'[h].prev = root.current /\ \A k \in Hooks \ {h} : job'[k] = job[k]
    BY <2>1, <1>a DEF TypeOK, Job
  <2>3. \A r \in rootLog' : r.current # None
    BY <2>1, <1>a DEF Edit, Standing, Root
  <2> QED
    BY <2>2, <2>3, <1>3, <1>a, <1>b DEF Enter, Standing
<1>4. ASSUME NEW h \in Hooks,
             WritePair(h) \/ SyncGeneration(h) \/ Stage(h) \/ Replace(h)
      PROVE  Standing'
  <2>1. /\ pc[h] \in Exposed /\ job' = job
        /\ \E l : Goto(h, l)
    BY <1>4 DEF WritePair, WriteFile, SyncGeneration, Stage, Replace, Exposed, Working, Writing
  <2>2. \A r \in rootLog' : r.current # None
    <3>1. root.current # None /\ \A r \in rootLog : r.current # None
      BY <1>a DEF Standing
    <3>2. CASE WritePair(h) \/ SyncGeneration(h)
      BY <3>1, <3>2 DEF WritePair, WriteFile, SyncGeneration
    <3>3. CASE Stage(h)
      <4>1. rootLog' = rootLog \cup {[root EXCEPT !.next = job[h].target]}
        BY <3>3 DEF Stage, Edit
      <4> QED
        BY <1>a, <3>1, <4>1 DEF Root
    <3>4. CASE Replace(h)
      <4>1. rootLog' = rootLog \cup {[root EXCEPT !.current = root.next, !.next = None]}
            /\ root.next # None
        BY <3>4 DEF Replace, Edit
      <4> QED
        BY <1>a, <3>1, <4>1 DEF Root
    <3> QED
      BY <1>4, <3>2, <3>3, <3>4
  <2> QED
    BY <2>1, <2>2, <1>b DEF Standing, Exposed
<1>5. ASSUME NEW h \in Hooks, Unlink(h) PROVE FALSE
  BY <1>5, <1>a DEF Unlink, HookInv, MaterialInv, LinkInv, Standing, Working, TypeOK, Root
<1>6. ASSUME NEW h \in Hooks, SyncRoot(h) PROVE Standing'
  <2>1. job'[h].prev = job[h].prev /\ job[h].prev # None /\ \A k \in Hooks \ {h} : job'[k] = job[k]
    BY <1>6, <1>a DEF SyncRoot, Standing, Working, TypeOK, Job
  <2>2. \A r \in rootLog' : r.current # None
    BY <1>6, <1>a DEF SyncRoot, Standing
  <2> QED
    BY <2>1, <2>2, <1>6, <1>b DEF SyncRoot
<1>7. ASSUME NEW h \in Hooks, NEW s \in Services, Restart(h, s) PROVE Standing'
  <2>1. job'[h].prev = job[h].prev /\ job[h].prev # None /\ \A k \in Hooks \ {h} : job'[k] = job[k]
    BY <1>7, <1>a DEF Restart, Standing, Working, Linked, TypeOK, Job
  <2> QED
    BY <2>1, <1>7, <1>b DEF Restart, Standing, diskVars
<1>8. ASSUME NEW h \in Hooks, NEW s \in Services, RestartFails(h, s) PROVE Standing'
  BY <1>8, <1>d DEF RestartFails, Linked, diskVars
<1>9. ASSUME NEW h \in Hooks, Check(h) PROVE Standing'
  <2>1. CASE ~IsActive(job[h].at)
    BY <1>9, <2>1, <1>d DEF Check, Linked, diskVars
  <2>2. CASE IsActive(job[h].at)
    <3>1. job'[h].prev = job[h].prev /\ job[h].prev # None /\ \A k \in Hooks \ {h} : job'[k] = job[k]
      BY <1>9, <2>2, <1>a DEF Check, Standing, Working, Linked, TypeOK, Job
    <3> QED
      BY <3>1, <2>2, <1>9, <1>b DEF Check, Standing, diskVars
  <2> QED
    BY <2>1, <2>2
<1>10. ASSUME NEW h \in Hooks, Restarted(h) \/ Restored(h) \/ Pruned(h) PROVE Standing'
  BY <1>10, <1>b DEF Restarted, Restored, Pruned, Standing, diskVars, Exposed, Working, Linked, Undone
<1>11. ASSUME NEW h \in Hooks, NEW s \in Services, Restore(h, s) PROVE Standing'
  <2>1. \A k \in Hooks : job'[k].prev = job[k].prev
    BY <1>11, <1>a DEF Restore, TypeOK, Job
  <2> QED
    BY <2>1, <1>11 DEF Restore, Standing, diskVars
<1>12. ASSUME NEW h \in Hooks, NEW g \in Names, Prune(h, g) PROVE Standing'
  <2>1. UNCHANGED <<pc, job>> /\ \A r \in rootLog' : r.current # None
    BY <1>12, <1>a DEF Prune, Edit, hookVars, Standing, Root
  <2> QED
    BY <2>1 DEF Standing
<1>13. ASSUME (\E s \in Services : UnitStep(s) \/ UnitEvent(s)) \/ Renew \/ UNCHANGED vars PROVE Standing'
  <2>1. UNCHANGED <<pc, job, rootLog>>
    BY <1>13 DEF UnitStep, UnitEvent, Load, AutoRestart, UnitFails, OperatorStarts, OperatorStops,
                 Renew, vars, hookVars, diskVars
  <2> QED
    BY <2>1 DEF Standing
<1>14. CASE PowerLoss
  BY <1>14 DEF PowerLoss, Standing, Working, Writing, Linked, Undone
<1> QED
  BY <1>1, <1>2, <1>3, <1>4, <1>5, <1>6, <1>7, <1>8, <1>9, <1>10, <1>11, <1>12, <1>13, <1>14
     DEF Next, HookStep, HookFault

\* Once a deployment has succeeded there is always something published: no later
\* failure, kill or power loss brings back the unlinked state, for any hooks,
\* services, renewals and faults.
THEOREM StaysPublished == Spec => NeverWithdrawn
<1>1. DeployInv /\ Standing => root.current # None
  BY DEF DeployInv, LogInv, Standing
<1> QED
  BY <1>1, PublishedStands, StandingNext, DeployInvariant, PTL DEF Spec, NeverWithdrawn

-----------------------------------------------------------------------------
(***************************************************************************)
(* A hook comes to its end: Way and Left only ever go one way.             *)
(***************************************************************************)
\* A restart that is being checked is one of those still to do.
CheckInv == \A h \in Hooks : pc[h] = "check" => job[h].at \in job[h].todo

LEMMA CheckNext == DeployInv /\ CheckInv /\ [Next]_vars => CheckInv'
<1> SUFFICES ASSUME DeployInv, CheckInv, [Next]_vars PROVE CheckInv'
  OBVIOUS
<1>0. TypeOK
  BY DEF DeployInv
<1>1. ASSUME NEW h \in Hooks, NEW l, Goto(h, l), \A k \in Hooks \ {h} : job'[k] = job[k],
             l = "check" => job'[h].at \in job'[h].todo
      PROVE  CheckInv'
  BY <1>0, <1>1 DEF Goto, TypeOK, CheckInv
<1>2. ASSUME NEW h \in Hooks, Leave(h) PROVE CheckInv'
  BY <1>0, <1>1, <1>2 DEF Leave, TypeOK
<1>3. ASSUME NEW h \in Hooks, RollBack(h) PROVE CheckInv'
  BY <1>0, <1>1, <1>3 DEF RollBack, TypeOK
<1>4. ASSUME NEW h \in Hooks,
             \/ Acquire(h) \/ CopySnapshot(h) \/ Validate(h) \/ Enter(h) \/ WritePair(h)
             \/ SyncGeneration(h) \/ Stage(h) \/ Replace(h) \/ Unlink(h)
      PROVE  CheckInv'
  BY <1>0, <1>1, <1>4 DEF Acquire, CopySnapshot, Copy, Validate, Enter, WritePair, WriteFile,
     SyncGeneration, Stage, Replace, Unlink, TypeOK
<1>5. ASSUME NEW h \in Hooks, SyncRoot(h) \/ Restarted(h) \/ Restored(h) \/ Pruned(h) PROVE CheckInv'
  BY <1>0, <1>1, <1>5 DEF SyncRoot, Restarted, Restored, Pruned, TypeOK
<1>6. ASSUME NEW h \in Hooks, NEW s \in Services, Sample(h, s) PROVE CheckInv'
  BY <1>0, <1>1, <1>6 DEF Sample, TypeOK
<1>7. ASSUME NEW h \in Hooks, NEW s \in Services, Restart(h, s) PROVE CheckInv'
  <2>1. job'[h].at = s /\ job'[h].todo = job[h].todo /\ \A k \in Hooks \ {h} : job'[k] = job[k]
    BY <1>0, <1>7 DEF Restart, TypeOK, Job
  <2> QED
    BY <1>1, <1>7, <2>1 DEF Restart
<1>8. ASSUME NEW h \in Hooks, Check(h) PROVE CheckInv'
  <2>1. CASE IsActive(job[h].at)
    BY <1>0, <1>1, <1>8, <2>1 DEF Check, TypeOK
  <2>2. CASE ~IsActive(job[h].at)
    BY <1>3, <1>8, <2>2 DEF Check
  <2> QED
    BY <2>1, <2>2
<1>9. ASSUME NEW h \in Hooks, NEW s \in Services, Restore(h, s) PROVE CheckInv'
  BY <1>0, <1>9 DEF Restore, TypeOK, CheckInv
<1>10. ASSUME NEW h \in Hooks, NEW g \in Names, Prune(h, g) PROVE CheckInv'
  BY <1>10 DEF Prune, hookVars, CheckInv
<1>11. ASSUME NEW h \in Hooks, Reject(h) \/ Refuse(h) \/ Release(h) \/ WriteFails(h) \/ Abort(h)
       PROVE  CheckInv'
  BY <1>2, <1>11 DEF Reject, Refuse, Release, WriteFails, Abort
<1>12. ASSUME NEW h \in Hooks, NEW g \in Names, PruneFails(h, g) PROVE CheckInv'
  BY <1>2, <1>12 DEF PruneFails
<1>13. ASSUME NEW h \in Hooks, NEW s \in Services, RestartFails(h, s) PROVE CheckInv'
  BY <1>3, <1>13 DEF RestartFails
<1>14. CASE PowerLoss
  BY <1>14 DEF PowerLoss, CheckInv
<1>15. ASSUME (\E s \in Services : UnitStep(s) \/ UnitEvent(s)) \/ Renew \/ UNCHANGED vars PROVE CheckInv'
  BY <1>15 DEF UnitStep, UnitEvent, Load, AutoRestart, UnitFails, OperatorStarts, OperatorStops,
     Renew, hookVars, vars, CheckInv
<1> QED
  BY <1>4, <1>5, <1>6, <1>7, <1>8, <1>9, <1>10, <1>11, <1>12, <1>13, <1>14, <1>15
  DEF Next, HookStep, HookFault

\* Where each label is on the way.
LEMMA WayIs ==
  ASSUME NEW h \in Hooks
  PROVE  /\ pc[h] = "copyCert" => Way(h) = 1
         /\ pc[h] = "copyKey" => Way(h) = 2
         /\ pc[h] = "validate" => Way(h) = 3
         /\ pc[h] = "sample" => Way(h) = 4
         /\ pc[h] = "enter" => Way(h) = 5
         /\ pc[h] = "writeCert" => Way(h) = 6
         /\ pc[h] = "writeKey" => Way(h) = 7
         /\ pc[h] = "syncGeneration" => Way(h) = 8
         /\ pc[h] = "stage" => Way(h) = IF GoingBack(h) THEN 14 ELSE 9
         /\ pc[h] = "replace" => Way(h) = IF GoingBack(h) THEN 15 ELSE 10
         /\ pc[h] = "unlink" => Way(h) = 15
         /\ pc[h] = "syncRoot" => Way(h) = IF GoingBack(h) THEN 16 ELSE 11
         /\ pc[h] \in {"restart", "check"} => Way(h) = 12
         /\ pc[h] = "prune" => Way(h) = 13
         /\ pc[h] = "restore" => Way(h) = 17
         /\ pc[h] \in {"published", "rolledBack"} => Way(h) = 18
BY DEF Way

\* The same in the next state.
LEMMA WayIsNext ==
  ASSUME NEW h \in Hooks
  PROVE  /\ pc'[h] = "copyKey" => Way(h)' = 2
         /\ pc'[h] = "validate" => Way(h)' = 3
         /\ pc'[h] = "sample" => Way(h)' = 4
         /\ pc'[h] = "enter" => Way(h)' = 5
         /\ pc'[h] = "writeCert" => Way(h)' = 6
         /\ pc'[h] = "writeKey" => Way(h)' = 7
         /\ pc'[h] = "syncGeneration" => Way(h)' = 8
         /\ pc'[h] = "stage" => Way(h)' = IF job'[h].target # job'[h].gen THEN 14 ELSE 9
         /\ pc'[h] = "replace" => Way(h)' = IF job'[h].target # job'[h].gen THEN 15 ELSE 10
         /\ pc'[h] = "unlink" => Way(h)' = 15
         /\ pc'[h] = "syncRoot" => Way(h)' = IF job'[h].target # job'[h].gen THEN 16 ELSE 11
         /\ pc'[h] \in {"restart", "check"} => Way(h)' = 12
         /\ pc'[h] = "prune" => Way(h)' = 13
         /\ pc'[h] = "restore" => Way(h)' = 17
         /\ pc'[h] \in {"published", "rolledBack"} => Way(h)' = 18
BY DEF Way, GoingBack

\* Something less to do.
LEMMA OneLess ==
  ASSUME NEW S, IsFiniteSet(S), NEW x \in S
  PROVE  Cardinality(S) \in Nat /\ Cardinality(S \ {x}) = Cardinality(S) - 1
BY FS_RemoveElement, FS_CardinalityType

LEMMA AdvanceStep == DeployInv /\ CheckInv /\ [Next]_vars =>
  [\A h \in Hooks : lock = h /\ <<hookVars, root>>' # <<hookVars, root>> =>
     \/ lock' # h
     \/ Way(h)' > Way(h)
     \/ Way(h)' = Way(h) /\ Left(h)' < Left(h)]_vars
<1> SUFFICES ASSUME DeployInv, CheckInv, [Next]_vars, NEW h \in Hooks, lock = h, lock' = h,
                    <<hookVars, root>>' # <<hookVars, root>>
             PROVE  Way(h)' > Way(h) \/ (Way(h)' = Way(h) /\ Left(h)' < Left(h))
  OBVIOUS
<1> USE WayIs, WayIsNext
<1>0. /\ TypeOK /\ MaterialInv(h) /\ pc[h] # "idle" /\ None # h
      /\ \A k \in Hooks \ {h} : pc[k] = "idle"
  BY DEF DeployInv, TypeOK, HookInv
<1>a. \A l : Goto(h, l) => pc'[h] = l
  BY <1>0 DEF Goto, TypeOK
<1>b. job[h] \in Job /\ IsFiniteSet(job[h].todo) /\ job \in [Hooks -> Job]
  <2>1. job[h] \in Job /\ job[h].todo \subseteq Services
    BY <1>0, JobFields DEF TypeOK
  <2> QED
    BY <1>0, <2>1, FiniteAssumption, FS_Subset DEF TypeOK
<1>c. \A k \in Hooks : Leave(k) => FALSE
  BY DEF Leave
<1>1. CASE CopySnapshot(h) \/ Validate(h) \/ Enter(h) \/ WritePair(h) \/ SyncGeneration(h)
  <2>1. CASE CopySnapshot(h) \/ Validate(h)
    <3>1. \/ pc[h] = "copyCert" /\ pc'[h] = "copyKey"
          \/ pc[h] = "copyKey"  /\ pc'[h] = "validate"
          \/ pc[h] = "validate" /\ pc'[h] = "sample"
      BY <2>1, <1>a DEF CopySnapshot, Copy, Validate
    <3> QED
      BY <3>1
  <2>2. CASE Enter(h) \/ WritePair(h)
    <3>1. \/ pc[h] = "enter"     /\ pc'[h] = "writeCert"
          \/ pc[h] = "writeCert" /\ pc'[h] = "writeKey"
          \/ pc[h] = "writeKey"  /\ pc'[h] = "syncGeneration"
      BY <2>2, <1>a DEF Enter, WritePair, WriteFile
    <3> QED
      BY <3>1
  <2>3. CASE SyncGeneration(h)
    <3>1. pc[h] = "syncGeneration" /\ pc'[h] = "stage"
      BY <2>3, <1>a DEF SyncGeneration
    <3> QED
      BY <3>1
  <2> QED
    BY <1>1, <2>1, <2>2, <2>3
<1>2. CASE Stage(h) \/ Replace(h) \/ Unlink(h)
  <2>1. job' = job
    BY <1>2 DEF Stage, Replace, Unlink
  <2>2. pc[h] = "unlink" => GoingBack(h)
    BY <1>0 DEF DeployInv, HookInv, LinkInv, MaterialInv, Working, GoingBack, TypeOK, Root
  <2> QED
    BY <1>2, <1>a, <2>1, <2>2 DEF Stage, Replace, Unlink, GoingBack
<1>3. CASE SyncRoot(h)
  BY <1>3, <1>a DEF SyncRoot, GoingBack
<1>4. CASE Restarted(h) \/ Restored(h) \/ Pruned(h)
  BY <1>4, <1>a DEF Restarted, Restored, Pruned
<1>5. ASSUME NEW s \in Services, Sample(h, s)
      PROVE  Way(h)' > Way(h) \/ (Way(h)' = Way(h) /\ Left(h)' < Left(h))
  <2>1. pc[h] = "sample" /\ pc'[h] \in {"enter", "sample"} /\ s \in job[h].todo
    BY <1>5, <1>a DEF Sample
  <2>2. job'[h].todo = job[h].todo \ {s}
    BY <1>5, <1>b DEF Sample, Job
  <2>3. pc'[h] = "sample" => Left(h)' = Cardinality(job[h].todo \ {s})
    BY <2>2 DEF Left
  <2>4. Left(h) = Cardinality(job[h].todo)
    BY <2>1 DEF Left
  <2> QED
    BY <1>b, <2>1, <2>3, <2>4, OneLess
<1>6. ASSUME NEW s \in Services, Restart(h, s)
      PROVE  Way(h)' > Way(h) \/ (Way(h)' = Way(h) /\ Left(h)' < Left(h))
  <2>1. pc[h] = "restart" /\ pc'[h] = "check" /\ s \in job[h].todo
    BY <1>6, <1>a DEF Restart
  <2>2. job'[h].todo = job[h].todo
    BY <1>6, <1>b DEF Restart, Job
  <2>3. Left(h)' = 2 * Cardinality(job[h].todo) - 1 /\ Left(h) = 2 * Cardinality(job[h].todo)
    BY <2>1, <2>2 DEF Left
  <2>4. Cardinality(job[h].todo) \in Nat
    BY <1>b, FS_CardinalityType
  <2>5. Left(h)' < Left(h)
    BY <2>3, <2>4
  <2>6. Way(h)' = Way(h)
    BY <2>1
  <2> QED
    BY <2>5, <2>6
<1>7. ASSUME RollBack(h), pc[h] \in {"restart", "check"} PROVE Way(h)' > Way(h)
  <2>1. job'[h].target = job[h].prev /\ job'[h].gen = job[h].gen
    BY <1>7, <1>b DEF RollBack, Job
  <2>2. job[h].gen # job[h].prev
    BY <1>0, <1>7 DEF MaterialInv, Working, Linked
  <2>3. pc'[h] \in {"unlink", "stage"}
    BY <1>7, <1>a DEF RollBack
  <2> QED
    BY <1>7, <2>1, <2>2, <2>3
<1>8. CASE Check(h)
  <2>1. CASE IsActive(job[h].at)
    <3>1. pc[h] = "check" /\ pc'[h] = "restart" /\ job[h].at \in job[h].todo
      BY <1>8, <2>1, <1>a DEF Check, CheckInv
    <3>2. job'[h].todo = job[h].todo \ {job[h].at}
      BY <1>8, <2>1, <1>b DEF Check, Job
    <3>3. Left(h)' = 2 * Cardinality(job[h].todo \ {job[h].at}) /\ Left(h) = 2 * Cardinality(job[h].todo) - 1
      BY <3>1, <3>2 DEF Left
    <3> QED
      BY <1>b, <3>1, <3>3, OneLess
  <2>2. CASE ~IsActive(job[h].at)
    BY <1>7, <1>8, <2>2 DEF Check
  <2> QED
    BY <2>1, <2>2
<1>9. ASSUME NEW s \in Services, Restore(h, s)
      PROVE  Way(h)' = Way(h) /\ Left(h)' < Left(h)
  <2>1. pc[h] = "restore" /\ pc'[h] = "restore" /\ s \in job[h].todo
    BY <1>9 DEF Restore
  <2>2. job'[h].todo = job[h].todo \ {s}
    BY <1>9, <1>b DEF Restore, Job
  <2>3. Left(h)' = Cardinality(job[h].todo \ {s}) /\ Left(h) = Cardinality(job[h].todo)
    BY <2>1, <2>2 DEF Left
  <2> QED
    BY <1>b, <2>1, <2>3, OneLess
<1>10. ASSUME NEW g \in Names, Prune(h, g)
       PROVE  Way(h)' = Way(h) /\ Left(h)' < Left(h)
  <2> DEFINE P == {k \in Names : Prunable(h, k)}
             Q == {k \in Names : Prunable(h, k)'}
  <2>1. pc[h] = "prune" /\ pc'[h] = "prune" /\ g \in P /\ job' = job
    BY <1>10 DEF Prune, hookVars
  <2>2. /\ root'.dirs = root.dirs \ {g}
        /\ \A k \in Names \ {g} : pair'[k] = pair[k]
    BY <1>0, <1>10 DEF Prune, Edit, TypeOK, Root
  <2>3. Q = P \ {g}
    BY <2>1, <2>2 DEF Prunable, Kept
  <2>4. Left(h)' = Cardinality(Q) /\ Left(h) = Cardinality(P)
    BY <2>1 DEF Left
  <2>5. IsFiniteSet(P)
    BY FiniteAssumption, FS_Subset
  <2> HIDE DEF P, Q
  <2> QED
    BY <2>1, <2>3, <2>4, <2>5, OneLess
<1>11. ASSUME NEW k \in Hooks, HookStep(k) \/ HookFault(k)
       PROVE  Way(h)' > Way(h) \/ (Way(h)' = Way(h) /\ Left(h)' < Left(h))
  <2>1. CASE k # h
    <3>1. pc[k] = "idle" /\ lock # None
      BY <1>0, <2>1
    <3> QED
      BY <3>1, <1>11
      DEF HookStep, HookFault, Acquire, LockFree, CopySnapshot, Copy, Validate, Reject, Sample,
          Enter, Refuse, WritePair, WriteFile, SyncGeneration, Stage, Replace, Unlink, SyncRoot,
          Restart, Check, Restarted, Restore, Restored, Prune, Pruned, Release, WriteFails, Abort,
          RestartFails, PruneFails
  <2>2. CASE k = h
    <3>1. ~Acquire(h) /\ ~Reject(h) /\ ~Refuse(h) /\ ~Release(h) /\ ~WriteFails(h) /\ ~Abort(h)
          /\ \A g \in Names : ~PruneFails(h, g)
      BY <1>0, <1>c DEF Acquire, Reject, Refuse, Release, WriteFails, Abort, PruneFails
    <3>2. ASSUME NEW s \in Services, RestartFails(h, s) PROVE Way(h)' > Way(h)
      BY <1>7, <3>2 DEF RestartFails
    <3> QED
      BY <1>11, <2>2, <3>1, <3>2, <1>1, <1>2, <1>3, <1>4, <1>5, <1>6, <1>8, <1>9, <1>10
      DEF HookStep, HookFault
  <2> QED
    BY <2>1, <2>2
<1>12. CASE PowerLoss
  BY <1>0, <1>12 DEF PowerLoss
<1>13. ASSUME (\E s \in Services : UnitStep(s) \/ UnitEvent(s)) \/ Renew \/ UNCHANGED vars PROVE FALSE
  BY <1>13 DEF UnitStep, UnitEvent, Load, AutoRestart, UnitFails, OperatorStarts, OperatorStops,
     Renew, hookVars, diskVars, vars
<1> QED
  BY <1>11, <1>12, <1>13 DEF Next

\* While a hook has the lock each of its steps brings it nearer to its end, whatever
\* the services, the other hooks and the renewals do: a hold of the lock is a
\* bounded number of steps, for any number of services and old generations.
THEOREM HookComesToItsEnd == Spec => HookAdvances
<1>1. Init => CheckInv
  BY DEF Init, CheckInv
<1> QED
  BY <1>1, CheckNext, AdvanceStep, DeployInvariant, PTL DEF Spec, HookAdvances
=============================================================================
