------------------------------ MODULE IpDeploy ------------------------------
(***************************************************************************)
(* The deploy hook for the home IP certificate, ip_deploy.py, with the     *)
(* public services it restarts.                                            *)
(*                                                                         *)
(* A hook takes a non-blocking lock, copies the renewed certificate and    *)
(* key out of Certbot's lineage, validates the copy, notes which services  *)
(* are active, writes the pair to a fresh generation directory, moves the  *)
(* link tls/current to it and restarts the active services.  When a        *)
(* restart fails it moves the link back.  systemd loads the certificate    *)
(* and the key of a starting service one after the other, each through     *)
(* tls/current, at any moment: the link is what must never be wrong.       *)
(*                                                                         *)
(* A hook may be killed at any step and the host may lose power.  What a   *)
(* power loss can leave is kept in rootLog and pairLog: every state of the *)
(* publication directory since it was last synced, and every content of a  *)
(* generation whose data or directory entries may not have reached the     *)
(* disk (directory changes reach it in order, as on a journalled file      *)
(* system).                                                                *)
(***************************************************************************)
EXTENDS Integers, FiniteSets

CONSTANTS
  Hooks,       \* processes that may run the deploy hook
  Services,    \* SERVICES: the public units restarted by the hook
  Names,       \* names tempfile.mkdtemp can give a generation
  None,        \* no link, no holder, no service
  MaxVersion,  \* bound: how many pairs Certbot issues
  MaxFaults    \* bound: kills, failed commands, service crashes, power losses

ASSUME ConstantsAssumption ==
  /\ None \notin Hooks \cup Services \cup Names
  /\ Services # {}
  /\ MaxVersion \in Nat \ {0}
  /\ MaxFaults \in Nat

ASSUME FiniteAssumption == IsFiniteSet(Services) /\ IsFiniteSet(Names)

VARIABLES
  lineage,  \* what Certbot's live links name: the version of each file
  lock,     \* the holder of /run/lock/aura-ip-tls.lock
  pc,       \* where each hook is
  job,      \* the local variables of each hook
  root,     \* the publication directory: generations and links
  pair,     \* the two files of each generation
  rootLog,  \* every root a power loss could leave
  pairLog,  \* every content a power loss could leave in a generation
  unit,     \* each systemd unit, with the credentials it has loaded
  faults    \* faults so far

hookVars == <<lock, pc, job>>
diskVars == <<root, pair, rootLog, pairLog>>
vars == <<lineage, hookVars, diskVars, unit, faults>>

(***************************************************************************)
(* Files hold a version of the renewed pair, or nothing, or a part of it.  *)
(***************************************************************************)
Absent  == 0
Torn    == -1
Version == 1 .. MaxVersion
File    == {"cert", "key"}
Pair    == [File -> Version \cup {Absent, Torn}]
Empty   == [f \in File |-> Absent]

Sound(p)   == p["cert"] \in Version /\ p["key"] = p["cert"]
BothNamed(p) == p["cert"] # Absent /\ p["key"] # Absent

Root == [dirs : SUBSET Names, current : Names \cup {None}, next : Names \cup {None}]

(***************************************************************************)
(* A unit is "loading" while systemd collects its credentials; a           *)
(* Type=simple unit is active from the moment it is forked.                *)
(***************************************************************************)
UnitState == [state : {"inactive", "backoff", "loading", "serving"}, creds : Pair]
Down    == [state |-> "inactive", creds |-> Empty]
Backoff == [state |-> "backoff",  creds |-> Empty]
Loading == [state |-> "loading",  creds |-> Empty]
IsActive(s) == unit[s].state \in {"loading", "serving"}

Label == {"idle", "copyCert", "copyKey", "validate", "sample", "enter",
          "writeCert", "writeKey", "syncGeneration", "stage", "replace", "unlink",
          "syncRoot", "restart", "check", "prune", "published", "restore", "rolledBack"}

Job == [snap : Pair, active : SUBSET Services, todo : SUBSET Services,
        at : Services \cup {None}, gen : Names \cup {None},
        prev : Names \cup {None}, target : Names \cup {None}]
NoJob == [snap |-> Empty, active |-> {}, todo |-> {}, at |-> None,
          gen |-> None, prev |-> None, target |-> None]

Init ==
  /\ lineage = [f \in File |-> 1]
  /\ lock = None
  /\ pc = [h \in Hooks |-> "idle"]
  /\ job = [h \in Hooks |-> NoJob]
  /\ root = [dirs |-> {}, current |-> None, next |-> None]
  /\ pair = [g \in Names |-> Empty]
  /\ rootLog = {root}
  /\ pairLog = [g \in Names |-> {Empty}]
  /\ unit = [s \in Services |-> Down]
  /\ faults = 0

-----------------------------------------------------------------------------
(***************************************************************************)
(* Helpers.  A definition that stands right before another one of the same *)
(* shape and says "mutant" is a bug the code does not have: no action uses *)
(* it, and the properties are shown to fail with it.                       *)
(***************************************************************************)
Goto(h, l) == pc' = [pc EXCEPT ![h] = l]

\* The end of the with block, or of the process: the lock is free again.
Leave(h) ==
  /\ lock' = None
  /\ Goto(h, "idle")
  /\ job' = [job EXCEPT ![h] = NoJob]

Fault == faults < MaxFaults /\ faults' = faults + 1

\* A change of the publication directory: it may or may not survive.
Edit(r) == root' = r /\ rootLog' = rootLog \cup {r}

Set(s, u) == unit' = [unit EXCEPT ![s] = u]

-----------------------------------------------------------------------------
(***************************************************************************)
(* The hook: main.  A hook that finds the lock taken raises at once and    *)
(* changes nothing, so only the one that gets it appears here.             *)
(***************************************************************************)
\* Mutant.
LockIgnored == TRUE
LockFree == lock = None

Acquire(h) ==
  /\ pc[h] = "idle"
  /\ LockFree
  /\ lock' = h
  /\ Goto(h, "copyCert")
  /\ UNCHANGED <<lineage, job, diskVars, unit, faults>>

\* The live links are resolved one after the other; the archive files they
\* name never change, so a copy is of the version its link named.
Copy(h, f, from, to) ==
  /\ pc[h] = from
  /\ job' = [job EXCEPT ![h].snap[f] = lineage[f]]
  /\ Goto(h, to)
  /\ UNCHANGED <<lineage, lock, diskVars, unit, faults>>

CopySnapshot(h) ==
  \/ Copy(h, "cert", "copyCert", "copyKey")
  \/ Copy(h, "key", "copyKey", "validate")

\* Mutant.
AcceptAny(p) == TRUE
\* validate_pair: a snapshot of two different renewals does not load.
Accepted(p) == Sound(p)

Validate(h) ==
  /\ pc[h] = "validate"
  /\ Accepted(job[h].snap)
  /\ job' = [job EXCEPT ![h].todo = Services]
  /\ Goto(h, "sample")
  /\ UNCHANGED <<lineage, lock, diskVars, unit, faults>>

\* The pair does not match, or its chain, address or lifetime is refused.
Reject(h) ==
  /\ pc[h] = "validate"
  /\ Leave(h)
  /\ UNCHANGED <<lineage, diskVars, unit, faults>>

\* systemctl is-active, one service after the other.
Sample(h, s) ==
  /\ pc[h] = "sample"
  /\ s \in job[h].todo
  /\ job' = [job EXCEPT ![h].todo = @ \ {s},
                        ![h].active = IF IsActive(s) THEN @ \cup {s} ELSE @]
  /\ Goto(h, IF job[h].todo = {s} THEN "enter" ELSE "sample")
  /\ UNCHANGED <<lineage, lock, diskVars, unit, faults>>

-----------------------------------------------------------------------------
(***************************************************************************)
(* The hook: publish and point.                                            *)
(***************************************************************************)
\* Read the current link, refuse one that names no generation, and make a
\* directory whose name no possible state of the root contains.
FreeNames == {g \in Names : \A r \in rootLog : g \notin r.dirs}
LinkIsValid == root.current \in root.dirs \cup {None}

Enter(h) ==
  /\ pc[h] = "enter"
  /\ LinkIsValid
  /\ \E g \in FreeNames :
       /\ Edit([root EXCEPT !.dirs = @ \cup {g}])
       /\ pair' = [pair EXCEPT ![g] = Empty]
       /\ pairLog' = [pairLog EXCEPT ![g] = {Empty}]
       /\ job' = [job EXCEPT ![h].gen = g, ![h].prev = root.current, ![h].target = g]
  /\ Goto(h, "writeCert")
  /\ UNCHANGED <<lineage, lock, unit, faults>>

\* The link is refused, or mkdtemp finds no free name.
Refuse(h) ==
  /\ pc[h] = "enter"
  /\ LinkIsValid => FreeNames = {}
  /\ Leave(h)
  /\ UNCHANGED <<lineage, diskVars, unit, faults>>

\* Copy and fsync one file: its data is safe, its directory entry is not yet.
WriteFile(h, f, from, to) ==
  LET g == job[h].gen IN
  /\ pc[h] = from
  /\ pair' = [pair EXCEPT ![g][f] = job[h].snap[f]]
  /\ pairLog' = [pairLog EXCEPT ![g] =
                   @ \cup {[p EXCEPT ![f] = job[h].snap[f]] : p \in @}]
  /\ Goto(h, to)
  /\ UNCHANGED <<lineage, lock, job, root, rootLog, unit, faults>>

WritePair(h) ==
  \/ WriteFile(h, "cert", "writeCert", "writeKey")
  \/ WriteFile(h, "key", "writeKey", "syncGeneration")

\* The copy stops part of the way: the disk is full or the hook is killed.
WriteFails(h) ==
  LET g == job[h].gen
      f == IF pc[h] = "writeCert" THEN "cert" ELSE "key"
  IN
  /\ pc[h] \in {"writeCert", "writeKey"}
  /\ Fault
  /\ pair' = [pair EXCEPT ![g][f] = Torn]
  /\ pairLog' = [pairLog EXCEPT ![g] = @ \cup {[p EXCEPT ![f] = Torn] : p \in @}]
  /\ Leave(h)
  /\ UNCHANGED <<lineage, root, rootLog, unit>>

\* Mutant.
AfterNoSync(log) == log
\* sync_directory(generation): the entries of both files are on the disk.
AfterSync(log) == {p \in log : BothNamed(p)}

SyncGeneration(h) ==
  /\ pc[h] = "syncGeneration"
  /\ pairLog' = [pairLog EXCEPT ![job[h].gen] = AfterSync(@)]
  /\ Goto(h, "stage")
  /\ UNCHANGED <<lineage, lock, job, root, pair, rootLog, unit, faults>>

\* point: a stale .current-next is replaced, then renamed over current.
Stage(h) ==
  /\ pc[h] = "stage"
  /\ Edit([root EXCEPT !.next = job[h].target])
  /\ Goto(h, "replace")
  /\ UNCHANGED <<lineage, lock, job, pair, pairLog, unit, faults>>

Replace(h) ==
  /\ pc[h] = "replace"
  /\ root.next # None
  /\ Edit([root EXCEPT !.current = root.next, !.next = None])
  /\ Goto(h, "syncRoot")
  /\ UNCHANGED <<lineage, lock, job, pair, pairLog, unit, faults>>

\* Mutant.
UnlinkUnsynced(h) ==
  /\ pc[h] = "unlink"
  /\ Edit([root EXCEPT !.current = None])
  /\ job' = [job EXCEPT ![h].todo = job[h].active]
  /\ Goto(h, "restore")
  /\ UNCHANGED <<lineage, lock, pair, pairLog, unit, faults>>

\* A failed first publication has nothing to go back to: no link is left.
Unlink(h) ==
  /\ pc[h] = "unlink"
  /\ Edit([root EXCEPT !.current = None])
  /\ Goto(h, "syncRoot")
  /\ UNCHANGED <<lineage, lock, job, pair, pairLog, unit, faults>>

SyncRoot(h) ==
  /\ pc[h] = "syncRoot"
  /\ rootLog' = {root}
  /\ job' = [job EXCEPT ![h].todo = job[h].active]
  /\ Goto(h, IF job[h].target = job[h].gen THEN "restart" ELSE "restore")
  /\ UNCHANGED <<lineage, lock, root, pair, pairLog, unit, faults>>

\* Mutant: the new generation is tried again.
TryAgain(h) ==
  /\ job' = [job EXCEPT ![h].at = None]
  /\ Goto(h, "stage")

\* Mutant.
RollBackToLink(h) ==
  /\ job' = [job EXCEPT ![h].target = job[h].prev, ![h].at = None]
  /\ Goto(h, "stage")

\* Mutant.
RollBackToNothing(h) ==
  /\ job' = [job EXCEPT ![h].target = None, ![h].at = None]
  /\ Goto(h, "unlink")

\* The except branch of publish: aim at the previous generation, if any.
RollBack(h) ==
  /\ job' = [job EXCEPT ![h].target = job[h].prev, ![h].at = None]
  /\ Goto(h, IF job[h].prev = None THEN "unlink" ELSE "stage")

\* Mutant.
AfterStart(s) == IF IsActive(s) THEN unit[s] ELSE Loading
AfterRestart(s) == Loading

Restart(h, s) ==
  /\ pc[h] = "restart"
  /\ s \in job[h].todo
  /\ Set(s, AfterRestart(s))
  /\ job' = [job EXCEPT ![h].at = s]
  /\ Goto(h, "check")
  /\ UNCHANGED <<lineage, lock, diskVars, faults>>

\* The command fails or exceeds its timeout, with or without having stopped
\* the unit, or while systemd still carries the restart out.
RestartFails(h, s) ==
  /\ pc[h] = "restart"
  /\ s \in job[h].todo
  /\ Fault
  /\ \E u \in {unit[s], Down, Loading} : Set(s, u)
  /\ RollBack(h)
  /\ UNCHANGED <<lineage, lock, diskVars>>

\* systemctl is-active right after the restart.
Check(h) ==
  /\ pc[h] = "check"
  /\ IF IsActive(job[h].at)
     THEN /\ job' = [job EXCEPT ![h].todo = @ \ {job[h].at}, ![h].at = None]
          /\ Goto(h, "restart")
     ELSE RollBack(h)
  /\ UNCHANGED <<lineage, lock, diskVars, unit, faults>>

Restarted(h) ==
  /\ pc[h] = "restart"
  /\ job[h].todo = {}
  /\ Goto(h, "prune")
  /\ UNCHANGED <<lineage, lock, job, diskVars, unit, faults>>

\* After a rollback: restart on the previous pair, or stop when there is none.
\* Every failure is swallowed.
Restore(h, s) ==
  /\ pc[h] = "restore"
  /\ s \in job[h].todo
  /\ \E u \in {unit[s], Down} \cup (IF job[h].target = None THEN {} ELSE {Loading}) :
       Set(s, u)
  /\ job' = [job EXCEPT ![h].todo = @ \ {s}]
  /\ UNCHANGED <<lineage, lock, pc, diskVars, faults>>

Restored(h) ==
  /\ pc[h] = "restore"
  /\ job[h].todo = {}
  /\ Goto(h, "rolledBack")
  /\ UNCHANGED <<lineage, lock, job, diskVars, unit, faults>>

\* Mutant.
KeptCurrentOnly(h) == {job[h].gen}
\* Complete generations other than the current and the previous one go.
Kept(h) == {job[h].gen, job[h].prev}

Prunable(h, g) ==
  /\ g \in root.dirs \ Kept(h)
  /\ BothNamed(pair[g])

Prune(h, g) ==
  /\ pc[h] = "prune"
  /\ Prunable(h, g)
  /\ Edit([root EXCEPT !.dirs = @ \ {g}])
  /\ pair' = [pair EXCEPT ![g] = Empty]
  /\ pairLog' = [pairLog EXCEPT ![g] =
                   @ \cup {[p EXCEPT !["cert"] = Absent] : p \in @} \cup {Empty}]
  /\ UNCHANGED <<lineage, hookVars, unit, faults>>

\* The hook dies between the two unlinks, or before the rmdir.
PruneFails(h, g) ==
  /\ pc[h] = "prune"
  /\ Prunable(h, g)
  /\ Fault
  /\ \E p \in {[pair[g] EXCEPT !["cert"] = Absent], Empty} :
       /\ pair' = [pair EXCEPT ![g] = p]
       /\ pairLog' = [pairLog EXCEPT ![g] =
                        @ \cup {[q EXCEPT !["cert"] = Absent] : q \in @} \cup {p}]
  /\ Leave(h)
  /\ UNCHANGED <<lineage, root, rootLog, unit>>

Pruned(h) ==
  /\ pc[h] = "prune"
  /\ \A g \in Names : ~Prunable(h, g)
  /\ Goto(h, "published")
  /\ UNCHANGED <<lineage, lock, job, diskVars, unit, faults>>

Release(h) ==
  /\ pc[h] \in {"published", "rolledBack"}
  /\ Leave(h)
  /\ UNCHANGED <<lineage, diskVars, unit, faults>>

\* The hook is killed (TimeoutStartSec) or raises between two steps.
Abort(h) ==
  /\ pc[h] \notin {"idle", "published", "rolledBack"}
  /\ Fault
  /\ Leave(h)
  /\ UNCHANGED <<lineage, diskVars, unit>>

-----------------------------------------------------------------------------
(***************************************************************************)
(* The surroundings: Certbot, systemd, the operator, the power supply.     *)
(***************************************************************************)
\* Certbot moves the live links of a renewed lineage one at a time.
Renew ==
  /\ \/ /\ lineage["key"] = lineage["cert"]
        /\ lineage["key"] < MaxVersion
        /\ lineage' = [lineage EXCEPT !["key"] = @ + 1]
     \/ /\ lineage["cert"] < lineage["key"]
        /\ lineage' = [lineage EXCEPT !["cert"] = @ + 1]
  /\ UNCHANGED <<hookVars, diskVars, unit, faults>>

\* LoadCredential opens each file through tls/current; a process that gets
\* two halves of different pairs exits, and so does one that gets no file.
Load(s) ==
  LET f     == IF unit[s].creds["cert"] = Absent THEN "cert" ELSE "key"
      file  == IF root.current = None THEN Absent ELSE pair[root.current][f]
      creds == [unit[s].creds EXCEPT ![f] = file]
  IN
  /\ unit[s].state = "loading"
  /\ Set(s, IF file = Absent THEN Backoff
            ELSE IF f = "cert" THEN [state |-> "loading", creds |-> creds]
            ELSE IF Sound(creds) THEN [state |-> "serving", creds |-> creds]
            ELSE Backoff)
  /\ UNCHANGED <<lineage, hookVars, diskVars, faults>>

UnitFails(s) ==
  /\ IsActive(s)
  /\ Fault
  /\ Set(s, Backoff)
  /\ UNCHANGED <<lineage, hookVars, diskVars>>

\* Restart=on-failure after RestartSec, until StartLimitBurst is used up.
AutoRestart(s) ==
  /\ unit[s].state = "backoff"
  /\ \E u \in {Loading, Down} : Set(s, u)
  /\ UNCHANGED <<lineage, hookVars, diskVars, faults>>

OperatorStarts(s) ==
  /\ unit[s].state = "inactive"
  /\ Set(s, Loading)
  /\ UNCHANGED <<lineage, hookVars, diskVars, faults>>

OperatorStops(s) ==
  /\ unit[s].state # "inactive"
  /\ Set(s, Down)
  /\ UNCHANGED <<lineage, hookVars, diskVars, faults>>

PowerLoss ==
  /\ Fault
  /\ root' \in rootLog
  /\ rootLog' = {root'}
  /\ pair' \in [Names -> UNION {pairLog[g] : g \in Names} \cup {Empty}]
  /\ \A g \in Names : pair'[g] \in IF g \in root'.dirs THEN pairLog[g] ELSE {Empty}
  /\ pairLog' = [g \in Names |-> {pair'[g]}]
  /\ lock' = None
  /\ pc' = [h \in Hooks |-> "idle"]
  /\ job' = [h \in Hooks |-> NoJob]
  /\ unit' \in [Services -> {Down, Loading}]
  /\ UNCHANGED lineage

-----------------------------------------------------------------------------
HookStep(h) ==
  \/ Acquire(h) \/ CopySnapshot(h) \/ Validate(h) \/ Reject(h)
  \/ \E s \in Services : Sample(h, s)
  \/ Enter(h) \/ Refuse(h) \/ WritePair(h) \/ SyncGeneration(h)
  \/ Stage(h) \/ Replace(h) \/ Unlink(h) \/ SyncRoot(h)
  \/ \E s \in Services : Restart(h, s)
  \/ Check(h) \/ Restarted(h)
  \/ \E s \in Services : Restore(h, s)
  \/ Restored(h)
  \/ \E g \in Names : Prune(h, g)
  \/ Pruned(h) \/ Release(h)

HookFault(h) ==
  \/ WriteFails(h) \/ Abort(h)
  \/ \E s \in Services : RestartFails(h, s)
  \/ \E g \in Names : PruneFails(h, g)

UnitStep(s) == Load(s) \/ AutoRestart(s)

UnitEvent(s) == UnitFails(s) \/ OperatorStarts(s) \/ OperatorStops(s)

Next ==
  \/ \E h \in Hooks : HookStep(h) \/ HookFault(h)
  \/ \E s \in Services : UnitStep(s) \/ UnitEvent(s)
  \/ Renew
  \/ PowerLoss

Spec == Init /\ [][Next]_vars

\* A hook keeps running: every command it waits for has a timeout (renew.run).
LiveSpec == Spec /\ \A h \in Hooks : WF_vars(HookStep(h))

-----------------------------------------------------------------------------
(***************************************************************************)
(* Properties.                                                             *)
(***************************************************************************)
\* Every variable keeps its type, and the hook that is at work is the holder of
\* the deploy lock.
TypeOK ==
  /\ lineage \in [File -> Version]
  /\ lock \in Hooks \cup {None}
  /\ pc \in [Hooks -> Label]
  /\ job \in [Hooks -> Job]
  /\ root \in Root
  /\ pair \in [Names -> Pair]
  /\ rootLog \subseteq Root
  /\ pairLog \in [Names -> SUBSET Pair]
  /\ unit \in [Services -> UnitState]
  /\ faults \in 0 .. MaxFaults
  /\ \A h \in Hooks : pc[h] # "idle" <=> lock = h

\* Cut the power at any moment: whatever part of the recent writes reached the
\* disk, tls/current names a generation that is there and holds the matching
\* certificate and key of one renewal, in full.
CurrentSurvivesPowerLoss ==
  \A r \in rootLog : r.current # None =>
    /\ r.current \in r.dirs
    /\ \A p \in pairLog[r.current] : Sound(p)

\* The generation tls/current names does not change while the link names it:
\* no hook writes to it or prunes it, and no power loss takes a part of it.
PublishedPairImmutable ==
  [][\A g \in Names : root.current = g /\ root'.current = g => pair'[g] = pair[g]]_vars

\* A hook that has published leaves exactly what the next one needs to go back
\* to: the previous generation, whole, and no older whole one.
RotationKeepsPrevious ==
  \A h \in Hooks : pc[h] = "published" =>
    /\ job[h].prev # None => job[h].prev \in root.dirs /\ Sound(pair[job[h].prev])
    /\ \A g \in root.dirs : BothNamed(pair[g]) => g \in {job[h].gen, job[h].prev}

\* When a hook reports success, no service it found active still serves older
\* material: the restart came after the move of the link, whoever else started
\* or stopped the service in between.
ActiveServePublished ==
  \A h \in Hooks : pc[h] = "published" =>
    \A s \in job[h].active :
      unit[s].state = "serving" => unit[s].creds = pair[job[h].gen]

\* A hook whose restarts failed has put the link back where it was, and not
\* even a power loss brings the refused generation back.
RollbackIsDurable ==
  \A h \in Hooks : pc[h] = "rolledBack" =>
    \A r \in rootLog : r.current = job[h].prev

\* Once a deployment succeeded there is always something published: neither a
\* later failure, nor a kill, nor a power loss brings back the unlinked state.
NeverWithdrawn ==
  [](( \E h \in Hooks : pc[h] = "published") => [](root.current # None))

\* A hook that has the lock gives it back: no failure leaves it waiting, which
\* would make every later hook fail on the lock.
LockGivenBack == \A h \in Hooks : lock = h ~> lock # h

\* Where a hook is on its way, and what it has left to do there.  It comes through
\* some of the steps twice: for the new generation, and on the way back.
GoingBack(h) == job[h].target # job[h].gen
Way(h) ==
  CASE pc[h] = "copyCert"  -> 1
    [] pc[h] = "copyKey"   -> 2
    [] pc[h] = "validate"  -> 3
    [] pc[h] = "sample"    -> 4
    [] pc[h] = "enter"     -> 5
    [] pc[h] = "writeCert" -> 6
    [] pc[h] = "writeKey"  -> 7
    [] pc[h] = "syncGeneration" -> 8
    [] pc[h] = "stage"     -> IF GoingBack(h) THEN 14 ELSE 9
    [] pc[h] = "replace"   -> IF GoingBack(h) THEN 15 ELSE 10
    [] pc[h] = "unlink"    -> 15
    [] pc[h] = "syncRoot"  -> IF GoingBack(h) THEN 16 ELSE 11
    [] pc[h] \in {"restart", "check"} -> 12
    [] pc[h] = "prune"     -> 13
    [] pc[h] = "restore"   -> 17
    [] OTHER               -> 18
Left(h) ==
  CASE pc[h] \in {"sample", "restore"} -> Cardinality(job[h].todo)
    [] pc[h] = "restart" -> 2 * Cardinality(job[h].todo)
    [] pc[h] = "check"   -> 2 * Cardinality(job[h].todo) - 1
    [] pc[h] = "prune"   -> Cardinality({g \in Names : Prunable(h, g)})
    [] OTHER             -> 0

\* A hook that has the lock never comes back to where it was, and nobody else puts
\* it back: each of its steps brings it nearer to its end, over the rollback too,
\* whatever becomes of the services meanwhile.  It has finitely many to make.
HookAdvances ==
  [][\A h \in Hooks : lock = h /\ <<hookVars, root>>' # <<hookVars, root>> =>
       \/ lock' # h
       \/ Way(h)' > Way(h)
       \/ Way(h)' = Way(h) /\ Left(h)' < Left(h)]_vars

\* tls/current implements the register of whole pairs.
Reading(r, p) == IF r.current = None THEN 0 ELSE IF Sound(p) THEN p["cert"] ELSE Torn
PossibleReadings ==
  UNION {IF r.current = None THEN {0} ELSE {Reading(r, p) : p \in pairLog[r.current]} :
           r \in rootLog}

Register == INSTANCE PairRegister WITH
  issued <- lineage["cert"],
  shown  <- IF root.current = None THEN 0 ELSE Reading(root, pair[root.current]),
  saved  <- PossibleReadings

ImplementsRegister == Register!Spec

-----------------------------------------------------------------------------
(***************************************************************************)
(* Why CurrentSurvivesPowerLoss holds: what the hook at work has so far.   *)
(***************************************************************************)
Writing == {"writeCert", "writeKey", "syncGeneration"}
Linked  == {"restart", "check", "prune", "published"}
Undone  == {"restore", "rolledBack"}
Working == Writing \cup Linked \cup Undone \cup {"stage", "replace", "unlink", "syncRoot"}

\* The snapshot passed validation, the previous generation is whole, the new
\* one is another.
MaterialInv(h) ==
  /\ pc[h] \in Working \cup {"sample", "enter"} => Sound(job[h].snap)
  /\ pc[h] \in Working =>
       /\ job[h].gen \in root.dirs /\ job[h].gen # job[h].prev
       /\ job[h].prev # None =>
            job[h].prev \in root.dirs /\ \A p \in pairLog[job[h].prev] : Sound(p)
       /\ job[h].target \in {job[h].gen, job[h].prev}

\* A generation being written is not linked, and it is whole before it is.
WriteInv(h) ==
  LET g == job[h].gen
      pending == CASE pc[h] = "writeCert" -> File [] pc[h] = "writeKey" -> {"key"} [] OTHER -> {}
  IN
  /\ pc[h] \in Writing =>
       /\ job[h].target = g
       /\ \A r \in rootLog : r.current # g
       /\ \A p \in pairLog[g], f \in File :
            p[f] = Absent \/ (f \notin pending /\ p[f] = job[h].snap[f])
       /\ \A f \in File \ pending : pair[g][f] = job[h].snap[f]
  /\ pc[h] \in Working \ Writing => \A p \in pairLog[g] : Sound(p)

\* The link moves to the target and is there before any service is touched.
LinkInv(h) ==
  /\ pc[h] \in {"stage", "replace"} => job[h].target # None
  /\ pc[h] = "replace" => root.next = job[h].target
  /\ pc[h] = "unlink" => job[h].target = None
  /\ pc[h] = "syncRoot" => root.current = job[h].target
  /\ pc[h] \in Linked =>
       job[h].target = job[h].gen /\ \A r \in rootLog : r.current = job[h].gen
  /\ pc[h] \in Undone =>
       job[h].target = job[h].prev /\ \A r \in rootLog : r.current = job[h].prev
  /\ pc[h] = "published" => \A g \in Names : ~Prunable(h, g)

\* What a reader sees is one of the things a power loss could leave.
LogInv == root \in rootLog /\ \A g \in Names : pair[g] \in pairLog[g]

HookInv(h) == MaterialInv(h) /\ WriteInv(h) /\ LinkInv(h)

\* The inductive invariant: what is on the disk may be lost in part at any
\* step, and the hook at work never depends on the part that may be lost.
DeployInv ==
  /\ TypeOK
  /\ LogInv
  /\ CurrentSurvivesPowerLoss
  /\ \A h \in Hooks : HookInv(h)

-----------------------------------------------------------------------------
\* The docstring of publish: "No service that was stopped is started implicitly."
NoImplicitStart ==
  [][\A s \in Services : unit[s] = Down /\ unit'[s] = Loading =>
       \A h \in Hooks : ~Restart(h, s)]_vars
=============================================================================
