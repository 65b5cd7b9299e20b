---------------------------- MODULE OwnerInstall ----------------------------
(***************************************************************************)
(* The refresh of the private owner certificate: owner_ip_refresh.py and   *)
(* owner_install of renew.py.                                              *)
(*                                                                         *)
(* The package reads two regular files that cannot be renamed as one.  A   *)
(* refresh stops the active server, keeps a copy of both files in a backup *)
(* directory, replaces them one after the other, lets the package check    *)
(* the result, starts what it stopped, and only then drops the backup.  A  *)
(* backup left by an earlier failure makes the refresh give up: an         *)
(* operator has to look.                                                   *)
(*                                                                         *)
(* The refresh may be killed at any step (TimeoutStartSec) and the host    *)
(* may lose power: diskLog holds every state of the owner directory since  *)
(* it was last synced, its changes reaching the disk in order.             *)
(***************************************************************************)
EXTENDS Integers

CONSTANTS
  MaxVersion,  \* bound: how many pairs the deploy hook publishes
  MaxFaults    \* bound: failed commands, kills, power losses

ASSUME OwnerAssumption == MaxVersion \in Nat \ {0} /\ MaxFaults \in Nat

VARIABLES
  published,  \* the version of the pair tls/current names
  pc,         \* where the refresh is; its lock lets one run at a time
  job,        \* its local variables: was the server active, the pair to install
  disk,       \* the owner directory: the live files, the backup
  diskLog,    \* every owner directory a power loss could leave
  server,     \* aura-server.service, and the material it has loaded
  faults      \* faults so far

vars == <<published, pc, job, disk, diskLog, server, faults>>

Absent  == 0
Version == 1 .. MaxVersion
File    == {"cert", "key"}
Pair(v) == [f \in File |-> v]
NoFiles == Pair(Absent)

Sound(p) == p["cert"] \in Version /\ p["key"] = p["cert"]

Disk  == [live : [File -> Version], dir : BOOLEAN, kept : [File -> Version \cup {Absent}]]
Job   == [active : BOOLEAN, new : Version]
NoJob == [active |-> FALSE, new |-> 1]
Label == {"idle", "sample", "verify", "stop", "backup", "keepCert", "keepKey",
          "replaceCert", "replaceKey", "check", "start", "confirm",
          "dropCert", "dropKey", "dropDir", "done"}

Down == NoFiles
Up   == server # Down

Init ==
  /\ published = 1
  /\ pc = "idle"
  /\ job = NoJob
  /\ disk = [live |-> Pair(1), dir |-> FALSE, kept |-> NoFiles]
  /\ diskLog = {disk}
  /\ server \in {Down, Pair(1)}
  /\ faults = 0

-----------------------------------------------------------------------------
\* Definitions marked "mutant" are bugs the code does not have; no action uses one.
Step(from, to) == pc = from /\ pc' = to
End == pc' = "idle" /\ job' = NoJob
Fault == faults < MaxFaults /\ faults' = faults + 1

\* A directory change that may or may not survive, and one that is synced.
Edit(d)   == disk' = d /\ diskLog' = diskLog \cup {d}
\* Mutant.
NoSync(d) == Edit(d)
Save(d)   == disk' = d /\ diskLog' = {d}

\* The package refuses material that does not match.
Loaded(d) == IF Sound(d.live) THEN d.live ELSE Down

-----------------------------------------------------------------------------
(***************************************************************************)
(* The refresh: main and refresh of owner_ip_refresh.py.                   *)
(***************************************************************************)
\* Take the lock; the link is resolved once.
Begin ==
  /\ Step("idle", "sample")
  /\ job' = [job EXCEPT !.new = published]
  /\ UNCHANGED <<published, disk, diskLog, server, faults>>

Sample ==
  /\ Step("sample", "verify")
  /\ job' = [job EXCEPT !.active = Up]
  /\ UNCHANGED <<published, disk, diskLog, server, faults>>

\* Mutant: the backup directory is made only when the server was stopped.
VerifySkipsBackup ==
  /\ Step("verify", IF job.active THEN "stop" ELSE "keepCert")
  /\ UNCHANGED <<published, job, disk, diskLog, server, faults>>

\* check_host, validate_pair and the reading of the pair.
Verify ==
  /\ Step("verify", IF job.active THEN "stop" ELSE "backup")
  /\ UNCHANGED <<published, job, disk, diskLog, server, faults>>

\* Another owner host, a refused pair, or a generation pruned in the meantime.
Reject ==
  /\ pc = "verify"
  /\ End
  /\ UNCHANGED <<published, disk, diskLog, server, faults>>

(***************************************************************************)
(* owner_install and owner_files.                                          *)
(***************************************************************************)
Stop ==
  /\ Step("stop", "backup")
  /\ server' = Down
  /\ UNCHANGED <<published, job, disk, diskLog, faults>>

\* Mutant: mkdir with exist_ok.
BackupMayExist == TRUE
BackupIsNew == ~disk.dir

MakeBackup ==
  /\ BackupIsNew
  /\ Step("backup", "keepCert")
  /\ Edit([disk EXCEPT !.dir = TRUE])
  /\ UNCHANGED <<published, job, server, faults>>

StaleBackup ==
  /\ pc = "backup"
  /\ disk.dir
  /\ End
  /\ UNCHANGED <<published, disk, diskLog, server, faults>>

Kept(f)     == [disk EXCEPT !.kept[f] = disk.live[f]]
Replaced(f) == [disk EXCEPT !.live[f] = job.new]

\* atomic_copy: write, sync, rename and sync the directory.  The backup's own
\* entry in the owner directory is not synced before the first replacement.
Copy ==
  /\ \/ Step("keepCert", "keepKey")       /\ Edit(Kept("cert"))
     \/ Step("keepKey", "replaceCert")    /\ Edit(Kept("key"))
     \/ Step("replaceCert", "replaceKey") /\ Save(Replaced("cert"))
     \/ Step("replaceKey", "check")       /\ Save(Replaced("key"))
  /\ UNCHANGED <<published, job, server, faults>>

\* The refresh is killed between the rename and the sync.
CopyUnsynced ==
  /\ Fault
  /\ \/ pc = "replaceCert" /\ Edit(Replaced("cert"))
     \/ pc = "replaceKey"  /\ Edit(Replaced("key"))
  /\ End
  /\ UNCHANGED <<published, server>>

\* The package's own check of the owner directory.
Check ==
  /\ Sound(disk.live)
  /\ Step("check", IF job.active THEN "start" ELSE "dropCert")
  /\ UNCHANGED <<published, job, disk, diskLog, server, faults>>

\* systemctl start does nothing to a server that is active already.
Start ==
  /\ Step("start", "confirm")
  /\ server' = IF Up THEN server ELSE Loaded(disk)
  /\ UNCHANGED <<published, job, disk, diskLog, faults>>

Confirm ==
  /\ IF Up THEN Step("confirm", "dropCert") /\ UNCHANGED job ELSE pc = "confirm" /\ End
  /\ UNCHANGED <<published, disk, diskLog, server, faults>>

\* clean_previous: nothing is synced.
Drop ==
  /\ \/ Step("dropCert", "dropKey") /\ Edit([disk EXCEPT !.kept["cert"] = Absent])
     \/ Step("dropKey", "dropDir")  /\ Edit([disk EXCEPT !.kept["key"] = Absent])
     \/ Step("dropDir", "done")     /\ Edit([disk EXCEPT !.dir = FALSE])
  /\ UNCHANGED <<published, job, server, faults>>

Finish ==
  /\ pc = "done"
  /\ End
  /\ UNCHANGED <<published, disk, diskLog, server, faults>>

\* A command fails or exceeds its timeout, done or not, or a copy fails, or the
\* refresh is killed: nothing is put back.
Fail ==
  /\ pc \notin {"idle", "done"}
  /\ Fault
  /\ server' \in {server} \cup (IF pc = "stop" THEN {Down} ELSE {})
                          \cup (IF pc = "start" /\ ~Up THEN {Loaded(disk)} ELSE {})
  /\ End
  /\ UNCHANGED <<published, disk, diskLog>>

-----------------------------------------------------------------------------
(***************************************************************************)
(* The surroundings: the deploy hook, the operator, the power supply.      *)
(***************************************************************************)
Publish ==
  /\ published < MaxVersion
  /\ published' = published + 1
  /\ UNCHANGED <<pc, job, disk, diskLog, server, faults>>

OperatorStarts ==
  /\ ~Up
  /\ server' = Loaded(disk)
  /\ UNCHANGED <<published, pc, job, disk, diskLog, faults>>

OperatorStops ==
  /\ Up
  /\ server' = Down
  /\ UNCHANGED <<published, pc, job, disk, diskLog, faults>>

\* Offline review: the kept pair is put back if the live one is not whole, and
\* the backup goes.
Repair ==
  /\ pc = "idle" /\ ~Up /\ disk.dir
  /\ LET live == IF Sound(disk.live) THEN disk.live ELSE disk.kept
     IN Sound(live) /\ Save([live |-> live, dir |-> FALSE, kept |-> NoFiles])
  /\ UNCHANGED <<published, pc, job, server, faults>>

PowerLoss ==
  /\ Fault
  /\ disk' \in diskLog
  /\ diskLog' = {disk'}
  /\ server' \in {Down, Loaded(disk')}
  /\ End
  /\ UNCHANGED published

-----------------------------------------------------------------------------
Refresh ==
  \/ Begin \/ Sample \/ Verify \/ Reject \/ Stop \/ MakeBackup \/ StaleBackup
  \/ Copy \/ Check \/ Start \/ Confirm \/ Drop \/ Finish

Next ==
  \/ Refresh \/ Fail \/ CopyUnsynced
  \/ Publish \/ OperatorStarts \/ OperatorStops \/ Repair \/ PowerLoss

Spec == Init /\ [][Next]_vars

-----------------------------------------------------------------------------
\* Every variable keeps its type, and a backup that is not there keeps nothing.
TypeOK ==
  /\ published \in Version
  /\ pc \in Label
  /\ job \in Job
  /\ disk \in Disk
  /\ diskLog \subseteq Disk
  /\ \A d \in diskLog \cup {disk} : ~d.dir => d.kept = NoFiles
  /\ server \in [File -> Version \cup {Absent}]
  /\ faults \in 0 .. MaxFaults

\* Kill the refresh or cut the power at any step, as often as you like: the
\* owner directory holds a matching pair, in place or in the backup.  A repair
\* never needs new key material.
PriorPairRecoverable ==
  \A d \in diskLog : Sound(d.live) \/ Sound(d.kept)

\* A refresh that reports success has installed the pair it validated, and no
\* power loss takes it back.
SuccessIsDurable ==
  pc = "done" => \A d \in diskLog : d.live = Pair(job.new)

\* Why both hold, an inductive invariant: what the refresh has done so far.  The
\* live pair is whole while it is being kept, the kept one while it is being
\* replaced, and nothing unsynced differs in the pair that was installed.
OwnerInv ==
  /\ TypeOK /\ PriorPairRecoverable
  /\ disk \in diskLog
  /\ pc \in {"keepCert", "keepKey", "replaceCert"} => disk.dir /\ Sound(disk.live)
  /\ pc \in {"keepKey", "replaceCert"} => disk.kept["cert"] = disk.live["cert"]
  /\ pc = "replaceCert" => disk.kept = disk.live
  /\ pc = "replaceKey" => disk.dir /\ Sound(disk.kept) /\ disk.live["cert"] = job.new
  /\ pc \in {"check", "start", "confirm", "dropCert", "dropKey", "dropDir", "done"} =>
       \A d \in diskLog : d.live = Pair(job.new)
  /\ pc = "dropKey" => disk.kept["cert"] = Absent
  /\ pc = "dropDir" => disk.kept = NoFiles

(***************************************************************************)
(* What an operator gets from the owner directory: the live pair, or the   *)
(* kept one if the live files do not match.                                *)
(***************************************************************************)
Recovered(d) == IF Sound(d.live) THEN d.live["cert"]
                ELSE IF Sound(d.kept) THEN d.kept["cert"] ELSE Absent

Installation == INSTANCE PairInstall WITH
  installing <- IF pc = "idle" THEN Absent ELSE job.new,
  installed  <- Recovered(disk),
  saved      <- {Recovered(d) : d \in diskLog}

\* Two files replaced one by one, with the refresh killed and the power cut
\* anywhere, are installed in one step: the pair that can be recovered is the old
\* one until the second file is replaced and the new one from then on, and
\* neither a refresh that gives up nor the repair changes it.
ImplementsInstall == Installation!Spec

\* TLS.md: "The service is stopped first": the live files are not replaced under
\* a running server.
ReplacedOffline ==
  [][disk'.live # disk.live => ~Up]_vars
=============================================================================
