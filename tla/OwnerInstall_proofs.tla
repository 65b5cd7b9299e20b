------------------------ MODULE OwnerInstall_proofs ------------------------
(***************************************************************************)
(* Proofs about the owner refresh: OwnerInv is inductive, so the owner     *)
(* directory can be recovered after every crash, and a refresh that has    *)
(* reported success cannot be undone by one.                               *)
(***************************************************************************)
EXTENDS OwnerInstall, TLAPS

\* A matching pair of published versions is a pair, and not the empty one.
LEMMA PairFacts ==
  /\ 1 \in Version /\ Absent \notin Version
  /\ \A v \in Version : Pair(v) \in [File -> Version] /\ Sound(Pair(v))
  /\ NoFiles \in [File -> Version \cup {Absent}] /\ ~Sound(NoFiles)
  BY OwnerAssumption, SMT DEF Version, Absent, Pair, NoFiles, File, Sound

\* The refresh starts from a directory with one matching pair.
LEMMA InitInv == Init => OwnerInv
<1> SUFFICES ASSUME Init PROVE OwnerInv
  OBVIOUS
<1> USE OwnerAssumption, PairFacts
<1>1. disk \in Disk /\ disk.live = Pair(1) /\ disk.dir = FALSE /\ disk.kept = NoFiles
  BY DEF Init, Disk
<1>2. server \in [File -> Version \cup {Absent}]
  BY DEF Init, Down, File
<1>3. TypeOK
  BY <1>1, <1>2 DEF Init, TypeOK, Label, Job, NoJob
<1>4. PriorPairRecoverable
  BY <1>1 DEF Init, PriorPairRecoverable
<1> QED
  BY <1>3, <1>4 DEF OwnerInv, Init

\* What the package loads is a pair of versions, or nothing.
LEMMA LoadedType ==
  ASSUME NEW d \in Disk PROVE Loaded(d) \in [File -> Version \cup {Absent}]
  BY PairFacts DEF Loaded, Disk, Down

\* Every step keeps the invariant.
LEMMA NextInv == OwnerInv /\ [Next]_vars => OwnerInv'
<1> SUFFICES ASSUME OwnerInv, [Next]_vars PROVE OwnerInv'
  OBVIOUS
<1> USE OwnerAssumption, PairFacts
<1>0. TypeOK /\ disk \in Disk /\ diskLog \subseteq Disk /\ job \in Job
  BY DEF OwnerInv, TypeOK
<1>a. End => pc' = "idle" /\ job' \in Job
  BY DEF End, NoJob, Job
<1>1. CASE Begin
  <2>1. job' \in Job
    BY <1>0, <1>1 DEF Begin, Job, TypeOK
  <2> QED
    BY <1>1, <2>1 DEF Begin, Step, OwnerInv, TypeOK, PriorPairRecoverable, Label
<1>2. CASE Sample
  <2>1. job' \in Job
    BY <1>0, <1>2 DEF Sample, Job, Up
  <2> QED
    BY <1>2, <2>1 DEF Sample, Step, OwnerInv, TypeOK, PriorPairRecoverable, Label
<1>3. CASE Verify
  BY <1>3 DEF Verify, Step, OwnerInv, TypeOK, PriorPairRecoverable, Label
<1>4. CASE Reject \/ StaleBackup \/ Finish
  <2>1. End /\ UNCHANGED <<published, disk, diskLog, server, faults>>
    BY <1>4 DEF Reject, StaleBackup, Finish
  <2> QED
    BY <1>a, <2>1 DEF OwnerInv, TypeOK, PriorPairRecoverable, Label
<1>5. CASE Stop
  BY <1>5 DEF Stop, Step, Down, OwnerInv, TypeOK, PriorPairRecoverable, Label
<1>6. CASE MakeBackup
  <2>1. /\ disk' \in Disk /\ disk'.live = disk.live /\ disk'.dir /\ disk'.kept = disk.kept
        /\ diskLog' = diskLog \cup {disk'}
    BY <1>0, <1>6 DEF MakeBackup, Edit, Disk
  <2>2. Sound(disk.live)
    BY <1>0, <1>6 DEF MakeBackup, BackupIsNew, OwnerInv, TypeOK, PriorPairRecoverable
  <2> QED
    BY <1>0, <1>6, <2>1, <2>2
    DEF MakeBackup, Step, OwnerInv, TypeOK, PriorPairRecoverable, Label
<1>7. CASE Copy
  <2>1. CASE Step("keepCert", "keepKey") /\ Edit(Kept("cert"))
    <3>1. disk' \in Disk /\ disk'.live = disk.live /\ disk'.dir = disk.dir
          /\ disk'.kept["cert"] = disk.live["cert"] /\ diskLog' = diskLog \cup {disk'}
      BY <1>0, <2>1 DEF Kept, Edit, Disk, File
    <3> QED
      BY <1>0, <1>7, <2>1, <3>1 DEF Copy, Step, OwnerInv, TypeOK, PriorPairRecoverable, Label
  <2>2. CASE Step("keepKey", "replaceCert") /\ Edit(Kept("key"))
    <3>1. disk' \in Disk /\ disk'.live = disk.live /\ disk'.dir = disk.dir
          /\ disk'.kept = disk.live /\ diskLog' = diskLog \cup {disk'}
      <4>1. disk.kept["cert"] = disk.live["cert"]
        BY <2>2 DEF Step, OwnerInv
      <4>2. /\ disk.live \in [File -> Version] /\ disk.kept \in [File -> Version \cup {Absent}]
            /\ disk' = [disk EXCEPT !.kept["key"] = disk.live["key"]]
            /\ diskLog' = diskLog \cup {disk'}
        BY <1>0, <2>2 DEF Kept, Edit, Disk
      <4>3. [disk.kept EXCEPT !["key"] = disk.live["key"]] = disk.live
        BY <4>1, <4>2 DEF File
      <4> QED
        BY <1>0, <4>2, <4>3 DEF Disk
    <3> QED
      BY <1>0, <1>7, <2>2, <3>1 DEF Copy, Step, OwnerInv, TypeOK, PriorPairRecoverable, Label
  <2>3. CASE Step("replaceCert", "replaceKey") /\ Save(Replaced("cert"))
    <3>1. disk' \in Disk /\ disk'.live["cert"] = job.new /\ disk'.dir = disk.dir
          /\ disk'.kept = disk.kept /\ diskLog' = {disk'}
      BY <1>0, <2>3 DEF Replaced, Save, Disk, File, Job
    <3> QED
      BY <1>0, <1>7, <2>3, <3>1 DEF Copy, Step, OwnerInv, TypeOK, PriorPairRecoverable, Label
  <2>4. CASE Step("replaceKey", "check") /\ Save(Replaced("key"))
    <3>1. disk' \in Disk /\ disk'.live = Pair(job.new) /\ disk'.dir = disk.dir
          /\ disk'.kept = disk.kept /\ diskLog' = {disk'}
      BY <1>0, <2>4 DEF Replaced, Save, Disk, File, Job, Pair, Step, OwnerInv
    <3> QED
      BY <1>0, <1>7, <2>4, <3>1 DEF Copy, Step, OwnerInv, TypeOK, PriorPairRecoverable, Label
  <2> QED
    BY <1>7, <2>1, <2>2, <2>3, <2>4 DEF Copy
<1>8. CASE Check
  BY <1>8 DEF Check, Step, OwnerInv, TypeOK, PriorPairRecoverable, Label
<1>9. CASE Start
  BY <1>0, <1>9, LoadedType DEF Start, Step, OwnerInv, TypeOK, PriorPairRecoverable, Label
<1>10. CASE Confirm
  <2>1. CASE Up
    BY <1>0, <1>10, <2>1 DEF Confirm, Step, OwnerInv, TypeOK, PriorPairRecoverable, Label
  <2>2. CASE ~Up
    BY <1>a, <1>10, <2>2 DEF Confirm, OwnerInv, TypeOK, PriorPairRecoverable, Label
  <2> QED
    BY <2>1, <2>2
<1>11. CASE Drop
  <2>0. disk' \in Disk /\ disk'.live = disk.live /\ diskLog' = diskLog \cup {disk'}
    <3>1. \A f \in File :
            /\ [disk EXCEPT !.kept[f] = Absent] \in Disk
            /\ [disk EXCEPT !.kept[f] = Absent].live = disk.live
      BY <1>0 DEF Disk
    <3>2. [disk EXCEPT !.dir = FALSE] \in Disk /\ [disk EXCEPT !.dir = FALSE].live = disk.live
      BY <1>0 DEF Disk
    <3> QED
      BY <1>11, <3>1, <3>2 DEF Drop, Edit, File
  <2>1. pc \in {"dropCert", "dropKey", "dropDir"} /\ Sound(disk.live) /\ disk.live = Pair(job.new)
    BY <1>0, <1>11 DEF Drop, Step, OwnerInv, Job
  <2>2. /\ ~disk'.dir => disk'.kept = NoFiles
        /\ pc' = "dropKey" => disk'.kept["cert"] = Absent
        /\ pc' = "dropDir" => disk'.kept = NoFiles
    BY <1>0, <1>11 DEF Drop, Step, Edit, Disk, File, NoFiles, Pair, OwnerInv, TypeOK, Absent
  <2> QED
    BY <1>0, <1>11, <2>0, <2>1, <2>2
    DEF Drop, Step, OwnerInv, TypeOK, PriorPairRecoverable, Label
<1>12. CASE Fail
  <2>1. server' \in [File -> Version \cup {Absent}]
    BY <1>0, <1>12, LoadedType DEF Fail, Down, TypeOK
  <2>2. faults' \in 0 .. MaxFaults
    BY <1>0, <1>12 DEF Fail, Fault, TypeOK
  <2> QED
    BY <1>a, <1>12, <2>1, <2>2 DEF Fail, OwnerInv, TypeOK, PriorPairRecoverable, Label
<1>13. CASE CopyUnsynced
  <2>1. pc \in {"replaceCert", "replaceKey"} /\ disk.dir /\ Sound(disk.kept)
    BY <1>13 DEF CopyUnsynced, OwnerInv
  <2>2. \A f \in File : Replaced(f) \in Disk /\ Replaced(f).kept = disk.kept /\ Replaced(f).dir = disk.dir
    BY <1>0 DEF Replaced, Disk, File, Job
  <2>3. disk' \in Disk /\ disk'.kept = disk.kept /\ disk'.dir /\ diskLog' = diskLog \cup {disk'}
    BY <1>13, <2>1, <2>2 DEF CopyUnsynced, Edit, File
  <2>4. faults' \in 0 .. MaxFaults
    BY <1>0, <1>13 DEF CopyUnsynced, Fault, TypeOK
  <2> QED
    BY <1>0, <1>a, <1>13, <2>1, <2>3, <2>4
    DEF CopyUnsynced, OwnerInv, TypeOK, PriorPairRecoverable, Label
<1>14. CASE Publish
  <2>1. published' \in Version
    BY <1>0, <1>14 DEF Publish, TypeOK, Version
  <2> QED
    BY <1>14, <2>1 DEF Publish, OwnerInv, TypeOK, PriorPairRecoverable
<1>15. CASE OperatorStarts \/ OperatorStops
  <2>1. server' \in [File -> Version \cup {Absent}]
    BY <1>0, <1>15, LoadedType DEF OperatorStarts, OperatorStops, Down
  <2> QED
    BY <1>15, <2>1 DEF OperatorStarts, OperatorStops, OwnerInv, TypeOK, PriorPairRecoverable
<1>16. CASE Repair
  <2>1. /\ disk' \in Disk /\ Sound(disk'.live) /\ disk'.dir = FALSE /\ disk'.kept = NoFiles
        /\ diskLog' = {disk'}
    BY <1>0, <1>16 DEF Repair, Save, Disk, Sound, OwnerInv, File
  <2> QED
    BY <1>0, <1>16, <2>1 DEF Repair, OwnerInv, TypeOK, PriorPairRecoverable
<1>17. CASE PowerLoss
  <2>1. disk' \in Disk /\ disk' \in diskLog /\ diskLog' = {disk'}
    BY <1>0, <1>17 DEF PowerLoss
  <2>2. server' \in [File -> Version \cup {Absent}]
    BY <2>1, <1>17, LoadedType DEF PowerLoss, Down
  <2>3. faults' \in 0 .. MaxFaults
    BY <1>0, <1>17 DEF PowerLoss, Fault, TypeOK
  <2> QED
    BY <1>a, <1>17, <2>1, <2>2, <2>3
    DEF PowerLoss, OwnerInv, TypeOK, PriorPairRecoverable, Label
<1>18. CASE UNCHANGED vars
  BY <1>18 DEF vars, OwnerInv, TypeOK, PriorPairRecoverable
<1> QED
  BY <1>1, <1>2, <1>3, <1>4, <1>5, <1>6, <1>7, <1>8, <1>9, <1>10, <1>11, <1>12, <1>13, <1>14,
     <1>15, <1>16, <1>17, <1>18
  DEF Next, Refresh

\* The refresh always stays within its invariant, types included.
THEOREM OwnerInvariant == Spec => []OwnerInv
  BY InitInv, NextInv, PTL DEF Spec

\* Whatever is killed or loses power, and however often, a matching owner pair
\* is on the disk: in place, or whole in the backup.
THEOREM OwnerRecoverable == Spec => []PriorPairRecoverable
<1>1. OwnerInv => PriorPairRecoverable
  BY DEF OwnerInv
<1> QED
  BY <1>1, OwnerInvariant, PTL

\* A refresh that reports success has installed its pair for good.
THEOREM OwnerSuccessDurable == Spec => []SuccessIsDurable
<1>1. OwnerInv => SuccessIsDurable
  BY DEF OwnerInv, SuccessIsDurable
<1> QED
  BY <1>1, OwnerInvariant, PTL

\* Every reachable state of the refresh is well typed.
THEOREM OwnerTypes == Spec => []TypeOK
<1>1. OwnerInv => TypeOK
  BY DEF OwnerInv
<1> QED
  BY <1>1, OwnerInvariant, PTL

-----------------------------------------------------------------------------
(***************************************************************************)
(* The refresh installs a pair in one step.                                *)
(***************************************************************************)
Installing == IF pc = "idle" THEN Absent ELSE job.new
Saved(log) == {Recovered(d) : d \in log}

\* What the steps of an installation are, in terms of the mapping.
LEMMA InstallSteps ==
  ASSUME \/ /\ published' = published /\ Recovered(disk') = Recovered(disk)
            /\ \/ Installing' = Installing /\ Saved(diskLog') \in {Saved(diskLog), {Recovered(disk)}}
               \/ Installing' = 0 /\ Saved(diskLog') = Saved(diskLog)
               \/ Installing = 0 /\ Installing' = published /\ Saved(diskLog') = Saved(diskLog)
         \/ /\ published' = published /\ Installing # 0 /\ Recovered(disk') = Installing
            /\ \/ Installing' = Installing /\ Saved(diskLog') = {Installing}
               \/ Installing' = 0 /\ Saved(diskLog') = Saved(diskLog) \cup {Installing}
         \/ /\ published' = published /\ Installing' = 0
            /\ Recovered(disk') \in Saved(diskLog) /\ Saved(diskLog') = {Recovered(disk')}
         \/ /\ published' = published + 1
            /\ Installing' = Installing /\ Recovered(disk') = Recovered(disk)
            /\ Saved(diskLog') = Saved(diskLog)
  PROVE  [Installation!Next]_(Installation!install)
BY DEF Installing, Saved, Installation!Next, Installation!install, Installation!Publish,
       Installation!Begin, Installation!Install, Installation!End, Installation!Sync,
       Installation!PowerLoss

\* What a power loss could leave grows by what was written.
LEMMA SavedGrows ==
  ASSUME NEW d, diskLog' = diskLog \cup {d}
  PROVE  Saved(diskLog') = Saved(diskLog) \cup {Recovered(d)}
BY DEF Saved

\* With the first file replaced, the pair that is recovered is still the old
\* one, which the backup holds; with the second, it is the new one.
LEMMA ReplacedRecovers ==
  ASSUME OwnerInv
  PROVE  /\ pc = "replaceCert" => Recovered(Replaced("cert")) = Recovered(disk)
         /\ pc = "replaceKey"  => Recovered(Replaced("key")) = job.new
<1> USE OwnerAssumption
<1>0. disk \in Disk /\ job.new \in Version
  BY DEF OwnerInv, TypeOK, Job
<1>1. CASE pc = "replaceCert"
  <2>1. disk.kept = disk.live /\ Sound(disk.live)
    BY <1>1 DEF OwnerInv
  <2>2. /\ Replaced("cert").kept = disk.kept
        /\ Replaced("cert").live["cert"] = job.new
        /\ Replaced("cert").live["key"] = disk.live["key"]
    BY <1>0 DEF Replaced, Disk, File
  <2> QED
    BY <1>1, <2>1, <2>2 DEF Recovered, Sound
<1>2. CASE pc = "replaceKey"
  <2>1. disk.live["cert"] = job.new
    BY <1>2 DEF OwnerInv
  <2>2. /\ Replaced("key").live["cert"] = job.new
        /\ Replaced("key").live["key"] = job.new
    BY <1>0, <2>1 DEF Replaced, Disk, File
  <2> QED
    BY <1>0, <1>2, <2>2 DEF Recovered, Sound
<1> QED
  BY <1>1, <1>2

\* Every step of the refresh and of its surroundings is a step of the
\* installation, or leaves it alone.
LEMMA StepInstalls == OwnerInv /\ [Next]_vars => [Installation!Next]_(Installation!install)
<1> SUFFICES ASSUME OwnerInv, [Next]_vars PROVE [Installation!Next]_(Installation!install)
  OBVIOUS
<1> USE OwnerAssumption
<1>0. disk \in Disk /\ disk \in diskLog /\ job \in Job /\ job.new \in Version
  BY DEF OwnerInv, TypeOK, Job
<1>a. ASSUME UNCHANGED <<published, disk, diskLog>>, Installing' = Installing
      PROVE  [Installation!Next]_(Installation!install)
  BY <1>a, InstallSteps
<1>b. ASSUME UNCHANGED <<published, disk, diskLog>>, End
      PROVE  [Installation!Next]_(Installation!install)
  <2>1. Installing' = 0
    BY <1>b DEF End, Installing, Absent
  <2> QED
    BY <1>b, <2>1, InstallSteps
<1>c. ASSUME published' = published, Installing' = Installing, NEW d, Edit(d), Recovered(d) = Recovered(disk)
      PROVE  [Installation!Next]_(Installation!install)
  <2>1. Saved(diskLog') = Saved(diskLog) \cup {Recovered(d)} /\ disk' = d
    BY <1>c, SavedGrows DEF Edit
  <2>2. Recovered(disk) \in Saved(diskLog)
    BY <1>0 DEF Saved
  <2> QED
    BY <1>c, <2>1, <2>2, InstallSteps
<1>1. CASE Begin
  <2>1. Installing = 0 /\ Installing' = published
    BY <1>0, <1>1 DEF Begin, Step, Installing, Absent, Job
  <2> QED
    BY <1>1, <2>1, InstallSteps DEF Begin
<1>2. CASE Sample \/ Verify \/ Stop \/ Check \/ Start
  <2>1. job'.new = job.new
    BY <1>0, <1>2 DEF Sample, Verify, Stop, Check, Start, Job
  <2>2. Installing' = Installing /\ UNCHANGED <<published, disk, diskLog>>
    BY <1>2, <2>1 DEF Sample, Verify, Stop, Check, Start, Step, Installing
  <2> QED
    BY <2>2, <1>a
<1>3. CASE Reject \/ StaleBackup \/ Finish \/ Fail
  BY <1>3, <1>b DEF Reject, StaleBackup, Finish, Fail
<1>4. CASE Confirm
  <2>1. CASE Up
    BY <1>4, <2>1, <1>a DEF Confirm, Step, Installing
  <2>2. CASE ~Up
    BY <1>4, <2>2, <1>b DEF Confirm
  <2> QED
    BY <2>1, <2>2
<1>5. CASE MakeBackup
  <2>1. /\ [disk EXCEPT !.dir = TRUE].live = disk.live
        /\ [disk EXCEPT !.dir = TRUE].kept = disk.kept
    BY <1>0 DEF Disk
  <2>2. Recovered([disk EXCEPT !.dir = TRUE]) = Recovered(disk)
    BY <2>1 DEF Recovered
  <2> QED
    BY <1>5, <2>2, <1>c DEF MakeBackup, Step, Installing
<1>6. CASE Copy
  <2>0. published' = published /\ job' = job
    BY <1>6 DEF Copy
  <2>1. ASSUME NEW f \in File, Edit(Kept(f)), pc \in {"keepCert", "keepKey"}, pc' # "idle"
        PROVE  [Installation!Next]_(Installation!install)
    <3>1. Kept(f).live = disk.live /\ Sound(disk.live)
      BY <1>0, <2>1 DEF Kept, Disk, OwnerInv
    <3>2. Recovered(Kept(f)) = Recovered(disk)
      BY <3>1 DEF Recovered
    <3>3. Installing' = Installing
      BY <2>0, <2>1 DEF Installing
    <3> QED
      BY <2>0, <2>1, <3>2, <3>3, <1>c
  <2>2. CASE Step("replaceCert", "replaceKey") /\ Save(Replaced("cert"))
    <3>1. Recovered(disk') = Recovered(disk) /\ Saved(diskLog') = {Recovered(disk')}
      BY <2>2, ReplacedRecovers DEF Save, Saved, Step
    <3>2. Installing' = Installing
      BY <2>0, <2>2 DEF Step, Installing
    <3> QED
      BY <2>0, <3>1, <3>2, InstallSteps
  <2>3. CASE Step("replaceKey", "check") /\ Save(Replaced("key"))
    <3>1. Recovered(disk') = job.new /\ Saved(diskLog') = {Recovered(disk')}
      BY <2>3, ReplacedRecovers DEF Save, Saved, Step
    <3>2. Installing' = job.new /\ Installing = job.new /\ job.new # 0
      BY <1>0, <2>0, <2>3 DEF Step, Installing, Version
    <3> QED
      BY <2>0, <3>1, <3>2, InstallSteps
  <2> QED
    BY <1>6, <2>1, <2>2, <2>3 DEF Copy, Step, File
<1>7. CASE CopyUnsynced
  <2>0. published' = published /\ Installing' = 0
    BY <1>7 DEF CopyUnsynced, End, Installing, Absent
  <2>1. CASE pc = "replaceCert" /\ Edit(Replaced("cert"))
    <3>1. Recovered(disk') = Recovered(disk) /\ Saved(diskLog') = Saved(diskLog) \cup {Recovered(disk)}
      BY <2>1, ReplacedRecovers, SavedGrows DEF Edit
    <3>2. Recovered(disk) \in Saved(diskLog)
      BY <1>0 DEF Saved
    <3> QED
      BY <2>0, <3>1, <3>2, InstallSteps
  <2>2. CASE pc = "replaceKey" /\ Edit(Replaced("key"))
    <3>1. Recovered(disk') = job.new /\ Saved(diskLog') = Saved(diskLog) \cup {job.new}
      BY <2>2, ReplacedRecovers, SavedGrows DEF Edit
    <3>2. Installing = job.new /\ job.new # 0
      BY <1>0, <2>2 DEF Installing, Version
    <3> QED
      BY <2>0, <3>1, <3>2, InstallSteps
  <2> QED
    BY <1>7, <2>1, <2>2 DEF CopyUnsynced
<1>8. CASE Drop
  <2>1. PICK d : Edit(d) /\ d.live = disk.live
    <3>1. \A f \in File : [disk EXCEPT !.kept[f] = Absent].live = disk.live
      BY <1>0 DEF Disk
    <3>2. [disk EXCEPT !.dir = FALSE].live = disk.live
      BY <1>0 DEF Disk
    <3> QED
      BY <1>8, <3>1, <3>2 DEF Drop, File
  <2>2. Sound(disk.live)
    BY <1>0, <1>8 DEF Drop, Step, OwnerInv, Sound, Pair, File
  <2>3. Recovered(d) = Recovered(disk)
    BY <2>1, <2>2 DEF Recovered
  <2>4. Installing' = Installing /\ published' = published
    BY <1>8 DEF Drop, Step, Installing
  <2> QED
    BY <2>1, <2>3, <2>4, <1>c
<1>9. CASE Repair
  <2>1. /\ disk'.live = (IF Sound(disk.live) THEN disk.live ELSE disk.kept)
        /\ Sound(disk'.live)
        /\ Saved(diskLog') = {Recovered(disk')}
    BY <1>9 DEF Repair, Save, Saved
  <2>2. Recovered(disk') = Recovered(disk)
    BY <2>1 DEF Recovered
  <2>3. Installing' = Installing /\ published' = published
    BY <1>9 DEF Repair, Installing
  <2> QED
    BY <2>1, <2>2, <2>3, InstallSteps
<1>10. CASE PowerLoss
  <2>1. Recovered(disk') \in Saved(diskLog) /\ Saved(diskLog') = {Recovered(disk')}
    BY <1>10 DEF PowerLoss, Saved
  <2>2. Installing' = 0 /\ published' = published
    BY <1>10 DEF PowerLoss, End, Installing, Absent
  <2> QED
    BY <2>1, <2>2, InstallSteps
<1>11. CASE Publish
  BY <1>11, InstallSteps DEF Publish, Installing
<1>12. CASE OperatorStarts \/ OperatorStops \/ UNCHANGED vars
  BY <1>12, <1>a DEF OperatorStarts, OperatorStops, vars, Installing
<1> QED
  BY <1>1, <1>2, <1>3, <1>4, <1>5, <1>6, <1>7, <1>8, <1>9, <1>10, <1>11, <1>12
  DEF Next, Refresh

\* Replacing two files one by one, killed anywhere, with power losses and
\* repairs, implements an installation in one step: for any number of published
\* pairs and of faults.
THEOREM InstallImplemented == Spec => ImplementsInstall
<1>1. Init => Installation!Init
  <2> SUFFICES ASSUME Init PROVE Installation!Init
    OBVIOUS
  <2>1. disk.live = Pair(1) /\ Recovered(disk) = 1
    BY OwnerAssumption, PairFacts DEF Init, Recovered, Sound, Pair, File, Version
  <2> QED
    BY <2>1 DEF Init, Installation!Init, Absent
<1> QED
  BY <1>1, InitInv, NextInv, StepInstalls, PTL DEF Spec, ImplementsInstall, Installation!Spec
=============================================================================
