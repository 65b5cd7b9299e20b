----------------------- MODULE ReleaseDelivery_proofs -----------------------
(***************************************************************************)
(* Proofs about the release tool: DeliveryInv is inductive, so a release   *)
(* directory is always a verified bundle with exactly one maker, for any   *)
(* number of runs, paths and kills.                                        *)
(***************************************************************************)
EXTENDS ReleaseDelivery, ReleaseFormat_proofs

\* What unpack accepts was made by pack, and an archive cut short was not.
LEMMA ContentFacts ==
  /\ Other \in Content /\ Other \notin Artifacts /\ Artifacts \subseteq Content
  /\ Absent \notin Content /\ Absent \notin Procs /\ Absent \notin Bundle
  /\ \A c \in Content : c \in Artifacts <=> AcceptedFor(Staged(c)) # {}
  /\ \A c \in Artifacts : Staged(c).dir \in Bundle
<1>1. \A c \in Content : c \in Seq(Member) /\ AcceptedFor(Staged(c)) = MadeFrom(c)
  BY DeliveryAssumption, AcceptsExactlyPacked
<1>2. \A c \in Artifacts : Staged(c).dir \in Bundle
  BY <1>1, UnpackedIsBundle DEF Artifacts
<1> QED
  BY <1>1, <1>2, NothingFromNothing, DeliveryAssumption DEF Artifacts, Other

\* No run has made anything at first.
LEMMA InitInv == Init => DeliveryInv
<1> SUFFICES ASSUME Init PROVE DeliveryInv
  OBVIOUS
<1>1. file \in [Archives -> Content \cup {Absent}]
  BY DEF Init
<1>2. job \in [Procs -> Job]
  BY DEF Init, Job
<1>3. TypeOK
  BY <1>1, <1>2, DeliveryAssumption DEF Init, TypeOK, Label
<1>4. TreeHasOneMaker
  BY DEF Init, TreeHasOneMaker
<1> QED
  BY <1>3, <1>4 DEF DeliveryInv, Init

\* The run that has an archive open is the one that is writing it.
LEMMA WriterFacts ==
  ASSUME TypeOK, NEW p \in Procs, NEW a \in Archives, writer[a] = p
  PROVE  pc[p] = "write" /\ job[p].archive = a /\ file[a] = Other
  BY DeliveryAssumption DEF TypeOK

\* A run that goes on within its command and changes nothing else.
LEMMA GotoInv ==
  ASSUME DeliveryInv, NEW p \in Procs, NEW l \in Label, Goto(p, l), pc[p] # "write",
         l \in {"recheckFile", "landFile"} => pc[p] = "recheckFile" \/ job[p].got = job[p].sha,
         l = "extract" => FileAt(p) # Absent,
         l \in {"recheckTree", "landTree"} => pc[p] = "recheckTree" \/ job[p].got \in Artifacts,
         l \notin {"verify", "unpacked"}, pc[p] # "unpacked",
         UNCHANGED <<file, tree, writer, job, kills>>
  PROVE  DeliveryInv'
<1>1. pc' \in [Procs -> Label] /\ pc'[p] = l /\ \A q \in Procs \ {p} : pc'[q] = pc[q]
  BY DEF DeliveryInv, TypeOK, Goto
<1>2. TypeOK'
  BY <1>1, WriterFacts, DeliveryAssumption DEF DeliveryInv, TypeOK
<1>3. TreeHasOneMaker'
  BY <1>1 DEF DeliveryInv, TreeHasOneMaker, TreeAt
<1> QED
  BY <1>1, <1>2, <1>3 DEF DeliveryInv, FileAt

\* A run that takes in a copy of an archive, or new arguments, on its way.
LEMMA JobInv ==
  ASSUME DeliveryInv, NEW p \in Procs, NEW l \in {"digest", "verify", "new"}, Goto(p, l),
         NEW j \in Job, job' = [job EXCEPT ![p] = j], l = "verify" => j.got # Absent,
         pc[p] \in {"download", "extract", "failed"},
         UNCHANGED <<file, tree, writer, kills>>
  PROVE  DeliveryInv'
<1>1. /\ pc' \in [Procs -> Label] /\ pc'[p] = l /\ \A q \in Procs \ {p} : pc'[q] = pc[q]
      /\ job' \in [Procs -> Job] /\ \A q \in Procs \ {p} : job'[q] = job[q]
  BY DEF DeliveryInv, TypeOK, Goto, Label
<1>2. TypeOK'
  BY <1>1, WriterFacts, DeliveryAssumption DEF DeliveryInv, TypeOK
<1>3. TreeHasOneMaker'
  BY <1>1 DEF DeliveryInv, TreeHasOneMaker, TreeAt
<1> QED
  BY <1>1, <1>2, <1>3 DEF DeliveryInv, FileAt

\* A run that writes an archive, which is there afterwards.
LEMMA FileInv ==
  ASSUME DeliveryInv, NEW p \in Procs, NEW l \in {"fetched", "write", "sum"}, Goto(p, l),
         pc[p] # "unpacked", TypeOK', \A a \in Archives : file'[a] = Absent => file[a] = Absent,
         UNCHANGED <<tree, job, kills>>
  PROVE  DeliveryInv'
<1>1. pc' \in [Procs -> Label] /\ pc'[p] = l /\ \A q \in Procs \ {p} : pc'[q] = pc[q]
  BY DEF DeliveryInv, TypeOK, Goto, Label
<1>2. TreeHasOneMaker'
  BY <1>1 DEF DeliveryInv, TreeHasOneMaker, TreeAt
<1>3. \A q \in Procs : job[q].archive \in Archives
  BY DEF DeliveryInv, TypeOK, Job
<1> QED
  BY <1>1, <1>2, <1>3 DEF DeliveryInv, FileAt

\* Every step keeps the invariant.
LEMMA NextInv == DeliveryInv /\ [Next]_vars => DeliveryInv'
<1> SUFFICES ASSUME DeliveryInv, [Next]_vars PROVE DeliveryInv'
  OBVIOUS
<1> USE ContentFacts
<1>0. TypeOK /\ TreeHasOneMaker
  BY DEF DeliveryInv
<1>1. ASSUME NEW p \in Procs, Fetch(p) PROVE DeliveryInv'
  <2>1. CASE FetchStart(p) \/ Digest(p) \/ RecheckFile(p)
    BY <2>1, GotoInv DEF FetchStart, Digest, RecheckFile, Test, Label
  <2>2. CASE Download(p)
    <3>1. PICK c \in Content : Got(p, c)
      BY <2>2 DEF Download
    <3>2. [job[p] EXCEPT !.got = c] \in Job /\ job' = [job EXCEPT ![p] = [job[p] EXCEPT !.got = c]]
      BY <1>0, <3>1 DEF Got, TypeOK, Job
    <3> QED
      BY <2>2, <3>2, JobInv DEF Download
  <2>3. CASE LandFile(p)
    <3>1. job[p].got \in Content
      BY <1>0, <2>3 DEF LandFile, DeliveryInv, TypeOK, Job
    <3>a. pc' \in [Procs -> Label] /\ pc'[p] = "fetched" /\ \A q \in Procs \ {p} : pc'[q] = pc[q]
      BY <1>0, <2>3 DEF LandFile, Goto, TypeOK, Label
    <3>2. TypeOK'
      BY <1>0, <2>3, <3>1, <3>a, WriterFacts DEF LandFile, TypeOK, Job
    <3>3. \A a \in Archives : file'[a] = Absent => file[a] = Absent
      BY <1>0, <2>3, <3>1 DEF LandFile, TypeOK
    <3> QED
      BY <2>3, <3>2, <3>3, FileInv DEF LandFile
  <2> QED
    BY <1>1, <2>1, <2>2, <2>3 DEF Fetch
<1>2. ASSUME NEW p \in Procs, Pack(p) PROVE DeliveryInv'
  <2> DEFINE a == job[p].archive
  <2>0. a \in Archives /\ job[p].sha \in Content
    BY <1>0 DEF TypeOK, Job
  <2>1. CASE Create(p)
    <3>1. TypeOK'
      BY <1>0, <2>0, <2>1, WriterFacts DEF Create, Goto, FileAt, TypeOK, Label
    <3>2. \A b \in Archives : file'[b] = Absent => file[b] = Absent
      BY <1>0, <2>0, <2>1 DEF Create, TypeOK
    <3> QED
      BY <2>1, <3>1, <3>2, FileInv DEF Create
  <2>2. CASE Write(p)
    <3>1. pc' \in [Procs -> Label] /\ pc'[p] = "sum" /\ \A q \in Procs \ {p} : pc'[q] = pc[q]
      BY <1>0, <2>2 DEF Write, Goto, TypeOK, Label
    <3>2. TypeOK' /\ \A b \in Archives : file'[b] = Absent => file[b] = Absent
      <4>1. CASE writer[a] = p
        BY <1>0, <2>0, <2>2, <3>1, <4>1, WriterFacts DEF Write, TypeOK
      <4>2. CASE writer[a] # p
        BY <1>0, <2>0, <2>2, <3>1, <4>2, WriterFacts DEF Write, TypeOK
      <4> QED
        BY <4>1, <4>2
    <3> QED
      BY <2>2, <3>2, FileInv DEF Write
  <2>3. CASE Sum(p)
    BY <2>3, GotoInv DEF Sum, Test, Label
  <2> QED
    BY <1>2, <2>1, <2>2, <2>3 DEF Pack
<1>3. ASSUME NEW p \in Procs, Unpack(p) PROVE DeliveryInv'
  <2>1. CASE UnpackStart(p) \/ RecheckTree(p)
    <3>1. UnpackStart(p) => FileAt(p) # Absent
      BY <1>0 DEF UnpackStart, TypeOK, Job
    <3> QED
      BY <2>1, <3>1, GotoInv DEF UnpackStart, RecheckTree, Test, Label
  <2>2. CASE Extract(p)
    <3>1. FileAt(p) \in Content
      BY <1>0, <2>2 DEF Extract, FileAt, DeliveryInv, TypeOK, Job
    <3>2. PICK c \in Content : Got(p, c)
      BY <2>2, <3>1 DEF Extract
    <3>3. [job[p] EXCEPT !.got = c] \in Job /\ job' = [job EXCEPT ![p] = [job[p] EXCEPT !.got = c]]
      BY <1>0, <3>2 DEF Got, TypeOK, Job
    <3>4. [job[p] EXCEPT !.got = c].got # Absent
      BY <1>0, <3>2 DEF TypeOK, Job
    <3> QED
      BY <2>2, <3>3, <3>4, JobInv DEF Extract
  <2>3. CASE Verify(p)
    <3>1. job[p].got \in Content
      BY <1>0, <2>3 DEF Verify, Test, DeliveryInv, TypeOK, Job
    <3>2. CASE job[p].got \in Artifacts
      <4>1. Goto(p, "recheckTree") /\ pc[p] = "verify" /\ UNCHANGED <<file, tree, writer, job, kills>>
        BY <2>3, <3>1, <3>2 DEF Verify, Test
      <4> QED
        BY <3>2, <4>1, GotoInv DEF Label
    <3>3. CASE job[p].got \notin Artifacts
      <4>1. Goto(p, "failed") /\ pc[p] = "verify" /\ UNCHANGED <<file, tree, writer, job, kills>>
        BY <2>3, <3>1, <3>3 DEF Verify, Test
      <4> QED
        BY <4>1, GotoInv DEF Label
    <3> QED
      BY <3>2, <3>3
  <2>4. CASE LandTree(p) /\ RenameWorks(p)
    <3> DEFINE dir == Staged(job[p].got).dir
    <3>1. /\ pc' \in [Procs -> Label] /\ pc'[p] = "unpacked" /\ pc[p] = "landTree"
          /\ \A q \in Procs \ {p} : pc'[q] = pc[q]
      BY <1>0, <2>4 DEF LandTree, Goto, TypeOK, Label
    <3>2. /\ job[p].dest \in Trees /\ job[p].got \in Artifacts /\ dir \in Bundle
          /\ tree[job[p].dest] = Absent /\ tree' = [tree EXCEPT ![job[p].dest] = dir]
      BY <1>0, <2>4, <3>1 DEF LandTree, RenameWorks, TreeAt, DeliveryInv, TypeOK, Job
    <3>3. TypeOK'
      BY <1>0, <2>4, <3>1, <3>2, WriterFacts DEF LandTree, TypeOK
    <3>4. \A q \in Procs \ {p} : pc[q] = "unpacked" => job[q].dest # job[p].dest
      <4>1. ASSUME NEW q \in Procs \ {p}, pc[q] = "unpacked" PROVE TreeAt(q) \in Bundle
        BY <1>0, <4>1 DEF DeliveryInv, TreeHasOneMaker
      <4> QED
        BY <3>2, <4>1 DEF TreeAt
    <3>5. TreeHasOneMaker'
      <4>1. \A t \in Trees : tree'[t] # Absent =>
              tree'[t] \in Bundle /\ \E q \in Procs : pc'[q] = "unpacked" /\ job'[q].dest = t
        BY <1>0, <2>4, <3>1, <3>2 DEF LandTree, TreeHasOneMaker, TypeOK
      <4>2. \A q \in Procs : pc'[q] = "unpacked" => tree'[job'[q].dest] = Staged(job'[q].got).dir
        <5>1. job' = job /\ tree'[job[p].dest] = dir
          BY <1>0, <2>4, <3>2 DEF LandTree, TypeOK
        <5>2. ASSUME NEW q \in Procs \ {p}, pc[q] = "unpacked"
              PROVE  tree'[job[q].dest] = Staged(job[q].got).dir
          <6>1. job[q].dest \in Trees /\ tree'[job[q].dest] = tree[job[q].dest]
            BY <1>0, <3>2, <3>4, <5>2 DEF TypeOK, Job
          <6> QED
            BY <1>0, <5>2, <6>1 DEF TreeHasOneMaker, TreeAt
        <5> QED
          BY <3>1, <5>1, <5>2
      <4> QED
        BY <1>0, <2>4, <3>1, <3>4, <4>1, <4>2 DEF LandTree, TreeHasOneMaker, TreeAt
    <3> QED
      BY <2>4, <3>1, <3>2, <3>3, <3>5 DEF LandTree, DeliveryInv, FileAt
  <2>5. CASE LandTree(p) /\ ~RenameWorks(p)
    BY <2>5, GotoInv DEF LandTree, Label
  <2> QED
    BY <1>3, <2>1, <2>2, <2>3, <2>4, <2>5 DEF Unpack
<1>4. ASSUME NEW p \in Procs, Refuse(p) PROVE DeliveryInv'
  BY <1>4, GotoInv DEF Refuse, Test, Label
<1>5. ASSUME NEW p \in Procs, Kill(p) PROVE DeliveryInv'
  <2>1. /\ pc' \in [Procs -> Label] /\ pc'[p] = "failed"
        /\ \A q \in Procs \ {p} : pc'[q] = pc[q]
    BY <1>0, <1>5 DEF Kill, Goto, TypeOK, Label
  <2>2. kills' \in 0 .. MaxKills
    BY <1>0, <1>5, DeliveryAssumption DEF Kill, TypeOK
  <2>3. TypeOK'
    BY <1>0, <1>5, <2>1, <2>2, WriterFacts DEF Kill, TypeOK
  <2>4. TreeHasOneMaker'
    BY <1>0, <1>5, <2>1 DEF Kill, TreeHasOneMaker, TreeAt
  <2> QED
    BY <1>5, <2>1, <2>3, <2>4 DEF Kill, DeliveryInv, FileAt
<1>6. ASSUME NEW p \in Procs, Again(p) PROVE DeliveryInv'
  BY <1>6, JobInv DEF Again
<1>7. CASE UNCHANGED vars
  BY <1>7 DEF vars, DeliveryInv, TypeOK, TreeHasOneMaker, TreeAt, FileAt
<1> QED
  BY <1>1, <1>2, <1>3, <1>4, <1>5, <1>6, <1>7 DEF Next

\* What is about to become a release directory was verified, for any number of
\* runs, archives and directories.
THEOREM DeliveryInvHolds == Spec => []DeliveryInv
BY InitInv, NextInv, PTL DEF Spec

\* A release directory is a verified bundle that exactly one run renamed into place,
\* for any number of runs, archives and directories, killed however often.
THEOREM OneMaker == Spec => []TreeHasOneMaker
<1>1. DeliveryInv => TreeHasOneMaker
  BY DEF DeliveryInv
<1> QED
  BY <1>1, DeliveryInvHolds, PTL

\* Every reachable state of the deliveries is well typed.
THEOREM DeliveryTypes == Spec => []TypeOK
<1>1. DeliveryInv => TypeOK
  BY DEF DeliveryInv
<1> QED
  BY <1>1, DeliveryInvHolds, PTL

-----------------------------------------------------------------------------
(***************************************************************************)
(* Archives.                                                               *)
(***************************************************************************)
\* Neither pack nor a run that fails touches an archive that is finished.
LEMMA ReplaceStep == DeliveryInv /\ [Next]_vars =>
  [\A a \in Archives : file[a] \in Artifacts /\ file'[a] # file[a] =>
     \E p \in Procs : pc[p] = "landFile" /\ pc'[p] = "fetched" /\ file'[a] = job[p].sha]_vars
<1> SUFFICES ASSUME DeliveryInv, [Next]_vars, NEW a \in Archives,
                    file[a] \in Artifacts, file'[a] # file[a]
             PROVE  \E p \in Procs : pc[p] = "landFile" /\ pc'[p] = "fetched" /\ file'[a] = job[p].sha
  BY DEF vars
<1> USE ContentFacts
<1>0. TypeOK
  BY DEF DeliveryInv
<1>1. ASSUME NEW p \in Procs, LandFile(p)
      PROVE  pc[p] = "landFile" /\ pc'[p] = "fetched" /\ file'[a] = job[p].sha
  BY <1>0, <1>1 DEF LandFile, Goto, TypeOK, DeliveryInv
<1>2. ASSUME NEW p \in Procs, Create(p) PROVE FALSE
  BY <1>0, <1>2 DEF Create, FileAt, TypeOK
<1>3. ASSUME NEW p \in Procs, Write(p) PROVE FALSE
  BY <1>0, <1>3, WriterFacts DEF Write, TypeOK
<1>4. ASSUME NEW p \in Procs,
             \/ FetchStart(p) \/ Download(p) \/ Digest(p) \/ RecheckFile(p) \/ Sum(p) \/ Unpack(p)
             \/ Refuse(p) \/ Kill(p) \/ Again(p)
      PROVE  file' = file
  BY <1>4 DEF FetchStart, Download, Digest, RecheckFile, Sum, Unpack, UnpackStart, Extract, Verify,
              RecheckTree, LandTree, Refuse, Kill, Again, Test
<1>5. ~UNCHANGED vars
  BY DEF vars
<1> QED
  BY <1>1, <1>2, <1>3, <1>4, <1>5 DEF Next, Fetch, Pack

\* A finished archive is replaced only by a fetch that looked before it was
\* there, and only by what that fetch was asked for.
THEOREM LateFetchOnly == Spec => OnlyLateFetchReplaces
BY ReplaceStep, DeliveryInvHolds, PTL DEF Spec, OnlyLateFetchReplaces

(***************************************************************************)
(* What was asked for.  An archive that a run of unpack has compared with  *)
(* its digest is finished, and nobody has it open: only a fetch that lands *)
(* on the path changes what is read.                                       *)
(***************************************************************************)
Asked(p) ==
  job[p].sha \in Artifacts =>
    /\ pc[p] = "extract" /\ FileAt(p) # job[p].sha =>
         writer[job[p].archive] = Absent /\ Fetched(job[p].archive, FileAt(p))
    /\ pc[p] \in {"verify", "recheckTree", "landTree", "unpacked"} =>
         job[p].got = job[p].sha \/ Fetched(job[p].archive, job[p].got)
AskedInv == \A p \in Procs : Asked(p)

\* The steps of one run.
Step(p) == Fetch(p) \/ Pack(p) \/ Unpack(p) \/ Refuse(p) \/ Kill(p) \/ Again(p)

\* Only its own step changes where a run is and what it holds, and none after a fetch.
LEMMA StepFacts ==
  ASSUME TypeOK, NEW p \in Procs, Step(p)
  PROVE  /\ pc[p] # "fetched"
         /\ \A q \in Procs \ {p} : pc'[q] = pc[q] /\ job'[q] = job[q]
  BY DEF Step, Fetch, FetchStart, Download, Digest, RecheckFile, LandFile, Pack, Create, Write, Sum,
         Unpack, UnpackStart, Extract, Verify, RecheckTree, LandTree, Refuse, Kill, Again,
         Test, Goto, Got, TypeOK

\* What was fetched stays so.
LEMMA FetchedStays ==
  ASSUME TypeOK, NEW p \in Procs, Step(p), NEW a, NEW c, Fetched(a, c)
  PROVE  Fetched(a, c)'
<1>1. PICK q \in Procs : pc[q] = "fetched" /\ job[q].archive = a /\ job[q].sha = c
  BY DEF Fetched
<1> QED
  BY <1>1, StepFacts DEF Fetched

\* An archive that is there and that nobody has open is changed by a fetch that lands
\* on it, if at all.
LEMMA ArchiveStep ==
  ASSUME DeliveryInv, NEW p \in Procs, Step(p), NEW a \in Archives,
         file[a] # Absent, writer[a] = Absent
  PROVE  writer'[a] = Absent /\ (file'[a] = file[a] \/ Fetched(a, file[a])')
<1> USE ContentFacts
<1>0. TypeOK /\ job[p].archive \in Archives
  BY DEF DeliveryInv, TypeOK, Job
<1>1. CASE LandFile(p) /\ job[p].archive = a
  BY <1>0, <1>1 DEF LandFile, Goto, TypeOK, DeliveryInv, Fetched
<1>2. CASE LandFile(p) /\ job[p].archive # a
  BY <1>0, <1>2 DEF LandFile, TypeOK
<1>3. CASE Create(p)
  BY <1>0, <1>3 DEF Create, FileAt, TypeOK
<1>4. CASE Write(p)
  BY <1>0, <1>4 DEF Write, TypeOK
<1>5. CASE Kill(p)
  BY <1>5 DEF Kill
<1>6. CASE \/ FetchStart(p) \/ Download(p) \/ Digest(p) \/ RecheckFile(p) \/ Sum(p) \/ Unpack(p)
           \/ Refuse(p) \/ Again(p)
  BY <1>6 DEF FetchStart, Download, Digest, RecheckFile, Sum, Unpack, UnpackStart, Extract, Verify,
              RecheckTree, LandTree, Refuse, Again, Test
<1> QED
  BY <1>1, <1>2, <1>3, <1>4, <1>5, <1>6 DEF Step, Fetch, Pack

\* Every step keeps what was asked for.
LEMMA AskedNext == DeliveryInv /\ AskedInv /\ [Next]_vars => AskedInv'
<1> SUFFICES ASSUME DeliveryInv, AskedInv, [Next]_vars PROVE AskedInv'
  OBVIOUS
<1> USE ContentFacts
<1>0. TypeOK
  BY DEF DeliveryInv
<1>1. ASSUME NEW p \in Procs, Step(p), NEW q \in Procs PROVE Asked(q)'
  <2>0. PICK a \in Archives : a = job[q].archive
    BY <1>0 DEF TypeOK, Job
  <2>1. ASSUME pc[q] = "extract", pc'[q] = "extract", job'[q] = job[q], job[q].sha \in Artifacts,
               FileAt(q)' # job[q].sha
        PROVE  writer'[job[q].archive] = Absent /\ Fetched(job[q].archive, FileAt(q))'
    <3>1. file[a] # Absent /\ writer[a] = Absent
      <4>1. file[a] # Absent
        BY <2>0, <2>1 DEF DeliveryInv, FileAt
      <4>2. CASE file[a] = job[q].sha
        BY <1>0, <2>1, <4>1, <4>2 DEF TypeOK
      <4>3. CASE file[a] # job[q].sha
        BY <2>0, <2>1, <4>1, <4>3 DEF AskedInv, Asked, FileAt
      <4> QED
        BY <4>1, <4>2, <4>3
    <3>2. writer'[a] = Absent /\ (file'[a] = file[a] \/ Fetched(a, file[a])')
      BY <1>1, <2>0, <3>1, ArchiveStep
    <3>3. FileAt(q)' = file'[a]
      BY <2>0, <2>1 DEF FileAt
    <3>4. CASE file'[a] = file[a]
      <4>1. Fetched(a, file[a])
        BY <2>0, <2>1, <3>3, <3>4 DEF AskedInv, Asked, FileAt
      <4>2. PICK c : c = file[a]
        OBVIOUS
      <4>3. Fetched(a, c)'
        BY <1>0, <1>1, <4>1, <4>2, FetchedStays
      <4> QED
        BY <2>0, <2>1, <3>2, <3>3, <3>4, <4>2, <4>3 DEF Fetched
    <3>5. CASE file'[a] # file[a]
      BY <2>0, <2>1, <3>2, <3>3, <3>5 DEF Fetched
    <3> QED
      BY <3>4, <3>5
  <2>2. CASE p # q
    <3>1. pc'[q] = pc[q] /\ job'[q] = job[q]
      BY <1>0, <1>1, <2>2, StepFacts
    <3> QED
      BY <1>0, <1>1, <2>1, <3>1, FetchedStays DEF AskedInv, Asked
  <2>3. CASE p = q /\ UnpackStart(p)
    BY <1>0, <2>3 DEF UnpackStart, Test, Goto, FileAt, TypeOK, Asked
  <2>4. CASE p = q /\ Extract(p)
    <3>1. /\ pc[q] = "extract" /\ pc'[q] = "verify"
          /\ job'[q].archive = job[q].archive /\ job'[q].sha = job[q].sha /\ job'[q].got = FileAt(q)
      BY <1>0, <2>4 DEF Extract, Goto, Got, FileAt, TypeOK, Job
    <3> QED
      BY <1>0, <1>1, <3>1, FetchedStays DEF AskedInv, Asked
  <2>5. CASE p = q /\ (Verify(p) \/ RecheckTree(p) \/ LandTree(p))
    <3>1. /\ pc[q] \in {"verify", "recheckTree", "landTree"} /\ pc'[q] # "extract"
          /\ job'[q] = job[q]
      BY <1>0, <2>5 DEF Verify, RecheckTree, LandTree, Test, Goto, TypeOK
    <3> QED
      BY <1>0, <1>1, <3>1, FetchedStays DEF AskedInv, Asked
  <2>6. CASE p = q /\ (Fetch(p) \/ Pack(p) \/ Refuse(p) \/ Kill(p) \/ Again(p))
    <3>1. pc'[q] \notin {"extract", "verify", "recheckTree", "landTree", "unpacked"}
      BY <1>0, <2>6 DEF Fetch, FetchStart, Download, Digest, RecheckFile, LandFile, Pack, Create, Write,
                        Sum, Refuse, Kill, Again, Test, Goto, TypeOK
    <3> QED
      BY <3>1 DEF Asked
  <2> QED
    BY <1>1, <2>2, <2>3, <2>4, <2>5, <2>6 DEF Step, Unpack
<1>2. CASE UNCHANGED vars
  BY <1>2 DEF vars, AskedInv, Asked, FileAt, Fetched
<1> QED
  BY <1>1, <1>2 DEF Next, Step, AskedInv

\* What a run of unpack leaves is the release it was asked for, or one that a fetch to
\* the same path was asked for, for any number of runs, archives and kills.
THEOREM AskedFor == Spec => []UnpackedAsAsked
<1>1. Init => AskedInv
  BY DEF Init, AskedInv, Asked
<1>2. AskedInv => UnpackedAsAsked
  BY DEF AskedInv, Asked, UnpackedAsAsked
<1> QED
  BY <1>1, <1>2, AskedNext, DeliveryInvHolds, PTL DEF Spec

\* The archives a run of unpack may have read are judged as ReleaseFormat_proofs
\* says, for every archive, bound and set of names.
THEOREM AcceptsHolds == Spec => []AcceptsWhatPackMakes
<1>1. AcceptsWhatPackMakes
  BY NoneMisjudged DEF AcceptsWhatPackMakes
<1> QED
  BY <1>1, PTL

\* And none of them makes it stage too much, or outside its directory.
THEOREM StagingHolds == Spec => []StagingIsBounded
<1>1. StagingIsBounded
  BY NoneMisjudged DEF StagingIsBounded
<1> QED
  BY <1>1, PTL
=============================================================================
