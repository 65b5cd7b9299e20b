--------------------------- MODULE ReleaseDelivery ---------------------------
(***************************************************************************)
(* The release tool, release.py: pack, fetch and verify (unpack) running   *)
(* side by side on one directory, each of which may be killed at any step. *)
(*                                                                         *)
(* Every command refuses a destination that exists.  pack creates it       *)
(* exclusively and writes it in place; fetch and unpack prepare a private  *)
(* sibling, check that the destination is still not there, and rename.     *)
(* What a rename does to a destination that appeared after that check      *)
(* differs: a file is replaced, a directory that is not empty is not.      *)
(***************************************************************************)
EXTENDS Naturals, ReleaseFormat

CONSTANTS
  Procs,      \* runs of the tool
  Archives,   \* paths of archives: --output of pack and fetch, --archive of verify
  Trees,      \* paths of unpacked releases: --destination of verify
  Content,    \* what an archive file may hold
  Absent,     \* no such path
  MaxKills    \* bound: runs that are killed

\* An archive cut short, as it is while it is written: no member can be read.
Other == <<>>

ASSUME DeliveryAssumption ==
  /\ Content \subseteq Seq(Member) /\ Other \in Content
  /\ Absent \notin Content /\ Absent \notin Procs /\ Absent \notin Bundle
  /\ MaxKills \in Nat

\* What pack makes; every other content is altered, cut short or made otherwise.
Artifacts == {c \in Content : MadeFrom(c) # {}}

VARIABLES
  file,    \* what each archive path holds
  tree,    \* what each release directory holds
  writer,  \* the pack whose open file an archive path names
  pc,      \* where each run is
  job,     \* its arguments and its private copy
  kills

vars == <<file, tree, writer, pc, job, kills>>

Label == {"new", "download", "digest", "write", "sum", "extract", "verify",
          "recheckFile", "landFile", "recheckTree", "landTree",
          "fetched", "packed", "unpacked", "failed"}
\* sha: the content with the expected digest, or that pack is about to make;
\* got: what was downloaded or extracted.
Job == [archive : Archives, dest : Trees, sha : Content, got : Content \cup {Absent}]

Init ==
  /\ file \in [Archives -> Content \cup {Absent}]
  /\ tree = [t \in Trees |-> Absent]
  /\ writer = [a \in Archives |-> Absent]
  /\ pc = [p \in Procs |-> "new"]
  /\ job \in [Procs -> [archive : Archives, dest : Trees, sha : Content, got : {Absent}]]
  /\ kills = 0

-----------------------------------------------------------------------------
\* Definitions marked "mutant" are bugs the code does not have; no action uses one.
Goto(p, l) == pc' = [pc EXCEPT ![p] = l]
Got(p, c)  == job' = [job EXCEPT ![p].got = c]
FileAt(p)  == file[job[p].archive]
TreeAt(p)  == tree[job[p].dest]
\* A step that checks something and goes on, or raises InvalidRelease.
Test(p, from, ok, to) ==
  /\ pc[p] = from
  /\ Goto(p, IF ok THEN to ELSE "failed")
  /\ UNCHANGED <<file, tree, writer, job, kills>>

(***************************************************************************)
(* fetch                                                                   *)
(***************************************************************************)
FetchStart(p) == FileAt(p) = Absent /\ Test(p, "new", TRUE, "download")

\* The server sends anything.
Download(p) ==
  /\ pc[p] = "download"
  /\ \E c \in Content : Got(p, c)
  /\ Goto(p, "digest")
  /\ UNCHANGED <<file, tree, writer, kills>>

\* Mutant: the digest is not compared.
AnyDigest(p) == Test(p, "digest", TRUE, "recheckFile")
Digest(p) == Test(p, "digest", job[p].got = job[p].sha, "recheckFile")

RecheckFile(p) == Test(p, "recheckFile", FileAt(p) = Absent, "landFile")

\* Mutant: the download is copied into the file that is there.
CopyFile(p) ==
  /\ pc[p] = "landFile"
  /\ file' = [file EXCEPT ![job[p].archive] = job[p].got]
  /\ Goto(p, "fetched")
  /\ UNCHANGED <<tree, writer, job, kills>>

\* rename: whatever file is there by now is replaced.
LandFile(p) ==
  /\ pc[p] = "landFile"
  /\ file' = [file EXCEPT ![job[p].archive] = job[p].got]
  /\ writer' = [writer EXCEPT ![job[p].archive] = Absent]
  /\ Goto(p, "fetched")
  /\ UNCHANGED <<tree, job, kills>>

(***************************************************************************)
(* pack                                                                    *)
(***************************************************************************)
\* The bundle has been verified; open "xb", and the archive grows in place.
Create(p) ==
  /\ pc[p] = "new" /\ job[p].sha \in Artifacts
  /\ FileAt(p) = Absent
  /\ file' = [file EXCEPT ![job[p].archive] = Other]
  /\ writer' = [writer EXCEPT ![job[p].archive] = p]
  /\ Goto(p, "write")
  /\ UNCHANGED <<tree, job, kills>>

\* A file that was replaced goes on being written without a name.
Write(p) ==
  /\ pc[p] = "write"
  /\ IF writer[job[p].archive] = p
     THEN /\ file' = [file EXCEPT ![job[p].archive] = job[p].sha]
          /\ writer' = [writer EXCEPT ![job[p].archive] = Absent]
     ELSE UNCHANGED <<file, writer>>
  /\ Goto(p, "sum")
  /\ UNCHANGED <<tree, job, kills>>

\* The archive is within budget, and the digest of what the path holds is printed.
Sum(p) == Test(p, "sum", TRUE, "packed")

(***************************************************************************)
(* unpack                                                                  *)
(***************************************************************************)
\* Mutant: the digest is left to whoever has fetched the archive.
UnpackAny(p) == TreeAt(p) = Absent /\ FileAt(p) # Absent /\ Test(p, "new", TRUE, "extract")
\* The digest is checked before the archive is opened again to be read.
UnpackStart(p) == TreeAt(p) = Absent /\ FileAt(p) = job[p].sha /\ Test(p, "new", TRUE, "extract")

Extract(p) ==
  /\ pc[p] = "extract"
  /\ Got(p, FileAt(p))
  /\ Goto(p, "verify")
  /\ UNCHANGED <<file, tree, writer, kills>>

\* Mutant: only what the loop itself refuses is refused.
VerifyMembers(p) == Test(p, "verify", ~Staged(job[p].got).refused, "recheckTree")
\* The loop over the members, and verify_bundle.
Verify(p) == Test(p, "verify", AcceptedFor(Staged(job[p].got)) # {}, "recheckTree")

RecheckTree(p) == Test(p, "recheckTree", TreeAt(p) = Absent, "landTree")

\* Mutant: a move that merges into what is there.
Merge(p) == TRUE
\* rename fails on a directory that is not empty.
RenameWorks(p) == TreeAt(p) = Absent

LandTree(p) ==
  /\ pc[p] = "landTree"
  /\ tree' = IF RenameWorks(p) THEN [tree EXCEPT ![job[p].dest] = Staged(job[p].got).dir] ELSE tree
  /\ Goto(p, IF RenameWorks(p) THEN "unpacked" ELSE "failed")
  /\ UNCHANGED <<file, writer, job, kills>>

-----------------------------------------------------------------------------
\* With any arguments some command is refused at the start: fetch and pack when
\* the path exists, verify when it does not.
Refuse(p) == Test(p, "new", FALSE, "failed")

\* The run is killed, or the network, the disk or the archive fails it.
Kill(p) ==
  /\ pc[p] \notin {"new", "fetched", "packed", "unpacked", "failed"}
  /\ kills < MaxKills /\ kills' = kills + 1
  /\ Goto(p, "failed")
  /\ writer' = [a \in Archives |-> IF writer[a] = p THEN Absent ELSE writer[a]]
  /\ UNCHANGED <<file, tree, job>>

\* The operator tries again, with arguments of any kind.
Again(p) ==
  /\ pc[p] = "failed"
  /\ Goto(p, "new")
  /\ \E j \in Job : j.got = Absent /\ job' = [job EXCEPT ![p] = j]
  /\ UNCHANGED <<file, tree, writer, kills>>

Fetch(p)  == FetchStart(p) \/ Download(p) \/ Digest(p) \/ RecheckFile(p) \/ LandFile(p)
Pack(p)   == Create(p) \/ Write(p) \/ Sum(p)
Unpack(p) == UnpackStart(p) \/ Extract(p) \/ Verify(p) \/ RecheckTree(p) \/ LandTree(p)

Next == \E p \in Procs : Fetch(p) \/ Pack(p) \/ Unpack(p) \/ Refuse(p) \/ Kill(p) \/ Again(p)

Spec == Init /\ [][Next]_vars

-----------------------------------------------------------------------------
\* Every variable keeps its type, and only a run of pack has an archive open.
TypeOK ==
  /\ file \in [Archives -> Content \cup {Absent}]
  /\ tree \in [Trees -> Bundle \cup {Absent}]
  /\ pc \in [Procs -> Label]
  /\ job \in [Procs -> Job]
  /\ writer \in [Archives -> Procs \cup {Absent}]
  /\ \A a \in Archives : writer[a] # Absent =>
       file[a] = Other /\ pc[writer[a]] = "write" /\ job[writer[a]].archive = a
  /\ kills \in 0 .. MaxKills

\* A release directory that is there is, file by file, a bundle that pack accepts,
\* and exactly one run has renamed it into place: a run that was killed before or
\* refused leaves none, and of two runs with one destination only one does, whatever
\* their order.  One that is killed after the rename has not said so.
TreeHasOneMaker ==
  /\ \A t \in Trees : tree[t] # Absent =>
       tree[t] \in Bundle /\ \E p \in Procs : pc[p] = "unpacked" /\ job[p].dest = t
  /\ \A p \in Procs : pc[p] = "unpacked" => TreeAt(p) = Staged(job[p].got).dir
  /\ \A p, q \in Procs :
       pc[p] = "unpacked" /\ pc[q] = "unpacked" /\ job[p].dest = job[q].dest => p = q

\* Why that holds, an inductive invariant: what is about to land was compared
\* with the expected digest, or verified.
DeliveryInv ==
  /\ TypeOK
  /\ TreeHasOneMaker
  /\ \A p \in Procs :
       /\ pc[p] \in {"recheckFile", "landFile"} => job[p].got = job[p].sha
       /\ pc[p] = "extract" => FileAt(p) # Absent
       /\ pc[p] = "verify" => job[p].got # Absent
       /\ pc[p] \in {"recheckTree", "landTree", "unpacked"} => job[p].got \in Artifacts

\* A finished archive is replaced only by a fetch that looked before it was
\* there: neither pack nor an interrupted run of anything touches it.
OnlyLateFetchReplaces ==
  [][\A a \in Archives : file[a] \in Artifacts /\ file'[a] # file[a] =>
       \E p \in Procs : pc[p] = "landFile" /\ pc'[p] = "fetched" /\ file'[a] = job[p].sha]_vars

Fetched(a, c) == \E q \in Procs : pc[q] = "fetched" /\ job[q].archive = a /\ job[q].sha = c

\* The digest is compared, and the archive is opened again to be read.  A run that was
\* asked for a release by the digest of its archive unpacks that one, or the one that
\* another run has fetched to the same path in between, by the digest it was given:
\* no interrupted, refused or slower run of anything changes what is unpacked.
UnpackedAsAsked ==
  \A p \in Procs : pc[p] = "unpacked" /\ job[p].sha \in Artifacts =>
    job[p].got = job[p].sha \/ Fetched(job[p].archive, job[p].got)

Unpacking == {p \in Procs : pc[p] = "verify"}

\* A run of unpack accepts an archive exactly for the release that pack makes it
\* from: no release that was packed is refused, at a bound or anywhere else, and
\* nothing gets in that was not in a verified bundle.
AcceptsWhatPackMakes == Unpacking # {} => Misjudged = {}

\* Whatever the archive holds, what a run of unpack has staged when it has gone
\* through it or given up is within the budgets, and under names that stay in
\* the staging directory.
StagingIsBounded == Unpacking # {} => Overflowed = {}

\* SECURITY.md: "The tools never [...] overwrite existing destinations".
NothingOverwritten ==
  [][\A a \in Archives : file[a] \in Artifacts => file'[a] = file[a]]_vars
=============================================================================
