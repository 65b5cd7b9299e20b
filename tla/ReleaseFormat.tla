---------------------------- MODULE ReleaseFormat ----------------------------
(***************************************************************************)
(* What a release archive may hold: the checks of verify_bundle, pack and  *)
(* unpack of release.py, as operators.                                     *)
(*                                                                         *)
(* pack and unpack have bounds of their own on the number of files and on  *)
(* their size; one counts the manifest and the other does not, and unpack  *)
(* applies its bounds to one member after another, before anything is      *)
(* verified.  The bound on the archive itself is the same for both.        *)
(***************************************************************************)
EXTENDS Naturals, Sequences, FiniteSets, SequencesExt

CONSTANTS
  Names,       \* names of members: what is between the slashes, as a sequence
  Plain,       \* parts of a name that member_name permits
  Manifest,    \* manifest.json
  Required,    \* REQUIRED
  Bodies,      \* contents of files, each with a digest of its own
  Index,       \* the content of the manifest
  Link,        \* no regular file: a link, or the header of an extension
  Size,        \* the size of each content
  MaxFiles,    \* MAX_FILES
  MaxExpanded  \* MAX_EXPANDED

ASSUME FormatAssumption ==
  /\ IsFiniteSet(Names)
  /\ Manifest \in Names /\ Required \subseteq Names \ {Manifest}
  /\ {Index, Link} \cap Bodies = {} /\ Index # Link
  /\ \A b \in Bodies \cup {Index, Link} : Size[b] \in Nat
  /\ MaxFiles \in Nat /\ MaxExpanded \in Nat

Member ==
  [name : Names \ {Manifest}, body : Bodies \cup {Link}]
    \cup [name : {Manifest}, body : {Index, Link}]

\* What a manifest says: the digest of each file, and whether format, version,
\* architecture, provenance and executables are those of the release.
Inventory ==
  UNION {[files : [ns -> Bodies], genuine : BOOLEAN] : ns \in SUBSET (Names \ {Manifest})}

\* Neither absolute nor empty, with no "." or ".." and no other characters.
MemberName(n) == n # <<>> /\ \A i \in DOMAIN n : n[i] \in Plain

\* The bytes of a directory, each known by its file and its place in it.
Bytes(dir) == UNION {{n} \X (1 .. Size[dir[n]]) : n \in DOMAIN dir}
Total(dir) == Cardinality(Bytes(dir))

-----------------------------------------------------------------------------
\* Definitions marked "mutant" are bugs the code does not have.
\* Mutant: as many files as unpack takes members.
FilesUpTo(inv) == Cardinality(DOMAIN inv.files) <= MaxFiles
FewFiles(inv)  == Cardinality(DOMAIN inv.files) < MaxFiles

VerifyBundle(dir, inv) ==
  /\ Manifest \in DOMAIN dir /\ inv.genuine
  /\ Required \subseteq DOMAIN inv.files /\ FewFiles(inv)
  /\ \A n \in DOMAIN dir : MemberName(n)
  /\ DOMAIN dir = DOMAIN inv.files \cup {Manifest} /\ Total(dir) <= MaxExpanded
  /\ \A n \in DOMAIN inv.files : dir[n] = inv.files[n]

\* The members pack writes, sorted by name.
Packed(dir) == {[name |-> n, body |-> dir[n]] : n \in DOMAIN dir}

-----------------------------------------------------------------------------
(* The staging directory while unpack goes through the members. *)
Empty == [dir |-> <<>>, refused |-> FALSE]
Put(dir, m) == [n \in DOMAIN dir \cup {m.name} |-> IF n = m.name THEN m.body ELSE dir[n]]

\* Mutant: a later member replaces an earlier one of its name.
AnyTwice(dir, m) == m.body # Link /\ MemberName(m.name)
Permitted(dir, m) == m.body # Link /\ MemberName(m.name) /\ m.name \notin DOMAIN dir

\* Mutant: the sizes are added up after the files are written.
FullAlready(dir, m) == Total(dir) <= MaxExpanded /\ Cardinality(DOMAIN dir) < MaxFiles
WithinBudget(dir, m) ==
  /\ Total(dir) + Size[m.body] <= MaxExpanded
  /\ Cardinality(DOMAIN dir) < MaxFiles

\* mkdir meets a file, or open "xb" a directory.
Blocked(dir, n) == \E o \in DOMAIN dir : IsStrictPrefix(o, n) \/ IsStrictPrefix(n, o)

UnpackMember(s, m) ==
  IF s.refused THEN s
  ELSE IF Permitted(s.dir, m) /\ WithinBudget(s.dir, m) /\ ~Blocked(s.dir, m.name)
       THEN [s EXCEPT !.dir = Put(s.dir, m)]
       ELSE [s EXCEPT !.refused = TRUE]

Staged(archive) ==
  LET after[i \in 0 .. Len(archive)] ==
        IF i = 0 THEN Empty ELSE UnpackMember(after[i - 1], archive[i])
  IN after[Len(archive)]

\* The releases for which the staging directory is published.
AcceptedFor(s) == IF s.refused THEN {} ELSE {inv \in Inventory : VerifyBundle(s.dir, inv)}

-----------------------------------------------------------------------------
\* The archives with up to one member more than fit.
Archive == BoundedSeq(Member, MaxFiles + 1)

\* The files a manifest describes.
Described(inv) ==
  [n \in DOMAIN inv.files \cup {Manifest} |-> IF n = Manifest THEN Index ELSE inv.files[n]]

\* What pack makes of a bundle, in which no file is a directory as well.
Release ==
  {[inv |-> inv, members |-> Packed(Described(inv))] :
     inv \in {inv \in Inventory :
                /\ \A n, o \in DOMAIN Described(inv) : ~IsStrictPrefix(n, o)
                /\ VerifyBundle(Described(inv), inv)}}

\* The directories that pack accepts.
Bundle == {Described(r.inv) : r \in Release}

\* The releases an archive is one of: it has each of their members once.
MadeFrom(archive) ==
  {r.inv : r \in {r \in Release : /\ r.members = ToSet(archive)
                                 /\ Cardinality(r.members) = Len(archive)}}

WithinBounds(dir) ==
  /\ Total(dir) <= MaxExpanded /\ Cardinality(DOMAIN dir) <= MaxFiles
  /\ \A n \in DOMAIN dir : MemberName(n)

\* The archives that unpack accepts for another release than pack made them from,
\* or refuses though pack made them.
Misjudged == {archive \in Archive : AcceptedFor(Staged(archive)) # MadeFrom(archive)}

\* The archives of which unpack stages too much, or something outside.
Overflowed == {archive \in Archive : ~WithinBounds(Staged(archive).dir)}
=============================================================================
