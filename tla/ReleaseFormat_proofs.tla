------------------------ MODULE ReleaseFormat_proofs ------------------------
(***************************************************************************)
(* Proofs about the contents of an archive.  The loop of unpack is a       *)
(* recursive function over the members; what it does for an archive of any *)
(* length is shown by taking the first member at which a claim would fail. *)
(***************************************************************************)
EXTENDS ReleaseFormat, FiniteSetTheorems, TLAPS

(***************************************************************************)
(* Induction over the members.                                             *)
(***************************************************************************)
\* A set of numbers that is not empty has a least one: the intervals 0 .. i are
\* well-founded by inclusion.
LEMMA LeastNumber ==
  ASSUME NEW T \in SUBSET Nat, T # {}
  PROVE  \E m \in T : \A k \in T : m <= k
<1> DEFINE UpTo == {0 .. i : i \in T}
<1>1. UpTo \subseteq FiniteSubsetsOf(Nat)
  <2> SUFFICES ASSUME NEW i \in T PROVE 0 .. i \in FiniteSubsetsOf(Nat)
    OBVIOUS
  <2> QED
    BY FS_Interval DEF FiniteSubsetsOf
<1>2. UpTo # {}
  OBVIOUS
<1>3. \E x \in UpTo : \A y \in UpTo : <<y, x>> \notin StrictSubsetOrdering(Nat)
  <2> HIDE DEF UpTo
  <2> QED
    BY <1>1, <1>2, FS_StrictSubsetOrderingWellFounded, WFMin
<1>4. PICK m \in T : \A k \in T : <<0 .. k, 0 .. m>> \notin StrictSubsetOrdering(Nat)
  BY <1>3
<1>5. ASSUME NEW k \in T, k < m PROVE FALSE
  <2>1. 0 .. k \subseteq 0 .. m /\ m \in 0 .. m /\ m \notin 0 .. k
    BY <1>5
  <2>2. <<0 .. k, 0 .. m>> \in (SUBSET Nat) \X (SUBSET Nat) /\ 0 .. k # 0 .. m
    BY <2>1
  <2> QED
    BY <2>1, <2>2, <1>4 DEF StrictSubsetOrdering
<1> QED
  BY <1>5

\* What holds at 0 and goes from each number to the next holds up to n.
LEMMA UpwardInduction ==
  ASSUME NEW n \in Nat, NEW Holds \in SUBSET Nat, 0 \in Holds,
         \A i \in 1 .. n : i - 1 \in Holds => i \in Holds
  PROVE  0 .. n \subseteq Holds
<1> DEFINE Fails == (0 .. n) \ Holds
<1> SUFFICES ASSUME Fails # {} PROVE FALSE
  OBVIOUS
<1>1. PICK m \in Fails : \A k \in Fails : m <= k
  <2>1. Fails \subseteq Nat
    OBVIOUS
  <2> HIDE DEF Fails
  <2> QED
    BY <2>1, LeastNumber
<1>2. m \in 1 .. n /\ m - 1 \in 0 .. n /\ m - 1 \notin Fails
  BY <1>1
<1> QED
  BY <1>1, <1>2

\* The states of the staging directory, from empty to Staged(archive).
Run(archive, g) ==
  /\ g[0] = Empty
  /\ \A i \in 1 .. Len(archive) : g[i] = UnpackMember(g[i - 1], archive[i])
  /\ Staged(archive) = g[Len(archive)]

\* Staged is what its definition says: the recursive function exists.
LEMMA StagedRun ==
  ASSUME NEW archive \in Seq(Member)
  PROVE  \E g : Run(archive, g)
<1> DEFINE Body(g, i) == IF i = 0 THEN Empty ELSE UnpackMember(g[i - 1], archive[i])
           Graph(n, g) == g = [i \in 0 .. n |-> Body(g, i)]
           Has == {n \in Nat : \E g : Graph(n, g)}
           n0 == Len(archive)
<1>1. 0 \in Has
  <2> DEFINE g0 == [i \in 0 .. 0 |-> Empty]
  <2>1. Graph(0, g0)
    OBVIOUS
  <2> QED
    BY <2>1
<1>2. ASSUME NEW i \in 1 .. n0, i - 1 \in Has PROVE i \in Has
  <2>1. PICK g : Graph(i - 1, g)
    BY <1>2
  <2> DEFINE h == [j \in 0 .. i |-> IF j = i THEN Body(g, i) ELSE g[j]]
  <2>2. ASSUME NEW j \in 0 .. i PROVE h[j] = Body(h, j)
    <3>1. CASE j = i
      BY <3>1, <1>2
    <3>2. CASE j # i
      <4>1. g[j] = Body(g, j)
        BY <2>1, <3>2, <1>2
      <4>2. j # 0 => j - 1 \in 0 .. i /\ j - 1 # i
        BY <3>2
      <4> QED
        BY <4>1, <4>2, <3>2
    <3> QED
      BY <3>1, <3>2
  <2>3. Graph(i, h)
    <3> HIDE DEF Body
    <3> QED
      BY <2>2
  <2> HIDE DEF Graph
  <2> QED
    BY <2>3
<1>3. n0 \in Has
  <2>1. n0 \in Nat /\ Has \subseteq Nat
    OBVIOUS
  <2> HIDE DEF Has, n0
  <2>2. 0 .. n0 \subseteq Has
    BY <2>1, <1>1, <1>2, UpwardInduction
  <2> QED
    BY <2>1, <2>2
<1> DEFINE after == CHOOSE g : Graph(n0, g)
<1>4. Graph(n0, after)
  <2> HIDE DEF Graph
  <2> QED
    BY <1>3
<1>5. Staged(archive) = after[n0]
  BY DEF Staged
<1> HIDE DEF after
<1>6. n0 \in Nat /\ after = [i \in 0 .. n0 |-> Body(after, i)]
  BY <1>4
<1>7. after[0] = Empty /\ \A i \in 1 .. n0 : after[i] = UnpackMember(after[i - 1], archive[i])
  BY <1>6
<1> QED
  BY <1>5, <1>7 DEF Run

(***************************************************************************)
(* Directories and their sizes.                                            *)
(***************************************************************************)
\* A directory of regular files in which only the manifest is the manifest.
Regular(dir) ==
  /\ dir = [n \in DOMAIN dir |-> dir[n]] /\ DOMAIN dir \subseteq Names
  /\ \A n \in DOMAIN dir : dir[n] \in (IF n = Manifest THEN {Index} ELSE Bodies)

\* No file of the directory is a directory as well.
Flat(dir) == \A n, o \in DOMAIN dir : ~IsStrictPrefix(n, o)

\* Files and sizes are finite.
LEMMA RegularFinite ==
  ASSUME NEW dir, Regular(dir)
  PROVE  /\ IsFiniteSet(DOMAIN dir) /\ Cardinality(DOMAIN dir) \in Nat
         /\ \A n \in DOMAIN dir : Size[dir[n]] \in Nat
<1>1. IsFiniteSet(DOMAIN dir)
  BY FormatAssumption, FS_Subset DEF Regular
<1> QED
  BY <1>1, FormatAssumption, FS_CardinalityType DEF Regular

\* The bytes of one file.
LEMMA FileBytes ==
  ASSUME NEW n, NEW k \in Nat
  PROVE  IsFiniteSet({n} \X (1 .. k)) /\ Cardinality({n} \X (1 .. k)) = k
<1>1. IsFiniteSet(1 .. k) /\ Cardinality(1 .. k) = k
  BY FS_Interval
<1>2. IsFiniteSet({n}) /\ Cardinality({n}) = 1
  BY FS_Singleton
<1> QED
  BY <1>1, <1>2, FS_Product

LEMMA BytesFinite ==
  ASSUME NEW dir, Regular(dir)
  PROVE  IsFiniteSet(Bytes(dir)) /\ Total(dir) \in Nat
<1> DEFINE of == [n \in DOMAIN dir |-> {n} \X (1 .. Size[dir[n]])]
           Parts == {of[n] : n \in DOMAIN dir}
<1>1. IsFiniteSet(Parts)
  <2>1. of \in Surjection(DOMAIN dir, Parts)
    BY DEF Surjection
  <2> QED
    BY <2>1, RegularFinite, FS_Surjection
<1>2. ASSUME NEW n \in DOMAIN dir PROVE IsFiniteSet({n} \X (1 .. Size[dir[n]]))
  <2>1. Size[dir[n]] \in Nat
    BY RegularFinite
  <2> QED
    BY <2>1, FileBytes
<1>3. Bytes(dir) = UNION Parts
  BY DEF Bytes
<1>4. IsFiniteSet(Bytes(dir))
  <2>1. \A part \in Parts : IsFiniteSet(part)
    BY <1>2
  <2> HIDE DEF Parts
  <2> QED
    BY <1>1, <2>1, <1>3, FS_UNION
<1> QED
  BY <1>4, FS_CardinalityType DEF Total

\* A regular file with a new name.
New(dir, m) == m \in Member /\ m.body # Link /\ m.name \notin DOMAIN dir

LEMMA PutRegular ==
  ASSUME NEW dir, Regular(dir), NEW m, New(dir, m)
  PROVE  /\ Regular(Put(dir, m)) /\ DOMAIN Put(dir, m) = DOMAIN dir \cup {m.name}
         /\ Put(dir, m)[m.name] = m.body /\ \A n \in DOMAIN dir : Put(dir, m)[n] = dir[n]
<1>1. m.name \in Names /\ m.body \in (IF m.name = Manifest THEN {Index} ELSE Bodies)
  <2>1. CASE m \in [name : Names \ {Manifest}, body : Bodies \cup {Link}]
    BY <2>1 DEF New
  <2>2. CASE m \in [name : {Manifest}, body : {Index, Link}]
    BY <2>2, FormatAssumption DEF New
  <2> QED
    BY <2>1, <2>2 DEF New, Member
<1>2. /\ DOMAIN Put(dir, m) = DOMAIN dir \cup {m.name}
      /\ Put(dir, m)[m.name] = m.body /\ \A n \in DOMAIN dir : Put(dir, m)[n] = dir[n]
      /\ Put(dir, m) = [n \in DOMAIN Put(dir, m) |-> Put(dir, m)[n]]
  BY DEF Put, New
<1> HIDE DEF Put
<1> QED
  BY <1>1, <1>2 DEF Regular

\* A file adds one to the count and its size to the total.
LEMMA PutCounts ==
  ASSUME NEW dir, Regular(dir), NEW m, New(dir, m)
  PROVE  /\ Cardinality(DOMAIN Put(dir, m)) = Cardinality(DOMAIN dir) + 1
         /\ Total(Put(dir, m)) = Total(dir) + Size[m.body]
<1>1. Cardinality(DOMAIN Put(dir, m)) = Cardinality(DOMAIN dir) + 1
  BY PutRegular, RegularFinite, FS_AddElement DEF New
<1> DEFINE added == {m.name} \X (1 .. Size[m.body])
<1>2. Size[m.body] \in Nat
  BY FormatAssumption DEF New, Member
<1>3. IsFiniteSet(added) /\ Cardinality(added) = Size[m.body]
  BY <1>2, FileBytes
<1>4. Bytes(Put(dir, m)) = Bytes(dir) \cup added
  <2>1. ASSUME NEW n \in DOMAIN dir
        PROVE  {n} \X (1 .. Size[Put(dir, m)[n]]) = {n} \X (1 .. Size[dir[n]])
    <3>1. Put(dir, m)[n] = dir[n]
      BY PutRegular
    <3> QED
      BY <3>1
  <2>2. {m.name} \X (1 .. Size[Put(dir, m)[m.name]]) = added
    BY PutRegular
  <2>3. DOMAIN Put(dir, m) = DOMAIN dir \cup {m.name}
    BY PutRegular
  <2> HIDE DEF added
  <2> QED
    BY <2>1, <2>2, <2>3 DEF Bytes
<1>5. Bytes(dir) \cap added = {}
  BY DEF Bytes, New
<1>6. Cardinality(Bytes(dir) \cup added) =
        Cardinality(Bytes(dir)) + Cardinality(added) - Cardinality(Bytes(dir) \cap added)
  <2> HIDE DEF added
  <2> QED
    BY <1>3, BytesFinite, FS_Union
<1>7. Total(Put(dir, m)) = Total(dir) + Size[m.body] - 0
  <2> HIDE DEF added
  <2> QED
    BY <1>3, <1>4, <1>5, <1>6, FS_EmptySet DEF Total
<1> QED
  BY <1>1, <1>2, <1>7, BytesFinite

\* A part of a directory is no larger.
LEMMA PartFits ==
  ASSUME NEW whole, Regular(whole), NEW dir, Regular(dir), DOMAIN dir \subseteq DOMAIN whole,
         \A n \in DOMAIN dir : dir[n] = whole[n]
  PROVE  Total(dir) <= Total(whole) /\ Cardinality(DOMAIN dir) <= Cardinality(DOMAIN whole)
<1>1. Bytes(dir) \subseteq Bytes(whole)
  BY DEF Bytes
<1>2. Cardinality(Bytes(dir)) <= Cardinality(Bytes(whole))
  BY <1>1, BytesFinite, FS_Subset
<1> QED
  BY <1>2, RegularFinite, FS_Subset DEF Total

(***************************************************************************)
(* The loop of unpack.                                                     *)
(***************************************************************************)
\* The first i members are staged, each under its name and no two under one.
Holds(archive, i, dir) ==
  /\ DOMAIN dir = {archive[j].name : j \in 1 .. i}
  /\ \A j \in 1 .. i : dir[archive[j].name] = archive[j].body
  /\ \A j, k \in 1 .. i : archive[j].name = archive[k].name => j = k

\* The staging directory after i members.
LoopInv(archive, i, s) ==
  /\ s \in [dir : {s.dir}, refused : BOOLEAN]
  /\ Regular(s.dir) /\ Flat(s.dir) /\ WithinBounds(s.dir)
  /\ ~s.refused => Holds(archive, i, s.dir)

LEMMA LoopStart ==
  ASSUME NEW archive
  PROVE  LoopInv(archive, 0, Empty)
<1>1. DOMAIN Empty.dir = {} /\ Empty \in [dir : {Empty.dir}, refused : BOOLEAN]
  BY DEF Empty
<1>2. Regular(Empty.dir)
  BY DEF Regular, Empty
<1>3. Bytes(Empty.dir) = {}
  BY <1>1 DEF Bytes
<1>4. WithinBounds(Empty.dir)
  BY <1>1, <1>3, FS_EmptySet, FormatAssumption DEF WithinBounds, Total
<1> QED
  BY <1>1, <1>2, <1>4 DEF LoopInv, Flat, Holds

\* A file that is put there keeps the directory within the bounds.
LEMMA PutKeeps ==
  ASSUME NEW archive \in Seq(Member), NEW i \in 1 .. Len(archive), NEW dir,
         Regular(dir), Flat(dir), WithinBounds(dir), Holds(archive, i - 1, dir),
         Permitted(dir, archive[i]), WithinBudget(dir, archive[i]),
         ~Blocked(dir, archive[i].name)
  PROVE  LET put == Put(dir, archive[i])
         IN  Regular(put) /\ Flat(put) /\ WithinBounds(put) /\ Holds(archive, i, put)
<1> DEFINE m == archive[i]
           put == Put(dir, m)
<1>1. New(dir, m) /\ MemberName(m.name)
  BY DEF New, Permitted
<1>2. /\ Regular(put) /\ DOMAIN put = DOMAIN dir \cup {m.name}
      /\ put[m.name] = m.body /\ \A n \in DOMAIN dir : put[n] = dir[n]
  BY <1>1, PutRegular
<1>3. Cardinality(DOMAIN put) = Cardinality(DOMAIN dir) + 1 /\ Total(put) = Total(dir) + Size[m.body]
  BY <1>1, PutCounts
<1> HIDE DEF put
<1>4. Flat(put)
  BY <1>2 DEF Flat, Blocked, IsStrictPrefix
<1>5. WithinBounds(put)
  <2>1. Total(put) <= MaxExpanded
    BY <1>3 DEF WithinBudget
  <2>2. Cardinality(DOMAIN put) <= MaxFiles
    BY <1>3, RegularFinite, FormatAssumption DEF WithinBudget
  <2>3. \A n \in DOMAIN put : MemberName(n)
    BY <1>1, <1>2 DEF WithinBounds
  <2> QED
    BY <2>1, <2>2, <2>3 DEF WithinBounds
<1>6. Holds(archive, i, put)
  <2>1. 1 .. i = (1 .. i - 1) \cup {i}
    OBVIOUS
  <2>2. \A j \in 1 .. i - 1 : archive[j].name # m.name
    BY <1>1 DEF New, Holds
  <2>3. DOMAIN put = {archive[j].name : j \in 1 .. i}
    BY <1>2, <2>1 DEF Holds
  <2>4. \A j \in 1 .. i : put[archive[j].name] = archive[j].body
    BY <1>2, <2>1 DEF Holds
  <2>5. \A j, k \in 1 .. i : archive[j].name = archive[k].name => j = k
    BY <2>1, <2>2 DEF Holds
  <2> QED
    BY <2>3, <2>4, <2>5 DEF Holds
<1> QED
  BY <1>2, <1>4, <1>5, <1>6 DEF put

\* Every member keeps the loop's invariant.
LEMMA LoopStep ==
  ASSUME NEW archive \in Seq(Member), NEW i \in 1 .. Len(archive),
         NEW s, LoopInv(archive, i - 1, s)
  PROVE  LoopInv(archive, i, UnpackMember(s, archive[i]))
<1> DEFINE m == archive[i]
<1>1. CASE s.refused
  BY <1>1 DEF LoopInv, UnpackMember
<1>2. CASE ~s.refused /\ Permitted(s.dir, m) /\ WithinBudget(s.dir, m) /\ ~Blocked(s.dir, m.name)
  <2>1. LET put == Put(s.dir, m)
        IN  Regular(put) /\ Flat(put) /\ WithinBounds(put) /\ Holds(archive, i, put)
    BY <1>2, PutKeeps DEF LoopInv
  <2>2. UnpackMember(s, m) = [dir |-> Put(s.dir, m), refused |-> FALSE]
    BY <1>2 DEF UnpackMember, LoopInv
  <2> HIDE DEF m
  <2> QED
    BY <2>1, <2>2 DEF LoopInv, m
<1>3. CASE ~s.refused /\ ~(Permitted(s.dir, m) /\ WithinBudget(s.dir, m) /\ ~Blocked(s.dir, m.name))
  <2>1. UnpackMember(s, m) = [dir |-> s.dir, refused |-> TRUE]
    BY <1>3 DEF UnpackMember, LoopInv
  <2> QED
    BY <2>1 DEF LoopInv
<1> QED
  BY <1>1, <1>2, <1>3

LEMMA LoopRuns ==
  ASSUME NEW archive \in Seq(Member), NEW g, Run(archive, g), NEW i \in 0 .. Len(archive)
  PROVE  LoopInv(archive, i, g[i])
<1> DEFINE Fine == {k \in 0 .. Len(archive) : LoopInv(archive, k, g[k])}
<1>1. 0 \in Fine
  BY LoopStart DEF Run
<1>2. ASSUME NEW k \in 1 .. Len(archive), k - 1 \in Fine PROVE k \in Fine
  BY <1>2, LoopStep DEF Run
<1>3. Fine \in SUBSET Nat /\ Len(archive) \in Nat
  OBVIOUS
<1>4. 0 .. Len(archive) \subseteq Fine
  <2> HIDE DEF Fine
  <2> QED
    BY <1>1, <1>2, <1>3, UpwardInduction
<1> QED
  BY <1>4

\* What unpack has staged in the end, for an archive of any length.
LEMMA StagedInv ==
  ASSUME NEW archive \in Seq(Member)
  PROVE  LoopInv(archive, Len(archive), Staged(archive))
<1>1. PICK g : Run(archive, g)
  BY StagedRun
<1> QED
  BY <1>1, LoopRuns DEF Run

\* Whatever an archive holds, and however many members it has, what is staged is
\* within the budgets and under names that stay in the staging directory.
THEOREM StagedWithinBounds ==
  \A archive \in Seq(Member) : WithinBounds(Staged(archive).dir)
BY StagedInv DEF LoopInv

(***************************************************************************)
(* What unpack accepts.                                                    *)
(***************************************************************************)
\* The inventories of the bundles that can be packed.
Packable(inv) == inv \in Inventory /\ Flat(Described(inv)) /\ VerifyBundle(Described(inv), inv)

\* The archive has each member of the release once.
ListsOnce(archive, inv) ==
  /\ Packed(Described(inv)) = ToSet(archive)
  /\ Cardinality(ToSet(archive)) = Len(archive)

LEMMA MadeFromMeans ==
  ASSUME NEW archive, NEW inv
  PROVE  inv \in MadeFrom(archive) <=> Packable(inv) /\ ListsOnce(archive, inv)
<1> DEFINE entry(i) == [inv |-> i, members |-> Packed(Described(i))]
<1>1. Release = {entry(i) : i \in {i \in Inventory : Packable(i)}}
  BY DEF Release, Packable, Flat
<1>2. ASSUME NEW r \in Release, r.inv = inv PROVE Packable(inv) /\ r = entry(inv)
  BY <1>1, <1>2
<1>3. Packable(inv) => entry(inv) \in Release
  BY <1>1 DEF Packable
<1>4. entry(inv).inv = inv /\ entry(inv).members = Packed(Described(inv))
  OBVIOUS
<1> HIDE DEF entry
<1>5. inv \in MadeFrom(archive) <=>
        \E r \in Release : /\ r.inv = inv /\ r.members = ToSet(archive)
                          /\ Cardinality(r.members) = Len(archive)
  BY DEF MadeFrom
<1> QED
  BY <1>2, <1>3, <1>4, <1>5 DEF ListsOnce

\* A directory is known by the members packed of it.
LEMMA PackedSame ==
  ASSUME NEW d, NEW e, Packed(d) \subseteq Packed(e), NEW n \in DOMAIN d
  PROVE  n \in DOMAIN e /\ d[n] = e[n]
<1>1. [name |-> n, body |-> d[n]] \in Packed(e)
  BY DEF Packed
<1>2. PICK o \in DOMAIN e : [name |-> n, body |-> d[n]] = [name |-> o, body |-> e[o]]
  BY <1>1 DEF Packed
<1> QED
  BY <1>2

LEMMA DescribedRegular ==
  ASSUME NEW inv \in Inventory
  PROVE  /\ Regular(Described(inv)) /\ DOMAIN Described(inv) = DOMAIN inv.files \cup {Manifest}
         /\ Described(inv)[Manifest] = Index
         /\ \A n \in DOMAIN inv.files : n # Manifest /\ Described(inv)[n] = inv.files[n]
<1>1. PICK ns \in SUBSET (Names \ {Manifest}) : inv \in [files : [ns -> Bodies], genuine : BOOLEAN]
  BY DEF Inventory
<1> QED
  BY <1>1, FormatAssumption DEF Described, Regular

\* A list without repetitions is as long as the set of its elements.
LEMMA OnceEach ==
  ASSUME NEW archive \in Seq(Member)
  PROVE  Cardinality(ToSet(archive)) = Len(archive) <=>
           \A j, k \in 1 .. Len(archive) : archive[j] = archive[k] => j = k
<1> DEFINE n == Len(archive)
<1>1. n \in Nat /\ DOMAIN archive = 1 .. n /\ archive \in [1 .. n -> ToSet(archive)]
  BY DEF ToSet
<1>2. archive \in Surjection(1 .. n, ToSet(archive))
  BY <1>1 DEF Surjection, ToSet
<1>3. IsFiniteSet(1 .. n) /\ Cardinality(1 .. n) = n
  BY <1>1, FS_Interval
<1>4. Cardinality(ToSet(archive)) = n <=> archive \in Injection(1 .. n, ToSet(archive))
  BY <1>2, <1>3, FS_Surjection
<1> QED
  BY <1>1, <1>4 DEF Injection, IsInjective

\* When all members are staged, an archive is one of a release exactly when the
\* files are those of the release.
LEMMA StagedAll ==
  ASSUME NEW archive \in Seq(Member), NEW inv \in Inventory, NEW dir, Regular(dir),
         Holds(archive, Len(archive), dir)
  PROVE  ListsOnce(archive, inv) <=> dir = Described(inv)
<1> DEFINE whole == Described(inv)
           n == Len(archive)
<1>1. n \in Nat /\ DOMAIN archive = 1 .. n
  OBVIOUS
<1>2. \A j \in 1 .. n : archive[j] \in Member /\ archive[j] = [name |-> archive[j].name, body |-> archive[j].body]
  BY <1>1 DEF Member
<1>3. ToSet(archive) = Packed(dir)
  BY <1>1, <1>2 DEF ToSet, Packed, Holds
<1>4. Cardinality(ToSet(archive)) = n
  BY <1>1, OnceEach DEF Holds
<1>5. ASSUME Packed(whole) = Packed(dir) PROVE dir = whole
  <2> HIDE DEF whole
  <2>1. Packed(whole) \subseteq Packed(dir) /\ Packed(dir) \subseteq Packed(whole)
    BY <1>5
  <2>2. ASSUME NEW o \in DOMAIN dir PROVE o \in DOMAIN whole /\ dir[o] = whole[o]
    BY <2>1, PackedSame
  <2>4. ASSUME NEW o \in DOMAIN whole PROVE o \in DOMAIN dir
    BY <2>1, PackedSame
  <2>3. Regular(whole)
    BY DescribedRegular DEF whole
  <2> QED
    BY <2>2, <2>3, <2>4 DEF Regular
<1> QED
  BY <1>3, <1>4, <1>5 DEF ListsOnce

\* What verify_bundle accepts is what the inventory describes.
LEMMA VerifiedIsDescribed ==
  ASSUME NEW dir, Regular(dir), NEW inv \in Inventory, VerifyBundle(dir, inv)
  PROVE  dir = Described(inv)
<1> DEFINE whole == Described(inv)
<1>1. DOMAIN dir = DOMAIN whole
  BY DescribedRegular DEF VerifyBundle
<1>2. ASSUME NEW n \in DOMAIN dir PROVE dir[n] = whole[n]
  <2>1. CASE n = Manifest
    BY <2>1, DescribedRegular DEF Regular
  <2>2. CASE n # Manifest
    BY <2>2, DescribedRegular DEF VerifyBundle
  <2> QED
    BY <2>1, <2>2
<1>3. Regular(whole)
  BY DescribedRegular
<1> HIDE DEF whole
<1>4. dir = whole
  BY <1>1, <1>2, <1>3 DEF Regular
<1> QED
  BY <1>4 DEF whole

\* No member of a release that was packed is refused.
LEMMA PackedPasses ==
  ASSUME NEW archive \in Seq(Member), NEW inv, Packable(inv), ListsOnce(archive, inv),
         NEW i \in 1 .. Len(archive), NEW s, LoopInv(archive, i - 1, s), ~s.refused
  PROVE  ~UnpackMember(s, archive[i]).refused
<1> DEFINE m == archive[i]
           whole == Described(inv)
           n == Len(archive)
<1>1. n \in Nat /\ DOMAIN archive = 1 .. n /\ m \in Member
  OBVIOUS
<1>2. Regular(whole) /\ Flat(whole) /\ VerifyBundle(whole, inv)
  BY DescribedRegular DEF Packable
<1>3. \A j \in 1 .. n : archive[j].name \in DOMAIN whole /\ whole[archive[j].name] = archive[j].body
  <2> SUFFICES ASSUME NEW j \in 1 .. n
               PROVE  archive[j].name \in DOMAIN whole /\ whole[archive[j].name] = archive[j].body
    OBVIOUS
  <2>1. archive[j] \in Packed(whole)
    BY <1>1 DEF ListsOnce, ToSet
  <2>2. PICK o \in DOMAIN whole : archive[j] = [name |-> o, body |-> whole[o]]
    BY <2>1 DEF Packed
  <2> QED
    BY <2>2
<1>4. \A j, k \in 1 .. n : archive[j].name = archive[k].name => j = k
  <2>1. \A j \in 1 .. n : archive[j] = [name |-> archive[j].name, body |-> archive[j].body]
    BY <1>1 DEF Member
  <2>2. \A j, k \in 1 .. n : archive[j].name = archive[k].name => archive[j] = archive[k]
    BY <2>1, <1>3
  <2> QED
    BY <2>2, OnceEach DEF ListsOnce
<1>5. Holds(archive, i - 1, s.dir) /\ Regular(s.dir)
  BY DEF LoopInv
<1>6. DOMAIN s.dir \subseteq DOMAIN whole /\ \A o \in DOMAIN s.dir : s.dir[o] = whole[o]
  BY <1>1, <1>3, <1>5 DEF Holds
<1> HIDE DEF whole, m
<1>7. m.name \in DOMAIN whole /\ whole[m.name] = m.body /\ m.name \notin DOMAIN s.dir
  BY <1>1, <1>3, <1>4, <1>5 DEF Holds, m
<1>8. m.body # Link /\ MemberName(m.name)
  BY <1>2, <1>7, FormatAssumption DEF Regular, VerifyBundle
<1>9. ~Blocked(s.dir, m.name)
  BY <1>2, <1>6, <1>7 DEF Blocked, Flat
<1>10. WithinBudget(s.dir, m)
  <2> DEFINE put == Put(s.dir, m)
  <2>1. New(s.dir, m)
    BY <1>1, <1>7, <1>8 DEF New, m
  <2>2. /\ Regular(put) /\ DOMAIN put \subseteq DOMAIN whole
        /\ \A o \in DOMAIN put : put[o] = whole[o]
    <3>1. /\ Regular(put) /\ DOMAIN put = DOMAIN s.dir \cup {m.name}
          /\ put[m.name] = m.body /\ \A o \in DOMAIN s.dir : put[o] = s.dir[o]
      BY <2>1, <1>5, PutRegular
    <3> HIDE DEF put
    <3> QED
      BY <3>1, <1>6, <1>7
  <2>3. Total(put) <= Total(whole) /\ Cardinality(DOMAIN put) <= Cardinality(DOMAIN whole)
    <3> HIDE DEF put
    <3> QED
      BY <2>2, <1>2, PartFits
  <2>4. Total(whole) <= MaxExpanded /\ Cardinality(DOMAIN whole) <= MaxFiles
    <3>1. IsFiniteSet(DOMAIN inv.files) /\ Cardinality(DOMAIN inv.files) \in Nat
      BY <1>2, RegularFinite, FS_Subset, FS_CardinalityType, DescribedRegular DEF Packable, whole
    <3>2. Cardinality(DOMAIN whole) = Cardinality(DOMAIN inv.files) + 1
      BY <3>1, FS_AddElement, DescribedRegular DEF Packable, whole
    <3> QED
      BY <3>1, <3>2, <1>2, FormatAssumption DEF VerifyBundle, FewFiles
  <2>5. /\ Total(put) = Total(s.dir) + Size[m.body]
        /\ Cardinality(DOMAIN put) = Cardinality(DOMAIN s.dir) + 1
    BY <2>1, <1>5, PutCounts
  <2>6. Cardinality(DOMAIN whole) \in Nat /\ Cardinality(DOMAIN s.dir) \in Nat
    BY <1>2, <1>5, RegularFinite
  <2>7. Total(whole) \in Nat /\ Total(s.dir) \in Nat /\ Size[m.body] \in Nat
    BY <1>2, <1>5, <1>7, BytesFinite, RegularFinite
  <2> HIDE DEF put
  <2> QED
    BY <2>3, <2>4, <2>5, <2>6, <2>7, FormatAssumption DEF WithinBudget
<1> QED
  BY <1>7, <1>8, <1>9, <1>10 DEF UnpackMember, Permitted, LoopInv, m

\* A release that was packed comes to the end of the loop, in any order of its members.
LEMMA PackedIsStaged ==
  ASSUME NEW archive \in Seq(Member), NEW inv, Packable(inv), ListsOnce(archive, inv)
  PROVE  ~Staged(archive).refused
<1>1. PICK g : Run(archive, g)
  BY StagedRun
<1> DEFINE Passed == {k \in 0 .. Len(archive) : ~g[k].refused}
<1>2. 0 \in Passed
  BY <1>1 DEF Run, Empty
<1>3. ASSUME NEW k \in 1 .. Len(archive), k - 1 \in Passed PROVE k \in Passed
  <2>1. LoopInv(archive, k - 1, g[k - 1]) /\ ~g[k - 1].refused
    BY <1>1, <1>3, LoopRuns
  <2> QED
    BY <1>1, <2>1, PackedPasses DEF Run
<1>4. Passed \in SUBSET Nat /\ Len(archive) \in Nat
  OBVIOUS
<1>5. 0 .. Len(archive) \subseteq Passed
  <2> HIDE DEF Passed
  <2> QED
    BY <1>2, <1>3, <1>4, UpwardInduction
<1> QED
  BY <1>1, <1>4, <1>5 DEF Run

\* unpack accepts an archive of any length and order for exactly the releases pack
\* makes it from.
THEOREM AcceptsExactlyPacked ==
  \A archive \in Seq(Member) : AcceptedFor(Staged(archive)) = MadeFrom(archive)
<1> SUFFICES ASSUME NEW archive \in Seq(Member), NEW inv
             PROVE  inv \in AcceptedFor(Staged(archive)) <=> inv \in MadeFrom(archive)
  OBVIOUS
<1> DEFINE s == Staged(archive)
<1>1. /\ Regular(s.dir) /\ Flat(s.dir)
      /\ ~s.refused => Holds(archive, Len(archive), s.dir)
  BY StagedInv DEF LoopInv
<1> HIDE DEF s
<1>2. ASSUME inv \in AcceptedFor(s) PROVE inv \in MadeFrom(archive)
  <2>1. ~s.refused /\ inv \in Inventory /\ VerifyBundle(s.dir, inv)
    BY <1>2 DEF AcceptedFor
  <2>2. s.dir = Described(inv)
    BY <2>1, <1>1, VerifiedIsDescribed
  <2>3. Packable(inv)
    BY <2>1, <2>2, <1>1 DEF Packable
  <2>4. ListsOnce(archive, inv)
    BY <2>1, <2>2, <1>1, StagedAll
  <2> QED
    BY <2>3, <2>4, MadeFromMeans
<1>3. ASSUME inv \in MadeFrom(archive) PROVE inv \in AcceptedFor(s)
  <2>1. Packable(inv) /\ ListsOnce(archive, inv)
    BY <1>3, MadeFromMeans
  <2>2. ~s.refused
    BY <2>1, PackedIsStaged DEF s
  <2>3. s.dir = Described(inv)
    BY <2>1, <2>2, <1>1, StagedAll DEF Packable
  <2> QED
    BY <2>1, <2>2, <2>3 DEF AcceptedFor, Packable
<1> QED
  BY <1>2, <1>3 DEF s

\* What is published is a bundle that pack accepts.
LEMMA UnpackedIsBundle ==
  ASSUME NEW archive \in Seq(Member), AcceptedFor(Staged(archive)) # {}
  PROVE  MadeFrom(archive) # {} /\ Staged(archive).dir \in Bundle
<1> DEFINE s == Staged(archive)
<1>1. PICK inv \in MadeFrom(archive) : inv \in Inventory /\ VerifyBundle(s.dir, inv)
  BY AcceptsExactlyPacked DEF AcceptedFor
<1>2. Regular(s.dir)
  BY StagedInv DEF LoopInv
<1> HIDE DEF s
<1>3. s.dir = Described(inv)
  BY <1>1, <1>2, VerifiedIsDescribed
<1>4. Described(inv) \in Bundle
  BY <1>1 DEF MadeFrom, Bundle
<1> QED
  BY <1>1, <1>3, <1>4 DEF s

\* An archive without members is no release.
LEMMA NothingFromNothing == MadeFrom(<<>>) = {}
<1> SUFFICES ASSUME NEW inv \in MadeFrom(<<>>) PROVE FALSE
  OBVIOUS
<1>1. Packable(inv) /\ ListsOnce(<<>>, inv)
  BY MadeFromMeans
<1>2. Manifest \in DOMAIN Described(inv)
  BY <1>1 DEF Packable, VerifyBundle
<1>3. Packed(Described(inv)) # {}
  BY <1>2 DEF Packed
<1> QED
  BY <1>1, <1>3 DEF ListsOnce, ToSet

\* None of the archives that are looked at is misjudged, and none overflows.
LEMMA NoneMisjudged == Misjudged = {} /\ Overflowed = {}
<1>1. Archive \subseteq Seq(Member)
  BY DEF Archive, BoundedSeq, SeqOf
<1>2. Misjudged = {}
  BY <1>1, AcceptsExactlyPacked DEF Misjudged
<1>3. Overflowed = {}
  BY <1>1, StagedWithinBounds DEF Overflowed
<1> QED
  BY <1>2, <1>3
=============================================================================
