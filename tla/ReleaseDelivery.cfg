\* Three runs, which may each be any command and be tried again, one archive and
\* two release directories: runs meet on a path and miss each other.
\* Archives of up to four members where three fit; a large file takes two of the
\* four units of size, so that each bound is met, missed and exceeded by one.
SPECIFICATION Spec
CONSTANTS
  p1 = p1
  p2 = p2
  p3 = p3
  a1 = a1
  t1 = t1
  t2 = t2
  Absent = Absent
  Procs = {p1, p2, p3}
  Archives = {a1}
  Trees = {t1, t2}
  Content <- MCContent
  MaxKills = 1
  Names <- MCNames
  Plain <- MCPlain
  Manifest <- MCManifest
  Required <- MCRequired
  Bodies = {"small", "large"}
  Index = "index"
  Link = "link"
  Size <- MCSize
  MaxFiles = 3
  MaxExpanded = 4
SYMMETRY Symmetry
INVARIANTS
  TypeOK
  TreeHasOneMaker
  UnpackedAsAsked
  DeliveryInv
  AcceptsWhatPackMakes
  StagingIsBounded
PROPERTIES
  OnlyLateFetchReplaces
CHECK_DEADLOCK FALSE
