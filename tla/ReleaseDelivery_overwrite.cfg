\* Two fetches with one output.
SPECIFICATION Spec
CONSTANTS
  p1 = p1
  p2 = p2
  a1 = a1
  t1 = t1
  Absent = Absent
  Procs = {p1, p2}
  Archives = {a1}
  Trees = {t1}
  Content <- MCContent
  MaxKills = 0
  Names <- MCNames
  Plain <- MCPlain
  Manifest <- MCManifest
  Required <- MCRequired
  Bodies = {"small", "large"}
  Index = "index"
  Link = "link"
  Size <- MCSize
  MaxFiles = 2
  MaxExpanded = 3
PROPERTIES
  NothingOverwritten
CHECK_DEADLOCK FALSE
