\* Two hooks and two services: a hook meets the lock, the leftovers and the link
\* of another, and a restart fails after another has succeeded.
SPECIFICATION Spec
CONSTANTS
  None = None
  h1 = h1
  h2 = h2
  s1 = s1
  s2 = s2
  g1 = g1
  g2 = g2
  g3 = g3
  Hooks = {h1, h2}
  Services = {s1, s2}
  Names = {g1, g2, g3}
  MaxVersion = 2
  MaxFaults = 1
SYMMETRY Symmetry
INVARIANTS
  TypeOK
  CurrentSurvivesPowerLoss
  RotationKeepsPrevious
  ActiveServePublished
  RollbackIsDurable
  DeployInv
PROPERTIES
  PublishedPairImmutable
  ImplementsRegister
  HookAdvances
