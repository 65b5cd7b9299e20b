\* Temporal properties: no symmetry.
SPECIFICATION LiveSpec
CONSTANTS
  None = None
  h1 = h1
  h2 = h2
  s1 = s1
  g1 = g1
  g2 = g2
  g3 = g3
  Hooks = {h1, h2}
  Services = {s1}
  Names = {g1, g2, g3}
  MaxVersion = 1
  MaxFaults = 1
PROPERTIES
  NeverWithdrawn
  LockGivenBack
