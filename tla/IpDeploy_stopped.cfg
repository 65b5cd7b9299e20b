\* An operator stops a service between two steps of the hook.
SPECIFICATION Spec
CONSTANTS
  None = None
  h1 = h1
  s1 = s1
  g1 = g1
  g2 = g2
  Hooks = {h1}
  Services = {s1}
  Names = {g1, g2}
  MaxVersion = 1
  MaxFaults = 0
PROPERTIES
  NoImplicitStart
