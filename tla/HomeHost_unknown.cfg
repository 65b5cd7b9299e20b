\* A router that cannot be read while a renewed certificate is deployed.
SPECIFICATION Spec
CONSTANTS
  None = None
  derp = derp
  server = server
  Public = {derp}
  Server = server
  MaxVersion = 2
INVARIANTS
  UnknownStopsNothing
