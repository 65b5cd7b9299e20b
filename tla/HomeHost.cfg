\* One public service and the server, so that the hook's wait for a start meets
\* the refresh's; any check may pass, fail or find another address.
SPECIFICATION LiveSpec
CONSTANTS
  None = None
  derp = derp
  server = server
  Public = {derp}
  Server = server
  MaxVersion = 2
INVARIANTS
  TypeOK
  SuccessMeansRunning
  OwnerFollows
  FailureHasCause
  HomeInv
PROPERTIES
  CalmHookSucceeds
