\* Three published pairs and three faults: a failed refresh, a failed retry and
\* a failure of the refresh after the repair.
SPECIFICATION Spec
CONSTANTS
  MaxVersion = 3
  MaxFaults = 3
INVARIANTS
  TypeOK
  PriorPairRecoverable
  SuccessIsDurable
  OwnerInv
PROPERTIES
  ImplementsInstall
