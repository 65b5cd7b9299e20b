\* An operator starts the server between two steps of the refresh.
SPECIFICATION Spec
CONSTANTS
  MaxVersion = 2
  MaxFaults = 0
PROPERTIES
  ReplacedOffline
