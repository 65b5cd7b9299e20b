\* Periods of twenty hours: 160 hours, half of them, 48 hours and 14 days.
SPECIFICATION LiveSpec
CONSTANTS
  derp = derp
  server = server
  Public = {derp}
  Server = server
  Lifetime = 8
  RenewBefore = 4
  MinRemaining = 3
  DNSMinimum = 17
  MaxFaults = 4
INVARIANTS
  ExpiryWasAnnounced
  OneFailureMended
  HealedInTime
  ScheduleInv
PROPERTIES
  HealsByItself
