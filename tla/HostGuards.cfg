\* The server and one public service behind their guards, an address that
\* changes and comes back, and two faults.
SPECIFICATION HostLiveSpec
CONSTANTS
  Unknown = Unknown
  a1 = a1
  a2 = a2
  Services = {"aura-server", "aura-derp"}
  Addresses = {a1, a2}
  MaxFaults = 2
  AdministrationUDP = 41641
INVARIANTS
  TypeOK
  HaltedStayDown
  WatchInv
  OwnerListenerPrivate
  SurfaceAsReviewed
PROPERTIES
  LastingChangeStopsAll
