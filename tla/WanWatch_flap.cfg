\* A check that fails half-way, and an address that comes back.
SPECIFICATION LiveSpec
CONSTANTS
  s1 = s1
  a1 = a1
  a2 = a2
  Unknown = Unknown
  Services = {s1}
  Addresses = {a1, a2}
  MaxFaults = 1
PROPERTIES
  MarkedGoDown
