SPECIFICATION FairSpec
CONSTANTS
  Keys = {k1, k2, k3}
  Callers = {b1, b2, b3}
  Loads = {d1, d2, d3}
  Capacity = 2
INVARIANTS
  LoadsBounded
  NeverStale
  Coalesced
  ClosedQuiet
PROPERTIES
  WaitersServed
