SPECIFICATION MCSpec
CONSTANTS
  Fetches = {f1, f2, f3}
  NoFetch = NoFetch
  Tasks = {t1, t2}
  MaxEdits = 3
  MaxGens = 4
  Destinations = {d1, d2}
  Modes = {key, basic}
  Calls = {q1}
  Urls = {u1, u2}
  Containers = {c1, c2}
  Day = 1
  Keep = 3
  GapAfter = 1
  Tolerance = 0
  MaxClock = 3
  MaxBytes = 2
  MaxTroubles = 1
CHECK_DEADLOCK FALSE
SYMMETRY Symmetry
INVARIANTS
  SinceInvalidation
  PollsCurrent
  OneValidFetch
  KeptScoped
  TrafficOfSaved
  TotalsTrue
PROPERTIES
  StoppedQuiet
