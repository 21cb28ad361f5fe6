SPECIFICATION Spec
CONSTANTS
  Fetches = {f1, f2, f3}
  NoFetch = NoFetch
  Tasks = {t1, t2}
  MaxEdits = 3
  MaxGens = 4
CHECK_DEADLOCK FALSE
INVARIANTS
  SinceInvalidation
  PollsCurrent
  OneValidFetch
PROPERTIES
  StoppedQuiet
