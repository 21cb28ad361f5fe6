SPECIFICATION Spec
CONSTANTS
  Fetches = {f1, f2}
  NoFetch = NoFetch
  Tasks = {t1}
  MaxEdits = 2
  MaxGens = 3
CHECK_DEADLOCK FALSE
INVARIANTS
  ShownCurrent
