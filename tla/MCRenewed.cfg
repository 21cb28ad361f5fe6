SPECIFICATION MCSpec
CONSTANTS
  Requests = {q1, q2}
  SessionIds = {s1, s2}
  Names = {a, b}
  Networks = {n1}
  MaxPw = 1
  MaxSetup = 2
  MaxNetwork = 2
  MaxAccount = 1
  Window = 2
  MaxKeys = 1
  Idle = 2
  Absolute = 3
  Recent = 1
  Processes = {p1, p2}
  NoProcess = NoProcess
CHECK_DEADLOCK FALSE
PROPERTIES
  IdleNotRenewed
