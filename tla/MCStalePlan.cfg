SPECIFICATION Spec
CONSTANTS
  Ids = {1, 2, 3, 4, 5, 6}
  NoId = NoId
  Ops = {o1, o2}
  Cfgs = {c1, c2}
  Size = 2
  Projects = {p1}
  NoProject = NoProject
  Plans = {l1, l2}
  NoPlan = NoPlan
  Requests = {r1}
  Faults = {}
  MaxFaults = 0
  PlanCap = 5
CHECK_DEADLOCK FALSE
PROPERTIES
  FailureKeepsReference
