SPECIFICATION Spec
CONSTANTS
  Ids = {1, 2, 3, 4}
  NoId = NoId
  Ops = {o1}
  Cfgs = {c1, c2}
  Size = 2
  Projects = {p1, p2}
  NoProject = NoProject
  Plans = {l1}
  NoPlan = NoPlan
  Requests = {r1}
  Faults = {"fail", "lost", "crash"}
  MaxFaults = 1
  PlanCap = 5
CHECK_DEADLOCK FALSE
INVARIANTS
  OwnershipDisjoint
