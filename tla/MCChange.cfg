SPECIFICATION FairSpec
CONSTANTS
  Ids = {1, 2, 3, 4, 5, 6}
  NoId = NoId
  Ops = {o1}
  Cfgs = {c1, c2}
  Size = 3
  Projects = {p1}
  NoProject = NoProject
  Plans = {l1}
  NoPlan = NoPlan
  Requests = {r1}
  Faults = {"fail", "lost", "crash"}
  MaxFaults = 2
  PlanCap = 5
CHECK_DEADLOCK FALSE
INVARIANTS
  OriginalsRetained
  StackIntact
PROPERTIES
  SucceedsWhole
  ClientsFirst
  FailedMeansStopped
  ChangeEnds
