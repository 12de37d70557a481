SPECIFICATION Spec
CONSTANTS
  Deployments = {1}
  Projects = {p1}
  NoProject = NoProject
  StepCounts = {2}
  Clients = {}
  EnabledTo = {TRUE, FALSE}
  Workers = {w1}
  MaxConcurrency = 1
  ClaimFloor = 100
  Faults = {}
  NaiveTimes = TRUE
INVARIANT
  HistoryIsKept
CHECK_DEADLOCK FALSE
