SPECIFICATION Spec
CONSTANTS
  Deployments = {1, 2}
  Projects = {p1}
  NoProject = NoProject
  StepCounts = {1}
  Clients = {}
  EnabledTo = {}
  Workers = {w1, w2}
  MaxConcurrency = 2
  ClaimFloor = 100
  Faults = {}
  NaiveTimes = TRUE
INVARIANT
  ProjectSerial
CHECK_DEADLOCK FALSE
