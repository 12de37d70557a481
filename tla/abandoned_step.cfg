SPECIFICATION Spec
CONSTANTS
  Deployments = {1}
  Projects = {p1}
  NoProject = NoProject
  StepCounts = {1}
  Clients = {}
  EnabledTo = {}
  Workers = {w1}
  MaxConcurrency = 1
  ClaimFloor = 100
  Faults = {}
  NaiveTimes = FALSE
INVARIANT
  StepsRecovered
CHECK_DEADLOCK FALSE
