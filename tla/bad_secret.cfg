SPECIFICATION FairSpec
CONSTANTS
  Deployments = {1}
  Projects = {p1}
  NoProject = NoProject
  StepCounts = {1}
  Clients = {}
  EnabledTo = {}
  Workers = {w1}
  MaxConcurrency = 1
  ClaimFloor = 100
  Faults = {"env"}
  NaiveTimes = TRUE
PROPERTY
  RunningEnds
CHECK_DEADLOCK FALSE
