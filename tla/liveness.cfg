SPECIFICATION FairSpec
CONSTANTS
  Deployments = {1, 2}
  Projects = {p1, p2}
  NoProject = NoProject
  StepCounts = {1}
  Clients = {c1}
  EnabledTo = {TRUE}
  Workers = {w1}
  MaxConcurrency = 1
  ClaimFloor = 100
  Faults = {"crash"}
  NaiveTimes = FALSE
INVARIANTS
  SuccessHonest BoundedConcurrency
PROPERTIES
  PendingIsServed RunningEnds
CHECK_DEADLOCK FALSE
