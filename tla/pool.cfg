SPECIFICATION Spec
CONSTANTS
  Deployments = {1, 2}
  Projects = {p1, p2}
  NoProject = NoProject
  StepCounts = {0, 1}
  Clients = {c1}
  EnabledTo = {}
  Workers = {w1, w2}
  MaxConcurrency = 2
  ClaimFloor = 100
  Faults = {"db", "exec", "sigint"}
  NaiveTimes = TRUE
SYMMETRY Symmetry
INVARIANTS
  WorkerSerial ClaimInv
PROPERTIES
  ClaimedOnce ClaimedInOrder
CHECK_DEADLOCK FALSE
