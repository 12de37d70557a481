SPECIFICATION Spec
CONSTANTS
  Deployments = {1, 2}
  Projects = {p1, p2}
  NoProject = NoProject
  StepCounts = {2}
  Clients = {c1}
  EnabledTo = {}
  Workers = {w1}
  MaxConcurrency = 2
  ClaimFloor = 100
  Faults = {"crash", "env"}
  NaiveTimes = FALSE
SYMMETRY Symmetry
INVARIANTS
  TypeOK ProjectSerial StepsInOrder
  CancelStopsNewSteps CancelHonoured RunningIsOwned ProcessInv NotOvertaken
PROPERTIES
  OutcomeIsFinal ImplementsQueue
CHECK_DEADLOCK FALSE
