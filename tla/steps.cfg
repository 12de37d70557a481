SPECIFICATION Spec
CONSTANT
  Faults = {"spawn", "db", "output"}
INVARIANTS
  TypeOK
  NothingLeftBehind
  AskedInTime
PROPERTIES
  ImplementsContract
  StepEnds
  CancelEnds
