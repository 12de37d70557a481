SPECIFICATION Spec
CHECK_DEADLOCK FALSE
CONSTANTS
  BatchSize = 2
  StepIds = {1}
  RowIds = {1}
  None = None
  MaxLines = 3
  MaxMarks = 1
  MaxFaults = 1
  MaxDrops = 1
INVARIANTS
  TypeOK
  NothingLost
  EndedWithLogs
  ShownIsPrefix
  TailIsComplete
  StepsAreFinal
PROPERTIES
  ImplementsStream
  LinesArrive
