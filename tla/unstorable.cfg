SPECIFICATION Spec
CHECK_DEADLOCK FALSE
CONSTANTS
  BatchSize = 20
  StepIds = {4}
  RowIds = {1}
  None = None
  MaxLines = 3
  MaxMarks = 2
  MaxFaults = 0
  MaxDrops = 0
PROPERTIES
  StatusIsWritten
