SPECIFICATION RelistSpec
CONSTANTS
  Keys = {k1}
  Selected = {k1}
  Specs = {s1}
  None = None
  MaxVersion = 3
  MaxStarts = 1
  OperationTimeout = TRUE
  CheckerErrors = FALSE
INVARIANT GatherSound
CHECK_DEADLOCK FALSE
