SPECIFICATION FairRelistSpec
CONSTANTS
  Keys = {k1}
  Selected = {k1}
  Specs = {s1,s2}
  None = None
  MaxVersion = 3
  MaxStarts = 1
  OperationTimeout = TRUE
  CheckerErrors = TRUE
PROPERTIES ExecuteReturns StartObserves CheckersCatchUp
CHECK_DEADLOCK FALSE
