SPECIFICATION Spec
CONSTANTS
  Keys = {k1, k2}
  Selected = {k1, k2}
  Specs = {s1, s2}
  None = None
  MaxVersion = 3
  MaxStarts = 1
  OperationTimeout = TRUE
  CheckerErrors = FALSE
SYMMETRY Symmetry
INVARIANTS TypeOK ListedKeysProcessed GatherSound
 
CHECK_DEADLOCK FALSE
