SPECIFICATION Spec
CONSTANTS
  m1 = m1
  m2 = m2
  Names = {n1, n2}
  Stale = {s1}
  Dependencies <- TwoDependencies
  Steps <- TwoSteps
  Measurements = {m1, m2}
  Failures = TRUE
INVARIANT NoDependencyLeft
CHECK_DEADLOCK FALSE
