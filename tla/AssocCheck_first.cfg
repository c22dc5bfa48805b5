SPECIFICATION Spec
CONSTANTS
  Kinds = {"encoder"}
  MAXIMUM_DRIVER = 2
  LIMITCHECKLOG = 2
  Values = {1, 2}
  Varying = {1, 2}
  InitialFiles = {{}, {"encoder"}}
  MaxChecks = 1
  Disturbed = FALSE
INVARIANT FirstCheckIsSaved
CHECK_DEADLOCK FALSE
