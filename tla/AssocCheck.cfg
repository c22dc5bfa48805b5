SPECIFICATION FairSpec
CONSTANTS
  Kinds = {"serial", "par", "encoder"}
  MAXIMUM_DRIVER = 4
  LIMITCHECKLOG = 2
  Values = {2, 258}
  Varying = {1, 2}
  InitialFiles = {{"serial", "par", "encoder"}, {"par"}, {"serial"}}
  MaxChecks = 2
  Disturbed = TRUE
INVARIANTS
  TypeOK
  SavedAsShown
  LogNumbersGrow
  ReportIsOfThisFile
PROPERTIES
  EveryQuestionEnds
CHECK_DEADLOCK FALSE
