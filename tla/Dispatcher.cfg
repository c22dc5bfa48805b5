SPECIFICATION FairSpec
CONSTANTS
  c1 = c1
  c2 = c2
  Clients <- MCClients
  Lines <- MCLines
  MAXIMUM_DRIVER = 2
  COUNTCHECK_LIMIT = 2
  LIMITCHECKLOG = 2
  MaxWaiting = 2
  Nothing = Nothing
INVARIANTS TypeOK OneEndForEachLine
PROPERTIES EveryDriverIsAnsweredFor PositionsAreChecked
