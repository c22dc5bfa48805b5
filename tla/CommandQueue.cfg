SPECIFICATION FairSpec
CONSTANTS
  Workers = {w1, w2}
  MAXCOMMAND = 2
  MaxLines = 3
  SpuriousWakeups = TRUE
  NoCommand = NoCommand
INVARIANTS
  TypeOK
  IndicesAgree
  TakenOnce
PROPERTIES
  FifoUntilOverrun
  NobodyBlockedForever
CHECK_DEADLOCK FALSE
