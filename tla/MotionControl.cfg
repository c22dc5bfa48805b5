SPECIFICATION FairSpec
CONSTANTS
  MaxPosition = 2
  EncoderOffset = 1
  LIMITSTATUS_STATE = 1
  POSITION_TOLERATED_ERROR = 0
  MaxFaults = 1
  PromptFirmware = TRUE
INVARIANTS
  TypeOK
  HomedMeansCalibrated
  PairsOnTheLine
PROPERTIES
  StatusSequence
  ConcludedMeansArrived
  CheckTellsTheTruth
  RequestIsExecuted
