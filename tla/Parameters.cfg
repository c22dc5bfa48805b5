SPECIFICATION FairSpec
CONSTANTS
  Drivers = {1, 2}
  Registers <- MCRegisters
  Factory <- MCFactory
  MaxFaults = 2
  Asked = {0, 2, 300}
  Inputs <- MCInputs
  MaxCommands = 2
INVARIANTS
  TypeOK
  RegistersWithinLimits
  NeverOnAFreedContext
PROPERTIES
  AnswersAreTheRegisters
  AnsweredMeansStored
  EveryCommandEnds
CHECK_DEADLOCK FALSE
