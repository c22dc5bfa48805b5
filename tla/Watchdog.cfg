SPECIFICATION FairWatchdog
CONSTANTS
  Pids = {1, 2}
  Clients = {"window", "other"}
  MaxRequests = 3
  Reported = {1}
  Names = {"MaxVel"}
  Checks = {"drv"}
  Findings = {0}
  MaxClicks = 0
  MaxStream = 1
  Typed = {"y"}
  Padding = Padding
  Unread = Unread
INVARIANTS KilledMeansGone
PROPERTIES EveryRequestEnds
CHECK_DEADLOCK FALSE
