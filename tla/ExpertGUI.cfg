SPECIFICATION FairSpec
CONSTANTS
  Pids = {1, 2}
  Clients = {"window"}
  MaxRequests = 1
  Reported = {1}
  Names = {"MaxVel", "AnalogOutput0"}
  Checks = {"drv"}
  Findings <- MCFindings
  MaxClicks = 3
  MaxStream = 1
  Typed = {"y"}
  Padding = Padding
  Unread = Unread
INVARIANTS TypeOK WelcomeMeansConnection
PROPERTIES LabelsFollow
CHECK_DEADLOCK FALSE
