SPECIFICATION FairSpec
CONSTANTS
  Reported = {4}
  Statuses <- MCStatuses
  Distances = {1000}
  Spreads = {2000}
  MaxClicks = 3
  MaxStream = 2
  Padding = Padding
  Unread = Unread
  Other = Other
INVARIANTS TypeOK EnabledMeansGreen
PROPERTIES NothingMovesWithoutALogin LedsFollow
