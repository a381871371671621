SPECIFICATION BTSpec
CONSTANTS
  near = near
  mid = mid
  far = far
  ahead = ahead
  aside = aside
  Blocks = {near, mid, far}
  Views <- MCViews
  InSight <- MCInSight
  Rank <- MCRank
  Distance <- MCDistance
  Priority <- MCPriority
  Hides <- MCHides
  Opaque = {near}
  Air = {mid}
  Stored = {}
  Generated = {near}
  Border <- MCBorder
  FullDMax = 3
  DMaxGen = 3
  DOpt = 1
  DCullOpt = 2
  MaxSimulSends = 2
  MaxBlocksToSend = 1
  EmergeLimit = 2
  MaxChanges = 2
  Races <- None
CHECK_DEADLOCK FALSE
INVARIANTS
  SentIsShown
  SendingIsOnWire
