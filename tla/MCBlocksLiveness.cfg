SPECIFICATION FairBTSpec
CONSTANTS
  near = near
  mid = mid
  far = far
  ahead = ahead
  aside = aside
  Blocks = {near, far}
  Views <- MCViews
  InSight <- MCInSight
  Rank <- MCRank
  Distance <- MCDistance
  Priority <- MCPriority
  Hides <- MCHides
  Opaque = {near}
  Air = {}
  Stored = {}
  Generated = {near}
  Border <- MCBorder
  FullDMax = 3
  DMaxGen = 3
  DOpt = 1
  DCullOpt = 2
  MaxSimulSends = 2
  MaxBlocksToSend = 1
  EmergeLimit = 1
  MaxChanges = 2
  Races <- None
CHECK_DEADLOCK FALSE
PROPERTIES
  EventuallyShown
