SPECIFICATION SelfUpdateSpec
CONSTANTS
  Versions <- TwoReleases
  NoVersion = NoVersion
  Oldest <- Old
  AutoUpdate = TRUE
  Calls = {1, 2}
  Pieces = 2
  MaxCalls = 2
  MaxKills = 0
INVARIANT NeverHalf
CHECK_DEADLOCK FALSE
