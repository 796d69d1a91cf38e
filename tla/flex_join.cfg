SPECIFICATION FairSpec
CONSTANTS
  Group <- OneGroup
  KnownGroup <- OneGroup
  Vid = {v1}
  Interval = {0, 1}
  Unset = Unset
PROPERTIES JoinReturns
