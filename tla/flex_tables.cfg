SPECIFICATION FairSpec
CONSTANTS
  Group <- TwoGroups
  KnownGroup <- OneGroup
  Vid = {v1}
  Interval = {0, 1}
  Unset = Unset
INVARIANTS TypeOK TablesAreHonoured
PROPERTIES JoinReturnsFromCycle
