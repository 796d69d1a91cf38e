SPECIFICATION Spec
CONSTANTS
  Resource <- TwoResources
  Otdr <- OneOtdr
  CardFail = "r2"
  Limit = 1
  MaxTime = 4
  MaxQueue = 2
  MaxEvents = 1
  MaxCrashes = 1
INVARIANTS TypeOK CurrentIsActive NothingForgotten
PROPERTIES RecordedBeforeGone
CHECK_DEADLOCK FALSE
