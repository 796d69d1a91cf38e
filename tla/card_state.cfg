SPECIFICATION Spec
CONSTANTS
  Objects <- OneObject
  Values <- TwoValues
  None = "none"
  Handler = "handler"
  MaxLosses = 2
  MaxRequests = 2
  MaxExits = 2
CHECK_DEADLOCK FALSE
INVARIANTS TypeOK ConfigRestored CountersBack
PROPERTY CardComesBack
