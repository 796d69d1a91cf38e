SPECIFICATION Spec
CONSTANTS
  Objects <- OneObject
  Values <- OneValue
  None = "none"
  Handler = "handler"
  MaxLosses = 2
  MaxRequests = 3
  MaxExits = 2
CHECK_DEADLOCK FALSE
INVARIANT HandlersInPlace
