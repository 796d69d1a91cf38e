SPECIFICATION Spec
CONSTANTS
  IndexSize = 3
  TypeSize = 6
  LinecardSize = 2
  TypeLimit = 4
  LINECARD = 1
  Metadata <- TwoTypes
  StatIds <- OneStat
  MaxListCount = 3
  Calls <- SmallCalls
INVARIANTS TypeOK IdsTellWhatTheyName NoIdTwice ReferencesFit ObjectsStayComplete PointersInStep
