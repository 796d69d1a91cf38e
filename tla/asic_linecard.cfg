SPECIFICATION Spec
CONSTANTS
  KeyedType = {"OCM"}
  IndexedType = {"OA"}
  Id = {0}
  Cfg = {c1}
  Unset = Unset
  HiddenRid <- OneHidden
  StackGarbage <- NoKey
  Env = {"removeLinecard"}
  MaxVid = 2
  MaxRidIndex = 2
INVARIANT LinecardWhole
