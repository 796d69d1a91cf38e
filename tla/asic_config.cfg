SPECIFICATION Spec
CONSTANTS
  KeyedType = {"OCM"}
  IndexedType = {}
  Id = {0}
  Cfg = {c1}
  Unset = Unset
  HiddenRid = {}
  StackGarbage <- NoKey
  Env = {}
  MaxVid = 1
  MaxRidIndex = 1
INVARIANT ObjectConfigRestored
