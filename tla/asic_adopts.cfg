SPECIFICATION Spec
CONSTANTS
  KeyedType = {"OCM"}
  IndexedType = {}
  Id = {0, 1}
  Cfg = {c1}
  Unset = Unset
  HiddenRid = {}
  StackGarbage <- NoKey
  Env = {"refs", "adopts"}
  MaxVid = 4
  MaxRidIndex = 2
INVARIANT MapNamesTheObject
