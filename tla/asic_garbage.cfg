SPECIFICATION Spec
CONSTANTS
  KeyedType = {"OCM"}
  IndexedType = {}
  Id = {0, 1}
  Cfg = {c1}
  Unset = Unset
  HiddenRid = {}
  StackGarbage <- AnyRid
  Env = {}
  MaxVid = 2
  MaxRidIndex = 2
INVARIANT EvictsOwnerOfRid
