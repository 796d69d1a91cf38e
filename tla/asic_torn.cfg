SPECIFICATION Spec
CONSTANTS
  KeyedType = {"OCM"}
  IndexedType = {"OA"}
  Id = {0}
  Cfg = {c1}
  Unset = Unset
  HiddenRid <- OneHidden
  StackGarbage <- NoKey
  Env = {"crashAnywhere", "vendorFails", "removeLinecard", "refs", "adopts"}
  MaxVid = 2
  MaxRidIndex = 2
INVARIANT TornMapsNeverServed
