SPECIFICATION FairSpec
CONSTANTS
  KeyedType = {"OCM"}
  IndexedType = {}
  Id = {0, 1}
  Cfg = {c1}
  Unset = Unset
  HiddenRid = {}
  StackGarbage <- NoKey
  Env = {"refs"}
  MaxVid = 4
  MaxRidIndex = 2
INVARIANTS TypeOK CachesCoherent InverseMaps RepliesAreSaved MapNamesTheObject
PROPERTIES OnlyOwnEntryGoes RestartSucceeds
