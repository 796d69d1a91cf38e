SPECIFICATION FairSpec
CONSTANTS
  w1 = w1
  w2 = w2
  VendorThread <- TwoThreads
  MaxRaised = 3
  MaxRestarts = 1
INVARIANTS TypeOK FirstInFirstOut NeverThrows
PROPERTIES DrainsOnceAwake
CHECK_DEADLOCK FALSE
