SPECIFICATION FairSpec
CONSTANTS
  c1 = c1
  c2 = c2
  Thread <- TwoThreads
  Nobody = Nobody
  MaxCalls = 4
INVARIANTS TypeOK AtMostOnceInOrder
PROPERTIES Synchronous OwnAnswerPreferred CallsReturn
