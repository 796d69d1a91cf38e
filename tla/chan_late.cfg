SPECIFICATION Spec
CONSTANTS
  c1 = c1
  c2 = c2
  Thread <- OneThread
  Nobody = Nobody
  MaxCalls = 2
PROPERTY AnswersAreOwn
