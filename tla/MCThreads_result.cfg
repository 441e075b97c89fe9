SPECIFICATION Spec
CONSTANTS
  w1 = w1
  w2 = w2
  Worker <- OneWorker
  Kind <- PlainOnly
  Failures <- NoFailures
  Bound = 1
  MaxSends = 0
INVARIANT JoinReturnsResult
CHECK_DEADLOCK FALSE
