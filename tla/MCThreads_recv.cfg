SPECIFICATION Spec
CONSTANTS
  w1 = w1
  w2 = w2
  Worker <- OneWorker
  Kind <- HeapOnly
  Failures <- NoFailures
  Bound = 1
  MaxSends = 1
INVARIANT ReceivesLiveValues
CHECK_DEADLOCK FALSE
