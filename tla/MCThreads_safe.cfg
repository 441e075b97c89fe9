SPECIFICATION FairSpec
CONSTANTS
  w1 = w1
  w2 = w2
  Worker <- TwoWorkers
  Kind <- MemoryKinds
  Failures <- AllFailures
  Bound = 1
  MaxSends = 2
INVARIANTS TypeOK NoDangling MemoryAccounted JoinAnswers LifeInv
PROPERTY JoinReturnsUnlessFull
CHECK_DEADLOCK FALSE
