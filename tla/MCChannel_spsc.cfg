SPECIFICATION FairSpec
CONSTANTS
  p = p
  c = c
  a = a
  b = b
  Nil = Nil
  Senders <- OneThread
  Receivers <- OtherThread
  Message <- TwoMessages
  Cap = 3
  MaxSends = 5
INVARIANTS TypeOK RingInv FifoOrder NoSlotRace
PROPERTIES ImplementsFifo RecvCompletes SendCompletes NeverBothSpin
