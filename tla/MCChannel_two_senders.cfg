SPECIFICATION Spec
CONSTANTS
  p = p
  c = c
  a = a
  b = b
  Nil = Nil
  Senders <- BothThreads
  Receivers <- OtherThread
  Message <- OneMessage
  Cap = 3
  MaxSends = 4
INVARIANT ReceivesOnlySentValues
