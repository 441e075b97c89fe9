SPECIFICATION Spec
CONSTANTS
  f = f
  x = x
  y = y
  f1 = f1
  f2 = f2
  f3 = f3
  x1 = x1
  y1 = y1
  x2 = x2
  Absent = Absent
  Undefined = Undefined
  NoSite = NoSite
  Name <- Names
  Site <- TwoReadersSites
  NameOf <- TwoReadersNameOf
  Reassigned <- Variables
  Value = {1, 2}
  CacheSize = 4
PROPERTY LoadsSeeStores
CHECK_DEADLOCK FALSE
