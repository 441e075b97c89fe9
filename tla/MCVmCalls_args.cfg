SPECIFICATION Spec
CONSTANTS
  f = f
  n = n
  builder = builder
  other = other
  Nil = other
  Script = Script
  Fun <- OneFunction
  Native <- OneNative
  Value <- CallValues
  Plain <- PlainValues
  RegisterCount = 4
  FramesMax = 3
  CodeLength = 2
PROPERTY ArgumentsHaveRegisters
CHECK_DEADLOCK FALSE
