SPECIFICATION FairSpec
CONSTANTS
  IntMax = 20
  RegisterCount = 32
  FramesMax = 4
  CodeLength = 250
  Program <- Compilations
  Translation <- TranslationOf
  FunctionName = {"f", "g", "h", "o", "p", "q", "main"}
  Programs <- MCForPrograms
  Written <- MCForWritten
  Large = {}
INVARIANT EveryElementShown
CHECK_DEADLOCK FALSE
