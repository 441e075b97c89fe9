SPECIFICATION FairSpec
CONSTANTS
  IntMax = 20
  RegisterCount = 32
  FramesMax = 4
  CodeLength = 250
  Program <- Compilations
  Translation <- TranslationOf
  FunctionName = {"f", "g", "h", "o", "p", "q", "main"}
  Programs <- MCPrograms
  Written <- MCWritten
  Large <- MCLarge
INVARIANT TypeOK
PROPERTIES RunsWellFormedCode ParsesAsWritten RunsAsWritten LintedNeverGoesWrong Terminates CallerKeepsRegisters ImplementsCalls
CHECK_DEADLOCK FALSE
