CONSTANTS
  ByteBits = 2
  Tmp0 = 9
  CallerSave <- CallerSaveDef
  CalleeSave = {5, 6}
  NArgRegs = 2
  Callee <- CalleeDef
  SymAddr <- SymAddrDef
  Arity <- ArityDef
  StackTop = 60000
  MaxBlocks = 40
  Transform <- TransformOf
  Functions <- FunctionsDef
  Inputs <- InputsDef
SPECIFICATION Spec
INVARIANTS TypeOK PassesKeepContract KeepsMeaning GraphIsCurrent UsesAreCurrent DominatorsAreCurrent SsaIsCurrent LivenessIsCurrent NeverOutOfRegisters Assembles
