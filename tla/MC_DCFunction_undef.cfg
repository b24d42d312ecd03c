SPECIFICATION Spec
CONSTANTS
  MCFunctions <- MCMCFunctions
  OpcodeToSemaIdx <- MCOpcodeToSemaIdx
  SemanticsArray <- MCSemanticsArray
  ConstantArray <- MCConstantArray
  BlockAddrs <- MCBlockAddrs
  TargetInsts = {"TGT"}
  TargetOpcodes = {"X86_CALL", "X86_CPUID"}
  TargetCallOpcodes = {"X86_CALL"}
  PCReg = "RIP"
  EnableRegSetDiff = FALSE
  EnableInstAddrSave = FALSE
  TranslateUnknownToUndef = TRUE
  MaxStack = 2
  NoSema = NoSema
  NoAddr = NoAddr
  ExitLabel = ExitLabel
  Unknown = Unknown
INVARIANT WellFormedBlocks
CHECK_DEADLOCK FALSE
