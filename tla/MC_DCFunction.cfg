SPECIFICATION Spec
CONSTANTS
  MCFunctions <- MCTwoAndThreeBlockFunctions
  OpcodeToSemaIdx <- MCOpcodeToSemaIdx
  SemanticsArray <- MCSemanticsArray
  ConstantArray <- MCConstantArray
  BlockAddrs <- MCTwoAndThreeBlockAddrs
  TargetInsts = {"TGT"}
  TargetOpcodes = {"X86_CALL", "X86_CPUID"}
  TargetCallOpcodes = {"X86_CALL"}
  PCReg = "RIP"
  EnableRegSetDiff = FALSE
  EnableInstAddrSave = FALSE
  TranslateUnknownToUndef = FALSE
  MaxStack = 2
  NoSema = NoSema
  NoAddr = NoAddr
  ExitLabel = ExitLabel
  Unknown = Unknown
INVARIANTS
  TypeOK
  WellFormedBlocks
  BlocksFaithful
  PCReadIsNextAddress
  CallsBracketed
PROPERTIES
  Termination
  BlockMapRefinement
CHECK_DEADLOCK FALSE
