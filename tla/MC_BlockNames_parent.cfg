CONSTANTS
  StartAddr = 0
  MCInsts <- MCInstsDef
  TargetAddrs <- MCTargets
  TailAddrs <- MCTails
  MaxBlocks = 12
  EnableRegSetDiff = TRUE
  None = None
SPECIFICATION Spec
INVARIANT SuccessorNamedAfterParent
CHECK_DEADLOCK FALSE
