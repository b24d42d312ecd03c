SPECIFICATION Spec
CONSTANTS
  Regs <- MCRegs
  RegWidth <- MCRegWidth
  PtrBits = 4
  I64 = 4
  TapeTypes <- MCTapeTypes
  Patterns <- MCPatterns
  IPtr = IPtr
  Invalid = Invalid
  None = None
INVARIANTS
  TypeOK
  PutRCAssertHolds
  GetRCReadsBack
