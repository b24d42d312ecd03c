SPECIFICATION Spec
CONSTANTS
  W <- MCWidth
  Amounts <- NonzeroAmounts
  MemBits <- MCMemBits
  Poison = Poison
INVARIANTS
  TypeOK
  RotlMatchesISD
  MulLoHiMatchesISD
  ExtLoadMatchesISD
CHECK_DEADLOCK FALSE
