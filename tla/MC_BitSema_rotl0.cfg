SPECIFICATION Spec
CONSTANTS
  W <- MCWidth
  Amounts <- AllAmounts
  MemBits <- MCMemBits
  Poison = Poison
INVARIANT
  RotlMatchesISD
CHECK_DEADLOCK FALSE
