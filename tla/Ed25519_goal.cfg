SPECIFICATION Spec
CONSTANTS
  BlockSize = 6
  WordSize = 1
  Weight <- OneByte
  MaxMessage = 20
  P = 61
  D = 2
  SqrtM1 = 11
  BaseX = 14
  BaseY = 27
  Order = 7
  Bytes = 2
  Scalars <- SomeScalars
  Sums <- SomeSums
  GroupOrder = 7
  TopBit = 16
  Hash <- SomeHash
  Seeds = {1, 2}
  Messages = {0, 1}
  AddedScalars = {5, 40, 63}
  DerivedScalars = {3, 31}
  MaxAdds = 3
  Radix = 4
  Multiplier <- SmallDigits
  L = 16778553
  TopLimbs = 8
  Reductions <- SomeNumbers
  Operands <- SomeOperands
  Size <- SmallSizes
  Excess = 3
  Small = 11
  Factors = {5, 1871, 2207, 2621, 665789}
  Shift <- SmallShifts
  Texts <- SomeTexts
  MaxCalls = 4
INVARIANT GoalKeysSign
CHECK_DEADLOCK FALSE
