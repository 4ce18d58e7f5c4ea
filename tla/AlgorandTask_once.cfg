SPECIFICATION Spec
CONSTANTS
  RetryMs = 1
  ClockMod = 2
  MaxElapsed = 1
  UintMod = 8
  Exact = 8
  Spacings = {1}
  Validity = 2
  Amount = 2
  Fees = {1}
  MinFees = {1}
  OptionalFields = {}
  GenesisReplies = {"valid"}
  InitialFunds = 7
  MaxRound = 1
  MaxReboots = 0
INVARIANT PaymentOnce
CHECK_DEADLOCK FALSE
