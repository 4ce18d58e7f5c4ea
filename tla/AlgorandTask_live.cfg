SPECIFICATION FairSpec
CONSTANTS
  RetryMs = 2
  ClockMod = 4
  MaxElapsed = 3
  UintMod = 8
  Exact = 8
  Spacings = {1}
  Validity = 1
  Amount = 2
  Fees = {1}
  MinFees = {1}
  OptionalFields = {}
  GenesisReplies = {"valid"}
  InitialFunds = 4
  MaxRound = 1
  MaxReboots = 1
INVARIANT ClockMeasuresAge
PROPERTIES
  RetryTiming
  RetryForever
  EventuallyAccepted
CHECK_DEADLOCK FALSE
