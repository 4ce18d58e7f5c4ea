SPECIFICATION Spec
CONSTANTS
  RetryMs = 1
  ClockMod = 2
  MaxElapsed = 1
  UintMod = 16
  Exact = 8
  Spacings = {1, 2}
  Validity = 1
  Amount = 2
  Fees = {10, 14}
  MinFees = {2}
  OptionalFields = {"fee"}
  GenesisReplies = {"valid", "malformed", "missing"}
  InitialFunds = 11
  MaxRound = 1
  MaxReboots = 1
INVARIANTS
  TypeOK
  StoppedMeansAccepted
  UncoveredHasCause
  FreshParams
  MisconfiguredSendsNothing
PROPERTY KeepsPromise
CHECK_DEADLOCK FALSE
