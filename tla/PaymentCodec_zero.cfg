SPECIFICATION CodecSpec
CONSTANTS
  Amounts <- SmallFees
  SomeFees <- MinFee
  Rounds <- FewRounds
  GenesisLengths = {12}
  PublicSize = 2
  DecodedCap = 3
  SecretSize = 4
  Wrap = 65536
  Addresses <- SomeAddresses
  Secrets <- SomeSecrets
  SecretTexts <- SomeSecretTexts
INVARIANT NoZeroField
CHECK_DEADLOCK FALSE
