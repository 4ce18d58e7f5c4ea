SPECIFICATION CodecSpec
CONSTANTS
  Amounts <- Limits
  SomeFees <- Limits
  Rounds <- SomeRounds
  GenesisLengths = {1, 12, 31, 32, 63, 64, 300}
  PublicSize = 2
  DecodedCap = 3
  SecretSize = 4
  Wrap = 65536
  Addresses <- SomeAddresses
  Secrets <- SomeSecrets
  SecretTexts <- SomeSecretTexts
INVARIANTS
  TypesOK
  BuffersSuffice
  ReadsBack
  SortedAndShortest
  AddressReadsBack
  SecretReadsBack
CHECK_DEADLOCK FALSE
