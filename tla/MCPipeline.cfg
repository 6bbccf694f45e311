CONSTANTS
  h1 = h1
  h2 = h2
  m1 = m1
  m2 = m2
  Hashes <- MCHashes
  Mixes <- MCMixes
  RandaoMixes <- MCRandaoMixes
  SlotsPerEpoch = 2
  EpochsPerHistoricalVector = 2
  MaxWithdrawalsPerPayload = 1
  MaxSlot = 4
  MaxCalls = 2
SPECIFICATION Spec
CHECK_DEADLOCK FALSE
INVARIANTS
  WaveTwoOnlyAfterValidation
  ResultReflectsTasks
PROPERTIES
  AppliedPayloadExtendsHead
