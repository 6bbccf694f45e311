CONSTANTS
  h1 = h1
  h2 = h2
  ZeroHash = ZeroHash
  GoNil = GoNil
  TypedNil = TypedNil
  Hashes <- MCHashes
  MaxBlock = 2
  LogsPerBlock = 1
  InOrder = TRUE
  MaxCalls = 3
SPECIFICATION Spec
INVARIANTS
  ForkchoiceOncePerCall
