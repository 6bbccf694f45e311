CONSTANTS
  MaxBlock <- MCMaxBlock
  LogsPerBlock <- MCLogsPerBlock
  InOrder = TRUE
SPECIFICATION Spec
INVARIANTS
  TypeOK
  FinalStoreInChainOrder
  FinalStoreExactlyOnce
