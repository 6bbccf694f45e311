CONSTANTS
  MaxBlock <- MCMaxBlock
  LogsPerBlock <- MCLogsPerBlock
  InOrder = FALSE
SPECIFICATION Spec
PROPERTIES
  LastFinalizedNeverDecreases
