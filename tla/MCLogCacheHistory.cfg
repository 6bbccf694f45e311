CONSTANTS
  MaxBlock <- MCMaxBlock
  LogsPerBlock <- MCLogsPerBlock
  InOrder = TRUE
SPECIFICATION Spec
PROPERTIES
  HistorySpec
