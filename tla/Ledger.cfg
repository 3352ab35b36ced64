SPECIFICATION Spec
CONSTANTS
  Addr = {"", "u", "h", "x"}
  NoAddr = ""
  Tx = {"d1", "d2", "w", "c", "k"}
  TxType <- MCTxType
  Out <- MCOut
  Block <- MCBlock
  Confirmations = 1
  MaxAttempts = 2
  MaxBatches = 3
  MaxFaults = 2
INVARIANTS
  WrittenTogether
  BalanceIsBacked
PROPERTIES
  ImplementsBatchWrites
CHECK_DEADLOCK FALSE
