SPECIFICATION Spec
CONSTANTS
  Addr = {"", "u", "h", "x"}
  NoAddr = ""
  Tx = {"d1", "d2", "w", "c", "k"}
  TxType <- MCTxType
  Out <- MCOut
  Block <- MCBlock
  Confirmations = 1
  MaxAttempts = 2
  MaxBatches = 3
  MaxFaults = 0
INVARIANT
  DeepIsFinal
CHECK_DEADLOCK FALSE
