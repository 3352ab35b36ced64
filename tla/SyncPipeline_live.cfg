\* Calls that are retried fail twice; the scanner may be interrupted at any point.
SPECIFICATION LiveSpec
CONSTANTS
  Addr <- MCAddr
  Lower <- MCLower
  Nil = Nil
  NoBusiness = NoBusiness
  Business = {b1}
  Registered = {b1}
  Book <- FullBooks
  BlockTxs <- BusyBlocks
  ConfDepth = 1
  BlocksStep = 2
  StartingHeight = 1
  MaxHeight = 5
  InitTip = 3
  MaxReorg = 0
  MaxForks = 0
  MaxLag = 1
  Faulty <- RetriedCalls
  MaxFaults = 2
  MaxAttempts = 3
  Builds <- WholeBuild
  Env = {"stop"}
  MaxRows = 1
  MaxStoreErrs = 2
  MaxStarts = 1
PROPERTIES
  ConfirmedIsRecorded
  ShutdownCompletes
CHECK_DEADLOCK FALSE
