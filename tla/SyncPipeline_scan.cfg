\* Any call fails, the process crashes, is interrupted and starts again, while a
\* second business, and second rows of the first, are registered; a block pays
\* from outside, one has an internal transfer; the newest block may be replaced.
\* The chain does not grow here, as it does in the runs of liveness and traversal.
SPECIFICATION Spec
CONSTANTS
  Addr <- MCAddr
  Lower <- MCLower
  Nil = Nil
  NoBusiness = NoBusiness
  Business = {b1, b2}
  Registered = {b1}
  Book <- MixedBooks
  BlockTxs <- ScannedBlocks
  ConfDepth = 1
  BlocksStep = 2
  StartingHeight = 1
  MaxHeight = 5
  InitTip = 5
  MaxReorg = 1
  MaxForks = 1
  MaxLag = 0
  Faulty <- AllCalls
  MaxFaults = 1
  MaxAttempts = 2
  Builds <- ScanBuilds
  Env = {"register", "crash", "stop"}
  MaxRows = 2
  MaxStoreErrs = 2
  MaxStarts = 2
INVARIANTS
  NoSilentSkip
  ResentOnlyAfterFailure
  HandledIsRecorded
  NoSendOnClosedChannel
  NeverOverRecorded
  OnlyFinalBlocks
PROPERTIES
  NoWriteAfterClose
CHECK_DEADLOCK FALSE
