SPECIFICATION LiveSpec
CONSTANTS
  Business = {"b1"}
  NoBusiness = NoBusiness
  Row = {"i", "w"}
  Of <- MCOf
  Table <- MCTable
  MaxAttempts = 2
  Faulty = {"list", "send", "child", "update", "query", "mark", "post", "hang", "stop", "crash"}
  MaxFaults = 1
  MaxReady <- MCReady
INVARIANTS
  AtMostOnce
PROPERTIES
  NoPostAfterStop
  ReadyIsPosted
  StopReturns
  UnsentIsBroadcast
CHECK_DEADLOCK FALSE
