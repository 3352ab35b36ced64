\* Two withdrawals, each signed once or more often; three failures
\* of any call, stops or crashes.
SPECIFICATION LiveSpec
CONSTANTS
  NoBusiness = NoBusiness
  Unsigned = Unsigned
  Business = {b1}
  Guid = {g1, g2}
  Signed = {x1, x2}
  MaxAttempts = 2
  Faulty = {"answer", "list", "send", "send_ack", "child", "update", "commit", "stop", "crash"}
  MaxFaults = 3
INVARIANTS
  OnlySavedIsBroadcast
PROPERTIES
  NoBroadcastAfterClose
  SignedIsBroadcast
  CloseCompletes
CHECK_DEADLOCK FALSE
