SPECIFICATION LiveSpec
CONSTANTS
  Business = {"old", "new"}
  NoBusiness = ""
  Provisioned = {"old"}
  Asked <- MCAsked
  MaxCalls = 2
  RpcFaulty = {"node", "refuse", "query", "write", "hang"}
  MaxFaults = 2
  Command <- MCCommand
  Files = 2
  MaxAttempts = 2
  Faulty = {"db", "build", "listen", "migrate", "task", "panic", "hang"}
  Builds <- MCBuilds
  MaxSignals = 2
  MaxStarts = 2
INVARIANTS
  TypeOK
  ExitIsClean
  SetupPanicHasCause
  SuccessIsStored
PROPERTIES
  ShutdownExits
  CallEnds
CHECK_DEADLOCK FALSE
