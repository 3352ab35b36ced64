\* One withdrawal, no failure.
SPECIFICATION Spec
CONSTANTS
  NoBusiness = NoBusiness
  Unsigned = Unsigned
  Business = {b1}
  Guid = {g1}
  Signed = {x1}
  MaxAttempts = 2
  Faulty = {}
  MaxFaults = 0
INVARIANTS
  UnSentIsNotSent
CHECK_DEADLOCK FALSE
