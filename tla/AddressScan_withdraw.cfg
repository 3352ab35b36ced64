SPECIFICATION Spec
CONSTANTS
  Addr <- MCAddr
  Lower <- MCLower
  Nil = Nil
  MaxLen = 2
INVARIANT WithdrawalMayHaveChange
CHECK_DEADLOCK FALSE
