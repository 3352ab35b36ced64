SPECIFICATION Spec
CONSTANTS
  Addr <- MCAddr
  Lower <- MCLower
  Nil = Nil
  MaxLen = 2
INVARIANT ExternalPaymentIsDeposit
CHECK_DEADLOCK FALSE
