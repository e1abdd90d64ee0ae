CONSTANTS
  Alice = Alice
  Bob = Bob
  NoSignature = NoSignature
  AppId = 1
  MinTxnFee = 1
  UintSize = 32
  Deposit = 10
  PenaltyReserve = 2
  Amounts = {3, 11}
  AllowOverdraft = TRUE
  MaxTime = 7
  MaxInFlight = 1
  MaxLosses = 0
SPECIFICATION Spec
INVARIANT PenaltyCovered
CHECK_DEADLOCK FALSE
