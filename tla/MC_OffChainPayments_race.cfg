CONSTANTS
  Alice = Alice
  Bob = Bob
  NoSignature = NoSignature
  AppId = 1
  MinTxnFee = 1
  UintSize = 32
  Deposit = 10
  PenaltyReserve = 2
  Amounts = {3, 6}
  AllowOverdraft = FALSE
  MaxTime = 7
  MaxInFlight = 2
  MaxLosses = 0
SPECIFICATION Spec
PROPERTY SavesBenefitReceiver
CHECK_DEADLOCK FALSE
