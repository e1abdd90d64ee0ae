CONSTANTS
  Alice = Alice
  Bob = Bob
  NoSignature = NoSignature
  AppId = 1
  MinTxnFee = 1
  UintSize = 32
  Deposit = 10
  PenaltyReserve = 2
  Amounts = {3, 6}
  AllowOverdraft = FALSE
  MaxTime = 9
  MaxInFlight = 1
  MaxLosses = 1
SPECIFICATION Spec
PROPERTIES SavesBenefitReceiver RefinesAtomicPayments
CHECK_DEADLOCK FALSE
