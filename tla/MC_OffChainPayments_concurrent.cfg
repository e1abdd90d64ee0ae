CONSTANTS
  Alice = Alice
  Bob = Bob
  NoSignature = NoSignature
  AppId = 1
  MinTxnFee = 1
  UintSize = 32
  Deposit = 10
  PenaltyReserve = 2
  Amounts = {3, 6}
  AllowOverdraft = FALSE
  MaxTime = 8
  MaxInFlight = 3
  MaxLosses = 1
SPECIFICATION Spec
INVARIANTS TypeOK PayerNeverAhead LogsAgreeAtRest ReceiverCanEnforce PenaltyCovered
CHECK_DEADLOCK FALSE
