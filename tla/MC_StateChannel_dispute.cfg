CONSTANTS
  Alice = Alice
  Bob = Bob
  NoSignature = NoSignature
  NoApp = NoApp
  NoCall = NoCall
  AppId = 1
  MinTxnFee = 1
  UintSize = 32
  Deposits = {10}
  Penalties = {2}
  Windows = {1}
  PenaltyRange = {1, 2}
  WindowRange = {1, 2}
  CloseMinimum = 1
  Amounts = {3, 6}
  AllowOverdraft = FALSE
  AllowCheat = TRUE
  PayWhileClosing = FALSE
  MaxTime = 6
  MaxRound = 4
  MaxPending = 2
  MaxLosses = 0
  MaxRestarts = 0
SPECIFICATION Spec
PROPERTY DisputeIsSettled
CHECK_DEADLOCK FALSE
