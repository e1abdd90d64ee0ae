CONSTANTS
  Alice = Alice
  Bob = Bob
  NoSignature = NoSignature
  NoApp = NoApp
  NoCall = NoCall
  AppId = 1
  MinTxnFee = 1
  UintSize = 32
  Deposits = {10}
  Penalties = {2}
  Windows = {1}
  PenaltyRange = {1, 2}
  WindowRange = {1, 2}
  CloseMinimum = 1
  Amounts = {3, 11}
  AllowOverdraft = TRUE
  AllowCheat = TRUE
  PayWhileClosing = TRUE
  MaxTime = 5
  MaxRound = 3
  MaxPending = 2
  MaxLosses = 1
  MaxRestarts = 0
SPECIFICATION Spec
INVARIANT PayoutIsProvable
PROPERTY RefinesEscrow
CHECK_DEADLOCK FALSE
