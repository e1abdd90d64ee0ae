CONSTANTS
  Alice = Alice
  Bob = Bob
  NoSignature = NoSignature
  NoApp = NoApp
  NoCall = NoCall
  AppId = 1
  MinTxnFee = 1
  UintSize = 32
  Deposits = {0, 3, 10}
  Penalties = {0, 2, 5}
  Windows = {1}
  PenaltyRange = {1, 2}
  WindowRange = {1, 2}
  CloseMinimum = 1
  Amounts = {3, 6}
  AllowOverdraft = FALSE
  AllowCheat = FALSE
  PayWhileClosing = FALSE
  MaxTime = 5
  MaxRound = 4
  MaxPending = 2
  MaxLosses = 1
  MaxRestarts = 1
SPECIFICATION FairSpec
INVARIANTS TypeOK PayoutIsNewest PaidCanInitiate
PROPERTIES ClosePays RefinesEscrow
CHECK_DEADLOCK FALSE
