CONSTANTS
  Alice = Alice
  Bob = Bob
  NoApp = NoApp
  NoSignature = NoSignature
  AppId = 1
  MinTxnFee = 1
  Penalties = {2}
  Windows = {1}
  Deposits = {10, 11}
  Splits <- MCSplits
  AliceFunds = 21
  MaxTimestamp = 2
  MaxRound = 4
SPECIFICATION Spec
INVARIANT Solvent
PROPERTIES PayoutIsDue SurplusIsAlices
CHECK_DEADLOCK FALSE
