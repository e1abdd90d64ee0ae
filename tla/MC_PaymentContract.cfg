CONSTANTS
  Alice = Alice
  Bob = Bob
  NoApp = NoApp
  NoSignature = NoSignature
  AppId = 1
  MinTxnFee = 1
  Penalties = {1, 2}
  Windows = {1, 2}
  Deposits = {10}
  Splits <- MCSplits
  AliceFunds = 10
  MaxTimestamp = 2
  MaxRound = 5
SPECIFICATION FairSpec
INVARIANTS TypeOK Solvent NoPayoutBeforeAgreement SplitAuthorised
PROPERTIES PayoutIsDue ClosingCompletes RefinesEscrow
CHECK_DEADLOCK FALSE
