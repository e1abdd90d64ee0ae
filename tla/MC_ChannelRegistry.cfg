CONSTANTS
  Nodes = {n1, n2}
  NoSignature = NoSignature
  MinTxnFee = 1
  UintSize = 32
  Deposits <- MCDeposits
  Amounts = {3}
  AllowOverdraft = FALSE
  Penalty = 1
  Skews = {0, 5}
  CloseMinimum = 1
  MaxApps = 2
  MaxTime = 5
  MaxPayments = 1
  MaxFaults = 1
SPECIFICATION Spec
SYMMETRY NodeSymmetry
INVARIANTS TypeOK RecordsAgree StatesFitTheirChannel NoMixedStates
CHECK_DEADLOCK FALSE
