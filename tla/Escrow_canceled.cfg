SPECIFICATION Spec
CONSTANTS
  NULL = NULL
  ca = ca  cb = cb  d1 = d1  d2 = d2
  Contracts = {ca, cb}
  Deposits  = {d1, d2}
  Outputs   = {payout}
  Value    <- MCValue
  Subtotal = 50
  BaseFee  = 2
  VinFee   = 1
  CommitLocks = TRUE
INVARIANT CanceledSigsVerify
CHECK_DEADLOCK FALSE
