SPECIFICATION Spec
CONSTANTS
  NULL = NULL  Server = Server
  alice = alice  wallet = wallet  segwit = segwit  c1 = c1  c2 = c2  t1 = t1  t2 = t2 
  Requests      <- MCRequests
  Outputs       <- MCOutputs
  AccountPolicy <- MCPolicy
  Taproot = {alice, wallet}
  Contracts = {c1, c2}
  Values = {5}
  Rates = {1, 2}
  RETURN_TX_VSIZE = 2
  RECOVERY_TXSIZE = 2
  DUST_LIMIT = 2
  Retries = 2
  MaxAccounts = 2
  MaxCoins = 1
  MaxMade = 2
  End = 2
  SEQ_UNIT = 2
  create_sequence <- MCSequence
INVARIANTS TypeOK Settleable NonceOnce FundsKept PollTells
SYMMETRY Symmetry
CHECK_DEADLOCK FALSE
