SPECIFICATION Spec
CONSTANTS
  NULL = NULL
  Covenants = {ca, cb}
  Times     = {t1, t2}
  Txs       = {x, y}
  Blocks    = {b1, b2}
INVARIANTS TypeOK SigsVerify LockExcludesClose StatusAgrees
PROPERTY SpentForGood
