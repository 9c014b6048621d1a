SPECIFICATION Spec
CONSTANTS
  alice = alice
  bob   = bob
  carol = carol
  ANY   = ANY
  VMID  = VMID
  NULL  = NULL
  ActiveAt  = 10
  ExpiresAt = 15
  MaxBatch  = 2
  PathNames  <- HoldPaths
  SubLabel   <- HoldSub
  Programs   <- HoldPrograms
  Schedule   <- HoldSchedule
  Statements <- HoldStatements
  StopTimes  = {13, 14}
PROPERTY ClosedIsFinal
