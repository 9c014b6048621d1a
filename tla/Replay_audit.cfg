SPECIFICATION ReplaySpec
CONSTANTS
  alice = alice
  bob   = bob
  carol = carol
  ANY   = ANY
  VMID  = VMID
  NULL  = NULL
  ActiveAt  = 10
  ExpiresAt = 16
  MaxBatch  = 1
  PathNames  <- MCPaths
  SubLabel   <- MCSubLabel
  Programs   <- MCPrograms
  Schedule   <- MCSchedule
  Templates  <- MCTemplates
  Statements = {}
  StopTimes  = {12, 14}
  Signers = {alice, bob, carol}
  Stamps  = {11, 12}
  MaxSigs = 2
  Calls   = 3
INVARIANTS ExecutionVerifies SessionVerifies ReceiptTells VerifiedRuns
CHECK_DEADLOCK FALSE
