SPECIFICATION Spec
CONSTANTS
  NULL = NULL  ANY = ANY
  alice = alice  bob = bob  carol = carol  server = server
  Engine         <- MCEngine
  ProposalPolicy <- MCPolicy
  DEADLINE_DEFAULT = 3
  DURATION_DEFAULT = 3
  STAMP_MIN = 50
  Members    = {alice, bob, carol}
  RoleIds    = {"buyer", "seller", "agent", "partner"}
  RoleTemplate <- MCRoleTemplate
  Seekers    <- MCSeekers
  Templates  <- MCTemplates
  ServerFees <- MCServerFees
  Start = 100
  End = 101
  MaxSigs = 2
  MaxLeaves = 1
INVARIANTS TypeOK Enrolled FullIsFull PublishedEndorsed OutputsPayRoles ContractVerifies
CHECK_DEADLOCK FALSE
