SPECIFICATION Spec
CONSTANTS
  c1 = c1
  c2 = c2
  c3 = c3
  s1 = s1
  k1 = k1
  Nobody = Nobody
  NoKey = NoKey
  Client <- MCThree
  Session <- MCSession
  Key <- MCKey
  Request <- MCRequest
  Concurrency = 2
  MaxRequests = 3
  MaxReloads <- MCMaxReloads
INVARIANTS
  TypeOK
  PermitsConserved
  HostsNeverAhead
  RerunOnlyAfterReload
  SessionsHaveDirectories
  DeletedStaysDeleted
CHECK_DEADLOCK FALSE
