SPECIFICATION Spec
CONSTANTS
  c1 = c1
  c2 = c2
  c3 = c3
  s1 = s1
  k1 = k1
  Nobody = Nobody
  NoKey = NoKey
  Client <- MCTwo
  Session <- MCSession
  Key <- MCKey
  Request <- MCRequest
  Concurrency = 1
  MaxRequests = 2
  MaxReloads <- MCMaxReloads
INVARIANT
  OnePolicyPerRequest
CHECK_DEADLOCK FALSE
