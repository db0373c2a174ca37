SPECIFICATION Spec
CONSTANTS
  c1 = c1
  c2 = c2
  k1 = k1
  k2 = k2
  Nobody = Nobody
  NoKey = NoKey
  Caller <- MCCaller
  Key <- MCKey
  Capacity <- MCCapacity
  Ttl <- MCTtl
  MaxCalls <- MCMaxCalls
INVARIANTS
  TypeOK
  CacheBounded
  AnswersAreEarned
PROPERTIES
  FirstSuccessStays
  RerunNeedsLoss
  EveryCallReturns
  ImplementsOnce
