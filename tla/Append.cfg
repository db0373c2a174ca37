SPECIFICATION Spec
CONSTANTS
  Parts = {"workspace"}
  t = t
  u = u
  MemoryCallers = {m1, m2}
  Keys = {k, l}
  Ttls = {1, 2}
  Forever = Forever
  MaxKeys = 1
  MaxClock = 3
  MaxStores = 3
  MaxItems = 2
  MaxPlans = 2
  FirstSteps = {0, 1}
  Statuses = {"pending", "done"}
  MaxMade = 3
  MaxSteps = 2
  Workers = {w1, w2}
  Paths <- MCPaths
  Home <- MCHome
  Writable = TRUE
  ReadLimit = 2
  SearchLimit = 1
  MaxMatches = 1
  Directory = Directory
  IoFaults = FALSE
  MaxCalls = 3
  Auditors = {a1, a2}
  NoAuditor = NoAuditor
  MaxAudit = 1
  AuditFaults = TRUE
  MaxLines = 6
  Turns = {t, u}
  Requests <- MCRequests
  MaxFaults = 1
  MaxHandoffs = 2
  CheckOrder <- MCCheckOrder
  MaxChecks = 2
  StrangeCheck = "strange"
  MaxHeard = 3
  AllowedHosts = {"loopback name", "public name", "loopback address", "blocked address"}
  BodyLimit = 2
  MaxChunk = 4
  MaxBody = 10
  Enabled = {"process_kill"}
  Observers = {o1, o2}
  Buckets = 2
  MaxCounted = 1
  MaxObserved = 2
  MaxScrapes = 2
PROPERTY
  AppendAtomic
CHECK_DEADLOCK FALSE
