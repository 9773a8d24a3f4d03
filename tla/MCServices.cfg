SPECIFICATION ServicesSpec
CONSTANTS
  w1 = w1
  w2 = w2
  w3 = w3
  None = None
  NoKey = None
  Writers = {w1, w2, w3}
  Asks <- SameKey
  Attempts = 2
  First = {}
  FirstKey = None
  Faults = {}
  g1 = g1
  g2 = g2
  k1 = k1
  a1 = a1
  a2 = a2
  Gateways = {g1, g2}
  Activations <- MCActivations
  Families = {{1}}
  Lease = 1
  StartupSkip = 1
  Conflicts = TRUE
  NeverIsFinal = TRUE
  MaintFaults = {"crash", "dbError"}
  NoCaller = NoCaller
  LastFault = 0
  MaxTime = 2
  AccessHosts = {g1, g2}
  Checks = {k1}
  Changers = {a1, a2}
  AccessNeed <- MCAccessNeed
  AccessHost <- MCAccessHost
  TTL = 1
  Listed = FALSE
  EndOfAccess = 1
  AccessAttempts = 1
  Logins = {u1, u2}
  Handlers = {r1, r2}
  MaxPasswords = 3
  c1 = c1
  c2 = c2
  c3 = c3
  Guessers = {c1, c2, c3}
  ThrottleKeys = {"ip", "ann", "bob"}
  GuessKeys <- MCGuessKeys
  MaxFailures = 2
  Window = 2
  EndOfGuessing = 4
  r1 = r1
  r2 = r2
  r3 = r3
  x = x
  y = y
  z = z
  p = p
  q = q
  Requests = {r1, r2, r3}
  Records = {x, y, z}
  PathOf <- MCPathOf
  BlobAsks <- MCBlobAsks
  SafetyLimit = 1
  Earlier = Earlier
  NoFile = NoFile
  MaxBlobFaults = 1
  u1 = u1
  u2 = u2
  u3 = u3
  Users = {u1, u2, u3}
  ChangeAsks <- MCChangeAsks
  MaxChangeFaults = 1
  Minutes = 3
  Hours = 2
  Week = 3
  LastMonth = 2
  LastDate = 3
  Horizon = 40
  RunsAsked = 2
  Calendar <- MCCalendar
  Expressions <- MCExpressions
  Froms = {0, 7, 29}
  Batches = {r1, r2}
  ColumnTypes <- MCColumnTypes
  FieldNames = {"a", "b", "x", "y"}
  Max32 = 4
  Max16 = 2
  MaxEntries = 3
  MaxLength = 7
  Trees <- MCTrees
  Depth <- MCDepth
  Names = {"a", "b"}
  References <- MCReferences
  Tables = {"a", "b"}
  Views = {"v"}
  System = {"_s"}
  MayRead = {"b"}
  ChunkRows = 2
  MaxRows = 5
  ColumnSets = {{1}, {2, 3}, {1, 2}}
  MaxSteps = 2
  MaxCalls = 2
  Callers = {r1, r2}
  Defs = {1, 2}
  BadDef = 3
  NoDef = 0
  MaxGraphCalls = 4
  Unset = 99
  Grace = 2
  DataFiles = {1, 2}
  EndOfHistory = 3
  GridRows = {1, 2}
  GridFilters = {{1, 2}, {2}}
  GridSize = 1
  MaxVisits = 2
  MaxLoads = 2
INVARIANTS TypesOK IngestSafe AccessSafe SignInsSafe  NoRunSkipped NoFieldDropped
INVARIANTS ArchiveReadable OnlyReadable ToldTruth  RegistryDecides 
PROPERTIES MaintSafe  DownloadsTrue
CHECK_DEADLOCK FALSE
