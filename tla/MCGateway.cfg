SPECIFICATION MCSpec
CONSTANTS
  Callers = {d1, d2}
  PoolSize = 1
  Faults = {"fatal", "blip", "attach"}
  MaxFaults = 3
  Clients = {c1, c2, c3, c4}
  Limits = {1, 2, 3}
  MaxChanges = 2
  env = env
  other = other
  bad = bad
  p1 = p1
  p2 = p2
  Settings = {env, other, bad}
  Env = env
  NoSettings = NoSettings
  PathOf <- MCPathOf
  Broken = {bad}
  PendingAttempts = 3
  StartupAttempts = 5
  Mishaps = {"attach", "crash", "write"}
  MaxMishaps = 3
  MaxSaves = 3
  w1 = w1
  w2 = w2
  w3 = w3
  NoKey = None
  Writers = {w1, w2, w3}
  None = None
  IngestFaults = {"keys", "acl"}
  MaxOffset = 3
  Batch = 2
  Kinds <- MCKinds
  MaxWriteFaults = 1
  MaxCrashes = 1
  MaxPolls = 3
  HistoricRows = 2
  StartHosts = {d1, d2}
  StartSteps <- MCStartSteps
  Rewritten = {"u1", "u2"}
  StepTries = 3
  SequenceTries = 2
  MaxStartFaults = 1
INVARIANTS TypesOK PoolSafe GateSafe StartsSafe BatchesKept NoOrphans
PROPERTIES Recovers UserFilesKept ReadyAgain EveryoneServed
CHECK_DEADLOCK FALSE
