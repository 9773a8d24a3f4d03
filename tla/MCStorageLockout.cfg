SPECIFICATION FairStorageSpec
CONSTANTS
  env = env
  other = other
  bad = bad
  p1 = p1
  p2 = p2
  Settings = {env, other}
  Env = env
  NoSettings = NoSettings
  PathOf <- MCPathOf
  Broken = {}
  PendingAttempts = 3
  StartupAttempts = 5
  Mishaps = {"attach", "moved"}
  MaxMishaps = 1
  MaxSaves = 1
PROPERTIES NotLockedOut
