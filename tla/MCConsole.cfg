SPECIFICATION ConsoleSpec
CONSTANTS
  Gateways = {g1, g2}
  g1 = g1
  g2 = g2
  Activations <- Ticking
  Families = {{1, 2}, {0, 3}}
  Lease = 2
  StartupSkip = 1
  Conflicts = TRUE
  NeverIsFinal = TRUE
  MaintFaults = {"crash", "dbError"}
  NoCaller = NoCaller
  LastFault = 1
  MaxTime = 4
  PruneHosts = {h1, h2}
  PruneFaults = {"crash", "dbError"}
  StaleRun = 0
  Nobody = Nobody
  QuietAfter = 0
  MaxRuns = 2
  EndOfTime = 1
  e1 = e1
  e2 = e2
  i1 = i1
  i2 = i2
  t1 = t1
  t2 = t2
  SettingHosts = {h1, h2}
  AdminHosts = {h1}
  Keys = {k1, k2}
  EnvKeys = {k1}
  NoValue = NoValue
  MaxTurns = 2
  MaxRestarts = 1
  Exports = {e1, e2}
  Imports = {i1, i2}
  LakeTables = {t1, t2}
  ExportKinds <- MCExportKinds
  ImportAsks <- MCImportAsks
  FirstLakes <- MCFirstLakes
  Slots = {1, 2}
  MaxMisses = 1
INVARIANTS TypesOK  KeysInStep 
PROPERTIES SlotsOnce 
CHECK_DEADLOCK FALSE
