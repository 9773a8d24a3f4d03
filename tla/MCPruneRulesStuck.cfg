SPECIFICATION PruneSpec
CONSTANTS
  PruneHosts = {h1}
  PruneFaults = {"insert"}
  StaleRun = 1
  Nobody = Nobody
  QuietAfter = 1
  MaxRuns = 2
  EndOfTime = 2
INVARIANTS RunningIsRunning
CHECK_DEADLOCK FALSE
