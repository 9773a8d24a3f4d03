SPECIFICATION Spec
CONSTANTS
  Callers = {c1, c2}
  PoolSize = 1
  Faults = {"fatal"}
  MaxFaults = 1
INVARIANTS NoPoison
