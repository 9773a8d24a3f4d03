SPECIFICATION Spec
CONSTANTS
  w1 = w1
  w2 = w2
  w3 = w3
  None = None
  NoKey = None
  Writers = {w1, w2}
  Asks <- OtherKey
  Attempts = 2
  First = {}
  FirstKey = None
  Faults = {}
CHECK_DEADLOCK FALSE
INVARIANTS KeysUnique
