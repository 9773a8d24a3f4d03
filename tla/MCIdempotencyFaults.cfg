SPECIFICATION Spec
CONSTANTS
  r1 = r1
  r2 = r2
  r3 = r3
  hashA = hashA
  hashB = hashB
  gw1 = gw1
  gw2 = gw2
  Requests = {r1, r2}
  Hashes = {hashA, hashB}
  HashOf <- MCHashOf
  Hosts = {gw1, gw2}
  HostOf <- MCHostOf
  Lease = 2
  Ttl = 3
  PurgeInterval = 1
  Faults = {"crash", "append"}
  LastArrival = 4
  MaxTime = 5
INVARIANTS TypeOK Exclusive 
PROPERTIES NoRerun OnceOnlySpec
CHECK_DEADLOCK FALSE
