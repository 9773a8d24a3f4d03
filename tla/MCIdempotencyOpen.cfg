SPECIFICATION FairSpec
CONSTANTS
  r1 = r1
  r2 = r2
  r3 = r3
  hashA = hashA
  hashB = hashB
  gw1 = gw1
  gw2 = gw2
  Requests = {r2, r3}
  Hashes = {hashA, hashB}
  HashOf <- MCHashOf
  Hosts = {gw1, gw2}
  HostOf <- MCHostOf
  Lease = 1
  Ttl = 2
  PurgeInterval = 1
  Faults = {"hangUp", "slow", "crash"}
  LastArrival = 1
  MaxTime = 2
 
PROPERTIES Answered ClaimsEnd
CHECK_DEADLOCK FALSE
