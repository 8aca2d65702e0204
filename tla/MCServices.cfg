SPECIFICATION Spec
CONSTANTS
  r1 = r1
  r2 = r2
  Readers <- MCReaders
  Walkers <- MCWalkers
  Ids = {1, 2, 3}
  Active = {2}
  Limit = 1
  Uses = {"list", "filtered", "detail", "children", "languages"}
  CacheTtl = 1
  Latency = 1
  RedisClients = {"redis", "none"}
  MaxFaults = 1
  w1 = w1
  w2 = w2
  a1 = a1
  a2 = a2
  n1 = n1
  n2 = n2
  v1 = v1
  v2 = v2
  Workers <- MCWorkers
  Addresses <- MCAddresses
  Nonces <- MCNonces
  Verifies <- MCVerifies
  NonceTtl = 1
  Stores = {"redis", "memory"}
  MaxNow = 2
  MaxLost = 1
  p1 = p1
  p2 = p2
  Seeders <- MCSeeders
  MaxRuns = 3
  h1 = h1
  h2 = h2
  Jobs <- MCJobs
  Retention = 2
  MaxAge = 1
  MaxRunTime = 1
  MaxClock = 5
  MaxBackups = 3
SYMMETRY Symmetry
INVARIANTS
  ListingTypeOK
  WalkSkipsNone
  WalkRepeatsNone
  SiwsTypeOK
  OneSessionPerChallenge
  OnlyTheOwnerSpends
  RefusedForCause
  SeedTypeOK
  BackupTypeOK
PROPERTIES
  AnswersAreFresh
  SeedConverges
  OkMeansRestorable
  PruningLeavesNewer
CHECK_DEADLOCK FALSE
