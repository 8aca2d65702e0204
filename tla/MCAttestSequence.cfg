SPECIFICATION Spec
CONSTANTS
  a1 = a1
  c1 = c1
  s1 = s1
  s2 = s2
  Calls <- MCCalls
  Wanted <- MCWanted
  Submits <- MCSubmits
  Accounts <- MCAccounts
  Unconfigured = {}
  MaxAttempts = 1
  MaxSequence = 2
  RedisConfigured = FALSE
  MaxRetries = 1
  MaxOutages = 0
  MaxExits = 0
PROPERTIES
  FreshAttestationsAreAccepted
CHECK_DEADLOCK FALSE
