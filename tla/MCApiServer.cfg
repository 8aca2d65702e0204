SPECIFICATION Spec
CONSTANTS
  a1 = a1
  c1 = c1
  s1 = s1
  s2 = s2
  Calls <- MCCalls
  Wanted <- MCWanted
  Submits <- MCSubmits
  Accounts <- MCAccounts
  Unconfigured = {}
  MaxAttempts = 1
  MaxSequence = 2
  RedisConfigured = TRUE
  MaxRetries = 2
  MaxOutages = 1
  MaxExits = 1
INVARIANTS
  TypeOK
  AnswersAreTrue
PROPERTIES
  FreshCallsAreAccepted
  EveryRequestEnds
CHECK_DEADLOCK FALSE
