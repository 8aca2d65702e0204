SPECIFICATION FairSpec
CONSTANTS
    p1 = p1
    p2 = p2
    d1 = d1
    l1 = l1
    m1 = m1
    m2 = m2
    active = active
    archived = archived
    t1 = t1
    t2 = t2
    NoRow = NoRow
    Datasets <- MCDatasets
    Licenses <- MCLicenses
    Metas <- MCMetas
    DatasetStates <- MCStates
    Terms <- MCTerms
    DefaultState = active
    Bodies <- RegistryBodies
    Limit = 2
    MaxEvents = 5
    MaxLedger = 4
    Retention = 4
    Chains <- WellFormed
    Indexers <- OneIndexer
    RedisConfigured = FALSE
    StartLedger = 1
    FormerLives <- First
    Faults = {"rpc", "db", "pg_set", "crash"}
    MaxFaults = 3
INVARIANTS
    ReplayConverges
PROPERTIES
    EventuallyMirrors
