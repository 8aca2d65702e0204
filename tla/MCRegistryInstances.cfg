SPECIFICATION Spec
CONSTANTS
    p1 = p1
    p2 = p2
    d1 = d1
    l1 = l1
    m1 = m1
    m2 = m2
    active = active
    archived = archived
    t1 = t1
    t2 = t2
    NoRow = NoRow
    Datasets <- MCDatasets
    Licenses <- MCLicenses
    Metas <- MCMetas
    DatasetStates <- MCStates
    Terms <- MCTerms
    DefaultState = active
    Bodies <- RegistryBodies
    Limit = 2
    MaxEvents = 5
    MaxLedger = 4
    Retention = 3
    Chains <- WithOrphans
    Indexers <- TwoIndexers
    RedisConfigured = TRUE
    StartLedger = 1
    FormerLives <- First
    Faults = {"rpc", "db", "redis_get", "redis_set", "redis_evict", "pg_get", "pg_set", "crash", "stop"}
    MaxFaults = 1
SYMMETRY Symmetry
INVARIANTS
    TypeOK
    CheckpointCovers
    DeliveredInOrder
    IndexerInv
PROPERTIES
    GaugeNeverUnderstates
    ImplementsFeed
CHECK_DEADLOCK FALSE
