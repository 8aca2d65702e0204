SPECIFICATION FairSpec
CONSTANTS
    p1 = p1
    p2 = p2
    d1 = d1
    l1 = l1
    m1 = m1
    m2 = m2
    active = active
    archived = archived
    t1 = t1
    t2 = t2
    NoRow = NoRow
    Datasets <- MCDatasets
    Licenses <- MCLicenses
    Metas <- MCMetas
    DatasetStates <- MCStates
    Terms <- MCTerms
    DefaultState = active
    Bodies <- RegistryBodies
    Limit = 2
    MaxEvents = 5
    MaxLedger = 4
    Retention = 4
    Chains <- Late
    Indexers <- OneIndexer
    RedisConfigured = TRUE
    StartLedger = 2
    FormerLives <- First
    Faults = {}
    MaxFaults = 0
PROPERTIES
    EventuallyIndexed
