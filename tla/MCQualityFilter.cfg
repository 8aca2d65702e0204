SPECIFICATION FairSpec
CONSTANTS
    d1 = d1
    c1 = c1
    c2 = c2
    any = any
    Wildcard = any
    NoRow = NoRow
    Datasets <- MCDatasets
    Curators <- MCCurators
    Scores <- MCScores
    Bodies <- QualityBodies
    MaxEvents = 5
    MaxLedger = 4
    Retention = 4
    Limit = 6
    Histories <- WellFormed
    Chains <- Selections
    TopicFilters <- Sent
    SavedCursor = 1
    Faults = {}
    MaxFaults = 0
PROPERTIES
    EventuallyMirrors
