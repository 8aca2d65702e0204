SPECIFICATION Spec
CONSTANTS
    i1 = i1
    i2 = i2
    q1 = q1
    q2 = q2
    r1 = r1
    r2 = r2
    s1 = s1
    NoRow = NoRow
    Ids <- MCIds
    Bodies <- CommissionBodies
    Chains <- Histories
    Limit = 2
    MaxEvents = 4
    MaxLedger = 4
    Retention = 3
    PageSize = 1
    Window = 2
    Polls <- TwoPolls
    Requests <- NoClients
    Sockets <- NoClients
    MaxFailures = 0
    MaxRestarts = 0
PROPERTIES
    NeverRegresses
