CONSTANTS
    None = None
    Ids = {i1, i2}
    Macs = {m1, m2}
    Clients = {c1, c2}
    Hosts = {n1}
    Space = 8
    Base = 4
    Size = 4
    BatchSize = 1
    MaxMoves = 2
    Starters = {p1, p2, p3}
    Visits = {r1, r2}
    MaxTokens = 2
    MaxVisits = 3
    MaxFaults = 1
SPECIFICATION LookupSpec
INVARIANTS
    IndexExact
    KnownWasHeld
    OneSecret
    LogoutIsFinal
PROPERTIES
    ImplementsTable
    QuietScanFindsAll
SYMMETRY Symmetry
CHECK_DEADLOCK FALSE
