CONSTANTS
    Ids = {i1}
    Contents = {c1, c2}
    Chunks = 2
    Handlers = {h1, h2}
    Instances = {x1}
    None = None
    MaxRequests = 4
    MaxFetches = 2
    MaxFaults = 1
    Creations = {v1}
    MaxVersions = 2
    Sockets = {s1, s2}
    BufferSize = 2
    ClientBuffer = 2
    MaxEvents = 4
SPECIFICATION OrchestratorSpec
INVARIANTS
    StoredIsWhole
    NoPanic
PROPERTIES
    ImplementsRegistry
    SkippedExistsUncut
    TempIsReleased
    StartIsSettled
    InOrder
    LeaverIsForgotten
    EventsAreServed
CHECK_DEADLOCK FALSE
