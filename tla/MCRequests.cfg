CONSTANTS
    Ids = {i1}
    Macs = {m1}
    Threads = {t1, t2}
    Readers = {}
    Poller = poller
    None = None
    MaxRequests = 2
    MaxCrashes = 1
    MaxDbErrors = 1
    MaxRpcErrors = 1
    Creations = {v1, v2}
    MaxVersions = 2
SPECIFICATION RequestSpec
INVARIANTS
    StartingIsOwned
    LeftoversHaveACause
    BootsPushed
SYMMETRY Symmetry
CHECK_DEADLOCK FALSE
