CONSTANTS
    Ids = {i1}
    Macs = {m1}
    Threads = {t1, t2}
    Readers = {}
    Poller = poller
    None = None
    MaxRequests = 2
    MaxCrashes = 1
    MaxDbErrors = 0
    MaxRpcErrors = 1
SPECIFICATION FairSpec
PROPERTIES
    StartSettles
    RunningFollowsVm
    StoppedFollowsVmUncut
    CacheFollowsRecord
