CONSTANTS
    Ids = {i1}
    Macs = {m1}
    Threads = {t1}
    Readers = {}
    Poller = poller
    None = None
    MaxRequests = 2
    MaxCrashes = 1
    MaxDbErrors = 0
    MaxRpcErrors = 0
SPECIFICATION FairSpec
PROPERTIES
    StoppedFollowsVm
