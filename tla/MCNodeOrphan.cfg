CONSTANTS
    Ids = {i1}
    Macs = {m1}
    Threads = {t1}
    Readers = {r1}
    Poller = poller
    None = None
    MaxRequests = 4
    MaxCrashes = 0
    MaxDbErrors = 0
    MaxRpcErrors = 0
SPECIFICATION Spec
INVARIANTS
    NoLeftovers
SYMMETRY Symmetry
