CONSTANTS
    Ids = {i1}
    States = {a, b}
    Stopped = a
    None = None
    QueueSize = 2
    MaxChanges = 2
    MaxBreaks = 1
    MaxRestarts = 1
SPECIFICATION StreamFairSpec
INVARIANTS
    NothingMissed
PROPERTIES
    LiveUpdates
CHECK_DEADLOCK FALSE
