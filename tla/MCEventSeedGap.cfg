CONSTANTS
    Ids = {i1}
    States = {a, b}
    Stopped = a
    None = None
    QueueSize = 2
    MaxChanges = 2
    MaxBreaks = 0
    MaxRestarts = 0
SPECIFICATION StreamFairSpec
PROPERTIES
    ViewFollows
CHECK_DEADLOCK FALSE
