CONSTANTS
    Ids = {i1}
    Contents = {c1, c2}
    Chunks = 2
    Handlers = {h1}
    Instances = {x1}
    None = None
    MaxRequests = 3
    MaxFetches = 0
    MaxFaults = 1
SPECIFICATION Spec
PROPERTIES
    SkippedExists
CHECK_DEADLOCK FALSE
