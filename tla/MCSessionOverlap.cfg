CONSTANTS
    Visits = {r1, r2}
    MaxTokens = 2
    MaxVisits = 3
    MaxFaults = 0
SPECIFICATION SessionSpec
INVARIANTS
    SessionIsUsable
CHECK_DEADLOCK FALSE
