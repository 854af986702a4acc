CONSTANTS
    Ids = {i1}
    Callers = {c1, c2}
    MaxRuns = 2
    MaxRestarts = 2
    Followings <- MCFollowings
    MaxVms = 2
    MaxReboots = 1
    Ifaces = {e1, e2}
    NoIface = NoIface
    LinkBuffer = 2
    MaxNews = 3
    MaxMishaps = 2
SPECIFICATION HostSpec
INVARIANTS
    LiveIsTracked
    ReadyIsBacked
    RulesAreCurrent
PROPERTIES
    ImplementsService
    DeadIsForgotten
    GuardIsReleased
    BecomesReady
    RulesFollowUncut
CHECK_DEADLOCK FALSE
