CONSTANTS
    Ifaces = {e1}
    NoIface = NoIface
    LinkBuffer = 2
    MaxNews = 1
    MaxMishaps = 1
SPECIFICATION ReconcileSpec
PROPERTIES
    RulesFollow
CHECK_DEADLOCK FALSE
