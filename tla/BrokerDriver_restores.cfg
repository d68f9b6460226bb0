SPECIFICATION FairSpec
CONSTANTS
    Topics = {t1, t2}
    Handlers = {h1, h2}
    MaxCalls = 3
    MaxConnections = 2
CHECK_DEADLOCK FALSE
INVARIANTS
    ActiveIsRestored
    ActiveIsServed
    QuietIsExact
PROPERTIES
    RestorationEnds
