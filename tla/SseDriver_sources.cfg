SPECIFICATION Spec
CONSTANTS
    Topics = {t1, t2}
    Handlers = {h1, h2}
    MaxSources = 4
    MaxCalls = 6
SYMMETRY Symmetry
CHECK_DEADLOCK FALSE
INVARIANTS
    ActiveIsExact
    NoOrphans
    LastCallCounts
