SPECIFICATION WrapsSpec
CONSTANTS
    A = A
    B = B
    MaxSends = 3
    Quota <- ThreeAndOne
    MaxChunks = 2
    MaxId = 2
    Cap = 1
    Low = 0
    Faults <- GivingUp
CHECK_DEADLOCK FALSE
INVARIANTS
    ChunksInOrder
    ClosedUnlessReplaced
    IncomingIsExact
PROPERTIES
    EverySendSucceeds
