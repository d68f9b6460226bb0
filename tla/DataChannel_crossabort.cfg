SPECIFICATION Spec
CONSTANTS
    A = A
    B = B
    MaxSends = 1
    Quota <- OneEach
    MaxChunks = 1
    MaxId = 1
    Cap = 1
    Low = 0
    Faults <- SenderAborts
CHECK_DEADLOCK FALSE
INVARIANTS
    ReceiverAbortIsReal
