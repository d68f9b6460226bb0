SPECIFICATION FairSpec
CONSTANTS
    A = A
    B = B
    MaxSends = 2
    Quota <- TwoFromA
    MaxChunks = 2
    MaxId = 2
    Cap = 2
    Low = 0
    Faults <- AllFaults
CHECK_DEADLOCK FALSE
INVARIANTS
    TypeOK
    OutgoingIsBounded
    IdsNameMessages
    SuccessIsDelivery
PROPERTIES
    ImplementsDelivery
    EverySendSettles
