SPECIFICATION Spec
CONSTANTS
    Room = Room
    MaxCalls = 4
    MaxFlips = 2
CHECK_DEADLOCK FALSE
INVARIANTS
    ActiveIsWhole
    InactiveHoldsNothing
    NobodyIsUnheard
