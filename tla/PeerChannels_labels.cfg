SPECIFICATION Spec
CONSTANTS
    Polite = Polite
    Rude = Rude
    Labels = {chat}
    MaxCalls = 5
    MaxChannels = 7
CHECK_DEADLOCK FALSE
INVARIANTS
    HeldIsOpen
    EndsAgree
    LastCallCounts
