SPECIFICATION FairSpec
CONSTANTS
    Remotes = {r1}
    ConnectionTimeout = 15
    MaxPeers = 3
    MaxMessages = 3
    MaxSessions = 2
CHECK_DEADLOCK FALSE
INVARIANTS
    OneLivePeer
    KeyOfThisSession
    LeaveClosesPeers
    NoDeadEntries
    TimerIsExact
PROPERTIES
    EveryAttemptEnds
