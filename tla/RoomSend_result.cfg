SPECIFICATION FairSendSpec
CONSTANTS
    NumPeers = 2
    ChunkSize = 2
    Skips = {0, 1}
    Messages <- Ends
CHECK_DEADLOCK FALSE
INVARIANTS
    ChunksAreWhole
    ResultIsTrue
    SourceIsReleased
PROPERTIES
    SendSettles
