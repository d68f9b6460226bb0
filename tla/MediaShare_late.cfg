SPECIFICATION Spec
CONSTANTS
    Peers = {p1}
    audio1 = audio1
    audio2 = audio2
    video1 = video1
    video2 = video2
    Tracks <- FourTracks
    Kind <- Kinds
    MaxCalls = 3
CHECK_DEADLOCK FALSE
INVARIANTS
    AllPeersFollow
