---------------------------- MODULE MCMediaShare ----------------------------
EXTENDS MediaShare
CONSTANTS audio1, audio2, video1, video2
FourTracks == {audio1, audio2, video1, video2}
Kinds == [t \in FourTracks |-> IF t \in {audio1, audio2} THEN "audio" ELSE "video"]
=============================================================================
