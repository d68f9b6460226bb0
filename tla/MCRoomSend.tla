----------------------------- MODULE MCRoomSend -----------------------------
EXTENDS RoomSend
\* Values of sizes around that of a chunk: none, an empty one, two that each end
\* with a chunk, a short one before one that fills two, one that ends within.
Ends == {<<>>, <<0>>, <<2, 4>>, <<1, 5>>, <<5>>}
=============================================================================
