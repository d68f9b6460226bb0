---------------------------- MODULE MCRoomPeers ----------------------------
EXTENDS RoomPeers
=============================================================================
