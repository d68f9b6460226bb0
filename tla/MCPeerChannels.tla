--------------------------- MODULE MCPeerChannels ---------------------------
EXTENDS PeerChannels
=============================================================================
