--------------------------- MODULE MCBrokerDriver ---------------------------
(* Two topics, so that a restoration has two acknowledgements to wait for.  *)
EXTENDS BrokerDriver
=============================================================================
