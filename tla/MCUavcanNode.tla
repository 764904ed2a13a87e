--------------------------- MODULE MCUavcanNode ---------------------------
(* TLC instance of UavcanNode.  The bus is not at the app's default rate. *)
EXTENDS UavcanNode

MCValidRates == {250000, 1000000}
MCPeers == {1, 127}
MCNodeIds == {5, 6}
=============================================================================
