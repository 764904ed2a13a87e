--------------------------- MODULE MCRangingApps ---------------------------
(* TLC instance of RangingApps: every role, a few frames off the air. *)
EXTENDS RangingApps

MCRxLens == {1, 51, 52}   \* unsigned wrap, largest fit, too long
MCTxLens == {4} \cup MsgLens
=============================================================================
