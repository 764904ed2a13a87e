--------------------------- MODULE MCDw1000Init ---------------------------
(* TLC instance of Dw1000Init: stack bytes with each bit pattern that a mask *)
(* of the driver tells apart, one restart.                                   *)
EXTENDS Dw1000Init

MCStackBytes == {0, 3, 255}
MCWords == {0, 7}
=============================================================================
