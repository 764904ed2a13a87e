--------------------------- MODULE MCDw1000Driver ---------------------------
(* TLC instance of Dw1000Driver: any client that respects the contract. *)
EXTENDS Dw1000RxQueue

MCRxLens == {0, 1, 2, 51, 52}   \* unsigned wrap, empty, largest fit, too long
MCTxLens == {0, 125, 126}       \* empty, longest, refused
=============================================================================
