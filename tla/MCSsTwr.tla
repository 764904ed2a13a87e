------------------------------ MODULE MCSsTwr ------------------------------
(* TLC instance of SsTwr: a counter of 16 ticks that wraps in every round    *)
(* or two, and a responder at an even and an odd distance from it.           *)
EXTENDS SsTwrRange

MCPhases == {0, 3}
MCPayloads == {0, 40}
=============================================================================
