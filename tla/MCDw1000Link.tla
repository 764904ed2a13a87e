--------------------------- MODULE MCDw1000Link ---------------------------
(* TLC instance of Dw1000Link: two nodes with every enumerated configuration *)
(* and its default preamble code, or with any code for 64 MHz on the channel *)
(* of the program.  The nodes are interchangeable.                           *)
EXTENDS Dw1000Link, TLC

MCConfigs == WithDefaultPcode([prf: Prfs, preamble: Preambles, channel: Channels,
                               rate: Rates, pcode: 1..24])
             \cup {[InitConfig EXCEPT !.pcode = p] : p \in 9..24}
MCSymmetry == Permutations(Nodes)
MCLengths == {125}
=============================================================================
