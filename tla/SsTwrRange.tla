----------------------------- MODULE SsTwrRange -----------------------------
(***************************************************************************)
(* Two-way ranging implements the rounds of RangeRound.  A round is open   *)
(* from the poll until the initiator leaves its inner loop; it ends with   *)
(* the range if the reply taken is the one to its poll.                    *)
(***************************************************************************)
EXTENDS SsTwr

Answered == outcome.how = "responder" /\ outcome.of # 0

How == IF Answered THEN IF outcome.wrapped THEN "wrapped" ELSE "range"
       ELSE IF outcome.how \in {"none", "timeout"} THEN outcome.how ELSE "foreign"

R == INSTANCE RangeRound WITH
        Range     <- 2 * Flight + AntDelay,
        open      <- ini.at = "poll",
        asked     <- round,
        disturbed <- excuse,
        waiting   <- ini.frame # None \/ resp.frame # None,
        last      <- [how   |-> How,
                      of    |-> IF Answered THEN outcome.of ELSE 0,
                      value |-> IF How = "range" THEN outcome.twice ELSE 0]

\* Every behaviour of the two loops over the lossy channel is one of
\* RangeRound: a round in which no frame was lost, no stranger sent, nobody was
\* late and both receivers were started with the host and the chip at one set
\* ends with twice the time of flight and the antenna delay, unless the counter
\* of the initiator wraps or the loop does not get to the frame in time; and no
\* round ends with the answer to another.
ImplementsRangeRound == R!Spec
=============================================================================
