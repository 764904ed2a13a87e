----------------------------- MODULE RangeRound -----------------------------
(***************************************************************************)
(* What one who asks for ranges may count on, without clocks, frames and   *)
(* the node at the other end.  A round that nothing has disturbed ends     *)
(* with the range, unless it is given up while an answer waits to be       *)
(* looked at.  An answer is never that of another round.                   *)
(*                                                                         *)
(* A disturbed round promises less: it may be given up, or end with a      *)
(* number from a frame that has nothing to do with it, but if it ends with *)
(* the answer to its own question, that is still the range.                *)
(***************************************************************************)
EXTENDS Integers

CONSTANT Range

VARIABLES
    open,      \* a round is under way
    asked,     \* the number of the last round
    disturbed, \* something has happened for which this round may fail
    waiting,   \* a frame has come that nobody has looked at yet
    last       \* how the last round ended, the round it is the answer of, its value

vars == <<open, asked, disturbed, waiting, last>>

Ending(how, of, value) == [how |-> how, of |-> of, value |-> value]

Init == /\ open = FALSE /\ asked = 0 /\ disturbed = TRUE /\ waiting = FALSE
        /\ last = Ending("none", 0, 0)
----------------------------------------------------------------------------
Ask == /\ ~open /\ open' /\ asked' = asked + 1
       /\ disturbed' \in BOOLEAN /\ waiting' \in BOOLEAN
       /\ UNCHANGED last

\* What happens on the air may disturb a round and never makes it good again.
Air == /\ disturbed' \in BOOLEAN /\ (disturbed => disturbed')
       /\ waiting' \in BOOLEAN
       /\ UNCHANGED <<open, asked, last>>

End(ending) == /\ open /\ ~open'
               /\ last' = ending
               /\ waiting' \in BOOLEAN
               /\ UNCHANGED <<asked, disturbed>>

Measure == waiting /\ End(Ending("range", asked, Range))

\* The counter the round is timed with has wrapped: the number means nothing.
Wrap == waiting /\ End(Ending("wrapped", asked, 0))

\* A frame that is not an answer to the question ends the round.
Foreign == disturbed /\ waiting /\ End(Ending("foreign", 0, 0))

GiveUp == (disturbed \/ waiting) /\ End(Ending("timeout", 0, 0))

Next == Ask \/ Air \/ Measure \/ Wrap \/ Foreign \/ GiveUp

Spec == Init /\ [][Next]_vars
=============================================================================
