------------------------------ MODULE RxQueue ------------------------------
(***************************************************************************)
(* What the receive calls of the driver promise, without registers, buffer *)
(* pointers and transactions: a receiver with room for two frames.  A      *)
(* frame that comes off the air is held until it is returned, refused as   *)
(* too long, or lost because there was no room or the receiver was turned  *)
(* off.  Frames are returned once and in the order they came.              *)
(*                                                                         *)
(* Two things weaken this.  A receiver that was started skewed, as a       *)
(* WAIT4RESP transmission may do, keeps neither the order nor the room for *)
(* two, and may hide a frame.  Status bits that are cleared behind the     *)
(* back of the calls spoil a place and lose its frame.                     *)
(***************************************************************************)
EXTENDS Integers

VARIABLES
    on,      \* the receiver is on
    jam,     \* a frame found no room: nothing is received until a new start
    skew,    \* the receiver was started skewed
    spoilt,  \* a place is taken by a frame that is lost
    held,    \* the frames that wait to be taken
    leaving, \* the frame being returned or refused; its place is still taken
    said,    \* what the last call answered
    air,     \* the number of frames that came off the air
    given    \* the frames that were returned

vars == <<on, jam, skew, spoilt, held, leaving, said, air, given>>

Answers == {"none", "too_small", "no_frame", "rxovrr", "other"}

Init == /\ ~on /\ ~jam /\ ~skew /\ ~spoilt
        /\ held = {} /\ leaving = {} /\ said = "other"
        /\ air = 0 /\ given = {}

NoRoom == spoilt \/ skew \/ \E f, g \in held \cup leaving : f # g
----------------------------------------------------------------------------
\* A frame comes off the air and is held; or there is no room, and all that
\* are held are lost.  The one that is leaving has been read already.
Arrive ==
    /\ on /\ ~jam /\ air' = air + 1
    /\ \/ held' = held \cup {air + 1} /\ UNCHANGED <<jam, spoilt>>
       \/ NoRoom /\ held' = {} /\ jam' /\ ~spoilt'
    /\ UNCHANGED <<on, skew, leaving, said, given>>

\* The oldest frame is taken, and then returned or refused.
Take == /\ ~jam /\ leaving = {}
        /\ \E f \in held :
              /\ ~skew => \A g \in held : f <= g
              /\ leaving' = {f} /\ held' = held \ {f}
        /\ UNCHANGED <<on, jam, skew, spoilt, said, air, given>>

Return == /\ leaving # {} /\ leaving' = {}
          /\ said' = "none" /\ given' = given \cup leaving
          /\ UNCHANGED <<on, jam, skew, spoilt, held, air>>

Refuse == /\ leaving # {} /\ leaving' = {}
          /\ said' = "too_small"
          /\ UNCHANGED <<on, jam, skew, spoilt, held, air, given>>

\* Without a frame a call says so, and with one it does not.
Empty == /\ held = {} \/ skew \/ spoilt
         /\ said' = "no_frame"
         /\ UNCHANGED <<on, jam, skew, spoilt, held, leaving, air, given>>

\* Turning the receiver off loses what it holds.  A start finds it empty;
\* only after a jam may it be the answer of a receive call.
Stop == /\ leaving = {}
        /\ ~on' /\ held' = {} /\ ~spoilt'
        /\ UNCHANGED <<jam, skew, leaving, said, air, given>>

Start == /\ ~on /\ on'
         /\ ~jam'
         /\ \/ UNCHANGED said /\ skew' \in BOOLEAN
            \/ said' = "rxovrr" /\ jam /\ ~skew'
            \/ said' = "other" /\ ~skew'
         /\ UNCHANGED <<spoilt, held, leaving, air, given>>

\* The status bits are cleared by someone else: of a held frame, or of what a
\* jam has left.
Spoil == /\ leaving = {}
         /\ \/ \E f \in held : held' = held \ {f}
            \/ jam /\ UNCHANGED held
         /\ spoilt'
         /\ UNCHANGED <<on, jam, skew, leaving, said, air, given>>

\* A call that has nothing to do with reception.
Other == said' = "other" /\ UNCHANGED <<on, jam, skew, spoilt, held, leaving, air, given>>

Next == Arrive \/ Take \/ Return \/ Refuse \/ Empty \/ Stop \/ Start \/ Spoil \/ Other

Spec == Init /\ [][Next]_vars
=============================================================================
