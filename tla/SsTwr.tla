------------------------------- MODULE SsTwr -------------------------------
(***************************************************************************)
(* Single-sided two-way ranging between an initiator and a responder, each *)
(* running its loop of src/main.c, with the time stamps of their chips and *)
(* the arithmetic on them.  The channel may lose any frame, and strangers  *)
(* may send at any time.  A driver call is one step here: what it does in  *)
(* detail, and the loops with it, is in Dw1000Driver and RangingApps.      *)
(*                                                                         *)
(* Time is true time, in ticks.  A chip counts ticks modulo StampModulus.  *)
(* Both loops turn off the transceiver once they have a frame, which drops *)
(* what the radio still holds; but the host and the chip go on with the    *)
(* set of receive registers each points at, and only dw1000_rx_enable      *)
(* brings the two together.                                                *)
(***************************************************************************)
EXTENDS Integers

CONSTANTS
    StampModulus, \* 2^40 in the chip
    LongModulus,  \* 2^64 in the code
    Grain,        \* 512: the chip ignores the low 9 bits of a start time
    ReplyDelay,   \* 65536000
    AntDelay,     \* TX_ANTD, 21620
    Flight,       \* ticks from one antenna to the other
    Timeout,      \* 5 ms
    Period,       \* 200 ms
    MaxWait,      \* how long the initiator may wait for the UAVCAN lock
    MaxLag,       \* how long the responder may take to get to a frame
    Phases,       \* by how much the responder's counter may be ahead
    Payloads,     \* what the first 4 bytes of a stranger's frame may be
    MaxStrangers, \* bound: frames of strangers
    MaxTime       \* bound: ticks

RoundTrip == 2 * Flight + ReplyDelay + AntDelay

ASSUME RangingAssumption ==
    /\ {StampModulus, LongModulus, Grain, ReplyDelay, Timeout, Period} \subseteq Nat \ {0}
    /\ {AntDelay, Flight, MaxWait, MaxLag, MaxStrangers, MaxTime} \subseteq Nat
    /\ Phases \subseteq Nat /\ Payloads \subseteq Nat
    /\ StampModulus % Grain = 0 /\ LongModulus > StampModulus
    /\ 2 * MaxLag < StampModulus
    /\ MaxWait + RoundTrip < Period
    /\ RoundTrip < StampModulus /\ Grain <= ReplyDelay

VARIABLES
    now,
    phase,  \* the responder's counter minus the initiator's
    ini,    \* the initiator: its place, tnow_us, time stamp of its poll, its radio
    resp,   \* the responder: its place, the time its reply leaves, its radio
    air,    \* frames under way, with the time they arrive
    round,  \* history: polls sent
    excuse, \* history: why this round may fail
    outcome,\* history: how the last round ended
    strangers

vars == <<now, phase, ini, resp, air, round, excuse, outcome, strangers>>

IniStamp(t) == t % StampModulus
RespStamp(t) == (t + phase) % StampModulus

\* A frame: its sender, its arrival, the delay it carries and, as history, the
\* round of the poll it answers (or is), 0 if it answers a stranger's frame.
Frame(from, at, dly, of) == [from |-> from, at |-> at, dly |-> dly, of |-> of]
None == Frame("none", 0, 0, 0)

Pending == [how |-> "none", of |-> 0, round |-> 0, wrapped |-> FALSE, twice |-> 0,
            excused |-> TRUE]

\* A node also has the two sets of its radio: "frame" is what the set the host
\* looks at holds, "hid" says that the other set holds a frame, and "apart" that
\* the chip points at that other set (HSRBP # ICRBP).
Init == /\ now = 0 /\ phase \in Phases
        /\ ini = [at |-> "period", tnow |-> 0, sent |-> 0,
                  frame |-> None, hid |-> FALSE, apart |-> FALSE]
        /\ resp = [at |-> "listen", leaves |-> 0,
                   frame |-> None, hid |-> FALSE, apart |-> FALSE]
        /\ air = {} /\ round = 0 /\ excuse = TRUE /\ outcome = Pending
        /\ strangers = 0
----------------------------------------------------------------------------
(* ss_twr_initiator_run *)

\* The period is over; the lock is not held yet.
StartRound ==
    /\ ini.at = "period" /\ now - ini.tnow > Period
    /\ ini' = [ini EXCEPT !.at = "acquire", !.tnow = now]
    /\ UNCHANGED <<now, phase, resp, air, round, excuse, outcome, strangers>>

\* The poll leaves, and WAIT4RESP turns the receiver on with the sets as they
\* are.  The time waited for the lock counts for the timeout.
SendPoll ==
    /\ ini.at = "acquire"
    /\ ini' = [ini EXCEPT !.at = "poll", !.sent = IniStamp(now), !.frame = None]
    /\ round' = round + 1
    /\ air' = air \cup {Frame("initiator", now + Flight, 0, round + 1)}
    /\ excuse' = \/ air # {} \/ resp.at = "send" \/ resp.frame # None
                 \/ ini.apart \/ resp.apart
                 \/ now - ini.tnow + RoundTrip > Timeout
    /\ UNCHANGED <<now, phase, resp, outcome, strangers>>

\* The transceiver is turned off, which empties both sets.
EndRound(apart, result) ==
    /\ ini' = [ini EXCEPT !.at = "period", !.frame = None, !.hid = FALSE, !.apart = apart]
    /\ outcome' = result
    /\ UNCHANGED <<now, phase, resp, air, round, excuse, strangers>>

\* The loop looks at the clock before it looks for a frame.
TimedOut ==
    /\ ini.at = "poll" /\ now - ini.tnow > Timeout
    /\ EndRound(ini.apart,
                [Pending EXCEPT !.how = "timeout", !.round = round,
                 !.excused = excuse \/ ini.frame # None \/ resp.frame # None])

\* tround - treply, in 64 bits: twice the time of flight.
TwiceTprop(tround, treply) == (tround - treply) % LongModulus

\* A frame, whoever sent it: its first 4 bytes are taken for the reply delay.
\* dw1000_receive has the host look at the other set from then on.
TakeReply ==
    /\ ini.at = "poll" /\ ini.frame # None
    /\ LET rx == IniStamp(ini.frame.at)
           tround == (rx - ini.sent) % LongModulus
       IN EndRound(~ini.apart,
                   [how |-> ini.frame.from, of |-> ini.frame.of, round |-> round,
                    wrapped |-> rx < ini.sent,
                    twice |-> TwiceTprop(tround, ini.frame.dly), excused |-> excuse])
----------------------------------------------------------------------------
(* ss_twr_responder_run *)

\* The mutants of this module come before the definitions they change.
\* The sum is cut to the width of a time stamp before dly is taken of it.
ScheduledCutBug(ts) == (((ts + ReplyDelay) \div Grain) * Grain) % StampModulus

\* The mask of scheduled_time is forgotten: the chip cuts what dly still has.
ScheduledUncutBug(ts) == ts + ReplyDelay

\* scheduled_time, of which the chip gets 40 bits
Scheduled(ts) == ((ts + ReplyDelay) \div Grain) * Grain

\* The chip: ticks from now until its counter shows this time.
Ahead(time) == ((time \div Grain) * Grain - RespStamp(now)) % StampModulus

\* HPDWARN is not looked at.
MissedBug(time) == FALSE

\* HPDWARN: a start time more than half a period ahead is one gone by.
Missed(time) == 2 * Ahead(time) >= StampModulus

\* The receiver does not come back after the reply.
SentBug == /\ resp.at = "send" /\ now = resp.leaves
           /\ resp' = [resp EXCEPT !.at = "off"]
           /\ UNCHANGED <<now, phase, ini, air, round, excuse, outcome, strangers>>

\* The reply is scheduled, or its time has been missed and dw1000_rx_enable has
\* the receiver back on, with the host and the chip at the same set.  A reply
\* leaves the antenna AntDelay after the time in DX_TIME.
TakePoll ==
    /\ resp.at = "listen" /\ resp.frame # None
    /\ LET ts == RespStamp(resp.frame.at)
           dly == Scheduled(ts) - ts
           leaves == now + Ahead(Scheduled(ts)) + AntDelay
       IN IF Missed(Scheduled(ts))
          THEN /\ resp' = [resp EXCEPT !.frame = None, !.hid = FALSE, !.apart = FALSE]
               /\ excuse' = TRUE /\ UNCHANGED air
          ELSE /\ resp' = [at |-> "send", leaves |-> leaves,
                           frame |-> None, hid |-> FALSE, apart |-> ~resp.apart]
               /\ air' = air \cup {Frame("responder", leaves + Flight, dly, resp.frame.of)}
               /\ UNCHANGED excuse
    /\ UNCHANGED <<now, phase, ini, round, outcome, strangers>>

\* The reply is sent, and WAIT4RESP turns the receiver on with the sets as they
\* are.
Sent == /\ resp.at = "send" /\ now = resp.leaves
        /\ resp' = [resp EXCEPT !.at = "listen"]
        /\ UNCHANGED <<now, phase, ini, air, round, excuse, outcome, strangers>>
----------------------------------------------------------------------------
(* The channel *)

\* The radio of a node that listens puts a frame into the set it points at and
\* goes on to the other; the host sees the one in its own set only.  With both sets
\* full it overruns: dw1000_receive throws all away and aligns the sets, unless it
\* has looked at RXOVRR already, and then the sets may be either way.
Hear(node, place, f) ==
    IF node.at # place THEN {node}
    ELSE IF ~node.apart /\ node.frame = None
    THEN {[node EXCEPT !.frame = f, !.apart = TRUE]}
    ELSE IF node.apart /\ ~node.hid
    THEN {[node EXCEPT !.hid = TRUE, !.apart = FALSE]}
    ELSE {[node EXCEPT !.frame = None, !.hid = FALSE, !.apart = FALSE]}
            \cup {[node EXCEPT !.apart = b] : b \in BOOLEAN}

Arrive ==
    \E f \in air :
        /\ f.at = now /\ air' = air \ {f}
        /\ IF f.from = "initiator"
           THEN resp' \in Hear(resp, "listen", f) /\ UNCHANGED ini
           ELSE ini' \in Hear(ini, "poll", f) /\ UNCHANGED resp
        /\ UNCHANGED <<now, phase, round, excuse, outcome, strangers>>

Lose ==
    \E f \in air :
        /\ f.at = now /\ air' = air \ {f}
        /\ excuse' = TRUE
        /\ UNCHANGED <<now, phase, ini, resp, round, outcome, strangers>>

\* A stranger is heard by the initiator, the responder or both.
StrangerSends ==
    /\ strangers < MaxStrangers /\ strangers' = strangers + 1
    /\ excuse' = TRUE
    /\ \E payload \in Payloads :
           LET f == Frame("stranger", now, payload, 0)
           IN /\ ini' \in {ini} \cup Hear(ini, "poll", f)
              /\ resp' \in {resp} \cup Hear(resp, "listen", f)
              /\ ini' # ini \/ resp' # resp
    /\ UNCHANGED <<now, phase, air, round, outcome>>

\* Time passes, but not what is due.
Tick ==
    /\ now < MaxTime /\ now' = now + 1
    /\ \A f \in air : f.at > now
    /\ resp.at = "send" => resp.leaves > now
    /\ resp.frame # None => now - resp.frame.at < MaxLag
    /\ ini.at = "acquire" => now - ini.tnow < MaxWait
    /\ UNCHANGED <<phase, ini, resp, air, round, excuse, outcome, strangers>>

Next == \/ StartRound \/ SendPoll \/ TimedOut \/ TakeReply
        \/ TakePoll \/ Sent
        \/ Arrive \/ Lose \/ StrangerSends \/ Tick

Spec == Init /\ [][Next]_vars
----------------------------------------------------------------------------
\* A reply taken in a round answers the poll of this round, or a frame of a
\* stranger, but never an earlier poll: neither a slow responder nor a start
\* time that was missed lets a reply loose in a later round.
NoStaleReply ==
    outcome.how = "responder" => outcome.of \in {0, outcome.round}

\* What is computed from a reply to this round's poll is twice the time of
\* flight and the responder's antenna delay, wherever the responder's counter
\* wraps and however late the responder got to the poll.  It holds unless the
\* initiator's own counter wraps between its two time stamps.
MeasuresRange ==
    outcome.how = "responder" /\ outcome.of = outcome.round /\ ~outcome.wrapped =>
        outcome.twice = 2 * Flight + AntDelay

\* A round times out only for a reason: a frame was lost, a stranger sent or had
\* still a reply under way, the responder was busy, is still to get to the poll or
\* missed the time of its reply, the wait for the lock used up the timeout, the
\* initiator's loop was slow to get to the reply, or one of the receivers was
\* started by WAIT4RESP with the host and the chip at different sets, where the
\* next frame goes into the set that is not looked at.  That state is left behind
\* by a round that ended with a reply unread or with a second frame, so one bad
\* round can take the next one with it.  With both sets aligned and none of the
\* rest, the round gets its reply.
TimeoutHasReason == outcome.how = "timeout" => outcome.excused
=============================================================================
