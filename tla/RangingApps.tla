----------------------------- MODULE RangingApps -----------------------------
(***************************************************************************)
(* The four application loops of src/main.c on top of the driver: the      *)
(* initiator and the responder of single-sided two-way ranging, the plain  *)
(* receiver and the plain transmitter.  A node runs one of them (role);    *)
(* "at" is where its loop is.  Each loop body starts a driver call when    *)
(* the one before has returned and branches on its result.                 *)
(*                                                                         *)
(* Time is abstract: the initiator's 5 ms timeout may fire before any      *)
(* poll, and the periods between rounds are just the freedom not to move.  *)
(***************************************************************************)
EXTENDS Dw1000Driver

VARIABLES
    role,
    at,    \* the loop's place between driver calls
    mark   \* history: frames off the air when the initiator last sent a poll

appVars == <<vars, role, at, mark>>

Roles == {"initiator", "responder", "receiver", "transmitter"}
Places == {"start", "period", "poll", "reply", "stamp"}

MsgLens == 9..11    \* strlen of "message %u", %u a uint8_t
DlyLen == 4         \* sizeof(dly)

ASSUME AppAssumption == MsgLens \cup {DlyLen} \subseteq TxLens

AppInit == /\ Init
           /\ role \in Roles
           /\ at = IF role \in {"initiator", "transmitter"} THEN "period" ELSE "start"
           /\ mark = 0

App(r, place) == role = r /\ at = place /\ UNCHANGED role
GotFrame == ret.op = "receive" /\ ret.err = "none"
----------------------------------------------------------------------------
(* ss_twr_initiator_run *)

SendPoll ==
    /\ App("initiator", "period")
    /\ \E n \in MsgLens : Transmit("transmit", n, TRUE)
    /\ at' = "poll" /\ mark' = air

\* The transceiver stays on; the loop is not left.
NoDisableBug == /\ App("initiator", "poll") /\ ~GotFrame /\ pc = "idle"
                /\ at' = "period" /\ UNCHANGED <<vars, mark>>
NoBreakBug == /\ App("initiator", "poll") /\ ~GotFrame
              /\ DisableTransceiver
              /\ UNCHANGED <<at, mark>>

PollTimeout ==
    /\ App("initiator", "poll") /\ ~GotFrame
    /\ DisableTransceiver
    /\ at' = "period" /\ UNCHANGED mark

PollForReply ==
    /\ App("initiator", "poll") /\ ~GotFrame
    /\ Receive
    /\ UNCHANGED <<at, mark>>

\* A frame: transceiver off, then the time stamp of the poll is read.
TakeReply ==
    /\ App("initiator", "poll") /\ GotFrame
    /\ DisableTransceiver
    /\ at' = "stamp" /\ UNCHANGED mark

ReadTxStamp ==
    /\ App("initiator", "stamp") /\ pc = "idle"
    /\ at' = "period" /\ UNCHANGED <<vars, mark>>
----------------------------------------------------------------------------
(* ss_twr_responder_run and receiver_run *)

StartListening ==
    /\ App("responder", "start") \/ App("receiver", "start")
    /\ RxEnable
    /\ at' = "poll" /\ UNCHANGED mark

ListenForPoll ==
    /\ App("responder", "poll") /\ ~GotFrame
    /\ Receive
    /\ UNCHANGED <<at, mark>>

TakePoll ==
    /\ App("responder", "poll") /\ GotFrame
    /\ DisableTransceiver
    /\ at' = "reply" /\ UNCHANGED mark

SendReply ==
    /\ App("responder", "reply")
    /\ Transmit("scheduled", DlyLen, TRUE)
    /\ at' = "poll" /\ UNCHANGED mark

\* The plain receiver logs what it gets and polls on.
ReceiveNext ==
    /\ App("receiver", "poll")
    /\ Receive
    /\ UNCHANGED <<at, mark>>
----------------------------------------------------------------------------
(* transmitter_run: a frame is off the air long before the 200 ms period   *)
(* ends, so the radio is idle when the next one is sent.                   *)
SendMessage ==
    /\ App("transmitter", "period") /\ radio.tx = "idle"
    /\ \E n \in MsgLens : Transmit("transmit", n, FALSE)
    /\ UNCHANGED <<at, mark>>
----------------------------------------------------------------------------
AppStep == \/ SendPoll \/ PollTimeout \/ PollForReply \/ TakeReply \/ ReadTxStamp
           \/ StartListening \/ ListenForPoll \/ TakePoll \/ SendReply
           \/ ReceiveNext \/ SendMessage

HostStep == AppStep \/ (DriverStep /\ UNCHANGED <<role, at, mark>>)

AppNext == HostStep \/ (Medium /\ UNCHANGED <<role, at, mark>>)

\* The one thread that runs the loop is never blocked for good (its SPI
\* transactions complete), started transmissions end, and the clock the
\* initiator compares advances, so its timeout fires however often it polls.
AppSpec == /\ AppInit /\ [][AppNext]_appVars
           /\ WF_appVars(HostStep)
           /\ WF_appVars(TransmissionEnds /\ UNCHANGED <<role, at, mark>>)
           /\ SF_appVars(PollTimeout)
----------------------------------------------------------------------------
\* The loops keep the driver's contract: each of their steps is one a client
\* may take that uses dw1000_rx_enable and the transmit calls only on a
\* transceiver that is off, so all that holds of the driver holds under them.
KeepsContract == Init /\ [][Next]_vars

\* Whenever the responder or the receiver polls for a frame, one can come in:
\* the receiver is running, or will be when the reply under way has been sent.
\* This has to survive overruns and replies that miss their time.
Listening ==
    role \in {"responder", "receiver"} /\ at = "poll" /\ pc = "idle" /\ ~GotFrame =>
        \/ radio.rx = "on"
        \/ CanSend(radio) /\ radio.w4r

\* Frames wait in the order they came: when the set the host does not look at
\* holds a frame, the host is at one with a smaller number, or has just read it
\* and not yet swapped.  This survives every swap and every frame that arrives
\* around one, from a receiver start at which the two buffer pointers were equal
\* until an overrun; a WAIT4RESP start may find them apart, and then the first
\* frame to come is one the host does not see.
SeesOldest ==
    radio.even /\ ~radio.ovrr =>
        LET seen  == IF pc = "rx_swap" THEN call.got["time"] ELSE HostSet(radio)
            other == radio.set[1 - radio.hs]
        IN other # NoFrame => seen \in 1..(other - 1)

\* A frame the initiator takes for the reply came off the air after its poll
\* was sent: no late answer to an earlier poll survives the timeout.
ReplyIsFresh ==
    role = "initiator" /\ at \in {"poll", "stamp"} /\ GotFrame =>
        ret.got["time"] > mark

\* A ranging round ends: the initiator does not poll for ever.
RoundEnds == (role = "initiator" /\ at = "poll") ~> (at = "period")

\* A frame held by the receiver's radio is taken out, by returning it, by
\* refusing it as too long or by recovering from an overrun.
FramesAreTaken ==
    role = "receiver" /\ (\E i \in Sets : radio.set[i] # NoFrame) ~>
        (\A i \in Sets : radio.set[i] = NoFrame)
=============================================================================
