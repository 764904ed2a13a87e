----------------------------- MODULE UavcanNode -----------------------------
(***************************************************************************)
(* The UAVCAN thread of src/uavcan_node.c over resets: it takes the boot   *)
(* message a bootloader left in shared memory, finds the baudrate of the   *)
(* bus, and serves restart and firmware update requests, each of which     *)
(* leaves a message for the bootloader and resets the chip.                *)
(*                                                                         *)
(* Both handlers call uavcan_update() while they wait, which dispatches    *)
(* further requests: handlers nest, and only the innermost one runs.       *)
(*                                                                         *)
(* The bootloader, shared memory, the CAN driver and the UAVCAN library    *)
(* are not in the repository; README.md lists what is assumed of them.     *)
(***************************************************************************)
EXTENDS Integers, Sequences

CONSTANTS
    ValidRates,   \* the rates canbus_baudrate_valid accepts
    Garbage,      \* a 32 bit value that is no valid rate
    BusRate,      \* the rate of the bus the node is on
    AppRate,      \* canbus_baudrate of the app descriptor
    AppNodeId,    \* canbus_local_node_id of the app descriptor
    Autobaud,     \* ~canbus_disable_auto_baud of the app descriptor
    Peers,        \* the node ids requests come from
    NodeIds,      \* the ids this node may have
    MaxDepth,     \* bound: handlers on the thread's stack; the code has none
    MaxResets     \* bound: resets after which nothing more is asked of the node

DefaultRate == 1000000  \* where autobaud starts when nothing else is valid

ASSUME NodeAssumption ==
    /\ {BusRate, DefaultRate} \subseteq ValidRates /\ 0 \notin ValidRates
    /\ Garbage \notin ValidRates
    /\ Autobaud \in BOOLEAN /\ AppNodeId \in 0..255
    /\ Peers \subseteq 1..127 /\ NodeIds \subseteq 1..127
    /\ MaxDepth \in Nat /\ MaxResets \in Nat

VARIABLES
    mailbox,   \* shared memory: survives every reset but not a power loss
    at,        \* where the thread is between its start and its loop
    shared,    \* shared_msg as retrieved; kind "none" if not shared_msg_valid
    rate,      \* the rate CAN runs at or autobaud tries, 0 if CAN is off
    running,   \* canbus_autobaud_running
    confirmed, \* canbus_get_confirmed_baudrate() # 0
    inits,     \* history: calls of uavcan_init since the reset
    nodeId,    \* uavcan_get_node_id()
    stack,     \* the handlers being executed, innermost first
    promise,   \* history: the last request accepted since the reset
    came,      \* history: where the node left off at its last reset
    garbled,   \* history: the rate of the last message left was not set at all
    resets

volatile == <<at, shared, rate, running, confirmed, inits, nodeId, stack, promise>>
vars == <<mailbox, volatile, came, garbled, resets>>

Msg(kind, baud, node, src) == [kind |-> kind, baud |-> baud, node |-> node, src |-> src]
NoMsg == Msg("none", 0, 0, 0)

NoPromise == [kind |-> "none", src |-> 0]
Nowhere == [rate |-> 0, node |-> 0]

\* What a reset makes of the thread's state; static variables become 0.
Restarted ==
    /\ at' = "boot" /\ shared' = NoMsg /\ rate' = 0 /\ running' = FALSE
    /\ confirmed' = FALSE /\ inits' = 0 /\ nodeId' = 0 /\ stack' = <<>>
    /\ promise' = NoPromise
    /\ resets' = resets + 1

Init ==
    /\ mailbox = NoMsg /\ at = "boot" /\ shared = NoMsg /\ rate = 0
    /\ running = FALSE /\ confirmed = FALSE /\ inits = 0 /\ nodeId = 0
    /\ stack = <<>> /\ promise = NoPromise /\ came = Nowhere
    /\ garbled = FALSE /\ resets = 0
----------------------------------------------------------------------------
(* The environment *)

\* The bootloader takes the message, keeps to its CAN settings or else to
\* what it finds itself, and may tell the app in a boot message.
Bootloader ==
    /\ at = "boot" /\ at' = "start"
    /\ \/ /\ mailbox.kind = "none"
          /\ mailbox' = NoMsg
       \/ \E baud \in {0, BusRate}, node \in NodeIds \cup {0} :
              mailbox' = Msg("boot_info",
                             IF mailbox.baud \in ValidRates THEN mailbox.baud ELSE baud,
                             IF mailbox.node # 0 THEN mailbox.node ELSE node, 0)
    /\ UNCHANGED <<shared, rate, running, confirmed, inits, nodeId, stack, promise,
                   came, garbled, resets>>

\* A reset from outside (pin, watchdog) keeps shared memory, a power loss does
\* not.  Neither asks the software.
ExternalReset ==
    /\ resets < MaxResets
    /\ Restarted
    /\ mailbox' \in {mailbox, NoMsg}
    /\ garbled' = (garbled /\ mailbox' # NoMsg)
    /\ came' = Nowhere

\* Traffic at the rate CAN runs at confirms it.
RateConfirmed ==
    /\ inits > 0 /\ rate = BusRate /\ ~confirmed
    /\ confirmed' = TRUE
    /\ UNCHANGED <<mailbox, at, shared, rate, running, inits, nodeId, stack, promise,
                   came, garbled, resets>>

\* Dynamic node id allocation gives an id to a node that has none.
IdAllocated ==
    /\ inits > 0 /\ rate = BusRate /\ nodeId = 0
    /\ nodeId' \in NodeIds
    /\ UNCHANGED <<mailbox, at, shared, rate, running, confirmed, inits, stack, promise,
                   came, garbled, resets>>
----------------------------------------------------------------------------
(* Start of the thread *)

RetrieveShared ==
    /\ at = "start" /\ at' = "clear"
    /\ shared' = mailbox
    /\ UNCHANGED <<mailbox, rate, running, confirmed, inits, nodeId, stack, promise,
                   came, garbled, resets>>

ClearShared ==
    /\ at = "clear" /\ at' = "begin"
    /\ mailbox' = NoMsg
    /\ UNCHANGED <<shared, rate, running, confirmed, inits, nodeId, stack, promise,
                   came, garbled, resets>>

SharedRateValid == shared.kind # "none" /\ shared.baud \in ValidRates

\* The mutants of this module come before the definitions they change.
\* Only a message of the app itself is used for the node id.
BaudrateConfirmedBug(baud) ==
    /\ rate' = baud
    /\ inits' = inits + 1
    /\ nodeId' = IF shared.kind = "canbus_info" /\ shared.node \in 1..127 THEN shared.node ELSE 0
    /\ UNCHANGED confirmed

\* on_canbus_baudrate_confirmed.  With a node id in the app descriptor and none
\* in the boot message, it is still that of the message the code sets.
BaudrateConfirmed(baud) ==
    /\ rate' = baud
    /\ inits' = inits + 1
    /\ nodeId' = IF \/ shared.kind # "none" /\ shared.node \in 1..127
                    \/ AppNodeId \in 1..127
                 THEN shared.node ELSE 0
    /\ UNCHANGED confirmed

BeginAutobaud ==
    /\ at = "begin" /\ at' = "loop"
    /\ LET baud == IF SharedRateValid THEN shared.baud
                   ELSE IF AppRate \in ValidRates THEN AppRate ELSE DefaultRate
       IN \/ /\ ~SharedRateValid /\ Autobaud
             /\ running' = TRUE /\ rate' = baud
             /\ UNCHANGED <<confirmed, inits, nodeId>>
          \/ /\ SharedRateValid \/ ~Autobaud
             /\ BaudrateConfirmed(baud)
             /\ UNCHANGED running
    /\ UNCHANGED <<mailbox, shared, stack, promise, came, garbled, resets>>

\* canbus_autobaud_running stays set.
UpdateAutobaudBug ==
    /\ at = "loop" /\ running /\ stack = <<>>
    /\ \/ /\ rate' \in ValidRates
          /\ UNCHANGED <<confirmed, inits, nodeId>>
       \/ /\ rate = BusRate
          /\ BaudrateConfirmed(rate)
    /\ UNCHANGED <<mailbox, at, shared, running, stack, promise, came, garbled, resets>>


\* update_canbus_autobaud, at the head of the loop: another rate is tried, or
\* the one tried is that of the bus.  Autobaud is over then.
UpdateAutobaud ==
    /\ at = "loop" /\ running /\ stack = <<>>
    /\ \/ /\ rate' \in ValidRates
          /\ UNCHANGED <<running, confirmed, inits, nodeId>>
       \/ /\ rate = BusRate
          /\ BaudrateConfirmed(rate)
          /\ running' = FALSE
    /\ UNCHANGED <<mailbox, at, shared, stack, promise, came, garbled, resets>>
----------------------------------------------------------------------------
(* Handlers.  A handler on the stack is at its next step. *)

\* uavcan_update dispatches a request: from the loop, or nested in a handler
\* that waits.  Frames come in only at the rate of the bus; whether the CAN
\* driver has confirmed the rate by then is left open.
CanDispatch ==
    /\ at = "loop" /\ inits > 0 /\ rate = BusRate /\ nodeId # 0
    /\ Len(stack) < MaxDepth /\ resets < MaxResets
    /\ stack # <<>> => Head(stack).step = "wait"

Push(op, step, src) == stack' = <<[op |-> op, step |-> step, src |-> src]>> \o stack
TopAt(op, step) == stack # <<>> /\ Head(stack).op = op /\ Head(stack).step = step
Step(to) == stack' = <<[Head(stack) EXCEPT !.step = to]>> \o Tail(stack)

\* The test of the confirmed rate is inverted.
FillRatesBug == IF ~confirmed THEN {rate}
                ELSE IF SharedRateValid THEN ValidRates \cup {0, Garbage} ELSE {0}

\* fill_shared_canbus_info: without a confirmed rate and with a valid one in
\* the boot message, the rate field is left as the stack had it.
FillRates == IF confirmed THEN {rate}
             ELSE IF SharedRateValid THEN ValidRates \cup {0, Garbage} ELSE {0}

\* shared_msg_finalize_and_write of a message with the CAN settings.
Write(kind, src) ==
    /\ \E baud \in FillRates : mailbox' = Msg(kind, baud, nodeId, src)
    /\ garbled' = (~confirmed /\ SharedRateValid)

\* restart_request_handler: answered with true before the wait of 1 ms.
RestartRequest ==
    /\ CanDispatch
    /\ Push("restart", "wait", 0)
    /\ promise' = [kind |-> "restart", src |-> 0]
    /\ UNCHANGED <<mailbox, at, shared, rate, running, confirmed, inits, nodeId,
                   came, garbled, resets>>

\* file_beginfirmwareupdate_handler: the message is written, then the answer
\* is sent.  Source 0 stands for the node that asks, no id for an invalid one.
Source(src, remote) ==
    LET id == IF src = 0 THEN remote ELSE src IN IF id \in 1..127 THEN id ELSE 0

\* The answer goes out before the message is written.
UpdateRequestBug ==
    /\ CanDispatch
    /\ \E remote \in Peers, src \in Peers \cup {0, 128} :
          /\ Push("update", "answer", Source(src, remote))
          /\ promise' = [kind |-> "update", src |-> Source(src, remote)]
    /\ UNCHANGED <<mailbox, at, shared, rate, running, confirmed, inits, nodeId,
                   came, garbled, resets>>

UpdateRequest ==
    /\ CanDispatch
    /\ \E remote \in Peers, src \in Peers \cup {0, 128} :
          /\ Push("update", "answer", Source(src, remote))
          /\ Write("update", Source(src, remote))
    /\ UNCHANGED <<at, shared, rate, running, confirmed, inits, nodeId, promise,
                   came, resets>>

AnswerUpdate ==
    /\ TopAt("update", "answer") /\ Step("wait")
    /\ promise' = [kind |-> "update", src |-> Head(stack).src]
    /\ UNCHANGED <<mailbox, at, shared, rate, running, confirmed, inits, nodeId,
                   came, garbled, resets>>

\* The restart leaves the message to an earlier handler.
RestartWaitedBug ==
    /\ TopAt("restart", "wait") /\ Step("reset")
    /\ UNCHANGED <<mailbox, at, shared, rate, running, confirmed, inits, nodeId, promise,
                   came, garbled, resets>>

\* The wait is over when the clock says so.
RestartWaited ==
    /\ TopAt("restart", "wait") /\ Step("reset")
    /\ Write("canbus_info", 0)
    /\ UNCHANGED <<at, shared, rate, running, confirmed, inits, nodeId, promise,
                   came, resets>>

\* The reset is forgotten: the handler returns.
UpdateReturnsBug ==
    /\ TopAt("update", "wait") /\ stack' = Tail(stack)
    /\ UNCHANGED <<mailbox, at, shared, rate, running, confirmed, inits, nodeId, promise,
                   came, garbled, resets>>

UpdateWaited ==
    /\ TopAt("update", "wait") /\ Step("reset")
    /\ UNCHANGED <<mailbox, at, shared, rate, running, confirmed, inits, nodeId, promise,
                   came, garbled, resets>>

\* NVIC_SystemReset
SystemReset ==
    /\ stack # <<>> /\ Head(stack).step = "reset"
    /\ came' = [rate |-> IF mailbox.baud = rate THEN rate ELSE 0, node |-> nodeId]
    /\ Restarted
    /\ UNCHANGED <<mailbox, garbled>>
----------------------------------------------------------------------------
\* An uavcan_update that finds nothing to do; the loop goes round.
Idle == at = "loop" /\ stack = <<>> /\ UNCHANGED vars

ThreadStart == RetrieveShared \/ ClearShared \/ BeginAutobaud
HandlerStep == AnswerUpdate \/ RestartWaited \/ UpdateWaited \/ SystemReset
Requests == RestartRequest \/ UpdateRequest

Next == \/ Bootloader \/ ExternalReset \/ RateConfirmed \/ IdAllocated
        \/ ThreadStart \/ UpdateAutobaud \/ Requests \/ HandlerStep \/ Idle

\* The bootloader starts the app, the thread is scheduled, the waits end, and
\* autobaud comes by the rate of the bus while there is traffic on it.
Fairness == /\ WF_vars(Bootloader) /\ WF_vars(ThreadStart) /\ WF_vars(HandlerStep)
            /\ WF_vars(UpdateAutobaud)
            /\ SF_vars(UpdateAutobaud /\ inits' # inits)
            /\ SF_vars(UpdateAutobaud /\ rate' = BusRate)

Spec == Init /\ [][Next]_vars /\ Fairness
----------------------------------------------------------------------------
Kinds == {"none", "boot_info", "canbus_info", "update"}
Message == [kind: Kinds, baud: ValidRates \cup {0, Garbage}, node: NodeIds \cup {0}, src: 0..127]
Handler == [op: {"restart", "update"}, step: {"wait", "answer", "reset"}, src: 0..127]

TypeOK ==
    /\ mailbox \in Message /\ shared \in Message
    /\ at \in {"boot", "start", "clear", "begin", "loop"}
    /\ rate \in ValidRates \cup {0}
    /\ running \in BOOLEAN /\ confirmed \in BOOLEAN
    /\ inits \in 0..1
    /\ nodeId \in NodeIds \cup {0}
    /\ stack \in Seq(Handler) /\ Len(stack) <= MaxDepth
    /\ promise \in [kind: {"none", "restart", "update"}, src: 0..127]
    /\ came \in [rate: ValidRates \cup {0}, node: NodeIds \cup {0}]
    /\ garbled \in BOOLEAN
    /\ resets \in Nat

\* Once a firmware update has been answered, and until a later restart is, there
\* will be an update whichever way and whenever the chip resets: the message is
\* in shared memory, with the source of the last update handled.
UpdateKept ==
    promise.kind = "update" =>
        /\ mailbox.kind = "update"
        /\ mailbox.src = IF stack # <<>> /\ Head(stack).step = "answer"
                         THEN Head(stack).src ELSE promise.src

\* However the handlers nest, the last request to be accepted decides what the
\* bootloader finds: no handler further out gets to write or reset after it.
LastRequestDecides ==
    stack # <<>> /\ Head(stack).step = "reset" =>
        mailbox.kind = IF promise.kind = "update" THEN "update" ELSE "canbus_info"

\* A node that resets itself comes back on the bus under the id it had, and
\* at once at its rate if the message for the bootloader had it, which it has
\* only if the rate was confirmed when it was written, or by chance.
ComesBack ==
    /\ inits > 0 /\ came.node # 0 => nodeId = came.node
    /\ at = "loop" /\ came.rate # 0 => rate = came.rate /\ inits > 0

\* With autobaud on, there is only one way for CAN to run at a rate that is not
\* that of the bus: the message the node left at its last reset was written
\* before the rate was confirmed, when fill_shared_canbus_info assigns the rate
\* to itself and what was on the stack is left for the bootloader.  It takes
\* effect if the value happens to be a valid rate, and lasts one start: a message
\* written with the rate confirmed, or a loss of power, ends it.
RightRate == Autobaud /\ inits > 0 /\ rate # BusRate => garbled

\* An accepted request ends in a reset once no more requests come in.  While
\* they do, every nested handler starts a wait of its own (of 1 ms or 100 ms)
\* and the ones further out cannot go on, so requests that never pause put the
\* reset off for as long as the stack holds.
AcceptedResets ==
    <>[][~Requests]_vars => (promise.kind # "none" ~> at = "boot")

=============================================================================
