---------------------------- MODULE NodeThreads ----------------------------
(***************************************************************************)
(* The two threads of a node and what they share: the UAVCAN thread of     *)
(* src/uavcan_node.c, with its parameter handlers, and the thread that     *)
(* runs one of the ranging loops of src/main.c.  The UAVCAN library and    *)
(* the parameters are each guarded by a lock, which is recursive; a thread *)
(* that lets go of one hands it to the thread that waits for it.           *)
(*                                                                         *)
(* What a ranging round does with its frames is in RangingApps and SsTwr,  *)
(* what a restart leaves for the bootloader in UavcanNode.                 *)
(***************************************************************************)
EXTENDS Integers

CONSTANTS
    Params,     \* the parameters registered
    Values,     \* the values a parameter may have
    Default     \* the default of all of them

ASSUME ThreadsAssumption == Default \in Values

Threads == {"uavcan", "ranging"}
Locks == {"uavcan", "param"}
Roles == {"initiator", "responder", "receiver", "transmitter"}
None == "none"
OtherType == "other type"

VARIABLES
    role,     \* the loop the ranging thread runs
    at,       \* where each thread is
    owner,    \* the thread that has each lock, or None
    depth,    \* how many times it has taken it
    waits,    \* the threads that queue for each lock
    inited,   \* uavcan_init was called
    doomed,   \* a handler that ends in a reset waits further down the stack
    request,  \* the parameter request being handled
    value,    \* the parameters in RAM
    flash,    \* the parameters stored
    saved     \* history: the values last confirmed to be stored, or {}

locks == <<owner, depth, waits>>
params == <<request, value, flash, saved>>
vars == <<role, at, locks, inited, doomed, params>>

NoRequest == [op |-> None, param |-> None, arg |-> None, ok |-> FALSE]

Go(t, from, to) == at[t] = from /\ at' = [at EXCEPT ![t] = to]

Init ==
    /\ role \in Roles
    /\ at = [uavcan |-> "boot", ranging |-> "sleep"]
    /\ owner = [l \in Locks |-> None] /\ depth = [l \in Locks |-> 0]
    /\ waits = [l \in Locks |-> {}]
    /\ inited = FALSE /\ doomed = FALSE
    /\ request = NoRequest
    /\ value = [p \in Params |-> Default] /\ flash = value /\ saved = {}
----------------------------------------------------------------------------
(* The locks, as the code uses them; they are the library's *)

\* The mutants of this module come before the definitions they change.
\* Mutexes are not recursive.
AcquireBug(t, l, from, to) ==
    \/ /\ Go(t, from, to) /\ owner[l] = None
       /\ owner' = [owner EXCEPT ![l] = t]
       /\ depth' = [depth EXCEPT ![l] = @ + 1]
       /\ UNCHANGED waits
    \/ /\ Go(t, from, to) /\ owner[l] = t /\ t \in waits[l]
       /\ waits' = [waits EXCEPT ![l] = @ \ {t}]
       /\ UNCHANGED <<owner, depth>>
    \/ /\ Go(t, from, from) /\ owner[l] # None /\ t \notin waits[l]
       /\ waits' = [waits EXCEPT ![l] = @ \cup {t}]
       /\ UNCHANGED <<owner, depth>>

\* A thread gets a lock that is free, that it has already, or that was handed
\* to it while it waited; otherwise it queues.
Acquire(t, l, from, to) ==
    \/ /\ Go(t, from, to) /\ owner[l] \in {None, t} /\ t \notin waits[l]
       /\ owner' = [owner EXCEPT ![l] = t]
       /\ depth' = [depth EXCEPT ![l] = @ + 1]
       /\ UNCHANGED waits
    \/ /\ Go(t, from, to) /\ owner[l] = t /\ t \in waits[l]
       /\ waits' = [waits EXCEPT ![l] = @ \ {t}]
       /\ UNCHANGED <<owner, depth>>
    \/ /\ Go(t, from, from) /\ owner[l] \notin {None, t} /\ t \notin waits[l]
       /\ waits' = [waits EXCEPT ![l] = @ \cup {t}]
       /\ UNCHANGED <<owner, depth>>

Release(t, l, from, to) ==
    /\ Go(t, from, to) /\ UNCHANGED waits
    /\ \/ /\ depth[l] > 1
          /\ depth' = [depth EXCEPT ![l] = @ - 1] /\ UNCHANGED owner
       \/ /\ depth[l] = 1 /\ waits[l] # {} /\ UNCHANGED depth
          /\ \E w \in waits[l] : owner' = [owner EXCEPT ![l] = w]
       \/ /\ depth[l] = 1 /\ waits[l] = {}
          /\ owner' = [owner EXCEPT ![l] = None]
          /\ depth' = [depth EXCEPT ![l] = 0]

\* A step of one thread that neither takes nor leaves a lock.
Walk(t, from, to) == Go(t, from, to) /\ UNCHANGED locks
Only(part) == UNCHANGED part /\ UNCHANGED role
Plain == Only(<<inited, doomed, params>>)
----------------------------------------------------------------------------
(* UavcanNodeThread *)

\* param_init takes the stored values.
ParamInit == /\ Walk("uavcan", "boot", "loop")
             /\ value' = flash
             /\ Only(<<inited, doomed, request, flash, saved>>)

\* uavcan_init without its lock.
FoundRateBug == ~inited /\ Walk("uavcan", "loop", "init") /\ Plain

\* on_canbus_baudrate_confirmed, once; till then autobaud goes on.
FoundRate  == ~inited /\ Walk("uavcan", "loop", "init_acquire") /\ Plain
AcquireInit == Acquire("uavcan", "uavcan", "init_acquire", "init") /\ Plain
UavcanInit == /\ Walk("uavcan", "init", "init_release") /\ inited' = TRUE
              /\ Only(<<doomed, params>>)
ReleaseInit == Release("uavcan", "uavcan", "init_release", "acquire") /\ Plain

LoopOn     == Walk("uavcan", "loop", "acquire") /\ Plain
AcquireUpdate == Acquire("uavcan", "uavcan", "acquire", "update") /\ Plain

\* uavcan_update returns to the loop, or to the handler that waits.
Updated    == ~doomed /\ Walk("uavcan", "update", "release") /\ Plain
ReleaseUpdate == Release("uavcan", "uavcan", "release", "sleep") /\ Plain
SleepOver  == Walk("uavcan", "sleep", "loop") /\ Plain

\* uavcan_update dispatches a request.
Dispatch(to) == inited /\ Walk("uavcan", "update", to)

\* restart_request_handler and file_beginfirmwareupdate_handler: the handler
\* waits, and goes on calling uavcan_update.
ResetRequest == Dispatch("update") /\ doomed' = TRUE /\ Only(<<inited, params>>)

Restarted ==
    /\ at' = [uavcan |-> "boot", ranging |-> "sleep"]
    /\ owner' = [l \in Locks |-> None] /\ depth' = [l \in Locks |-> 0]
    /\ waits' = [l \in Locks |-> {}]
    /\ inited' = FALSE /\ doomed' = FALSE /\ request' = NoRequest
    /\ value' = [p \in Params |-> Default]
    /\ UNCHANGED <<role, flash, saved>>

\* The wait is over.
SystemReset == at["uavcan"] = "update" /\ doomed /\ Restarted

ExternalReset == Restarted
----------------------------------------------------------------------------
(* uavcan_node_param_getset_request_handler *)

\* A name or an index may be that of no parameter; arg is None for a get and
\* OtherType for a value of a type the handler does not know.
GetSet ==
    \E p \in Params \cup {None}, v \in Values \cup {None, OtherType} :
        /\ Dispatch("gs_acquire")
        /\ request' = [op |-> "getset", param |-> p, arg |-> v, ok |-> FALSE]
        /\ Only(<<inited, doomed, value, flash, saved>>)

AcquireGetSet == Acquire("uavcan", "param", "gs_acquire", "gs_set") /\ Plain

\* The handler returns before param_release.
NoSuchParamBug == /\ request.param = None /\ Walk("uavcan", "gs_set", "gs_done") /\ Plain

\* No such parameter: there is no answer.
NoSuchParam == /\ request.param = None /\ Walk("uavcan", "gs_set", "gs_unlock") /\ Plain

\* The switch on the type of the value has no default: nothing is set, and there is
\* no answer either.
NoSuchType == /\ request.param # None /\ request.arg = OtherType
              /\ Walk("uavcan", "gs_set", "gs_unlock") /\ Plain

\* The library may refuse a value.
SetParam ==
    /\ request.param # None /\ request.arg # OtherType
    /\ Walk("uavcan", "gs_set", "gs_make")
    /\ value' \in {value} \cup
           IF request.arg = None THEN {} ELSE {[value EXCEPT ![request.param] = request.arg]}
    /\ Only(<<inited, doomed, request, flash, saved>>)

\* The response takes the value as it is now.
MakeResponse ==
    /\ Walk("uavcan", "gs_make", "gs_lock")
    /\ request' = [request EXCEPT !.arg = value[request.param], !.ok = TRUE]
    /\ Only(<<inited, doomed, value, flash, saved>>)

AcquireToSend == Acquire("uavcan", "uavcan", "gs_lock", "gs_send") /\ Plain
SendValue     == Walk("uavcan", "gs_send", "gs_release") /\ Plain
ReleaseSent   == Release("uavcan", "uavcan", "gs_release", "gs_unlock") /\ Plain
ReleaseGetSet == Release("uavcan", "param", "gs_unlock", "gs_done") /\ Plain

EndOfRequest(from) ==
    /\ Walk("uavcan", from, "update") /\ request' = NoRequest
    /\ Only(<<inited, doomed, value, flash, saved>>)

GetSetDone == EndOfRequest("gs_done")
----------------------------------------------------------------------------
(* uavcan_node_param_executeopcode_request_handler *)

Opcode ==
    \E op \in {"save", "erase", "other"} :
        /\ Dispatch("op_acquire")
        /\ request' = [NoRequest EXCEPT !.op = op]
        /\ Only(<<inited, doomed, value, flash, saved>>)

AcquireOpcode == Acquire("uavcan", "param", "op_acquire", "op_do") /\ Plain

\* What the storage may hold after an operation that succeeded or failed.
Stored(op, ok) == CASE op = "other"       -> {flash}
                    [] op = "save" /\ ok  -> {value}
                    [] op = "erase" /\ ok -> {[p \in Params |-> Default]}
                    [] OTHER              -> {flash, value}

\* An answer of ok whether or not the storage did it; an unknown opcode fails.
ExecuteBug ==
    \E ok \in BOOLEAN :
        /\ Walk("uavcan", "op_do", "op_unlock")
        /\ flash' \in Stored(request.op, ok)
        /\ request' = [request EXCEPT !.ok = request.op # "other"]
        /\ saved' = IF request.op = "other" THEN saved ELSE {}
        /\ Only(<<inited, doomed, value>>)

Execute ==
    \E ok \in BOOLEAN :
        /\ request.op = "other" => ~ok
        /\ Walk("uavcan", "op_do", "op_unlock")
        /\ flash' \in Stored(request.op, ok)
        /\ request' = [request EXCEPT !.ok = ok]
        /\ saved' = IF request.op = "other" THEN saved ELSE {}
        /\ Only(<<inited, doomed, value>>)

ReleaseOpcode == Release("uavcan", "param", "op_unlock", "op_lock") /\ Plain
AcquireToConfirm == Acquire("uavcan", "uavcan", "op_lock", "op_send") /\ Plain

SendOk ==
    /\ Walk("uavcan", "op_send", "op_release")
    /\ saved' = IF request.ok THEN Stored(request.op, TRUE) ELSE saved
    /\ Only(<<inited, doomed, request, value, flash>>)

\* The lock taken for the answer is kept.
ReleaseConfirmedBug == Walk("uavcan", "op_release", "op_done") /\ Plain

ReleaseConfirmed == Release("uavcan", "uavcan", "op_release", "op_done") /\ Plain
OpcodeDone == EndOfRequest("op_done")
----------------------------------------------------------------------------
(* The ranging loops: between their periods and frames they hold no lock *)

\* The receiver has a frame, the transmitter sends one, before the lock.
FrameOrPeriod ==
    /\ Walk("ranging", "sleep", IF role = "transmitter" THEN "send" ELSE "acquire")
    /\ Plain
Sent == Walk("ranging", "send", "acquire") /\ Plain

\* The initiator's round runs under the lock, and so does the responder's
\* scheduling of its reply.
AcquireRanging ==
    /\ Acquire("ranging", "uavcan", "acquire",
               IF role \in {"initiator", "responder"} THEN "radio" ELSE "log")
    /\ Plain

\* The initiator's round is over.  The responder's reply is scheduled, and leaves
\* after the lock is released; only one that missed its time is logged.
RadioDone ==
    /\ \/ Walk("ranging", "radio", "release")
       \/ role = "responder" /\ Walk("ranging", "radio", "log")
    /\ Plain

Logged == Walk("ranging", "log", "release") /\ Plain
ReleaseRanging == Release("ranging", "uavcan", "release", "sleep") /\ Plain
----------------------------------------------------------------------------
UavcanStep ==
    \/ ParamInit \/ FoundRate \/ AcquireInit \/ UavcanInit \/ ReleaseInit
    \/ LoopOn \/ AcquireUpdate \/ ReleaseUpdate \/ SleepOver
    \/ AcquireGetSet \/ NoSuchParam \/ NoSuchType \/ SetParam \/ MakeResponse
    \/ AcquireToSend \/ SendValue \/ ReleaseSent \/ ReleaseGetSet \/ GetSetDone
    \/ AcquireOpcode \/ Execute \/ ReleaseOpcode \/ AcquireToConfirm \/ SendOk
    \/ ReleaseConfirmed \/ OpcodeDone

UpdateEnds == Updated \/ SystemReset

RangingStep == AcquireRanging \/ Sent \/ RadioDone \/ Logged \/ ReleaseRanging

Next == \/ UavcanStep \/ UpdateEnds \/ ResetRequest \/ GetSet \/ Opcode
        \/ FrameOrPeriod \/ RangingStep \/ ExternalReset

\* Both threads have the same priority and no time slices (CH_CFG_TIME_QUANTUM is
\* 0): one that is ready runs when the other sleeps or has to wait.  The ranging
\* thread sleeps in every turn of its loop, except the responder, whose loop gives
\* up the processor for sure only where it queues for the lock.
Yields == role # "responder" \/ "ranging" \in waits["uavcan"]

\* The UAVCAN thread is about to start, asleep, or in a queue: it needs to be
\* scheduled to go on.  Everywhere else it is running, and goes on running.
NeedsTurn == \/ at["uavcan"] \in {"boot", "sleep"}
             \/ \E l \in Locks : "uavcan" \in waits[l]

\* A round of the radio ends by its timeout, and the ranging thread has the
\* processor when the UAVCAN thread sleeps, as it does in every turn.  Requests
\* come slower than they are served, so uavcan_update returns and the wait of a
\* handler ends.
Fairness == /\ WF_vars(UavcanStep /\ (NeedsTurn => Yields))
            /\ WF_vars(RangingStep) /\ SF_vars(UpdateEnds)

Spec == Init /\ [][Next]_vars /\ Fairness
----------------------------------------------------------------------------
Outside == {"boot", "loop", "init_acquire", "acquire", "sleep", "send"}
Inside(t) == at[t] \notin Outside

UavcanPlaces ==
    {"boot", "loop", "init_acquire", "init", "init_release", "acquire", "update", "release",
     "sleep", "gs_acquire", "gs_set", "gs_make", "gs_lock", "gs_send", "gs_release",
     "gs_unlock", "gs_done", "op_acquire", "op_do", "op_unlock", "op_lock", "op_send",
     "op_release", "op_done"}
RangingPlaces == {"sleep", "send", "acquire", "radio", "log", "release"}

Settings == [Params -> Values]
Request == [op: {None, "getset", "save", "erase", "other"}, param: Params \cup {None},
            arg: Values \cup {None, OtherType}, ok: BOOLEAN]

TypeOK ==
    /\ role \in Roles
    /\ at \in [Threads -> UavcanPlaces \cup RangingPlaces]
    /\ at["uavcan"] \in UavcanPlaces /\ at["ranging"] \in RangingPlaces
    /\ owner \in [Locks -> Threads \cup {None}]
    /\ depth \in [Locks -> 0..2] /\ waits \in [Locks -> SUBSET Threads]
    /\ inited \in BOOLEAN /\ doomed \in BOOLEAN
    /\ request \in Request
    /\ value \in Settings /\ flash \in Settings /\ saved \subseteq Settings

\* The UAVCAN library is never entered by both threads: whoever is in it, or in
\* a ranging round, has its lock, through all handlers that take it again.
LibraryGuarded == \A t \in Threads : Inside(t) => owner["uavcan"] = t

\* What is taken is let go of as often, on every path through the handlers: a
\* thread outside has no lock it has not just been handed, and between two
\* requests the parameters are free.
Balanced ==
    /\ \A t \in Threads, l \in Locks : ~Inside(t) /\ owner[l] = t => t \in waits[l]
    /\ at["uavcan"] = "update" => owner["param"] = None /\ depth["uavcan"] = 1

\* After any reset the parameters are those of the last save that was confirmed,
\* unless a later operation was not: no answer is given before the storage has
\* succeeded, and nothing is served before it was read back.
SavedSurvive == [][ParamInit => \A s \in saved : value' = s]_vars


\* Every request for a parameter comes to its end, with the handler taking the
\* lock of the library again that its thread has already.  This holds whatever loop
\* the other thread runs: a handler is never in a queue.
RequestEnds == request.op # None ~> request.op = None
=============================================================================
