-------------------------- MODULE NodeThreadsProofs --------------------------
(***************************************************************************)
(* What the locks of a node guarantee for any set of parameters and values *)
(* and any order of requests, periods, frames and resets.  IInv says what  *)
(* each thread has at each place, how often, and who queues for it.        *)
(***************************************************************************)
EXTENDS NodeThreads, TLAPS

\* Where the UAVCAN thread has the parameters, and its own lock twice.
HasParams == {"gs_set", "gs_make", "gs_lock", "gs_send", "gs_release", "gs_unlock",
              "op_do", "op_unlock"}
Twice == {"gs_send", "gs_release", "op_send", "op_release"}
Queues == {"init_acquire", "acquire"}

\* Whoever is inside has the lock of the library and does not queue for it; a
\* thread that has it outside was handed it in the queue.
LibraryLock ==
    /\ \A t \in Threads : Inside(t) => owner["uavcan"] = t /\ t \notin waits["uavcan"]
    /\ \A t \in Threads : ~Inside(t) /\ owner["uavcan"] = t => t \in waits["uavcan"]
    /\ \A t \in waits["uavcan"] : at[t] \in Queues
    /\ depth["uavcan"] = IF owner["uavcan"] = None THEN 0
                         ELSE IF at["uavcan"] \in Twice THEN 2 ELSE 1

\* Only the UAVCAN thread takes the lock of the parameters, and never twice.
ParamLock ==
    /\ waits["param"] = {}
    /\ owner["param"] = IF at["uavcan"] \in HasParams THEN "uavcan" ELSE None
    /\ depth["param"] = IF at["uavcan"] \in HasParams THEN 1 ELSE 0

\* Which request a place belongs to.
RequestInv ==
    /\ at["uavcan"] = "gs_make" => request.param # None
    /\ at["uavcan"] \in {"op_acquire", "op_do"} => request.op \in {"save", "erase", "other"}

\* What was confirmed, or is about to be, is what is stored.
StoredInv ==
    /\ saved \subseteq {flash}
    /\ at["uavcan"] \in {"op_unlock", "op_lock", "op_send"} /\ request.ok =>
           Stored(request.op, TRUE) = {flash}

IInv == TypeOK /\ LibraryLock /\ ParamLock /\ RequestInv /\ StoredInv
----------------------------------------------------------------------------
(* The locks *)

\* Taking the lock of the library from outside, at once, after the hand-over,
\* or not yet.
LEMMA AcquireOutside ==
    ASSUME TypeOK, LibraryLock, ParamLock, NEW t \in Threads, NEW from \in Queues,
           NEW to, to \notin Outside, to \notin Twice \cup HasParams,
           Acquire(t, "uavcan", from, to)
    PROVE  LibraryLock' /\ ParamLock'
<1> USE DEF TypeOK, Go, Inside, Outside, Threads, Locks, Queues, Twice, HasParams, None
<1>1. CASE at[t] = from /\ owner["uavcan"] \in {None, t} /\ t \notin waits["uavcan"]
  BY <1>1 DEF Acquire, LibraryLock, ParamLock
<1>2. CASE owner["uavcan"] = t /\ t \in waits["uavcan"]
  BY <1>2 DEF Acquire, LibraryLock, ParamLock
<1>3. CASE owner["uavcan"] \notin {None, t} /\ t \notin waits["uavcan"]
  BY <1>3 DEF Acquire, LibraryLock, ParamLock
<1> QED BY <1>1, <1>2, <1>3 DEF Acquire

\* Letting go of the library's lock from its only level, to a place outside.
LEMMA ReleaseOutside ==
    ASSUME TypeOK, LibraryLock, ParamLock, NEW t \in Threads, NEW from, NEW to \in Outside,
           from \notin Outside \cup Twice \cup HasParams, to \notin HasParams,
           Release(t, "uavcan", from, to)
    PROVE  LibraryLock' /\ ParamLock'
<1> USE DEF TypeOK, Go, Inside, Outside, Threads, Locks, Queues, Twice, HasParams, None
<1>1. owner["uavcan"] = t /\ t \notin waits["uavcan"] /\ depth["uavcan"] = 1
  BY DEF Release, LibraryLock
<1>2. PICK w \in Threads \cup {None} :
          /\ owner' = [owner EXCEPT !["uavcan"] = w]
          /\ \/ w \in waits["uavcan"] /\ depth' = depth
             \/ /\ w = None /\ waits["uavcan"] = {}
                /\ depth' = [depth EXCEPT !["uavcan"] = 0]
  BY <1>1 DEF Release
<1>3. CASE w = None
  BY <1>1, <1>2, <1>3 DEF Release, LibraryLock, ParamLock
<1>4. CASE w \in waits["uavcan"] /\ depth' = depth
  BY <1>1, <1>2, <1>4 DEF Release, LibraryLock, ParamLock
<1> QED BY <1>2, <1>3, <1>4

\* A step that leaves the locks alone stays on its side of them.
LEMMA WalkKeeps ==
    ASSUME TypeOK, LibraryLock, ParamLock, NEW t \in Threads, NEW from, NEW to,
           (from \in Outside) <=> (to \in Outside), from \notin Queues,
           (from \in Twice) <=> (to \in Twice),
           t = "uavcan" => ((from \in HasParams) <=> (to \in HasParams)),
           Walk(t, from, to)
    PROVE  LibraryLock' /\ ParamLock'
BY DEF TypeOK, Walk, Go, Inside, locks, LibraryLock, ParamLock, Threads, Locks

\* The handlers take the lock their thread has already, or the parameters.
LEMMA NestedLocks ==
    ASSUME TypeOK, LibraryLock, ParamLock,
           \/ AcquireGetSet \/ AcquireToSend \/ ReleaseSent \/ ReleaseGetSet
           \/ AcquireOpcode \/ ReleaseOpcode \/ AcquireToConfirm \/ ReleaseConfirmed
    PROVE  LibraryLock' /\ ParamLock'
<1> USE DEF TypeOK, Go, Inside, Outside, Threads, Locks, Queues, Twice, HasParams, None,
            LibraryLock, ParamLock
<1>1. CASE AcquireGetSet BY <1>1 DEF AcquireGetSet, Acquire
<1>2. CASE AcquireToSend BY <1>2 DEF AcquireToSend, Acquire
<1>3. CASE ReleaseSent BY <1>3 DEF ReleaseSent, Release
<1>4. CASE ReleaseGetSet BY <1>4 DEF ReleaseGetSet, Release
<1>5. CASE AcquireOpcode BY <1>5 DEF AcquireOpcode, Acquire
<1>6. CASE ReleaseOpcode BY <1>6 DEF ReleaseOpcode, Release
<1>7. CASE AcquireToConfirm BY <1>7 DEF AcquireToConfirm, Acquire
<1>8. CASE ReleaseConfirmed BY <1>8 DEF ReleaseConfirmed, Release
<1> QED BY <1>1, <1>2, <1>3, <1>4, <1>5, <1>6, <1>7, <1>8

LEMMA LocksStep ==
    ASSUME TypeOK, LibraryLock, ParamLock, [Next]_vars
    PROVE  LibraryLock' /\ ParamLock'
<1> USE DEF Outside, Queues, Twice, HasParams, Threads, Dispatch
<1>1. CASE UNCHANGED vars
  BY <1>1 DEF vars, locks, LibraryLock, ParamLock, Inside
<1>2. CASE AcquireInit \/ AcquireUpdate
  BY <1>2, AcquireOutside DEF AcquireInit, AcquireUpdate
<1>3. CASE ReleaseInit \/ ReleaseUpdate
  BY <1>3, ReleaseOutside DEF ReleaseInit, ReleaseUpdate
<1>4. CASE ParamInit \/ FoundRate \/ LoopOn \/ SleepOver
  BY <1>4, WalkKeeps DEF ParamInit, FoundRate, LoopOn, SleepOver
<1>13. CASE UavcanInit \/ Updated
  BY <1>13, WalkKeeps DEF UavcanInit, Updated
<1>5. CASE ResetRequest \/ GetSet \/ Opcode
  BY <1>5, WalkKeeps DEF ResetRequest, GetSet, Opcode
<1>6. CASE NoSuchParam \/ NoSuchType \/ SetParam \/ MakeResponse \/ SendValue \/ GetSetDone
  BY <1>6, WalkKeeps
     DEF NoSuchParam, NoSuchType, SetParam, MakeResponse, SendValue, GetSetDone, EndOfRequest
<1>7. CASE Execute \/ SendOk \/ OpcodeDone
  BY <1>7, WalkKeeps DEF Execute, SendOk, OpcodeDone, EndOfRequest
<1>8. CASE \/ AcquireGetSet \/ AcquireToSend \/ ReleaseSent \/ ReleaseGetSet
           \/ AcquireOpcode \/ ReleaseOpcode \/ AcquireToConfirm \/ ReleaseConfirmed
  BY <1>8, NestedLocks
<1>9. CASE FrameOrPeriod \/ Sent \/ RadioDone \/ Logged
  BY <1>9, WalkKeeps DEF FrameOrPeriod, Sent, RadioDone, Logged
<1>10. CASE AcquireRanging
  BY <1>10, AcquireOutside DEF AcquireRanging
<1>11. CASE ReleaseRanging
  BY <1>11, ReleaseOutside DEF ReleaseRanging
<1>12. CASE Restarted
  BY <1>12 DEF Restarted, LibraryLock, ParamLock, Inside, Locks, None
<1> QED
  BY <1>1, <1>2, <1>3, <1>4, <1>5, <1>6, <1>7, <1>8, <1>9, <1>10, <1>11, <1>12, <1>13
     DEF Next, UavcanStep, UpdateEnds, RangingStep, SystemReset, ExternalReset
----------------------------------------------------------------------------
(* The data *)

LEMMA TypeInit == Init => TypeOK
<1> SUFFICES ASSUME Init PROVE TypeOK OBVIOUS
<1> USE DEF Init, Threads, Locks, UavcanPlaces, RangingPlaces, None
<1>1. at \in [Threads -> UavcanPlaces \cup RangingPlaces]
      /\ at["uavcan"] \in UavcanPlaces /\ at["ranging"] \in RangingPlaces
  OBVIOUS
<1>2. owner \in [Locks -> Threads \cup {None}] /\ depth \in [Locks -> 0..2]
      /\ waits \in [Locks -> SUBSET Threads]
  OBVIOUS
<1>3. request \in Request BY DEF NoRequest, Request
<1>4. value \in Settings /\ flash \in Settings /\ saved \subseteq Settings
  BY ThreadsAssumption DEF Settings
<1> QED BY <1>1, <1>2, <1>3, <1>4 DEF TypeOK

\* What a lock operation of a thread leaves of the types.
LEMMA LockTypes ==
    ASSUME TypeOK, NEW t \in Threads, NEW l \in Locks, NEW from, NEW to,
           Acquire(t, l, from, to) \/ Release(t, l, from, to)
    PROVE  /\ owner' \in [Locks -> Threads \cup {None}] /\ depth' \in [Locks -> Int]
           /\ waits' \in [Locks -> SUBSET Threads]
           /\ at' = [at EXCEPT ![t] = to] \/ at' = [at EXCEPT ![t] = from]
<1> USE DEF TypeOK, Go, None
<1>1. CASE Acquire(t, l, from, to)
  BY <1>1 DEF Acquire
<1>2. CASE Release(t, l, from, to)
  BY <1>2 DEF Release
<1> QED BY <1>1, <1>2

\* The places and the locks.
LEMMA PlacesType ==
    ASSUME TypeOK, [Next]_vars
    PROVE  /\ at' \in [Threads -> UavcanPlaces \cup RangingPlaces]
           /\ at'["uavcan"] \in UavcanPlaces /\ at'["ranging"] \in RangingPlaces
           /\ owner' \in [Locks -> Threads \cup {None}] /\ depth' \in [Locks -> Int]
           /\ waits' \in [Locks -> SUBSET Threads]
<1> USE DEF TypeOK, Threads, UavcanPlaces, RangingPlaces, Dispatch
<1>1. CASE UNCHANGED vars
  BY <1>1 DEF vars, locks
<1>2. CASE \/ AcquireInit \/ AcquireUpdate \/ AcquireGetSet \/ AcquireToSend \/ AcquireOpcode
           \/ AcquireToConfirm \/ AcquireRanging
  BY <1>2, LockTypes DEF Locks, AcquireInit, AcquireUpdate, AcquireGetSet, AcquireToSend,
                         AcquireOpcode, AcquireToConfirm, AcquireRanging
<1>3. CASE \/ ReleaseInit \/ ReleaseUpdate \/ ReleaseSent \/ ReleaseGetSet \/ ReleaseOpcode
           \/ ReleaseConfirmed \/ ReleaseRanging
  BY <1>3, LockTypes DEF Locks, ReleaseInit, ReleaseUpdate, ReleaseSent, ReleaseGetSet,
                         ReleaseOpcode, ReleaseConfirmed, ReleaseRanging
<1>4. ASSUME NEW t \in Threads, NEW from, NEW to, Walk(t, from, to),
             IF t = "uavcan" THEN to \in UavcanPlaces ELSE to \in RangingPlaces
      PROVE  /\ at' \in [Threads -> UavcanPlaces \cup RangingPlaces]
             /\ at'["uavcan"] \in UavcanPlaces /\ at'["ranging"] \in RangingPlaces
             /\ UNCHANGED <<owner, depth, waits>>
  BY <1>4 DEF Walk, Go, locks
<1>5. CASE \/ ParamInit \/ FoundRate \/ UavcanInit \/ LoopOn \/ SleepOver \/ Updated
           \/ ResetRequest
  BY <1>4, <1>5 DEF ParamInit, FoundRate, UavcanInit, LoopOn, SleepOver, Updated, ResetRequest
<1>6. CASE GetSet \/ Opcode
  BY <1>4, <1>6 DEF GetSet, Opcode
<1>7. CASE NoSuchParam \/ NoSuchType \/ SetParam \/ MakeResponse \/ SendValue \/ GetSetDone
  BY <1>4, <1>7 DEF NoSuchParam, NoSuchType, SetParam, MakeResponse, SendValue, GetSetDone,
                     EndOfRequest
<1>8. CASE SendOk
  <2>1. Walk("uavcan", "op_send", "op_release") BY <1>8 DEF SendOk
  <2> QED BY <1>4, <2>1
<1>12. CASE OpcodeDone
  BY <1>4, <1>12 DEF OpcodeDone, EndOfRequest
<1>11. CASE Execute
  <2>1. Walk("uavcan", "op_do", "op_unlock") BY <1>11 DEF Execute
  <2> QED BY <1>4, <2>1
<1>9. CASE FrameOrPeriod \/ Sent \/ RadioDone \/ Logged
  BY <1>4, <1>9 DEF FrameOrPeriod, Sent, RadioDone, Logged
<1>10. CASE Restarted
  BY <1>10 DEF Restarted, None
<1> QED
  BY <1>1, <1>2, <1>3, <1>5, <1>6, <1>7, <1>8, <1>9, <1>10, <1>11, <1>12
     DEF Next, UavcanStep, UpdateEnds, RangingStep, SystemReset, ExternalReset

\* The requests and the parameters.
LEMMA ParamsType ==
    ASSUME TypeOK, RequestInv, [Next]_vars
    PROVE  /\ role' \in Roles /\ inited' \in BOOLEAN /\ doomed' \in BOOLEAN
           /\ request' \in Request
           /\ value' \in Settings /\ flash' \in Settings /\ saved' \subseteq Settings
<1> USE DEF TypeOK, Only, params
<1>1. NoRequest \in Request BY DEF NoRequest, Request
<1>2. [p \in Params |-> Default] \in Settings BY ThreadsAssumption DEF Settings
<1>3. CASE UNCHANGED vars \/ Plain
  BY <1>3 DEF vars, Plain
<1>4. CASE ParamInit \/ UavcanInit \/ ResetRequest
  BY <1>4 DEF ParamInit, UavcanInit, ResetRequest
<1>5. CASE GetSet
  BY <1>5 DEF GetSet, Request
<1>6. CASE Opcode
  BY <1>1, <1>6 DEF Opcode, Request
<1>7. CASE SetParam
  BY <1>7 DEF SetParam, Request, Settings
<1>8. CASE MakeResponse
  <2>1. value[request.param] \in Values BY <1>8 DEF MakeResponse, Walk, Go, RequestInv, Request, Settings
  <2> QED BY <1>8, <2>1 DEF MakeResponse, Request
<1>9. CASE GetSetDone \/ OpcodeDone
  BY <1>1, <1>9 DEF GetSetDone, OpcodeDone, EndOfRequest
<1>10. \A op, ok : Stored(op, ok) \subseteq Settings
  BY <1>2, Zenon DEF Stored
<1>11. CASE Execute
  BY <1>10, <1>11 DEF Execute, Request
<1>12. CASE SendOk
  BY <1>10, <1>12 DEF SendOk
<1>13. CASE Restarted
  BY <1>1, <1>2, <1>13 DEF Restarted
<1> QED
  BY <1>3, <1>4, <1>5, <1>6, <1>7, <1>8, <1>9, <1>11, <1>12, <1>13
     DEF Next, UavcanStep, UpdateEnds, RangingStep, SystemReset, ExternalReset,
         FoundRate, AcquireInit, ReleaseInit, LoopOn, AcquireUpdate, Updated, ReleaseUpdate,
         SleepOver, AcquireGetSet, NoSuchParam, NoSuchType, AcquireToSend, SendValue, ReleaseSent,
         ReleaseGetSet, AcquireOpcode, ReleaseOpcode, AcquireToConfirm, ReleaseConfirmed,
         FrameOrPeriod, Sent, AcquireRanging, RadioDone, Logged, ReleaseRanging
----------------------------------------------------------------------------
(* The theorems *)

\* A step of the ranging thread moves only that thread and changes no data.
LEMMA RangingMoves ==
    ASSUME TypeOK,
           \/ FrameOrPeriod \/ Sent \/ AcquireRanging \/ RadioDone \/ Logged \/ ReleaseRanging
    PROVE  at'["uavcan"] = at["uavcan"] /\ UNCHANGED <<request, value, flash, saved>>
BY DEF TypeOK, Threads, FrameOrPeriod, Sent, AcquireRanging, RadioDone, Logged, ReleaseRanging,
       Acquire, Release, Walk, Go, Plain, Only, params

\* Between Execute and SendOk nothing changes what was done, and a place has a
\* request only through the action that dispatched it.
LEMMA DataStep ==
    ASSUME TypeOK, RequestInv, StoredInv, [Next]_vars
    PROVE  RequestInv' /\ StoredInv'
<1> USE DEF TypeOK, RequestInv, StoredInv, Threads, Walk, Go, Only, params, Dispatch
<1>1. CASE UNCHANGED vars
  BY <1>1 DEF vars, Stored
<1>2. CASE FrameOrPeriod \/ RangingStep
  BY <1>2, RangingMoves DEF RangingStep, Stored
<1>3. CASE \/ FoundRate \/ AcquireInit \/ ReleaseInit \/ LoopOn \/ AcquireUpdate \/ Updated
           \/ ReleaseUpdate \/ SleepOver
  BY <1>3 DEF FoundRate, AcquireInit, ReleaseInit, LoopOn, AcquireUpdate, Updated,
              ReleaseUpdate, SleepOver, Acquire, Release, Plain
<1>4. CASE \/ AcquireGetSet \/ NoSuchParam \/ NoSuchType \/ AcquireToSend \/ SendValue \/ ReleaseSent
           \/ ReleaseGetSet
  BY <1>4 DEF AcquireGetSet, NoSuchParam, NoSuchType, AcquireToSend, SendValue, ReleaseSent,
              ReleaseGetSet,
              Acquire, Release, Plain
<1>5. CASE AcquireOpcode \/ ReleaseOpcode \/ AcquireToConfirm \/ ReleaseConfirmed
  BY <1>5 DEF AcquireOpcode, ReleaseOpcode, AcquireToConfirm, ReleaseConfirmed,
              Acquire, Release, Plain, Stored
<1>6. CASE ParamInit \/ UavcanInit \/ ResetRequest
  BY <1>6 DEF ParamInit, UavcanInit, ResetRequest
<1>7. CASE GetSet \/ SetParam
  BY <1>7 DEF GetSet, SetParam
<1>8. CASE Opcode
  BY <1>8 DEF Opcode, NoRequest
<1>9. CASE MakeResponse \/ GetSetDone \/ OpcodeDone
  BY <1>9 DEF MakeResponse, GetSetDone, OpcodeDone, EndOfRequest
<1>10. CASE Execute
  <2> PICK ok \in BOOLEAN :
        /\ request.op = "other" => ~ok
        /\ Walk("uavcan", "op_do", "op_unlock")
        /\ flash' \in Stored(request.op, ok)
        /\ request' = [request EXCEPT !.ok = ok]
        /\ saved' = IF request.op = "other" THEN saved ELSE {}
        /\ Only(<<inited, doomed, value>>)
    BY <1>10 DEF Execute
  <2>1. request'.ok = ok /\ request'.op = request.op BY DEF Request
  <2>2. CASE request.op = "other" BY <2>1, <2>2 DEF Stored
  <2>3. CASE request.op \in {"save", "erase"} BY <2>1, <2>3 DEF Stored
  <2> QED BY <2>2, <2>3
<1>11. CASE SendOk
  BY <1>11 DEF SendOk
<1>12. CASE Restarted
  BY <1>12 DEF Restarted
<1> QED
  BY <1>1, <1>2, <1>3, <1>4, <1>5, <1>6, <1>7, <1>8, <1>9, <1>10, <1>11, <1>12
     DEF Next, UavcanStep, UpdateEnds, SystemReset, ExternalReset
----------------------------------------------------------------------------
(* The theorems *)

LEMMA InvInit == Init => IInv
<1> SUFFICES ASSUME Init PROVE IInv OBVIOUS
<1>1. TypeOK BY TypeInit
<1>2. LibraryLock /\ ParamLock
  BY DEF Init, LibraryLock, ParamLock, Inside, Outside, Threads, Locks, HasParams, None
<1>3. RequestInv /\ StoredInv BY DEF Init, RequestInv, StoredInv
<1> QED BY <1>1, <1>2, <1>3 DEF IInv

LEMMA InvStep == IInv /\ [Next]_vars => IInv'
<1> SUFFICES ASSUME IInv, [Next]_vars PROVE IInv'
  OBVIOUS
<1>1. LibraryLock' /\ ParamLock' BY LocksStep DEF IInv
<1>2. RequestInv' /\ StoredInv' BY DataStep DEF IInv
<1>3. depth' \in [Locks -> 0..2]
  <2>1. depth' \in [Locks -> Int] BY PlacesType DEF IInv
  <2>2. depth'["uavcan"] \in 0..2 BY <1>1 DEF LibraryLock
  <2>3. depth'["param"] \in 0..2 BY <1>1 DEF ParamLock
  <2> QED BY <2>1, <2>2, <2>3 DEF Locks
<1>4. TypeOK' BY <1>3, PlacesType, ParamsType DEF IInv, TypeOK
<1> QED BY <1>1, <1>2, <1>4 DEF IInv

THEOREM Invariant == Spec => []IInv
BY InvInit, InvStep, PTL DEF Spec

\* Every place, lock, request and parameter stays of its type: no lock is ever
\* taken more than twice.
THEOREM TypesHold == Spec => []TypeOK
<1>1. IInv => TypeOK BY DEF IInv
<1> QED BY <1>1, Invariant, PTL

\* The library is entered by one thread at a time.
THEOREM GuardsLibrary == Spec => []LibraryGuarded
<1>1. IInv => LibraryGuarded BY DEF IInv, LibraryLock, LibraryGuarded
<1> QED BY <1>1, Invariant, PTL

\* Every path lets go of what it took.
THEOREM Balances == Spec => []Balanced
<1>1. IInv => Balanced
  BY DEF IInv, LibraryLock, ParamLock, Balanced, Inside, Outside, Twice, HasParams, Threads,
         Locks, None
<1> QED BY <1>1, Invariant, PTL

\* What was confirmed to be saved is what the next start reads.
THEOREM SavesSurvive == Spec => SavedSurvive
<1>1. IInv /\ [Next]_vars => [ParamInit => \A s \in saved : value' = s]_vars
  BY DEF IInv, StoredInv, ParamInit
<1> QED BY <1>1, Invariant, PTL DEF Spec, SavedSurvive
=============================================================================
