--------------------------- MODULE UavcanNodeProofs ---------------------------
(***************************************************************************)
(* What restarts and update requests leave to the bootloader, for any      *)
(* number of resets, any nesting of handlers and any set of peers, ids and *)
(* rates.  Only the innermost handler matters: none returns, so the ones   *)
(* further out are gone with the reset.                                    *)
(***************************************************************************)
EXTENDS UavcanNode, SequenceTheorems, TLAPS

Nested == stack # <<>>
Top == Head(stack)

\* Before the loop nothing has happened yet.
StartInv ==
    /\ at # "loop" => ~Nested /\ promise = NoPromise /\ inits = 0 /\ ~running /\ ~confirmed
    /\ running => inits = 0
    /\ ~Nested => promise.kind = "none"

\* The innermost handler made the last promise, unless it is an update that is
\* not answered yet, and the message it wrote is the one in shared memory.
TopInv ==
    Nested =>
        /\ nodeId # 0 /\ ~running
        /\ Top.op = "restart" => Top.step # "answer" /\ promise.kind = "restart"
        /\ Top.op = "update" =>
              /\ mailbox.kind = "update" /\ mailbox.src = Top.src /\ mailbox.node = nodeId
              /\ Top.step # "answer" => promise = [kind |-> "update", src |-> Top.src]
        /\ Top.op = "restart" /\ Top.step = "reset" =>
              mailbox.kind = "canbus_info" /\ mailbox.node = nodeId

\* A message, or what became of it, still tells where the node left off.
Tells(m) == /\ came.node # 0 => m.kind # "none" /\ m.node = came.node
            /\ came.rate # 0 => m.kind # "none" /\ m.baud = came.rate

CameInv ==
    /\ at \in {"boot", "start", "clear"} => Tells(IF at = "clear" THEN shared ELSE mailbox)
    /\ at = "begin" => Tells(shared)
    /\ at = "loop" => /\ came.node # 0 => shared.kind # "none" /\ shared.node = came.node
                      /\ came.rate # 0 => rate = came.rate /\ inits > 0
    /\ inits > 0 /\ came.node # 0 => nodeId = came.node

IInv == TypeOK /\ StartInv /\ TopInv /\ CameInv

\* A rate in the message the node took is the one it runs at.  Unless a handler
\* left a rate it never set, every valid rate in a message is that of the bus, and
\* so is the rate CAN runs at.
RateInv ==
    /\ confirmed \/ Nested => inits > 0 /\ rate = BusRate
    /\ at = "loop" /\ shared.baud \in ValidRates => rate = shared.baud /\ ~running
    /\ shared.kind = "none" => shared.baud = 0
    /\ mailbox.kind = "none" => mailbox.baud = 0
    /\ ~garbled =>
          /\ inits > 0 => rate = BusRate
          /\ mailbox.baud \in ValidRates => mailbox.baud = BusRate
          /\ shared.baud \in ValidRates => shared.baud = BusRate
----------------------------------------------------------------------------
(* The stack of handlers *)

LEMMA PushTop ==
    ASSUME NEW s \in Seq(Handler), NEW h \in Handler
    PROVE  /\ <<h>> \o s \in Seq(Handler) /\ Len(<<h>> \o s) = Len(s) + 1
           /\ <<h>> \o s # <<>> /\ Head(<<h>> \o s) = h
<1>1. <<h>> \in Seq(Handler) /\ Len(<<h>>) = 1 /\ <<h>>[1] = h OBVIOUS
<1>2. Len(s) \in Nat OBVIOUS
<1>3. /\ <<h>> \o s \in Seq(Handler) /\ Len(<<h>> \o s) = Len(s) + 1
      /\ (<<h>> \o s)[1] = h
  BY <1>1, <1>2, ConcatProperties
<1>4. Head(<<h>> \o s) = (<<h>> \o s)[1] BY <1>3
<1> QED BY <1>2, <1>3, <1>4

LEMMA StepTop ==
    ASSUME NEW s \in Seq(Handler), s # <<>>, NEW h \in Handler
    PROVE  /\ <<h>> \o Tail(s) \in Seq(Handler) /\ Len(<<h>> \o Tail(s)) = Len(s)
           /\ <<h>> \o Tail(s) # <<>> /\ Head(<<h>> \o Tail(s)) = h
<1>1. Tail(s) \in Seq(Handler) /\ Len(Tail(s)) = Len(s) - 1 BY HeadTailProperties
<1>2. Len(s) \in Nat OBVIOUS
<1> QED BY <1>1, <1>2, PushTop
----------------------------------------------------------------------------
(* Types *)

LEMMA TypeInit == Init => TypeOK
<1> SUFFICES ASSUME Init PROVE TypeOK OBVIOUS
<1>1. mailbox \in Message /\ shared \in Message BY DEF Init, NoMsg, Msg, Message, Kinds
<1>2. stack \in Seq(Handler) /\ Len(stack) <= MaxDepth
  BY NodeAssumption, EmptySeq DEF Init
<1>3. /\ promise \in [kind: {"none", "restart", "update"}, src: 0..127]
      /\ came \in [rate: ValidRates \cup {0}, node: NodeIds \cup {0}]
  BY DEF Init, NoPromise, Nowhere
<1>4. running \in BOOLEAN /\ confirmed \in BOOLEAN /\ garbled \in BOOLEAN BY Zenon DEF Init
<1>5. /\ resets \in Nat /\ inits \in 0..1 /\ rate \in ValidRates \cup {0}
      /\ nodeId \in NodeIds \cup {0} /\ at \in {"boot", "start", "clear", "begin", "loop"}
  BY DEF Init
<1> QED BY <1>1, <1>2, <1>3, <1>4, <1>5, Zenon DEF TypeOK

\* A message of the app has the CAN settings of the node.
LEMMA WriteEffect ==
    ASSUME TypeOK, NEW kind \in Kinds, NEW src \in 0..127, Write(kind, src)
    PROVE  /\ mailbox' \in Message
           /\ mailbox'.kind = kind /\ mailbox'.src = src /\ mailbox'.node = nodeId
           /\ garbled' \in BOOLEAN
<1>1. PICK baud \in FillRates : mailbox' = Msg(kind, baud, nodeId, src) BY DEF Write
<1>2. baud \in ValidRates \cup {0, Garbage} BY <1>1 DEF FillRates, TypeOK
<1>3. garbled' \in BOOLEAN BY Zenon DEF Write
<1> QED BY <1>1, <1>2, <1>3 DEF Msg, Message, TypeOK

LEMMA SourceType ==
    ASSUME NEW remote \in Peers, NEW src \in Peers \cup {0, 128}
    PROVE  Source(src, remote) \in 0..127
BY DEF Source

LEMMA RestartedTypes ==
    ASSUME TypeOK, Restarted, mailbox' \in Message, garbled' \in BOOLEAN,
           came' \in [rate: ValidRates \cup {0}, node: NodeIds \cup {0}]
    PROVE  TypeOK'
<1>1. shared' \in Message BY DEF Restarted, NoMsg, Msg, Message, Kinds
<1>2. running' \in BOOLEAN /\ confirmed' \in BOOLEAN BY Zenon DEF Restarted
<1>3. at' = "boot" /\ rate' = 0 /\ inits' = 0 /\ nodeId' = 0 /\ resets' = resets + 1
  BY DEF Restarted
<1>4. stack' \in Seq(Handler) /\ Len(stack') <= MaxDepth
  <2>1. <<>> \in Seq(Handler) /\ Len(<<>>) = 0 BY EmptySeq
  <2> QED BY <2>1, NodeAssumption DEF Restarted
<1>5. promise' \in [kind: {"none", "restart", "update"}, src: 0..127]
  BY DEF Restarted, NoPromise
<1>6. resets' \in Nat /\ inits' \in 0..1 /\ rate' \in ValidRates \cup {0}
  BY <1>3 DEF TypeOK
<1>7. at' \in {"boot", "start", "clear", "begin", "loop"} /\ nodeId' \in NodeIds \cup {0}
  BY <1>3
<1> QED BY <1>1, <1>2, <1>4, <1>5, <1>6, <1>7, Zenon DEF TypeOK

LEMMA TypeStep ==
    ASSUME TypeOK, StartInv, [Next]_vars
    PROVE  TypeOK'
<1> USE DEF TypeOK
<1>1. NoMsg \in Message BY DEF NoMsg, Msg, Message, Kinds
<1>2. CASE UNCHANGED vars \/ Idle
  <2>1. UNCHANGED <<mailbox, at, shared, rate, inits, nodeId, stack, promise, came, resets>>
    BY <1>2 DEF vars, volatile, Idle
  <2>2. UNCHANGED <<running, confirmed, garbled>> BY <1>2 DEF vars, volatile, Idle
  <2> QED BY <2>1, <2>2
<1>3. CASE Bootloader
  <2>1. \A baud \in {0, BusRate}, node \in NodeIds \cup {0} :
            Msg("boot_info", IF mailbox.baud \in ValidRates THEN mailbox.baud ELSE baud,
                IF mailbox.node # 0 THEN mailbox.node ELSE node, 0) \in Message
    BY NodeAssumption DEF Msg, Message, Kinds
  <2>2. mailbox' \in Message BY <1>1, <1>3, <2>1, Zenon DEF Bootloader
  <2> QED BY <1>3, <2>2 DEF Bootloader
<1>4. CASE ExternalReset
  <2>1. came' \in [rate: ValidRates \cup {0}, node: NodeIds \cup {0}]
    BY <1>4 DEF ExternalReset, Nowhere
  <2>2. mailbox' \in Message /\ Restarted BY <1>1, <1>4 DEF ExternalReset
  <2>3. garbled' \in BOOLEAN BY <1>4, Zenon DEF ExternalReset
  <2> HIDE DEF TypeOK
  <2> QED BY <2>1, <2>2, <2>3, RestartedTypes
<1>5. CASE RateConfirmed \/ IdAllocated \/ RetrieveShared \/ ClearShared
  <2>1. confirmed' \in BOOLEAN
    BY <1>5, Zenon DEF RateConfirmed, IdAllocated, RetrieveShared, ClearShared
  <2>2. UNCHANGED <<running, garbled>>
    BY <1>5 DEF RateConfirmed, IdAllocated, RetrieveShared, ClearShared
  <2>3. running' \in BOOLEAN /\ garbled' \in BOOLEAN BY <2>2
  <2> QED
    BY <1>1, <1>5, <2>1, <2>3 DEF RateConfirmed, IdAllocated, RetrieveShared, ClearShared
<1>6. ASSUME NEW baud \in ValidRates, BaudrateConfirmed(baud), inits = 0
      PROVE  /\ rate' \in ValidRates /\ inits' \in 0..1 /\ confirmed' \in BOOLEAN
             /\ nodeId' \in NodeIds \cup {0}
  BY <1>6 DEF BaudrateConfirmed, Message
<1>7. CASE BeginAutobaud
  <2> DEFINE baud == IF SharedRateValid THEN shared.baud
                     ELSE IF AppRate \in ValidRates THEN AppRate ELSE DefaultRate
  <2>1. baud \in ValidRates /\ inits = 0
    BY <1>7, NodeAssumption DEF SharedRateValid, BeginAutobaud, StartInv
  <2>2. /\ running' \in BOOLEAN /\ at' = "loop"
        /\ UNCHANGED <<mailbox, shared, stack, promise, came, garbled, resets>>
    BY <1>7 DEF BeginAutobaud
  <2>3. /\ \/ rate' = baud /\ UNCHANGED <<confirmed, inits, nodeId>>
           \/ BaudrateConfirmed(baud)
    BY <1>7 DEF BeginAutobaud
  <2> HIDE DEF baud
  <2> QED BY <1>6, <2>1, <2>2, <2>3
<1>8. CASE UpdateAutobaud
  <2>1. inits = 0 BY <1>8 DEF UpdateAutobaud, StartInv
  <2>2. rate = BusRate => rate \in ValidRates BY NodeAssumption
  <2> QED BY <1>6, <1>8, <2>1, <2>2 DEF UpdateAutobaud
<1>9. CASE RestartRequest
  <2>1. [op |-> "restart", step |-> "wait", src |-> 0] \in Handler BY DEF Handler
  <2>2. stack' \in Seq(Handler) /\ Len(stack') <= MaxDepth
    BY <1>9, <2>1, PushTop, NodeAssumption DEF RestartRequest, Push, CanDispatch
  <2> QED BY <1>9, <2>2 DEF RestartRequest
<1>10. CASE UpdateRequest
  <2>1. PICK id \in 0..127 : Push("update", "answer", id) /\ Write("update", id)
    BY <1>10, SourceType DEF UpdateRequest
  <2>3. [op |-> "update", step |-> "answer", src |-> id] \in Handler
    BY DEF Handler
  <2>4. stack' \in Seq(Handler) /\ Len(stack') <= MaxDepth
    BY <1>10, <2>1, <2>3, PushTop, NodeAssumption DEF UpdateRequest, Push, CanDispatch
  <2>2. "update" \in Kinds BY DEF Kinds
  <2>5. mailbox' \in Message /\ garbled' \in BOOLEAN BY <2>1, <2>2, WriteEffect
  <2> QED BY <1>10, <2>4, <2>5 DEF UpdateRequest
<1>11. ASSUME Nested, NEW to \in {"wait", "reset"}, Step(to)
       PROVE  stack' \in Seq(Handler) /\ Len(stack') <= MaxDepth
  <2>1. Top \in Handler BY <1>11, HeadTailProperties DEF Nested, Top
  <2>2. [Top EXCEPT !.step = to] \in Handler BY <2>1 DEF Handler
  <2> QED BY <1>11, <2>2, StepTop DEF Step, Nested, Top
<1>12. CASE AnswerUpdate
  <2>1. Nested /\ Step("wait") BY <1>12 DEF AnswerUpdate, TopAt, Nested
  <2>2. Top \in Handler BY <2>1, HeadTailProperties DEF Nested, Top
  <2>3. promise' \in [kind: {"none", "restart", "update"}, src: 0..127]
    BY <1>12, <2>2 DEF AnswerUpdate, Top, Handler
  <2> QED BY <1>11, <1>12, <2>1, <2>3 DEF AnswerUpdate
<1>13. CASE RestartWaited
  <2>1. Nested /\ Step("reset") BY <1>13 DEF RestartWaited, TopAt, Nested
  <2>2. mailbox' \in Message /\ garbled' \in BOOLEAN
    BY <1>13, WriteEffect DEF RestartWaited, Kinds
  <2> QED BY <1>11, <1>13, <2>1, <2>2 DEF RestartWaited
<1>14. CASE UpdateWaited
  <2>1. Nested /\ Step("reset") BY <1>14 DEF UpdateWaited, TopAt, Nested
  <2> QED BY <1>11, <1>14, <2>1 DEF UpdateWaited
<1>15. CASE SystemReset
  <2>1. came' \in [rate: ValidRates \cup {0}, node: NodeIds \cup {0}]
    BY <1>15 DEF SystemReset
  <2>2. Restarted /\ mailbox' \in Message /\ garbled' \in BOOLEAN BY <1>15 DEF SystemReset
  <2> HIDE DEF TypeOK
  <2> QED BY <2>1, <2>2, RestartedTypes
<1> QED
  BY <1>2, <1>3, <1>4, <1>5, <1>7, <1>8, <1>9, <1>10, <1>12, <1>13, <1>14, <1>15
     DEF Next, ThreadStart, Requests, HandlerStep
----------------------------------------------------------------------------
(* The start and the handlers *)

\* What a dispatched request finds, and a handler that takes its next step.
LEMMA PushEffect ==
    ASSUME TypeOK, NEW op \in {"restart", "update"}, NEW step \in {"wait", "answer"},
           NEW src \in 0..127, Push(op, step, src)
    PROVE  Nested' /\ Top'.op = op /\ Top'.step = step /\ Top'.src = src
<1>1. [op |-> op, step |-> step, src |-> src] \in Handler BY DEF Handler
<1> QED BY <1>1, PushTop DEF Push, TypeOK, Nested, Top

LEMMA StepEffect ==
    ASSUME TypeOK, Nested, NEW to \in {"wait", "reset"}, Step(to)
    PROVE  Nested' /\ Top'.op = Top.op /\ Top'.step = to /\ Top'.src = Top.src
<1>1. Top \in Handler BY HeadTailProperties DEF Nested, Top, TypeOK
<1>2. [Top EXCEPT !.step = to] \in Handler BY <1>1 DEF Handler
<1>3. Nested' /\ Top' = [Top EXCEPT !.step = to]
  BY <1>2, StepTop DEF Step, Nested, Top, TypeOK
<1> QED BY <1>1, <1>3 DEF Handler

LEMMA StartStep ==
    ASSUME TypeOK, StartInv, [Next]_vars
    PROVE  StartInv'
<1> USE DEF StartInv
<1>1. CASE UNCHANGED vars \/ Idle
  BY <1>1 DEF vars, volatile, Idle, Nested
<1>2. CASE Bootloader \/ RetrieveShared \/ ClearShared
  BY <1>2 DEF Bootloader, RetrieveShared, ClearShared, Nested
<1>3. CASE ExternalReset \/ SystemReset
  BY <1>3 DEF ExternalReset, SystemReset, Restarted, Nested, NoPromise
<1>4. CASE RateConfirmed \/ IdAllocated
  BY <1>4 DEF RateConfirmed, IdAllocated, Nested, TypeOK
<1>5. CASE BeginAutobaud
  BY <1>5 DEF BeginAutobaud, Nested, NoPromise
<1>6. CASE UpdateAutobaud
  BY <1>6 DEF UpdateAutobaud, Nested
<1>7. CASE RestartRequest
  <2>1. Nested' BY <1>7, PushEffect DEF RestartRequest
  <2> QED BY <1>7, <2>1 DEF RestartRequest, CanDispatch
<1>8. CASE UpdateRequest
  <2>1. Nested' BY <1>8, PushEffect, SourceType DEF UpdateRequest
  <2> QED BY <1>8, <2>1 DEF UpdateRequest, CanDispatch
<1>9. CASE AnswerUpdate \/ RestartWaited \/ UpdateWaited
  <2>1. Nested /\ Nested'
    BY <1>9, StepEffect DEF AnswerUpdate, RestartWaited, UpdateWaited, TopAt, Nested
  <2> QED BY <1>9, <2>1 DEF AnswerUpdate, RestartWaited, UpdateWaited
<1> QED
  BY <1>1, <1>2, <1>3, <1>4, <1>5, <1>6, <1>7, <1>8, <1>9
     DEF Next, ThreadStart, Requests, HandlerStep

LEMMA TopStep ==
    ASSUME TypeOK, StartInv, TopInv, [Next]_vars
    PROVE  TopInv'
<1>1. CASE UNCHANGED vars \/ Idle
  BY <1>1 DEF vars, volatile, Idle, TopInv, Nested, Top
<1>2. CASE Bootloader \/ RetrieveShared \/ ClearShared \/ BeginAutobaud \/ UpdateAutobaud
  <2>1. ~Nested /\ stack' = stack
    BY <1>2 DEF Bootloader, RetrieveShared, ClearShared, BeginAutobaud, UpdateAutobaud,
                StartInv, Nested
  <2> QED BY <2>1 DEF TopInv, Nested
<1>3. CASE ExternalReset \/ SystemReset
  BY <1>3 DEF ExternalReset, SystemReset, Restarted, TopInv, Nested
<1>4. CASE RateConfirmed
  BY <1>4 DEF RateConfirmed, TopInv, Nested, Top
<1>5. CASE IdAllocated
  BY <1>5 DEF IdAllocated, TopInv, Nested, Top
<1>6. CASE RestartRequest
  <2>1. Nested' /\ Top'.op = "restart" /\ Top'.step = "wait"
    BY <1>6, PushEffect DEF RestartRequest
  <2>2. nodeId # 0 /\ nodeId' = nodeId /\ ~running /\ ~running' /\ promise'.kind = "restart"
    BY <1>6 DEF RestartRequest, CanDispatch, StartInv, TypeOK
  <2> QED BY <2>1, <2>2 DEF TopInv
<1>7. CASE UpdateRequest
  <2>1. PICK id \in 0..127 : Push("update", "answer", id) /\ Write("update", id)
    BY <1>7, SourceType DEF UpdateRequest
  <2>2. Nested' /\ Top'.op = "update" /\ Top'.step = "answer" /\ Top'.src = id
    BY <2>1, PushEffect
  <2>3. mailbox'.kind = "update" /\ mailbox'.src = id /\ mailbox'.node = nodeId
    BY <2>1, WriteEffect DEF Kinds
  <2>4. nodeId # 0 /\ nodeId' = nodeId /\ ~running /\ ~running'
    BY <1>7 DEF UpdateRequest, CanDispatch, StartInv, TypeOK
  <2> QED BY <2>2, <2>3, <2>4 DEF TopInv
<1>8. CASE AnswerUpdate
  <2>1. Nested /\ Top.op = "update" /\ Step("wait")
    BY <1>8 DEF AnswerUpdate, TopAt, Nested, Top
  <2>2. Nested' /\ Top'.op = "update" /\ Top'.step = "wait" /\ Top'.src = Top.src
    BY <2>1, StepEffect
  <2>3. /\ promise' = [kind |-> "update", src |-> Top.src]
        /\ UNCHANGED <<mailbox, nodeId, running>>
    BY <1>8 DEF AnswerUpdate, Top
  <2> QED BY <2>1, <2>2, <2>3 DEF TopInv
<1>9. CASE RestartWaited
  <2>1. Nested /\ Top.op = "restart" /\ Step("reset")
    BY <1>9 DEF RestartWaited, TopAt, Nested, Top
  <2>2. Nested' /\ Top'.op = "restart" /\ Top'.step = "reset"
    BY <2>1, StepEffect
  <2>3. mailbox'.kind = "canbus_info" /\ mailbox'.node = nodeId
    BY <1>9, WriteEffect DEF RestartWaited, Kinds
  <2>4. UNCHANGED <<promise, nodeId, running>> BY <1>9 DEF RestartWaited
  <2> QED BY <2>1, <2>2, <2>3, <2>4 DEF TopInv
<1>10. CASE UpdateWaited
  <2>1. Nested /\ Top.op = "update" /\ Top.step = "wait" /\ Step("reset")
    BY <1>10 DEF UpdateWaited, TopAt, Nested, Top
  <2>2. Nested' /\ Top'.op = "update" /\ Top'.src = Top.src
    BY <2>1, StepEffect
  <2>3. UNCHANGED <<mailbox, promise, nodeId, running>> BY <1>10 DEF UpdateWaited
  <2> QED BY <2>1, <2>2, <2>3 DEF TopInv
<1> QED
  BY <1>1, <1>2, <1>3, <1>4, <1>5, <1>6, <1>7, <1>8, <1>9, <1>10
     DEF Next, ThreadStart, Requests, HandlerStep
----------------------------------------------------------------------------
(* Coming back *)

LEMMA CameStep ==
    ASSUME TypeOK, StartInv, TopInv, CameInv, [Next]_vars
    PROVE  CameInv'
<1>1. CASE UNCHANGED vars \/ Idle
  BY <1>1 DEF vars, volatile, Idle, CameInv, Tells
<1>2. CASE Bootloader
  <2>1. /\ at = "boot" /\ at' = "start" /\ inits = 0 /\ Tells(mailbox)
        /\ UNCHANGED <<came, inits>>
    BY <1>2 DEF Bootloader, StartInv, CameInv
  <2>2. CASE mailbox.kind = "none" /\ mailbox' = NoMsg
    BY <2>1, <2>2 DEF CameInv, Tells
  <2>3. ASSUME NEW baud, NEW node,
               mailbox' = Msg("boot_info",
                              IF mailbox.baud \in ValidRates THEN mailbox.baud ELSE baud,
                              IF mailbox.node # 0 THEN mailbox.node ELSE node, 0)
        PROVE  CameInv'
    <3>1. came.rate # 0 => came.rate \in ValidRates BY DEF TypeOK
    <3> QED BY <2>1, <2>3, <3>1 DEF CameInv, Tells, Msg
  <2> QED BY <1>2, <2>2, <2>3, Zenon DEF Bootloader
<1>3. CASE ExternalReset
  BY <1>3 DEF ExternalReset, Restarted, Nowhere, CameInv, Tells
<1>4. CASE RateConfirmed
  BY <1>4 DEF RateConfirmed, CameInv, Tells
<1>5. CASE IdAllocated
  BY <1>5 DEF IdAllocated, CameInv, Tells
<1>6. CASE RetrieveShared
  BY <1>6 DEF RetrieveShared, CameInv, Tells
<1>7. CASE ClearShared
  BY <1>7 DEF ClearShared, CameInv, Tells
<1>8. CASE BeginAutobaud
  <2>1. /\ at' = "loop" /\ inits = 0 /\ Tells(shared) /\ UNCHANGED <<came, shared>>
    BY <1>8 DEF BeginAutobaud, StartInv, CameInv
  <2>2. came.node # 0 => came.node \in 1..127 BY NodeAssumption DEF TypeOK
  <2>3. came.rate # 0 => SharedRateValid
    BY <2>1 DEF TypeOK, Tells, SharedRateValid
  <2>4. CASE ~SharedRateValid /\ inits' = inits
    BY <2>1, <2>3, <2>4 DEF CameInv, Tells
  <2>5. ASSUME NEW baud, BaudrateConfirmed(baud), SharedRateValid => baud = shared.baud
        PROVE  CameInv'
    BY <2>1, <2>2, <2>3, <2>5 DEF BaudrateConfirmed, CameInv, Tells
  <2> QED BY <1>8, <2>4, <2>5, Zenon DEF BeginAutobaud
<1>9. CASE UpdateAutobaud
  <2>1. /\ at = "loop" /\ inits = 0 /\ came.rate = 0
        /\ UNCHANGED <<at, came, shared>>
    BY <1>9 DEF UpdateAutobaud, StartInv, CameInv
  <2>2. came.node # 0 => came.node \in 1..127 BY NodeAssumption DEF TypeOK
  <2>3. inits' = inits \/ BaudrateConfirmed(rate) BY <1>9 DEF UpdateAutobaud
  <2> QED BY <2>1, <2>2, <2>3 DEF BaudrateConfirmed, CameInv, Tells
<1>10. CASE Requests \/ AnswerUpdate \/ RestartWaited \/ UpdateWaited
  <2>1. at = "loop" \/ Nested
    BY <1>10 DEF Requests, RestartRequest, UpdateRequest, CanDispatch, AnswerUpdate,
                 RestartWaited, UpdateWaited, TopAt, Nested
  <2>2. at = "loop" BY <2>1 DEF StartInv
  <2>3. UNCHANGED <<at, shared, rate, inits, nodeId, came>>
    BY <1>10 DEF Requests, RestartRequest, UpdateRequest, AnswerUpdate, RestartWaited,
                 UpdateWaited
  <2> QED BY <2>2, <2>3 DEF CameInv, Tells
<1>11. CASE SystemReset
  <2>1. Nested /\ Top.step = "reset" BY <1>11 DEF SystemReset, Nested, Top
  <2>4. Top \in Handler BY <2>1, HeadTailProperties DEF Nested, Top, TypeOK
  <2>5. Top.op \in {"restart", "update"} BY <2>4 DEF Handler
  <2>2. mailbox.kind # "none" /\ mailbox.node = nodeId BY <2>1, <2>5 DEF TopInv
  <2>3. /\ at' = "boot" /\ mailbox' = mailbox /\ inits' = 0
        /\ came'.node = nodeId /\ came'.rate = IF mailbox.baud = rate THEN rate ELSE 0
    BY <1>11 DEF SystemReset, Restarted
  <2> QED BY <2>2, <2>3 DEF CameInv, Tells
<1> QED
  BY <1>1, <1>2, <1>3, <1>4, <1>5, <1>6, <1>7, <1>8, <1>9, <1>10, <1>11
     DEF Next, ThreadStart, Requests, HandlerStep

\* No step but a reset changes what was accepted, and whichever node was there
\* before: the invariant of every reachable state.
LEMMA InvInit == Init => IInv
<1> SUFFICES ASSUME Init PROVE IInv OBVIOUS
<1>1. StartInv /\ TopInv BY Zenon DEF Init, StartInv, TopInv, Nested, NoPromise
<1>2. CameInv BY DEF Init, CameInv, Tells, Nowhere
<1> QED BY <1>1, <1>2, TypeInit DEF IInv

THEOREM Invariant == Spec => []IInv
<1>1. IInv /\ [Next]_vars => IInv' BY TypeStep, StartStep, TopStep, CameStep DEF IInv
<1> QED BY InvInit, <1>1, PTL DEF Spec

\* Every variable keeps its type, for any nesting and any number of resets.
THEOREM TypesHold == Spec => []TypeOK
<1>1. IInv => TypeOK BY DEF IInv
<1> QED BY Invariant, <1>1, PTL

\* An update that was answered stays in shared memory, whatever handlers nest and
\* wherever the chip is reset, until a later restart is accepted: the last request
\* wins, and the restart's message takes the place of the update's.
THEOREM KeepsUpdate == Spec => []UpdateKept
<1>1. ASSUME IInv, promise.kind = "update"
      PROVE  /\ mailbox.kind = "update"
             /\ mailbox.src = IF stack # <<>> /\ Head(stack).step = "answer"
                              THEN Head(stack).src ELSE promise.src
  <2>1. Nested BY <1>1 DEF IInv, StartInv
  <2>2. Top \in Handler BY <1>1, <2>1, HeadTailProperties DEF IInv, TypeOK, Nested, Top
  <2>3. Top.op = "update" BY <1>1, <2>1, <2>2 DEF IInv, TopInv, Handler
  <2>4. /\ mailbox.kind = "update" /\ mailbox.src = Top.src
        /\ Top.step # "answer" => promise.src = Top.src
    BY <1>1, <2>1, <2>3 DEF IInv, TopInv
  <2> QED BY <2>1, <2>4 DEF Nested, Top
<1>2. IInv => UpdateKept BY <1>1 DEF UpdateKept
<1> QED BY Invariant, <1>2, PTL

\* Of nested requests, the one accepted last decides what the reset is for.
THEOREM LastDecides == Spec => []LastRequestDecides
<1>1. ASSUME IInv, stack # <<>>, Head(stack).step = "reset"
      PROVE  mailbox.kind = IF promise.kind = "update" THEN "update" ELSE "canbus_info"
  <2>1. Nested /\ Top.step = "reset" BY <1>1 DEF Nested, Top
  <2>2. Top \in Handler BY <1>1, <2>1, HeadTailProperties DEF IInv, TypeOK, Nested, Top
  <2>3. Top.op = "update" \/ Top.op = "restart" BY <2>2 DEF Handler
  <2> QED BY <1>1, <2>1, <2>3 DEF IInv, TopInv
<1>2. IInv => LastRequestDecides BY <1>1 DEF LastRequestDecides
<1> QED BY Invariant, <1>2, PTL

\* A node that resets itself comes back with the id it left with, and with the
\* rate if the message it left has it: without a confirmed rate it may have none.
THEOREM ReturnsToTheBus == Spec => []ComesBack
<1>1. IInv => ComesBack BY DEF IInv, CameInv, ComesBack
<1> QED BY Invariant, <1>1, PTL
----------------------------------------------------------------------------
(* The rate of the bus *)

\* A message written on the bus has its rate, none, or one that was never set.
LEMMA WriteRate ==
    ASSUME TypeOK, RateInv, at = "loop", rate = BusRate, NEW kind \in Kinds \ {"none"},
           NEW src, Write(kind, src)
    PROVE  /\ mailbox'.kind # "none"
           /\ ~garbled' => /\ mailbox'.baud \in ValidRates => mailbox'.baud = BusRate
                           /\ shared.baud \in ValidRates => shared.baud = BusRate
<1>1. PICK baud \in FillRates : mailbox' = Msg(kind, baud, nodeId, src) BY DEF Write
<1>2. mailbox'.kind = kind /\ mailbox'.baud = baud BY <1>1 DEF Msg
<1>3. shared.baud \in ValidRates => shared.baud = BusRate BY DEF RateInv
<1>4. ASSUME ~garbled' PROVE baud \in {BusRate, 0}
  <2>1. confirmed \/ ~SharedRateValid BY <1>4, Zenon DEF Write
  <2> QED BY <1>1, <2>1 DEF FillRates
<1>5. 0 \notin ValidRates BY NodeAssumption
<1> QED BY <1>2, <1>3, <1>4, <1>5

LEMMA RateStep ==
    ASSUME Autobaud, TypeOK, StartInv, RateInv, [Next]_vars
    PROVE  RateInv'
<1>0. NoMsg.baud = 0 /\ NoMsg.kind = "none" /\ 0 \notin ValidRates
  BY NodeAssumption DEF NoMsg, Msg
<1>1. CASE UNCHANGED vars \/ Idle
  BY <1>1 DEF vars, volatile, Idle, RateInv, Nested
<1>2. CASE Bootloader
  <2>1. /\ mailbox'.baud \in ValidRates => mailbox'.baud = BusRate \/ mailbox'.baud = mailbox.baud
        /\ mailbox'.kind = "none" => mailbox'.baud = 0
    <3>1. CASE mailbox' = NoMsg BY <1>0, <3>1
    <3>2. ASSUME NEW baud \in {0, BusRate}, NEW node,
                 mailbox' = Msg("boot_info",
                                IF mailbox.baud \in ValidRates THEN mailbox.baud ELSE baud,
                                IF mailbox.node # 0 THEN mailbox.node ELSE node, 0)
          PROVE  /\ mailbox'.baud \in {0, BusRate, mailbox.baud}
                 /\ mailbox'.kind = "boot_info"
      BY <3>2 DEF Msg
    <3> QED BY <1>0, <1>2, <3>1, <3>2 DEF Bootloader
  <2>2. at' = "start" /\ UNCHANGED <<shared, rate, confirmed, inits, stack, garbled>>
    BY <1>2 DEF Bootloader
  <2> QED BY <2>1, <2>2 DEF RateInv, Nested
<1>3. CASE ExternalReset \/ SystemReset
  <2>1. \/ mailbox' = NoMsg
        \/ mailbox' = mailbox /\ (~garbled' => ~garbled)
    BY <1>3 DEF ExternalReset, SystemReset
  <2>2. at' = "boot" /\ shared' = NoMsg /\ inits' = 0 /\ ~confirmed' /\ ~Nested'
    BY <1>3 DEF ExternalReset, SystemReset, Restarted, Nested
  <2> QED BY <1>0, <2>1, <2>2 DEF RateInv
<1>4. CASE RateConfirmed
  BY <1>4 DEF RateConfirmed, RateInv, Nested, TypeOK
<1>5. CASE IdAllocated
  BY <1>5 DEF IdAllocated, RateInv, Nested
<1>6. CASE RetrieveShared \/ ClearShared
  <2>2. at' # "loop" /\ UNCHANGED <<rate, confirmed, inits, stack, garbled>>
    BY <1>6 DEF RetrieveShared, ClearShared
  <2>3. \/ mailbox' = mailbox /\ shared' = mailbox
        \/ mailbox' = NoMsg /\ shared' = shared
    BY <1>6 DEF RetrieveShared, ClearShared
  <2>4. Nested' = Nested BY <2>2 DEF Nested
  <2> QED BY <1>0, <2>2, <2>3, <2>4 DEF RateInv
<1>7. CASE BeginAutobaud
  <2>1. inits = 0 /\ ~confirmed /\ ~Nested /\ ~running BY <1>7 DEF BeginAutobaud, StartInv
  <2>2. UNCHANGED <<mailbox, shared, stack, confirmed, garbled>>
    BY <1>7 DEF BeginAutobaud, BaudrateConfirmed
  <2>3. CASE SharedRateValid /\ BaudrateConfirmed(shared.baud) /\ running' = running
    BY <2>1, <2>2, <2>3 DEF SharedRateValid, BaudrateConfirmed, RateInv, Nested
  <2>4. CASE ~SharedRateValid /\ inits' = inits
    <3>1. shared.baud \notin ValidRates BY <1>0, <2>4 DEF SharedRateValid, RateInv
    <3> QED BY <2>1, <2>2, <2>4, <3>1 DEF RateInv, Nested
  <2> QED BY <1>7, <2>3, <2>4, Zenon DEF BeginAutobaud
<1>8. CASE UpdateAutobaud
  <2>1. inits = 0 /\ ~confirmed /\ ~Nested /\ running /\ at = "loop"
    BY <1>8 DEF UpdateAutobaud, StartInv, RateInv, Nested
  <2>2. UNCHANGED <<mailbox, shared, stack, confirmed, garbled>>
    BY <1>8 DEF UpdateAutobaud, BaudrateConfirmed
  <2>3. inits' = inits \/ rate' = BusRate BY <1>8 DEF UpdateAutobaud, BaudrateConfirmed
  <2>4. shared.baud \notin ValidRates BY <2>1 DEF RateInv
  <2> QED BY <2>1, <2>2, <2>3, <2>4 DEF RateInv, Nested
<1>9. CASE RestartRequest
  BY <1>9 DEF RestartRequest, CanDispatch, RateInv
<1>11. CASE UpdateRequest
  <2>1. PICK src : Write("update", src) BY <1>11 DEF UpdateRequest
  <2>2. /\ at = "loop" /\ inits > 0 /\ rate = BusRate
        /\ UNCHANGED <<at, shared, rate, running, confirmed, inits>>
    BY <1>11 DEF UpdateRequest, CanDispatch
  <2>3. /\ mailbox'.kind # "none"
        /\ ~garbled' => /\ mailbox'.baud \in ValidRates => mailbox'.baud = BusRate
                        /\ shared.baud \in ValidRates => shared.baud = BusRate
    BY <2>1, <2>2, WriteRate DEF Kinds
  <2> QED BY <2>2, <2>3 DEF RateInv
<1>12. CASE RestartWaited
  <2>1. Write("canbus_info", 0) /\ Nested BY <1>12 DEF RestartWaited, TopAt, Nested
  <2>2. /\ at = "loop" /\ inits > 0 /\ rate = BusRate
        /\ UNCHANGED <<at, shared, rate, running, confirmed, inits>>
    BY <1>12, <2>1 DEF RestartWaited, StartInv, RateInv
  <2>3. /\ mailbox'.kind # "none"
        /\ ~garbled' => /\ mailbox'.baud \in ValidRates => mailbox'.baud = BusRate
                        /\ shared.baud \in ValidRates => shared.baud = BusRate
    BY <2>1, <2>2, WriteRate DEF Kinds
  <2> QED BY <2>2, <2>3 DEF RateInv
<1>13. CASE AnswerUpdate \/ UpdateWaited
  BY <1>13 DEF AnswerUpdate, UpdateWaited, TopAt, RateInv, Nested
<1> QED
  BY <1>1, <1>2, <1>3, <1>4, <1>5, <1>6, <1>7, <1>8, <1>9, <1>11, <1>12, <1>13
     DEF Next, ThreadStart, Requests, HandlerStep

\* With autobaud on, CAN runs at the rate of the bus, except in a start for which
\* the node left a rate it never set: one that followed a request handled before
\* the rate was confirmed.  No other order of messages, resets and trials of
\* autobaud brings a wrong rate up, and no such rate is passed on to a later start.
THEOREM RunsAtTheBusRate == Spec => []RightRate
<1>1. Init => RateInv
  <2> SUFFICES ASSUME Init PROVE RateInv OBVIOUS
  <2>1. mailbox.baud = 0 /\ shared.baud = 0 /\ at # "loop" BY DEF Init, NoMsg, Msg
  <2>2. ~confirmed /\ ~Nested BY Zenon DEF Init, Nested
  <2>3. ~(inits > 0) BY DEF Init
  <2> QED BY <2>1, <2>2, <2>3, NodeAssumption DEF RateInv
<1>2. CASE Autobaud
  <2>1. IInv /\ RateInv /\ [Next]_vars => RateInv' BY <1>2, RateStep DEF IInv
  <2>2. RateInv => RightRate BY DEF RateInv, RightRate
  <2> QED BY Invariant, <1>1, <2>1, <2>2, PTL DEF Spec
<1>3. CASE ~Autobaud
  <2>1. RightRate BY <1>3 DEF RightRate
  <2> QED BY <2>1, PTL
<1> QED BY <1>2, <1>3
=============================================================================
