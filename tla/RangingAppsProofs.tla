-------------------------- MODULE RangingAppsProofs --------------------------
(***************************************************************************)
(* The application loops keep the contract the driver does not check, so   *)
(* all that is proved of the driver holds under them; what they rely on    *)
(* for their part holds for every buffer length and any number of frames.  *)
(***************************************************************************)
EXTENDS RangingApps, Dw1000RxQueueProofs

\* Where a loop turns its transceiver off, it is off, or that call is running.
TurnsOff == IF pc = "idle" THEN Off
            ELSE /\ pc \in {"clr_trxoff", "clr_status"}
                 /\ call.op = "disable" /\ call.w4r = FALSE

\* The transmitter never waits for a response and so never receives.
OnlySends == /\ radio.rx = "off" /\ radio.w4r = FALSE
             /\ pc # "idle" => /\ pc \in {"tx_fctrl", "tx_start"}
                              /\ call.op = "transmit" /\ call.w4r = FALSE

PlaceInv == \/ role = "initiator" /\ at \in {"period", "poll", "stamp"}
            \/ role = "responder" /\ at \in {"start", "poll", "reply"}
            \/ role = "receiver" /\ at \in {"start", "poll"}
            \/ role = "transmitter" /\ at = "period"

ContractInv ==
    /\ PlaceInv
    /\ at = "start" => pc = "idle" /\ Off
    /\ role # "transmitter" /\ at \in {"period", "stamp", "reply"} => TurnsOff
    /\ role = "transmitter" => OnlySends

\* A frame can come in, now or once the reply is sent.
Ready == radio.rx = "on" \/ (CanSend(radio) /\ radio.w4r)

\* Every call a polling loop makes leaves the receiver running in the end.
ListenInv ==
    role \in {"responder", "receiver"} /\ at = "poll" =>
        /\ pc = "idle" => Ready
        /\ pc # "idle" => \/ call.op = "receive"
                          \/ call.op = "rx_enable" /\ pc \in {"en_swap", "en_rxenab"}
                          \/ call.op = "scheduled" /\ call.w4r = TRUE
        /\ pc = "tx_check" => radio.hpdwarn \/ Ready

\* The initiator has drained the receiver before its poll, so what it holds
\* and what it takes came after that.
FreshInv ==
    role = "initiator" =>
        /\ mark \in Nat /\ mark <= air
        /\ at = "poll" /\ radio.rx = "on" =>
               /\ HostSet(radio) > 0 => HostSet(radio) > mark
               /\ OtherSet(radio) > 0 => OtherSet(radio) > mark
        /\ at = "poll" /\ pc \in Taken => call.got["time"] > mark
        /\ at \in {"poll", "stamp"} /\ GotFrame => ret.got["time"] > mark
        /\ at = "period" \/ (at = "stamp" /\ pc = "idle") => ~GotFrame

AInv == QInv /\ ~Spoilt /\ ContractInv /\ ListenInv /\ FreshInv
----------------------------------------------------------------------------
(* The contract *)

\* Each step of a loop is one the driver's contract allows.
LEMMA LoopStepsKeepContract ==
    ASSUME ContractInv, AppStep
    PROVE  Next \/ UNCHANGED vars
<1>1. CASE SendPoll
  <2>1. Off /\ \E n \in MsgLens : Transmit("transmit", n, TRUE)
    <3>1. pc = "idle" BY <1>1 DEF SendPoll, Transmit, Begin
    <3> QED BY <1>1, <3>1 DEF SendPoll, App, ContractInv, TurnsOff
  <2>2. Off /\ \E n \in TxLens : Transmit("transmit", n, TRUE) BY <2>1, AppAssumption
  <2> QED BY <2>2, Zenon DEF Next
<1>2. CASE SendReply
  <2>1. pc = "idle" BY <1>2 DEF SendReply, Transmit, Begin
  <2>2. Off /\ Transmit("scheduled", DlyLen, TRUE) /\ DlyLen \in TxLens
    BY <1>2, <2>1, AppAssumption DEF SendReply, App, ContractInv, TurnsOff
  <2> QED BY <2>2, Zenon DEF Next
<1>3. CASE SendMessage
  <2>1. Off /\ \E n \in MsgLens : Transmit("transmit", n, FALSE)
    BY <1>3 DEF SendMessage, App, ContractInv, OnlySends, Off
  <2>2. Off /\ \E n \in TxLens : Transmit("transmit", n, FALSE) BY <2>1, AppAssumption
  <2> QED BY <2>2, Zenon DEF Next
<1>4. CASE StartListening
  BY <1>4 DEF StartListening, App, ContractInv, Next
<1>5. CASE PollTimeout \/ TakeReply \/ TakePoll
  BY <1>5 DEF PollTimeout, TakeReply, TakePoll, Next
<1>6. CASE PollForReply \/ ListenForPoll \/ ReceiveNext
  BY <1>6 DEF PollForReply, ListenForPoll, ReceiveNext, Next
<1>7. CASE ReadTxStamp
  BY <1>7 DEF ReadTxStamp
<1> QED BY <1>1, <1>2, <1>3, <1>4, <1>5, <1>6, <1>7 DEF AppStep

LEMMA StepsKeepContract ==
    ASSUME ContractInv, [AppNext]_appVars
    PROVE  [Next]_vars
<1>1. CASE AppStep BY <1>1, LoopStepsKeepContract
<1>2. CASE (DriverStep \/ Medium) /\ UNCHANGED <<role, at, mark>> BY <1>2 DEF Next
<1>3. CASE UNCHANGED appVars BY <1>3 DEF appVars
<1> QED BY <1>1, <1>2, <1>3 DEF AppNext, HostStep

\* A loop leaves a place only with a call that fits the next one.
LEMMA ContractLoop ==
    ASSUME QInv, ContractInv, AppStep
    PROVE  ContractInv'
<1> USE DEF ContractInv, PlaceInv, App
<1>1. radio \in Radio BY DEF QInv, IInv, TypeOK
<1>2. CASE PollTimeout \/ TakeReply \/ TakePoll
  <2>1. TurnsOff'
    BY <1>2 DEF PollTimeout, TakeReply, TakePoll, DisableTransceiver, Begin, NewCall, TurnsOff
  <2>2. role' = role /\ role # "transmitter" /\ at' # "start" /\ PlaceInv'
    BY <1>2 DEF PollTimeout, TakeReply, TakePoll
  <2> QED BY <2>1, <2>2
<1>3. CASE SendPoll \/ SendReply \/ StartListening \/ PollForReply \/ ListenForPoll \/ ReceiveNext
  <2>1. role' = role /\ role # "transmitter" /\ at' = "poll" /\ PlaceInv'
    BY <1>3 DEF SendPoll, SendReply, StartListening, PollForReply, ListenForPoll, ReceiveNext
  <2> QED BY <2>1
<1>4. CASE ReadTxStamp
  <2>1. TurnsOff' /\ PlaceInv' /\ role' = role /\ role # "transmitter" /\ at' = "period"
    BY <1>4 DEF ReadTxStamp, vars, TurnsOff, Off
  <2> QED BY <2>1
<1>5. CASE SendMessage
  <2>1. PICK n \in MsgLens : Transmit("transmit", n, FALSE) BY <1>5 DEF SendMessage
  <2>2. UNCHANGED <<role, at, mark>> /\ role = "transmitter" BY <1>5 DEF SendMessage
  <2>3. radio.rx = "off" /\ radio.w4r = FALSE BY <2>2 DEF OnlySends
  <2>4. ~TooLong(n) BY DEF TooLong, MsgLens
  <2>5. /\ pc' = "tx_fctrl" /\ call'.op = "transmit" /\ call'.w4r = FALSE
        /\ radio' = [radio EXCEPT !.txbuf = n]
    BY <2>1, <2>4 DEF Transmit, NewCall, Unchanged
  <2>6. radio'.rx = "off" /\ radio'.w4r = FALSE BY <1>1, <2>3, <2>5 DEF Radio
  <2> QED BY <2>2, <2>5, <2>6 DEF OnlySends
<1> QED BY <1>2, <1>3, <1>4, <1>5 DEF AppStep

\* A call that turns the transceiver off runs to its end undisturbed.
LEMMA TurnsOffStep ==
    ASSUME QInv, TurnsOff, DriverStep \/ Medium
    PROVE  TurnsOff'
<1>1. radio \in Radio BY DEF QInv, IInv, TypeOK
<1>2. CASE pc = "idle"
  <2>1. radio.rx = "off" /\ radio.tx = "idle" BY <1>2 DEF TurnsOff, Off
  <2> QED
    BY <1>2, <2>1 DEF DriverStep, Medium, FrameArrives, TransmissionEnds, CanReceive, CanSend,
           ReadFinfo, ReadBuffer, ReadTime, ReadTtcki, ReadTtcko, ReadRxReg, Recheck,
           SwapAndReturn, TakeAndBecome, ClearOnly, WriteTrxoff, ClearStatus, EndDisable,
           ReadPointers, SwapToAlign, WriteRxenab, WriteFctrl, WriteTflen, WriteTime,
           WriteTxstrt, CheckHpdwarn, Goto
<1>3. CASE pc \in {"clr_trxoff", "clr_status"}
  <2>1. call.op = "disable" /\ call.w4r = FALSE BY <1>3 DEF TurnsOff
  <2>2. CASE Medium
    BY <1>3, <2>1, <2>2 DEF Medium, FrameArrives, TransmissionEnds, TurnsOff
  <2>3. CASE WriteTrxoff
    BY <2>1, <2>3 DEF WriteTrxoff, Goto, TurnsOff
  <2>4. CASE ClearStatus
    <3>1. pc' = "idle" BY <2>1, <2>4 DEF ClearStatus, EndDisable, ThenEnables, Goto
    <3>2. radio.rx = "off" /\ radio.tx = "idle"
      BY <2>4 DEF ClearStatus, EndDisable, Goto, QInv, IInv, PowerInv, OffSteps
    <3>3. radio' = ClearHostStatus(radio) BY <2>4 DEF ClearStatus, EndDisable, Unchanged
    <3>4. radio'.rx = "off" /\ radio'.tx = "idle" BY <1>1, <3>2, <3>3, ClearEffect
    <3> QED BY <3>1, <3>4 DEF TurnsOff, Off
  <2> QED
    BY <1>3, <2>2, <2>3, <2>4
       DEF DriverStep, ReadFinfo, ReadBuffer, ReadTime, ReadTtcki, ReadTtcko, ReadRxReg,
           Recheck, SwapAndReturn, TakeAndBecome, ClearOnly, ReadPointers, SwapToAlign,
           WriteRxenab, WriteFctrl, WriteTflen, WriteTime, WriteTxstrt, CheckHpdwarn, Goto
<1> QED BY <1>2, <1>3 DEF TurnsOff

\* A transmission without WAIT4RESP leaves the receiver off.
LEMMA OnlySendsStep ==
    ASSUME QInv, OnlySends, DriverStep \/ Medium
    PROVE  OnlySends'
<1>1. radio \in Radio BY DEF QInv, IInv, TypeOK
<1>2. CASE FrameArrives
  BY <1>2 DEF FrameArrives, CanReceive, OnlySends
<1>3. CASE TransmissionEnds
  <2>1. radio'.rx = "off" /\ radio'.w4r = FALSE
    BY <1>1, <1>3 DEF TransmissionEnds, Unchanged, EndTx, OnlySends, Radio
  <2> QED BY <1>3, <2>1 DEF TransmissionEnds, OnlySends
<1>4. CASE WriteFctrl
  <2>1. radio'.rx = "off" /\ radio'.w4r = FALSE
    BY <1>1, <1>4 DEF WriteFctrl, WriteTflen, Unchanged, OnlySends, Radio
  <2> QED BY <1>4, <2>1 DEF WriteFctrl, WriteTflen, Goto, OnlySends
<1>5. CASE WriteTxstrt
  <2>1. PICK late \in BOOLEAN :
            radio' = StartTx(radio, call.op = "scheduled", call.w4r, late)
    BY <1>5 DEF WriteTxstrt, Unchanged
  <2>2. pc = "tx_start" /\ call.op = "transmit" /\ call.w4r = FALSE /\ pc' = "idle"
    BY <1>5 DEF WriteTxstrt, Goto, OnlySends
  <2>3. PICK d : radio' = StartTx(radio, d, FALSE, late) BY <2>1, <2>2, Zenon
  <2>4. radio'.rx = "off" /\ radio'.w4r = FALSE
    BY <1>1, <2>3 DEF StartTx, OnlySends, Radio
  <2> QED BY <2>2, <2>4 DEF OnlySends
<1>6. pc \in {"idle", "tx_fctrl", "tx_start"} BY DEF OnlySends
<1> QED
  BY <1>2, <1>3, <1>4, <1>5, <1>6
     DEF DriverStep, Medium, ReadFinfo, ReadBuffer, ReadTime, ReadTtcki, ReadTtcko, ReadRxReg,
         Recheck, SwapAndReturn, TakeAndBecome, ClearOnly, WriteTrxoff, ClearStatus, EndDisable,
         ReadPointers, SwapToAlign, WriteRxenab, WriteTime, CheckHpdwarn, Goto

LEMMA ContractStep ==
    ASSUME QInv, ContractInv, [AppNext]_appVars
    PROVE  ContractInv'
<1>1. CASE AppStep BY <1>1, ContractLoop
<1>2. CASE (DriverStep \/ Medium) /\ UNCHANGED <<role, at, mark>>
  <2>1. at # "start"
    <3> SUFFICES ASSUME at = "start" PROVE FALSE OBVIOUS
    <3>1. pc = "idle" /\ radio.rx = "off" /\ radio.tx = "idle" BY DEF ContractInv, Off
    <3> QED
      BY <1>2, <3>1
         DEF DriverStep, Medium, FrameArrives, TransmissionEnds, CanReceive, CanSend,
           ReadFinfo, ReadBuffer, ReadTime, ReadTtcki, ReadTtcko, ReadRxReg, Recheck,
           SwapAndReturn, TakeAndBecome, ClearOnly, WriteTrxoff, ClearStatus, EndDisable,
           ReadPointers, SwapToAlign, WriteRxenab, WriteFctrl, WriteTflen, WriteTime,
           WriteTxstrt, CheckHpdwarn, Goto
  <2>2. TurnsOff => TurnsOff' BY <1>2, TurnsOffStep
  <2>3. OnlySends => OnlySends' BY <1>2, OnlySendsStep
  <2> QED BY <1>2, <2>1, <2>2, <2>3 DEF ContractInv, PlaceInv
<1>3. CASE UNCHANGED appVars
  BY <1>3 DEF appVars, vars, ContractInv, PlaceInv, TurnsOff, OnlySends, Off
<1> QED BY <1>1, <1>2, <1>3 DEF AppNext, HostStep
----------------------------------------------------------------------------
(* The order of the frames *)

\* No loop clears status bits but on the way to a swap.
LEMMA CleanStep ==
    ASSUME QInv, QInv', ~Spoilt, HostStep \/ Medium
    PROVE  ~Spoilt'
<1>1. radio \in Radio /\ air \in Nat BY DEF QInv, IInv, TypeOK
<1>2. CASE SwapAndReturn
  <2>1. radio'.rx = radio.rx /\ HostSet(radio') = OtherSet(radio)
    BY <1>1, <1>2, HRBPTEffect DEF SwapAndReturn, TakeAndBecome
  <2> QED BY <2>1 DEF Spoilt, QInv, OtherInv
<1>3. CASE ClearOnly
  BY <1>3 DEF ClearOnly, Goto, Spoilt
<1>4. CASE WriteTrxoff
  <2>1. radio'.rx = "off" BY <1>1, <1>4, TRXOFFEffect DEF WriteTrxoff, Unchanged
  <2> QED BY <2>1 DEF Spoilt
<1>5. CASE ClearStatus \/ SwapToAlign
  <2>1. radio.rx = "off"
    BY <1>5 DEF ClearStatus, EndDisable, SwapToAlign, Goto, QInv, IInv, PowerInv, OffSteps
  <2>2. radio' = ClearHostStatus(radio) \/ radio' = HRBPT(radio)
    BY <1>5 DEF ClearStatus, EndDisable, SwapToAlign, Unchanged
  <2>3. radio'.rx = radio.rx BY <1>1, <2>2, ClearEffect, HRBPTEffect
  <2> QED BY <2>1, <2>3 DEF Spoilt
<1>6. CASE WriteRxenab
  <2>1. HostSet(radio) = NoFrame
    BY <1>6 DEF WriteRxenab, Goto, QInv, IInv, PowerInv, OffSteps, DrainInv
  <2>2. HostSet(radio') = NoFrame
    BY <1>1, <1>6, <2>1, StartRxEffect DEF WriteRxenab, Unchanged
  <2> QED BY <2>2 DEF Spoilt, NoFrame, Cleared
<1>7. CASE WriteTxstrt
  <2>1. radio'.rx = radio.rx /\ radio.rx = "off"
    BY <1>1, <1>7, WriteTxstrtEffect
       DEF WriteTxstrt, Goto, QInv, IInv, PowerInv, OffSteps
  <2> QED BY <2>1 DEF Spoilt
<1>8. CASE WriteFctrl \/ \E op, n, w4r : Transmit(op, n, w4r)
  <2>1. /\ pc # "rx_swap"
        /\ \/ radio' = radio
           \/ \E n : radio' = [radio EXCEPT !.txbuf = n] \/ radio' = [radio EXCEPT !.tflen = n]
    BY <1>8, Zenon DEF WriteFctrl, WriteTflen, Transmit, Begin, Goto, Unchanged
  <2>2. radio'.rx = radio.rx /\ HostSet(radio') = HostSet(radio)
    BY <1>1, <2>1 DEF Radio, HostSet
  <2> QED BY <2>1, <2>2 DEF Spoilt
<1>9. CASE \/ Receive \/ DisableTransceiver \/ RxEnable \/ ReadPointers \/ WriteTime
           \/ CheckHpdwarn \/ Recheck \/ ReadFinfo
           \/ ReadBuffer \/ ReadTime \/ ReadTtcki \/ ReadTtcko
  <2>1. radio' = radio /\ pc # "rx_swap"
    BY <1>9 DEF Receive, DisableTransceiver, RxEnable, ReadPointers, WriteTime, CheckHpdwarn,
                Recheck, ReadFinfo, ReadBuffer, ReadTime, ReadTtcki, ReadTtcko, ReadRxReg,
                Begin, Goto, Unchanged
  <2> QED BY <2>1 DEF Spoilt
<1>10. CASE FrameArrives
  <2>1. radio' = ReceiveFrame(radio, air + 1) /\ air + 1 \in Int /\ pc' = pc
    BY <1>1, <1>10 DEF FrameArrives
  <2>2. /\ radio'.rx = radio.rx
        /\ HostSet(radio') \in {HostSet(radio), air + 1, Corrupt}
    BY <1>1, <2>1, ReceiveFrameEffect
  <2> QED BY <1>1, <2>1, <2>2 DEF Spoilt, Corrupt, Cleared
<1>11. CASE TransmissionEnds
  <2>1. radio.rx = "off" /\ pc \notin OffSteps
    BY <1>1, <1>11 DEF TransmissionEnds, CanSend, QInv, IInv, PowerInv, Radio
  <2>2. HostSet(radio) = NoFrame BY <2>1 DEF QInv, IInv, DrainInv, OffSteps
  <2>3. HostSet(radio') = NoFrame
    BY <1>1, <1>11, <2>2, EndTxEffect DEF TransmissionEnds, Unchanged
  <2> QED BY <2>3 DEF Spoilt, NoFrame, Cleared
<1>12. CASE UNCHANGED vars BY <1>12 DEF vars, Spoilt
<1> QED
  BY <1>2, <1>3, <1>4, <1>5, <1>6, <1>7, <1>8, <1>9, <1>10, <1>11, <1>12
     DEF HostStep, AppStep, DriverStep, Medium, SendPoll, PollTimeout, PollForReply, TakeReply,
         ReadTxStamp, StartListening, ListenForPoll, TakePoll, SendReply, ReceiveNext,
         SendMessage

LEMMA OldestFirst ==
    ASSUME QInv, ~Spoilt
    PROVE  SeesOldest
<1> SUFFICES ASSUME radio.even, ~radio.ovrr, OtherSet(radio) # NoFrame
             PROVE  (IF pc = "rx_swap" THEN call.got["time"] ELSE HostSet(radio))
                        \in 1..(OtherSet(radio) - 1)
  BY DEF SeesOldest, OtherSet
<1>1. radio.rx = "on" BY DEF QInv, IInv, DrainInv, TypeOK, Radio
<1>2. OtherSet(radio) \in Int /\ OtherSet(radio) > 0
  BY <1>1 DEF QInv, IInv, SetInv, OtherInv
<1>3. CASE pc = "rx_swap"
  BY <1>2, <1>3 DEF QInv, LeaveInv, Taken, IInv, TypeOK
<1>4. CASE pc # "rx_swap"
  <2>1. HostSet(radio) # NoFrame BY <1>1 DEF QInv, EvenInv
  <2>2. HostSet(radio) > 0 /\ HostSet(radio) \in Int
    BY <1>1, <1>4, <2>1 DEF QInv, IInv, SetInv, Spoilt
  <2> QED BY <1>1, <1>2, <1>4, <2>2 DEF QInv, EvenInv
<1> QED BY <1>3, <1>4
----------------------------------------------------------------------------
(* Listening *)

LEMMA ListenLoop ==
    ASSUME QInv, ListenInv, AppStep
    PROVE  ListenInv'
<1> USE DEF ListenInv, App
<1>1. CASE SendPoll \/ PollTimeout \/ PollForReply \/ TakeReply \/ ReadTxStamp \/ SendMessage
  <2>1. role' \notin {"responder", "receiver"}
    BY <1>1 DEF SendPoll, PollTimeout, PollForReply, TakeReply, ReadTxStamp, SendMessage
  <2> QED BY <2>1
<1>2. CASE TakePoll
  BY <1>2 DEF TakePoll
<1>3. CASE StartListening
  BY <1>3 DEF StartListening, RxEnable, AfterAlign, Begin, NewCall
<1>4. CASE ListenForPoll \/ ReceiveNext
  <2>1. /\ role \in {"responder", "receiver"} /\ at = "poll" /\ Receive
        /\ UNCHANGED <<role, at>>
    BY <1>4 DEF ListenForPoll, ReceiveNext
  <2>2. pc = "idle" /\ radio' = radio BY <2>1 DEF Receive, Begin, Unchanged
  <2>3. Ready' = Ready BY <2>2, Zenon DEF Ready
  <2>4. pc' = "idle" \/ (pc' = "rx_finfo" /\ call'.op = "receive")
    BY <2>1 DEF Receive, Begin, NewCall
  <2> HIDE DEF Ready
  <2> QED BY <2>1, <2>2, <2>3, <2>4
<1>5. CASE SendReply
  <2>1. at' = "poll" /\ Transmit("scheduled", DlyLen, TRUE) BY <1>5 DEF SendReply
  <2>2. ~TooLong(DlyLen) BY DEF TooLong, DlyLen
  <2>3. pc' = "tx_fctrl" /\ call' = [NewCall("scheduled") EXCEPT !.w4r = TRUE, !.len = DlyLen]
    BY <2>1, <2>2 DEF Transmit
  <2>4. call'.op = "scheduled" /\ call'.w4r = TRUE BY <2>3 DEF NewCall
  <2> QED BY <2>3, <2>4
<1> QED BY <1>1, <1>2, <1>3, <1>4, <1>5 DEF AppStep

LEMMA ListenDriver ==
    ASSUME QInv, ListenInv, role \in {"responder", "receiver"}, at = "poll",
           DriverStep, UNCHANGED <<role, at, mark>>
    PROVE  ListenInv'
<1>1. radio \in Radio BY DEF QInv, IInv, TypeOK
<1> DEFINE Serves(c, p) == \/ c.op = "receive"
                           \/ c.op = "rx_enable" /\ p \in {"en_swap", "en_rxenab"}
                           \/ c.op = "scheduled" /\ c.w4r = TRUE
<1>2. pc # "idle" => Serves(call, pc) BY DEF ListenInv
<1>3. CASE \/ ReadFinfo \/ ReadBuffer \/ ReadTime \/ ReadTtcki \/ ReadTtcko \/ Recheck
           \/ ClearOnly \/ WriteTrxoff \/ ReadPointers \/ SwapToAlign \/ WriteFctrl
           \/ WriteTime
  <2>1. /\ pc # "idle" /\ pc' # "idle" /\ pc' # "tx_check"
        /\ call'.op = call.op /\ call'.w4r = call.w4r
    BY <1>3 DEF ReadFinfo, ReadBuffer, ReadTime, ReadTtcki, ReadTtcko, ReadRxReg, Recheck,
                AfterRecheck, ClearOnly, WriteTrxoff, ReadPointers, AfterAlign, SwapToAlign,
                WriteFctrl, WriteTflen, WriteTime, Goto, QInv, IInv, TypeOK, Call
  <2>2. call.op # "rx_enable" \/ pc' \in {"en_swap", "en_rxenab"}
    BY <1>2, <1>3, <2>1
       DEF ReadFinfo, ReadBuffer, ReadTime, ReadTtcki, ReadTtcko, ReadRxReg, Recheck,
           AfterRecheck, ClearOnly, WriteTrxoff, ReadPointers, AfterAlign, SwapToAlign,
           WriteFctrl, WriteTflen, WriteTime, Goto
  <2> QED BY <1>2, <2>1, <2>2 DEF ListenInv
<1>4. CASE ClearStatus
  <2>1. pc = "clr_status" /\ ThenEnables
    BY <1>2, <1>4 DEF ClearStatus, EndDisable, Goto, ThenEnables
  <2>2. pc' = "en_status" /\ call' = call
    BY <1>4, <2>1 DEF ClearStatus, EndDisable, Goto
  <2> QED BY <1>2, <2>1, <2>2 DEF ListenInv
<1>5. CASE SwapAndReturn
  <2>1. radio.rx = "on" /\ pc' = "idle" /\ radio' = HRBPT(radio)
    BY <1>5 DEF SwapAndReturn, TakeAndBecome, Goto, QInv, IInv, PowerInv, RxOnSteps
  <2>2. radio'.rx = "on" BY <1>1, <2>1, HRBPTEffect
  <2> QED BY <2>1, <2>2 DEF ListenInv, Ready
<1>6. CASE WriteRxenab
  <2>1. radio'.rx = "on" /\ pc' = "idle"
    BY <1>1, <1>6, StartRxEffect DEF WriteRxenab, Goto, Unchanged
  <2> QED BY <2>1 DEF ListenInv, Ready
<1>7. CASE WriteTxstrt
  <2>1. /\ pc = "tx_start" /\ call.op = "scheduled" /\ call.w4r = TRUE
        /\ pc' = "tx_check" /\ call' = call
    BY <1>2, <1>7 DEF WriteTxstrt, Goto, QInv, IInv, OpInv
  <2>2. PICK late \in BOOLEAN :
            radio' = StartTx(radio, call.op = "scheduled", call.w4r, late)
    BY <1>7 DEF WriteTxstrt, Unchanged
  <2>3. radio' = StartTx(radio, TRUE, TRUE, late)
    <3>1. (call.op = "scheduled") = TRUE BY <2>1
    <3> QED BY <2>1, <2>2, <3>1, Zenon
  <2>4. \/ radio'.hpdwarn
        \/ radio'.tx = "delayed" /\ ~radio'.hpdwarn /\ radio'.w4r
    BY <1>1, <2>3 DEF StartTx, Radio
  <2> QED BY <2>1, <2>4 DEF ListenInv, Ready, CanSend
<1>8. CASE CheckHpdwarn
  <2>1. pc = "tx_check" /\ call' = call /\ radio' = radio
    BY <1>8 DEF CheckHpdwarn, Goto, Unchanged
  <2>2. Ready' = Ready BY <2>1, Zenon DEF Ready
  <2>3. \/ pc' = "clr_trxoff"
        \/ pc' = "idle" /\ ~radio.hpdwarn
    BY <1>8 DEF CheckHpdwarn, Goto
  <2>4. call.op = "scheduled" /\ call.w4r = TRUE
    BY <1>2, <2>1 DEF QInv, IInv, OpInv
  <2>5. radio.hpdwarn \/ Ready BY <2>1 DEF ListenInv
  <2> HIDE DEF Ready
  <2> QED BY <2>1, <2>2, <2>3, <2>4, <2>5 DEF ListenInv
<1> QED BY <1>3, <1>4, <1>5, <1>6, <1>7, <1>8 DEF DriverStep

LEMMA ListenMedium ==
    ASSUME QInv, ListenInv, Medium, UNCHANGED <<role, at, mark>>
    PROVE  ListenInv'
<1>1. radio \in Radio BY DEF QInv, IInv, TypeOK
<1> HIDE DEF QInv
<1>2. CASE FrameArrives
  <2>1. radio' = ReceiveFrame(radio, air + 1) /\ air + 1 \in Int /\ radio.rx = "on"
    BY <1>2 DEF FrameArrives, CanReceive, QInv, IInv, TypeOK
  <2>2. radio'.rx = "on" BY <1>1, <2>1, ReceiveFrameEffect
  <2> QED BY <1>2, <2>2 DEF FrameArrives, ListenInv, Ready
<1>3. CASE TransmissionEnds
  <2>1. radio' = EndTx(radio) /\ ~radio.hpdwarn /\ UNCHANGED <<pc, call>>
    BY <1>3 DEF TransmissionEnds, CanSend, Unchanged
  <2>2. radio.rx = "off"
    BY <1>1, <1>3 DEF TransmissionEnds, CanSend, QInv, IInv, PowerInv, Radio
  <2>3. Ready => radio'.rx = "on"
    <3> SUFFICES ASSUME radio.w4r PROVE radio'.rx = "on" BY <2>2 DEF Ready
    <3> DEFINE done == [radio EXCEPT !.tx = "idle", !.w4r = FALSE]
    <3>1. done \in Radio BY <1>1 DEF Radio
    <3>2. radio' = StartRx(done) BY <2>1 DEF EndTx
    <3> HIDE DEF done
    <3> QED BY <3>1, <3>2, StartRxEffect
  <2>4. radio'.rx = "on" => Ready' BY DEF Ready
  <2> HIDE DEF Ready
  <2> QED BY <2>1, <2>3, <2>4 DEF ListenInv
<1> QED BY <1>2, <1>3 DEF Medium

LEMMA ListenStep ==
    ASSUME QInv, ListenInv, [AppNext]_appVars
    PROVE  ListenInv'
<1>1. CASE AppStep BY <1>1, ListenLoop
<1>2. CASE DriverStep /\ UNCHANGED <<role, at, mark>>
  <2>1. CASE role \in {"responder", "receiver"} /\ at = "poll"
    BY <1>2, <2>1, ListenDriver
  <2>2. CASE ~(role \in {"responder", "receiver"} /\ at = "poll")
    BY <1>2, <2>2 DEF ListenInv
  <2> QED BY <2>1, <2>2
<1>3. CASE Medium /\ UNCHANGED <<role, at, mark>> BY <1>3, ListenMedium
<1>4. CASE UNCHANGED appVars
  <2>1. Ready' = Ready BY <1>4, Zenon DEF appVars, vars, Ready
  <2> QED BY <1>4, <2>1 DEF appVars, vars, ListenInv
<1> QED BY <1>1, <1>2, <1>3, <1>4 DEF AppNext, HostStep
----------------------------------------------------------------------------
(* Fresh replies *)

LEMMA FreshLoop ==
    ASSUME QInv, ContractInv, FreshInv, AppStep
    PROVE  FreshInv'
<1> USE DEF FreshInv, App
<1>1. radio \in Radio /\ air \in Nat BY DEF QInv, IInv, TypeOK
<1>2. CASE \/ StartListening \/ ListenForPoll \/ TakePoll \/ SendReply \/ ReceiveNext
           \/ SendMessage
  <2>1. role' # "initiator"
    BY <1>2 DEF StartListening, ListenForPoll, TakePoll, SendReply, ReceiveNext, SendMessage
  <2> QED BY <2>1
<1>3. CASE SendPoll
  <2>1. PICK n \in MsgLens : Transmit("transmit", n, TRUE) BY <1>3 DEF SendPoll
  <2>2. ~TooLong(n) BY DEF TooLong, MsgLens
  <2>3. /\ pc = "idle" /\ pc' = "tx_fctrl" /\ UNCHANGED <<ret, air>>
        /\ radio' = [radio EXCEPT !.txbuf = n]
    BY <2>1, <2>2 DEF Transmit, Unchanged
  <2>4. at = "period" /\ at' = "poll" /\ mark' = air BY <1>3 DEF SendPoll
  <2>5. radio.rx = "off" BY <1>3, <2>3, <2>4 DEF SendPoll, ContractInv, TurnsOff, Off
  <2>6. radio'.rx = "off" BY <1>1, <2>3, <2>5 DEF Radio
  <2>7. ~GotFrame' BY <1>3, <2>3, <2>4 DEF SendPoll, GotFrame
  <2> QED BY <1>1, <2>3, <2>4, <2>6, <2>7 DEF Taken
<1>4. CASE PollForReply
  <2>1. /\ at = "poll" /\ at' = "poll" /\ UNCHANGED <<mark, air, radio>> /\ role' = role
        /\ pc' \in {"idle", "rx_finfo"}
    BY <1>4 DEF PollForReply, Receive, Begin, Unchanged
  <2>2. ~GotFrame' BY <1>4 DEF PollForReply, Receive, Return, GotFrame
  <2> QED BY <2>1, <2>2 DEF Taken
<1>5. CASE PollTimeout \/ TakeReply
  <2>1. /\ at = "poll" /\ UNCHANGED <<role, mark, air, ret>> /\ pc' = "clr_trxoff"
        /\ \/ at' = "period" /\ ~GotFrame
           \/ at' = "stamp" /\ GotFrame
    BY <1>5 DEF PollTimeout, TakeReply, DisableTransceiver, Begin, Unchanged
  <2>2. GotFrame' <=> GotFrame BY <2>1 DEF GotFrame
  <2>3. pc' \notin Taken BY <2>1 DEF Taken
  <2> HIDE DEF GotFrame
  <2> QED BY <2>1, <2>2, <2>3
<1>6. CASE ReadTxStamp
  BY <1>6 DEF ReadTxStamp, vars, GotFrame
<1> QED BY <1>2, <1>3, <1>4, <1>5, <1>6 DEF AppStep

\* What a step of the driver answers while the initiator turns it off.
LEMMA FreshDriver ==
    ASSUME QInv, ContractInv, FreshInv, role = "initiator",
           DriverStep, UNCHANGED <<role, at, mark>>
    PROVE  FreshInv'
<1>1. radio \in Radio /\ air \in Nat /\ mark \in Nat BY DEF QInv, IInv, TypeOK, FreshInv
<1>2. CASE at # "poll"
  <2>1. TurnsOff BY <1>2 DEF ContractInv, PlaceInv
  <2>2. pc # "idle"
    BY DEF DriverStep, ReadFinfo, ReadBuffer, ReadTime, ReadTtcki, ReadTtcko, ReadRxReg, Recheck,
           SwapAndReturn, TakeAndBecome, ClearOnly, WriteTrxoff, ClearStatus, EndDisable,
           ReadPointers, SwapToAlign, WriteRxenab, WriteFctrl, WriteTflen, WriteTime,
           WriteTxstrt, CheckHpdwarn, Goto
  <2>3. pc \in {"clr_trxoff", "clr_status"} /\ call.op = "disable" /\ call.w4r = FALSE
    BY <2>1, <2>2 DEF TurnsOff
  <2>4. WriteTrxoff \/ ClearStatus
    BY <2>3 DEF DriverStep, ReadFinfo, ReadBuffer, ReadTime, ReadTtcki, ReadTtcko, ReadRxReg,
           Recheck, SwapAndReturn, TakeAndBecome, ClearOnly, ReadPointers, SwapToAlign,
           WriteRxenab, WriteFctrl, WriteTflen, WriteTime, WriteTxstrt, CheckHpdwarn, Goto
  <2>5. /\ air' = air
        /\ \/ ret' = ret /\ pc' # "idle"
           \/ ret'.op = "disable"
    BY <2>3, <2>4 DEF WriteTrxoff, ClearStatus, EndDisable, ThenEnables, Goto, Return, Unchanged
  <2> QED BY <1>2, <2>3, <2>5 DEF FreshInv, GotFrame
<1>3. ASSUME at = "poll", air' = air,
             radio'.rx = "off" \/ (radio'.rx = radio.rx /\ HostSet(radio') = HostSet(radio)
                                   /\ OtherSet(radio') = OtherSet(radio)),
             pc' \notin Taken, ret' = ret \/ ret'.op # "receive" \/ ret'.err # "none"
      PROVE  FreshInv'
  BY <1>3 DEF FreshInv, GotFrame
<1>4. CASE /\ at = "poll"
           /\ \/ ReadFinfo \/ ReadBuffer \/ ReadTime \/ ReadTtcki \/ ReadTtcko
              \/ ReadPointers \/ WriteTime
  <2>1. radio' = radio /\ air' = air /\ ret' = ret /\ pc' \notin Taken
    BY <1>4 DEF ReadFinfo, ReadBuffer, ReadTime, ReadTtcki, ReadTtcko, ReadRxReg, ReadPointers,
                AfterAlign, WriteTime, Goto, Unchanged, Taken
  <2> QED BY <1>3, <1>4, <2>1
<1>5. CASE at = "poll" /\ CheckHpdwarn
  <2>1. /\ radio' = radio /\ air' = air /\ pc' \notin Taken
        /\ ret' = ret \/ ret'.op = "scheduled"
    BY <1>5 DEF CheckHpdwarn, Goto, Unchanged, Return, Taken, QInv, IInv, OpInv
  <2> QED BY <1>3, <1>5, <2>1
<1>6. CASE at = "poll" /\ Recheck
  <2>1. /\ pc = "rx_recheck" /\ pc' = AfterRecheck(radio)
        /\ UNCHANGED <<radio, call, ret, air>>
    BY <1>6 DEF Recheck, Goto, Unchanged
  <2>2. radio.rx = "on" BY <2>1 DEF QInv, IInv, PowerInv, RxOnSteps, RxSteps
  <2>3. pc' \in Taken => call.got["time"] > mark
    <3> SUFFICES ASSUME pc' \in Taken PROVE call.got["time"] > mark OBVIOUS
    <3>1. ~radio.ovrr BY <2>1 DEF AfterRecheck, Taken
    <3>2. HostSet(radio) \in 1..air /\ call.got["time"] = HostSet(radio)
      BY <2>1, <3>1 DEF QInv, IInv, ReadInv, RxSteps
    <3> QED BY <1>1, <1>6, <2>2, <3>2 DEF FreshInv
  <2> QED BY <1>6, <2>1, <2>3 DEF FreshInv, GotFrame
<1>7. CASE at = "poll" /\ SwapAndReturn
  <2>1. /\ pc = "rx_swap" /\ pc' = "idle" /\ air' = air /\ radio' = HRBPT(radio)
        /\ ret'.got = call.got
    BY <1>7 DEF SwapAndReturn, TakeAndBecome, Goto, Return
  <2>2. /\ radio'.rx = radio.rx
        /\ HostSet(radio') = OtherSet(radio) /\ OtherSet(radio') = NoFrame
    BY <1>1, <2>1, HRBPTEffect
  <2> QED BY <1>7, <2>1, <2>2 DEF FreshInv, Taken, NoFrame
<1>8. CASE at = "poll" /\ ClearOnly
  <2>1. /\ pc = "clr_only" /\ pc' = "rx_swap" /\ UNCHANGED <<call, ret, air>>
        /\ radio' = ClearHostStatus(radio)
    BY <1>8 DEF ClearOnly, Goto, Unchanged
  <2>2. /\ radio'.rx = radio.rx /\ OtherSet(radio') = OtherSet(radio)
        /\ HostSet(radio') \in {NoFrame, Cleared}
    BY <1>1, <2>1, ClearEffect
  <2> QED BY <1>8, <2>1, <2>2 DEF FreshInv, GotFrame, Taken, NoFrame, Cleared
<1>9. CASE at = "poll" /\ (WriteTrxoff \/ ClearStatus \/ SwapToAlign)
  <2>1. radio'.rx = "off"
    <3>1. WriteTrxoff => radio'.rx = "off"
      BY <1>1, TRXOFFEffect DEF WriteTrxoff, Unchanged
    <3>2. ClearStatus \/ SwapToAlign => radio.rx = "off"
      BY DEF ClearStatus, EndDisable, SwapToAlign, Goto, QInv, IInv, PowerInv, OffSteps
    <3>3. ClearStatus \/ SwapToAlign => radio'.rx = radio.rx
      BY <1>1, ClearEffect, HRBPTEffect DEF ClearStatus, EndDisable, SwapToAlign, Unchanged
    <3> QED BY <1>9, <3>1, <3>2, <3>3
  <2>2. /\ air' = air /\ pc' \notin Taken
        /\ ret' = ret \/ ret'.op # "receive"
    BY <1>9 DEF WriteTrxoff, ClearStatus, EndDisable, ThenEnables, SwapToAlign, Goto, Return,
                Unchanged, Taken
  <2> QED BY <1>3, <1>9, <2>1, <2>2
<1>10. CASE at = "poll" /\ WriteRxenab
  <2>1. HostSet(radio) = NoFrame /\ OtherSet(radio) = NoFrame
    BY <1>10 DEF WriteRxenab, Goto, QInv, IInv, PowerInv, OffSteps, DrainInv
  <2>2. HostSet(radio') = NoFrame /\ OtherSet(radio') = NoFrame
    BY <1>1, <1>10, <2>1, StartRxEffect DEF WriteRxenab, Unchanged
  <2>3. /\ air' = air /\ pc' = "idle"
        /\ ret'.op = "receive" => ret'.err # "none"
    BY <1>10 DEF WriteRxenab, Goto, Return, Unchanged
  <2> QED BY <1>10, <2>2, <2>3 DEF FreshInv, GotFrame, Taken, NoFrame
<1>11. CASE at = "poll" /\ (WriteFctrl \/ WriteTxstrt)
  <2>1. radio.rx = "off"
    BY <1>11 DEF WriteFctrl, WriteTflen, WriteTxstrt, Goto, QInv, IInv, PowerInv, OffSteps
  <2>2. radio'.rx = radio.rx
    <3>1. CASE WriteTxstrt BY <1>1, <3>1, WriteTxstrtEffect
    <3>2. CASE WriteFctrl BY <1>1, <3>2 DEF WriteFctrl, WriteTflen, Unchanged, Radio
    <3> QED BY <1>11, <3>1, <3>2
  <2>3. /\ air' = air /\ pc' \notin Taken
        /\ ret' = ret \/ ret'.op # "receive"
    BY <1>11 DEF WriteFctrl, WriteTflen, WriteTxstrt, Goto, Return, Unchanged, Taken, QInv, IInv,
                 OpInv
  <2> QED BY <1>3, <1>11, <2>1, <2>2, <2>3
<1> QED
  BY <1>2, <1>4, <1>5, <1>6, <1>7, <1>8, <1>9, <1>10, <1>11 DEF DriverStep

LEMMA FreshMedium ==
    ASSUME QInv, FreshInv, role = "initiator", Medium, UNCHANGED <<role, at, mark>>
    PROVE  FreshInv'
<1>1. radio \in Radio /\ air \in Nat /\ mark \in Nat BY DEF QInv, IInv, TypeOK, FreshInv
<1> HIDE DEF QInv
<1>2. CASE FrameArrives
  <2>1. /\ radio' = ReceiveFrame(radio, air + 1) /\ air' = air + 1 /\ air + 1 \in Int
        /\ UNCHANGED <<pc, call, ret>>
    BY <1>1, <1>2 DEF FrameArrives
  <2>2. /\ radio'.rx = radio.rx
        /\ HostSet(radio') \in {HostSet(radio), air + 1, Corrupt}
        /\ OtherSet(radio') \in {OtherSet(radio), air + 1, Corrupt}
    BY <1>1, <2>1, ReceiveFrameEffect
  <2>3. air + 1 > mark BY <1>1 DEF FreshInv
  <2>4. GotFrame' <=> GotFrame BY <2>1 DEF GotFrame
  <2> HIDE DEF GotFrame
  <2> QED BY <1>1, <2>1, <2>2, <2>3, <2>4 DEF FreshInv, Corrupt
<1>3. CASE TransmissionEnds
  <2>1. UNCHANGED <<pc, call, ret, air>> /\ radio' = EndTx(radio) /\ radio.tx # "idle"
    BY <1>3 DEF TransmissionEnds, Unchanged, CanSend
  <2>2. HostSet(radio) = NoFrame /\ OtherSet(radio) = NoFrame
    BY <1>1, <2>1 DEF QInv, IInv, PowerInv, DrainInv, OffSteps, Radio
  <2>3. HostSet(radio') = NoFrame /\ OtherSet(radio') = NoFrame
    BY <1>1, <2>1, <2>2, EndTxEffect
  <2>4. GotFrame' <=> GotFrame BY <2>1 DEF GotFrame
  <2> HIDE DEF GotFrame
  <2> QED BY <2>1, <2>3, <2>4 DEF FreshInv, NoFrame
<1> QED BY <1>2, <1>3 DEF Medium

LEMMA FreshStep ==
    ASSUME QInv, ContractInv, FreshInv, [AppNext]_appVars
    PROVE  FreshInv'
<1>1. CASE AppStep BY <1>1, FreshLoop
<1>2. CASE (DriverStep \/ Medium) /\ UNCHANGED <<role, at, mark>>
  <2>1. CASE role = "initiator" BY <1>2, <2>1, FreshDriver, FreshMedium
  <2>2. CASE role # "initiator" BY <1>2, <2>2 DEF FreshInv
  <2> QED BY <2>1, <2>2
<1>3. CASE UNCHANGED appVars
  BY <1>3 DEF appVars, vars, FreshInv, GotFrame
<1> QED BY <1>1, <1>2, <1>3 DEF AppNext, HostStep
----------------------------------------------------------------------------
(* The theorems *)

LEMMA AInvInit == AppInit => AInv
<1> SUFFICES ASSUME AppInit PROVE AInv OBVIOUS
<1>1. Init /\ QInv BY QInvInit DEF AppInit
<1>2. radio = IdleRadio /\ pc = "idle" /\ ret.op = "none" /\ mark = 0 /\ air = 0
  BY <1>1 DEF Init, AppInit
<1>3. radio.rx = "off" /\ radio.tx = "idle" /\ radio.w4r = FALSE /\ Off
  BY <1>2 DEF IdleRadio, Off
<1>4. role \in Roles /\ at = IF role \in {"initiator", "transmitter"} THEN "period" ELSE "start"
  BY DEF AppInit
<1>5. ContractInv
  BY <1>2, <1>3, <1>4 DEF ContractInv, PlaceInv, TurnsOff, OnlySends, Roles
<1>6. ListenInv BY <1>4 DEF ListenInv
<1>7. FreshInv BY <1>2, <1>3, <1>4 DEF FreshInv, GotFrame, Taken
<1>8. ~Spoilt BY <1>3 DEF Spoilt
<1> QED BY <1>1, <1>5, <1>6, <1>7, <1>8 DEF AInv

LEMMA AInvStep == AInv /\ [AppNext]_appVars => AInv'
<1> SUFFICES ASSUME AInv, [AppNext]_appVars PROVE AInv' OBVIOUS
<1>1. QInv /\ ~Spoilt /\ ContractInv /\ ListenInv /\ FreshInv BY DEF AInv
<1>2. [Next]_vars BY <1>1, StepsKeepContract
<1>3. QInv' BY <1>1, <1>2, QInvStep
<1>4. ContractInv' BY <1>1, ContractStep
<1>5. ListenInv' BY <1>1, ListenStep
<1>6. FreshInv' BY <1>1, FreshStep
<1>7. ~Spoilt'
  <2>1. CASE UNCHANGED appVars BY <1>1, <2>1 DEF appVars, vars, Spoilt
  <2>2. CASE AppNext BY <1>1, <1>3, <2>2, CleanStep DEF AppNext
  <2> QED BY <2>1, <2>2
<1> QED BY <1>3, <1>4, <1>5, <1>6, <1>7 DEF AInv

THEOREM AppInvariant == AppSpec => []AInv
BY AInvInit, AInvStep, PTL DEF AppSpec

\* The four loops of main.c call dw1000_rx_enable and the transmit calls only
\* on a transceiver that is off: each behaviour of theirs is one of Spec.
THEOREM LoopsKeepContract == AppSpec => KeepsContract
<1>1. AppInit => Init BY DEF AppInit
<1>2. AInv /\ [AppNext]_appVars => [Next]_vars BY StepsKeepContract DEF AInv
<1> QED BY <1>1, <1>2, AppInvariant, PTL DEF AppSpec, KeepsContract

\* So under every loop the receive calls promise what RxQueue says.
THEOREM LoopsUseQueue == AppSpec => ImplementsRxQueue
BY LoopsKeepContract, Implements, PTL DEF KeepsContract, Spec

\* Overruns and replies that miss their time never leave the responder or the
\* receiver polling a receiver that is off.
THEOREM NeverDeaf == AppSpec => []Listening
<1>1. AInv => Listening BY DEF AInv, ListenInv, Ready, Listening
<1> QED BY <1>1, AppInvariant, PTL

\* After an even start and until an overrun, a frame in the set the host does
\* not look at is younger than the one the host is at.
THEOREM OldestIsSeen == AppSpec => []SeesOldest
<1>1. AInv => SeesOldest BY OldestFirst DEF AInv
<1> QED BY <1>1, AppInvariant, PTL

\* What the initiator takes for the reply came after its poll was sent.
THEOREM RepliesAreFresh == AppSpec => []ReplyIsFresh
<1>1. AInv => ReplyIsFresh BY DEF AInv, FreshInv, ReplyIsFresh
<1> QED BY <1>1, AppInvariant, PTL
=============================================================================
