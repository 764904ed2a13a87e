------------------------- MODULE Dw1000RxQueueProofs -------------------------
(***************************************************************************)
(* The driver implements RxQueue, for every buffer length, every set of    *)
(* frame lengths and any number of frames.  QInv adds to the invariant of  *)
(* Dw1000DriverProofs what the order and the room depend on.               *)
(***************************************************************************)
EXTENDS Dw1000RxQueue, Dw1000DriverProofs

Taken == {"clr_only", "rx_swap"}
Overrun == {"clr_trxoff", "clr_status", "en_status", "en_swap", "en_rxenab"}

\* A receiver that was started even fills the host's set first, and both are
\* full or empty when it is the receiver's turn there.
EvenInv ==
    radio.rx = "on" /\ ~radio.ovrr /\ radio.even =>
        /\ IF radio.hs = radio.ic
           THEN HostSet(radio) = NoFrame <=> OtherSet(radio) = NoFrame
           ELSE HostSet(radio) # NoFrame /\ OtherSet(radio) = NoFrame
        /\ HostSet(radio) > 0 /\ OtherSet(radio) > 0 => HostSet(radio) < OtherSet(radio)

\* Status bits are only ever cleared in the set the host lets go of next.
OtherInv == radio.rx = "on" => OtherSet(radio) # Cleared

\* The frame that was taken stays in the host's set until that is cleared or
\* spoilt by an overrun, and is in no other place; what is there came later.
LeaveInv ==
    pc \in Taken =>
        /\ call.got["time"] \in 1..air
        /\ OtherSet(radio) # call.got["time"]
        /\ radio.even /\ ~radio.ovrr /\ OtherSet(radio) # NoFrame =>
               call.got["time"] < OtherSet(radio)
        /\ \/ HostSet(radio) \in {call.got["time"], Corrupt}
           \/ pc = "rx_swap" /\ HostSet(radio) = Cleared

\* dw1000_receive turns the transceiver off only after an overrun.
OvrrInv ==
    pc \in Overrun /\ call.op = "receive" =>
        radio.ovrr /\ (pc = "clr_trxoff" => radio.rx = "on")

QInv == IInv /\ EvenInv /\ OtherInv /\ LeaveInv /\ OvrrInv
----------------------------------------------------------------------------
(* QInv is inductive *)

\* The calls and transactions that leave the radio alone.
LEMMA QInvReads ==
    ASSUME QInv, IInv',
           \/ Receive \/ DisableTransceiver \/ ReadPointers \/ WriteTime \/ CheckHpdwarn
           \/ ReadFinfo \/ ReadBuffer \/ ReadTime \/ ReadTtcki \/ ReadTtcko
           \/ ReceiveNull \/ HandleInterrupt
           \/ Off /\ RxEnable
    PROVE  QInv'
<1> USE DEF QInv, EvenInv, OtherInv, LeaveInv, OvrrInv, Taken, Overrun, Goto, Unchanged
<1>1. CASE \/ Receive \/ ReceiveNull \/ HandleInterrupt \/ DisableTransceiver
           \/ Off /\ RxEnable
  BY <1>1 DEF Receive, ReceiveNull, HandleInterrupt, DisableTransceiver, RxEnable,
              AfterAlign, Begin, NewCall
<1>2. CASE ReadPointers \/ WriteTime
  BY <1>2 DEF ReadPointers, AfterAlign, WriteTime
<1>3. CASE CheckHpdwarn
  BY <1>3 DEF CheckHpdwarn, IInv, OpInv
<1>4. CASE ReadFinfo \/ ReadBuffer \/ ReadTime \/ ReadTtcki \/ ReadTtcko
  <2>1. pc' \in RxSteps /\ UNCHANGED <<radio, ret, air, given>>
    BY <1>4 DEF ReadFinfo, ReadBuffer, ReadTime, ReadTtcki, ReadTtcko, ReadRxReg, RxSteps
  <2> QED BY <2>1 DEF RxSteps
<1> HIDE DEF QInv, EvenInv, OtherInv, LeaveInv, OvrrInv
<1> QED BY <1>1, <1>2, <1>3, <1>4

\* The second status read takes the frame, or sees the overrun.
LEMMA QInvRecheck ==
    ASSUME QInv, IInv', Recheck
    PROVE  QInv'
<1>1. /\ pc = "rx_recheck" /\ pc' = AfterRecheck(radio)
      /\ UNCHANGED <<radio, call, ret, air, given>>
  BY DEF Recheck, Goto, Unchanged
<1>2. radio.rx = "on" BY <1>1 DEF QInv, IInv, PowerInv, RxOnSteps, RxSteps
<1>3. CASE radio.ovrr
  BY <1>1, <1>2, <1>3 DEF QInv, EvenInv, OtherInv, LeaveInv, OvrrInv, AfterRecheck, Taken
<1>4. CASE ~radio.ovrr
  <2>1. HostSet(radio) \in 1..air /\ call.got["time"] = HostSet(radio)
    BY <1>1, <1>4 DEF QInv, IInv, ReadInv, RxSteps
  <2>2. OtherSet(radio) # HostSet(radio)
    BY <1>2, <1>4, <2>1 DEF QInv, IInv, SetInv, NoFrame, Cleared
  <2>3. radio.even /\ OtherSet(radio) # NoFrame => HostSet(radio) < OtherSet(radio)
    BY <1>2, <1>4, <2>1 DEF QInv, IInv, SetInv, EvenInv, OtherInv
  <2> QED BY <1>1, <1>4, <2>1, <2>2, <2>3
          DEF QInv, EvenInv, OtherInv, LeaveInv, OvrrInv, AfterRecheck, Taken, Overrun
<1> QED BY <1>3, <1>4 DEF QInv, IInv, TypeOK, Radio

\* Releasing, clearing and turning off.
LEMMA QInvReleases ==
    ASSUME QInv, IInv',
           SwapAndReturn \/ ClearOnly \/ WriteTrxoff \/ ClearStatus \/ WriteBack
    PROVE  QInv'
<1> USE DEF QInv, EvenInv, OtherInv, LeaveInv, OvrrInv, Taken, Overrun, Goto, Unchanged
<1>1. radio \in Radio BY DEF IInv, TypeOK
<1>2. radio.hs \in {0, 1} /\ radio.ic \in {0, 1} BY <1>1 DEF Radio, Sets
<1>3. CASE SwapAndReturn
  <2>1. LET r == radio'
        IN /\ r.rx = radio.rx /\ r.ovrr = radio.ovrr /\ r.even = radio.even
           /\ r.ic = radio.ic /\ r.hs = 1 - radio.hs
           /\ HostSet(r) = OtherSet(radio) /\ OtherSet(r) = NoFrame
    BY <1>1, <1>3, HRBPTEffect DEF SwapAndReturn, TakeAndBecome
  <2>2. pc = "rx_swap" /\ pc' = "idle" BY <1>3 DEF SwapAndReturn, TakeAndBecome
  <2>3. HostSet(radio) # NoFrame BY <2>2 DEF NoFrame, Cleared, Corrupt
  <2> QED BY <1>2, <2>1, <2>2, <2>3 DEF NoFrame, Cleared
<1>4. ASSUME ClearOnly \/ (WriteBack /\ pc = "int_clear")
      PROVE  QInv'
  <2>1. LET r == radio'
        IN /\ r.rx = radio.rx /\ r.ovrr = radio.ovrr /\ r.even = radio.even
           /\ r.ic = radio.ic /\ r.hs = radio.hs
           /\ OtherSet(r) = OtherSet(radio) /\ HostSet(r) \in {NoFrame, Cleared}
           /\ radio.rx = "off" \/ HostSet(radio) = NoFrame <=> HostSet(r) = NoFrame
    BY <1>1, <1>4, ClearEffect DEF ClearOnly, WriteBack
  <2>2. CASE WriteBack
    BY <2>1, <2>2 DEF WriteBack, NoFrame, Cleared
  <2>3. CASE ClearOnly
    <3>1. /\ pc = "clr_only" /\ pc' = "rx_swap" /\ call' = call /\ air' = air
          /\ radio.rx = "on"
      BY <2>3 DEF ClearOnly, IInv, PowerInv, RxOnSteps
    <3> QED BY <2>1, <3>1 DEF NoFrame, Cleared, Corrupt
  <2> QED BY <1>4, <2>2, <2>3
<1>5. CASE WriteTrxoff
  <2>1. radio'.rx = "off" /\ radio'.ovrr = radio.ovrr
    BY <1>1, <1>5, TRXOFFEffect DEF WriteTrxoff
  <2> QED BY <1>5, <2>1 DEF WriteTrxoff
<1>6. CASE ClearStatus
  <2>1. radio.rx = "off" BY <1>6 DEF ClearStatus, EndDisable, IInv, PowerInv, OffSteps
  <2>2. radio'.rx = "off" /\ radio'.ovrr = radio.ovrr
    BY <1>1, <1>6, <2>1, ClearEffect DEF ClearStatus, EndDisable
  <2> QED BY <1>6, <2>2 DEF ClearStatus, EndDisable, ThenEnables
<1>7. CASE WriteBack /\ pc # "int_clear"
  BY <1>7 DEF WriteBack
<1> QED BY <1>3, <1>4, <1>5, <1>6, <1>7

\* Starting the receiver and transmitting.
LEMMA QInvStarts ==
    ASSUME QInv, IInv',
           \/ SwapToAlign \/ WriteRxenab \/ WriteFctrl \/ WriteTxstrt
           \/ Off /\ \E op \in {"transmit", "scheduled"}, n \in TxLens, w4r \in BOOLEAN :
                         Transmit(op, n, w4r)
    PROVE  QInv'
<1> USE DEF QInv, EvenInv, OtherInv, LeaveInv, OvrrInv, Taken, Overrun, Goto, Unchanged
<1>1. radio \in Radio /\ call \in Call BY DEF IInv, TypeOK
<1>2. CASE SwapToAlign
  <2>1. radio.rx = "off" BY <1>2 DEF SwapToAlign, IInv, PowerInv, OffSteps
  <2>2. radio'.rx = "off" /\ radio'.ovrr = radio.ovrr
    BY <1>1, <1>2, <2>1, HRBPTEffect DEF SwapToAlign
  <2> QED BY <1>2, <2>2 DEF SwapToAlign
<1>3. CASE WriteRxenab
  <2>1. HostSet(radio) = NoFrame /\ OtherSet(radio) = NoFrame /\ radio.hs = radio.ic
    BY <1>3 DEF WriteRxenab, IInv, PowerInv, OffSteps, DrainInv, AlignInv, EnabledAligned
  <2>2. LET r == radio'
        IN /\ r.hs = radio.hs /\ r.ic = radio.ic
           /\ HostSet(r) = NoFrame /\ OtherSet(r) = NoFrame
    BY <1>1, <1>3, <2>1, StartRxEffect DEF WriteRxenab
  <2> QED BY <1>3, <2>1, <2>2 DEF WriteRxenab, NoFrame, Cleared
<1>4. CASE WriteFctrl \/ WriteTxstrt
  <2>1. radio'.rx = "off"
    BY <1>1, <1>4, WriteTxstrtEffect
       DEF WriteFctrl, WriteTflen, WriteTxstrt, IInv, PowerInv, OffSteps, Radio
  <2> QED BY <1>4, <2>1 DEF WriteFctrl, WriteTflen, WriteTxstrt
<1>5. ASSUME NEW op \in {"transmit", "scheduled"}, NEW n \in TxLens, NEW w4r \in BOOLEAN,
             Off, Transmit(op, n, w4r)
      PROVE  QInv'
  <2>1. radio'.rx = "off" BY <1>1, <1>5 DEF Transmit, Off, Radio
  <2> QED BY <1>5, <2>1 DEF Transmit, Begin
<1> QED BY <1>2, <1>3, <1>4, <1>5

LEMMA QInvMedium ==
    ASSUME QInv, IInv', Medium
    PROVE  QInv'
<1> USE DEF QInv, EvenInv, OtherInv, LeaveInv, OvrrInv, Taken, Overrun
<1>1. radio \in Radio /\ air \in Nat BY DEF IInv, TypeOK
<1>2. CASE FrameArrives
  <2>1. /\ air' = air + 1 /\ UNCHANGED <<pc, call, ret, given>>
        /\ radio.rx = "on" /\ radio.ovrr = FALSE
    BY <1>1, <1>2 DEF FrameArrives, CanReceive, Radio
  <2>2. radio' = ReceiveFrame(radio, air + 1) /\ air + 1 \in Int
    BY <1>1, <1>2 DEF FrameArrives
  <2>3. LET r == radio'
        IN /\ r.rx = radio.rx /\ r.hs = radio.hs /\ r.even = radio.even
           /\ \/ /\ r.ovrr = radio.ovrr /\ HostSet(radio) = NoFrame
                 /\ HostSet(r) = air + 1 /\ OtherSet(r) = OtherSet(radio)
                 /\ radio.ic = radio.hs /\ r.ic # r.hs
              \/ /\ r.ovrr = radio.ovrr /\ OtherSet(radio) = NoFrame
                 /\ HostSet(r) = HostSet(radio) /\ OtherSet(r) = air + 1
                 /\ radio.ic # radio.hs /\ r.ic = r.hs
              \/ r.ovrr = TRUE /\ HostSet(r) = Corrupt /\ OtherSet(r) = Corrupt
    <3> HIDE DEF QInv
    <3> QED BY <1>1, <2>2, ReceiveFrameEffect
  <2>4. HostSet(radio) > 0 => HostSet(radio) < air + 1
    BY <1>1, <2>1 DEF IInv, SetInv, NoFrame, Cleared, Corrupt
  <2>5. EvenInv' BY <1>1, <2>1, <2>2, <2>3, <2>4 DEF NoFrame
  <2>6. OtherInv' BY <1>1, <2>1, <2>2, <2>3 DEF NoFrame, Cleared, Corrupt
  <2>7. LeaveInv' BY <1>1, <2>1, <2>2, <2>3 DEF NoFrame, Cleared, Corrupt
  <2>8. OvrrInv' BY <2>1, <2>2, <2>3
  <2> QED BY <2>5, <2>6, <2>7, <2>8
<1>3. CASE TransmissionEnds
  <2>1. /\ UNCHANGED <<pc, call, ret, air, given>> /\ radio.tx # "idle"
    BY <1>3 DEF TransmissionEnds, Unchanged, CanSend
  <2>2. radio.rx = "off" /\ pc \notin RxOnSteps \cup OffSteps
    BY <1>1, <2>1 DEF IInv, PowerInv, Radio
  <2>3. ~(pc \in Overrun /\ call.op = "receive")
    BY <2>2 DEF OffSteps
  <2>4. HostSet(radio) = NoFrame /\ OtherSet(radio) = NoFrame
    BY <2>2 DEF IInv, DrainInv, OffSteps
  <2>5. LET r == radio'
        IN /\ HostSet(r) = NoFrame /\ OtherSet(r) = NoFrame
           /\ r.rx = "on" => r.even = (r.hs = r.ic)
    BY <1>1, <1>3, <2>2, <2>4, EndTxEffect DEF TransmissionEnds, Unchanged
  <2>6. EvenInv' BY <2>5 DEF NoFrame
  <2>7. OtherInv' BY <2>5 DEF NoFrame, Cleared
  <2>8. LeaveInv' /\ OvrrInv' BY <2>1, <2>2, <2>3 DEF RxOnSteps
  <2> QED BY <2>6, <2>7, <2>8
<1> QED BY <1>2, <1>3 DEF Medium
----------------------------------------------------------------------------
(* The theorems *)

LEMMA QInvInit == Init => QInv
BY InvInit DEF Init, QInv, EvenInv, OtherInv, LeaveInv, OvrrInv, Taken, Overrun, IdleRadio

LEMMA QInvStep == QInv /\ [Next]_vars => QInv'
<1> SUFFICES ASSUME QInv, [Next]_vars PROVE QInv'
  OBVIOUS
<1>1. IInv' BY InvStep DEF QInv
<1>2. CASE UNCHANGED vars
  BY <1>1, <1>2 DEF vars, QInv, EvenInv, OtherInv, LeaveInv, OvrrInv
<1>3. CASE \/ Receive \/ DisableTransceiver \/ ReadPointers \/ WriteTime \/ CheckHpdwarn
           \/ ReadFinfo \/ ReadBuffer \/ ReadTime \/ ReadTtcki \/ ReadTtcko
           \/ ReceiveNull \/ HandleInterrupt
           \/ Off /\ RxEnable
  BY <1>1, <1>3, QInvReads
<1>4. CASE Recheck BY <1>1, <1>4, QInvRecheck
<1>5. CASE SwapAndReturn \/ ClearOnly \/ WriteTrxoff \/ ClearStatus \/ WriteBack
  BY <1>1, <1>5, QInvReleases
<1>6. CASE \/ SwapToAlign \/ WriteRxenab \/ WriteFctrl \/ WriteTxstrt
           \/ Off /\ \E op \in {"transmit", "scheduled"}, n \in TxLens, w4r \in BOOLEAN :
                         Transmit(op, n, w4r)
  BY <1>1, <1>6, QInvStarts
<1>7. CASE Medium BY <1>1, <1>7, QInvMedium
<1> QED
  BY <1>2, <1>3, <1>4, <1>5, <1>6, <1>7 DEF Next, DriverStep

THEOREM QueueInvariant == Spec => []QInv
BY QInvInit, QInvStep, PTL DEF Spec
----------------------------------------------------------------------------
(* Every step of the driver is a step of RxQueue, or none *)

Said == IF ret.op = "receive" /\ ret.err # "nullptr" THEN ret.err ELSE "other"

HeldIn(r, out) == IF r.rx = "off" THEN {}
                  ELSE {f \in {HostSet(r), OtherSet(r)} : f > 0} \ out

LEMMA HeldIs ==
    ASSUME TypeOK, TypeOK'
    PROVE  Held = HeldIn(radio, Leaving) /\ Held' = HeldIn(radio', Leaving')
<1>1. \A r \in Radio : {r.set[i] : i \in Sets} = {HostSet(r), OtherSet(r)}
  BY DEF Radio, Sets, HostSet, OtherSet
<1>2. radio \in Radio /\ radio' \in Radio BY DEF TypeOK
<1>3. Held = HeldIn(radio, Leaving) BY <1>1, <1>2, Zenon DEF Held, HeldIn
<1>4. Held' = HeldIn(radio', Leaving') BY <1>1, <1>2, Zenon DEF Held, HeldIn
<1> QED BY <1>3, <1>4

\* A step that changes neither the receiver nor its sets, takes no frame and
\* answers nothing is no step of RxQueue; with an answer to another call it is
\* Other.
LEMMA Quiet ==
    ASSUME TypeOK, TypeOK',
           radio'.rx = radio.rx, radio'.ovrr = radio.ovrr, radio'.even = radio.even,
           radio.rx = "on" => HostSet(radio') = HostSet(radio) /\ OtherSet(radio') = OtherSet(radio),
           pc \notin Taken, pc' \notin Taken, air' = air, given' = given,
           Said' \in {Said, "other"}
    PROVE  Q!Next \/ UNCHANGED Q!vars
<1>1. Leaving' = Leaving BY DEF Leaving, Taken
<1>2. Held' = Held BY <1>1, HeldIs DEF HeldIn, TypeOK, Radio
<1>3. Spoilt' = Spoilt BY DEF Spoilt, Taken, TypeOK, Radio
<1>4. CASE Said' = Said
  BY <1>1, <1>2, <1>3, <1>4 DEF Q!vars, Said
<1>5. CASE Said' = "other"
  BY <1>1, <1>2, <1>3, <1>5 DEF Q!Next, Q!Other, Said
<1> QED BY <1>4, <1>5

\* The calls and transactions that leave the radio alone, or are for a
\* receiver that is off.
LEMMA MapsQuiet ==
    ASSUME QInv, QInv',
           \/ DisableTransceiver \/ ReadPointers \/ WriteTime \/ CheckHpdwarn
           \/ ReceiveNull \/ HandleInterrupt \/ (WriteBack /\ pc = "int_keep")
           \/ ReadFinfo \/ ReadBuffer \/ ReadTime \/ ReadTtcki \/ ReadTtcko
           \/ ClearStatus \/ SwapToAlign \/ WriteFctrl \/ WriteTxstrt
           \/ Off /\ RxEnable
           \/ Off /\ \E op \in {"transmit", "scheduled"}, n \in TxLens, w4r \in BOOLEAN :
                         Transmit(op, n, w4r)
    PROVE  Q!Next \/ UNCHANGED Q!vars
<1> USE DEF Goto, Unchanged, Taken
<1>1. TypeOK /\ TypeOK' /\ radio \in Radio BY DEF QInv, IInv, TypeOK
<1>2. CASE \/ DisableTransceiver \/ ReceiveNull \/ HandleInterrupt
           \/ Off /\ RxEnable
  BY <1>1, <1>2, Quiet
     DEF DisableTransceiver, ReceiveNull, HandleInterrupt, RxEnable, AfterAlign, Begin,
         Return, Said
<1>3. CASE ReadPointers \/ WriteTime \/ (WriteBack /\ pc = "int_keep")
  BY <1>1, <1>3, Quiet DEF ReadPointers, AfterAlign, WriteTime, WriteBack, Said
<1>4. CASE CheckHpdwarn
  <2>1. call.op = "scheduled" BY <1>4 DEF CheckHpdwarn, QInv, IInv, OpInv
  <2> QED BY <1>1, <1>4, <2>1, Quiet DEF CheckHpdwarn, Return, Said
<1>5. CASE ReadFinfo \/ ReadBuffer \/ ReadTime \/ ReadTtcki \/ ReadTtcko
  <2>1. pc \in RxSteps /\ pc' \in RxSteps /\ UNCHANGED <<radio, ret, air, given>>
    BY <1>5 DEF ReadFinfo, ReadBuffer, ReadTime, ReadTtcki, ReadTtcko, ReadRxReg, RxSteps
  <2> QED BY <1>1, <2>1, Quiet DEF RxSteps, Said
<1>6. CASE ClearStatus
  <2>1. /\ pc = "clr_status" /\ pc' \in {"en_status", "idle"} /\ UNCHANGED <<air, given>>
        /\ Said' \in {Said, "other"} /\ radio' = ClearHostStatus(radio)
    BY <1>6 DEF ClearStatus, EndDisable, ThenEnables, Return, Said
  <2>2. radio.rx = "off" BY <2>1 DEF QInv, IInv, PowerInv, OffSteps
  <2>3. radio'.rx = radio.rx /\ radio'.ovrr = radio.ovrr /\ radio'.even = radio.even
    BY <1>1, <2>1, ClearEffect
  <2> QED BY <1>1, <2>1, <2>2, <2>3, Quiet
<1>7. CASE SwapToAlign
  <2>1. pc = "en_swap" /\ pc' = "en_rxenab" /\ UNCHANGED <<air, given, ret>>
    BY <1>7 DEF SwapToAlign
  <2>2. radio.rx = "off" BY <2>1 DEF QInv, IInv, PowerInv, OffSteps
  <2>3. radio'.rx = radio.rx /\ radio'.ovrr = radio.ovrr /\ radio'.even = radio.even
    BY <1>1, <1>7, HRBPTEffect DEF SwapToAlign
  <2> QED BY <1>1, <2>1, <2>2, <2>3, Quiet DEF Said
<1>8. CASE WriteFctrl
  <2>1. /\ pc = "tx_fctrl" /\ pc' \in {"tx_time", "tx_start"} /\ UNCHANGED <<air, given, ret>>
        /\ radio' = [radio EXCEPT !.tflen = (call.len + 2) % 128]
    BY <1>8 DEF WriteFctrl, WriteTflen
  <2>2. LET r == radio'
        IN /\ r.rx = radio.rx /\ r.ovrr = radio.ovrr /\ r.even = radio.even
           /\ HostSet(r) = HostSet(radio) /\ OtherSet(r) = OtherSet(radio)
    BY <1>1, <2>1 DEF Radio, HostSet, OtherSet
  <2> QED BY <1>1, <2>1, <2>2, Quiet DEF Said
<1>9. CASE WriteTxstrt
  <2>1. /\ pc = "tx_start" /\ pc' \in {"tx_check", "idle"} /\ UNCHANGED <<air, given>>
        /\ Said' \in {Said, "other"}
    BY <1>9 DEF WriteTxstrt, Return, Said, QInv, IInv, OpInv
  <2> DEFINE d == call.op = "scheduled"
  <2>2. PICK late : radio' = StartTx(radio, d, call.w4r, late)
    BY <1>9, Zenon DEF WriteTxstrt
  <2> HIDE DEF d
  <2>3. LET r == radio'
        IN /\ r.rx = radio.rx /\ r.ovrr = radio.ovrr /\ r.even = radio.even
           /\ HostSet(r) = HostSet(radio) /\ OtherSet(r) = OtherSet(radio)
    BY <1>1, <2>2, StartTxEffect
  <2> QED BY <1>1, <2>1, <2>3, Quiet
<1>10. ASSUME NEW op \in {"transmit", "scheduled"}, NEW n \in TxLens, NEW w4r \in BOOLEAN,
              Off, Transmit(op, n, w4r)
       PROVE  Q!Next \/ UNCHANGED Q!vars
  <2>1. /\ pc = "idle" /\ pc' \in {"idle", "tx_fctrl"} /\ UNCHANGED <<air, given>>
        /\ radio' \in {radio, [radio EXCEPT !.txbuf = n]}
    BY <1>10 DEF Transmit, Begin
  <2>3. Said' \in {Said, "other"}
    <3>1. ret' = ret \/ \E err : Return(op, err, Unread) BY <1>10, Zenon DEF Transmit
    <3> QED BY <3>1 DEF Return, Said
  <2>2. LET r == radio'
        IN /\ r.rx = radio.rx /\ r.ovrr = radio.ovrr /\ r.even = radio.even
           /\ HostSet(r) = HostSet(radio) /\ OtherSet(r) = OtherSet(radio)
    BY <1>1, <2>1 DEF Radio, HostSet, OtherSet
  <2> QED BY <1>1, <2>1, <2>2, <2>3, Quiet
<1> QED BY <1>2, <1>3, <1>4, <1>5, <1>6, <1>7, <1>8, <1>9, <1>10

\* The first status read answers that there is no frame only if none is held.
LEMMA MapsReceive ==
    ASSUME QInv, QInv', Receive
    PROVE  Q!Next \/ UNCHANGED Q!vars
<1>1. TypeOK /\ TypeOK' /\ radio \in Radio BY DEF QInv, IInv, TypeOK
<1>2. /\ pc = "idle" /\ pc' \in {"idle", "rx_finfo"} /\ UNCHANGED <<radio, air, given>>
  BY DEF Receive, Begin, Unchanged
<1>3. CASE ret' = ret
  BY <1>1, <1>2, <1>3, Quiet DEF Taken, Said
<1>4. CASE ret' # ret
  <2>1. ~RXFCG(radio) /\ Said' = "no_frame"
    BY <1>4 DEF Receive, Return, Said
  <2>2. Leaving' = Leaving /\ Spoilt' = Spoilt BY <1>2 DEF Leaving, Spoilt
  <2>3. Held' = Held BY <1>1, <1>2, <2>2, HeldIs
  <2>4. Held = {} \/ ~radio.even \/ Spoilt
    <3>1. HostSet(radio) \in {NoFrame, Cleared} BY <2>1 DEF RXFCG
    <3>2. CASE radio.rx = "off" BY <3>2 DEF Held
    <3>3. CASE radio.rx = "on" /\ HostSet(radio) = Cleared
      BY <1>2, <3>3 DEF Spoilt
    <3>4. CASE radio.rx = "on" /\ HostSet(radio) = NoFrame /\ radio.even
      <4>1. OtherSet(radio) \in {NoFrame, Corrupt}
        BY <3>4 DEF QInv, EvenInv, IInv, SetInv, OtherInv
      <4> QED BY <1>1, <3>4, <4>1, HeldIs DEF HeldIn, NoFrame, Corrupt
    <3> QED BY <1>1, <3>1, <3>2, <3>3, <3>4 DEF Radio
  <2> QED BY <1>2, <2>1, <2>2, <2>3, <2>4 DEF Q!Next, Q!Empty, Said
<1> QED BY <1>3, <1>4

\* The second status read takes the oldest frame, or sees the overrun.
LEMMA MapsRecheck ==
    ASSUME QInv, QInv', Recheck
    PROVE  Q!Next \/ UNCHANGED Q!vars
<1>1. TypeOK /\ TypeOK' /\ radio \in Radio BY DEF QInv, IInv, TypeOK
<1>2. /\ pc = "rx_recheck" /\ pc' = AfterRecheck(radio)
      /\ UNCHANGED <<radio, call, ret, air, given>>
  BY DEF Recheck, Goto, Unchanged
<1>3. radio.rx = "on" BY <1>2 DEF QInv, IInv, PowerInv, RxOnSteps, RxSteps
<1>4. CASE radio.ovrr
  BY <1>1, <1>2, <1>4, Quiet DEF AfterRecheck, Taken, Said
<1>5. CASE ~radio.ovrr
  <2> DEFINE f == HostSet(radio)
  <2>1. pc' \in Taken BY <1>2, <1>5 DEF AfterRecheck, Taken
  <2>2. f \in 1..air /\ call.got["time"] = f
    BY <1>2, <1>5 DEF QInv, IInv, ReadInv, RxSteps
  <2>3. f \in Int /\ OtherSet(radio) \in Int
    BY <1>1 DEF Radio, Sets, HostSet, OtherSet
  <2>4. Leaving = {} /\ Leaving' = {f} BY <1>2, <2>1, <2>2 DEF Leaving, Taken
  <2>5. Held = {g \in {f, OtherSet(radio)} : g > 0} /\ Held' = Held \ {f}
    BY <1>1, <1>2, <1>3, <2>4, HeldIs DEF HeldIn
  <2>6. f \in Held BY <2>2, <2>3, <2>5
  <2>7. radio.even => \A g \in Held : f <= g
    BY <1>3, <1>5, <2>2, <2>3, <2>5 DEF QInv, EvenInv
  <2>8. Spoilt' = Spoilt
    <3>1. f # Cleared BY <2>2, <2>3 DEF Cleared
    <3> QED BY <1>2, <3>1 DEF Spoilt
  <2> HIDE DEF f
  <2> QED BY <1>2, <1>5, <2>4, <2>5, <2>6, <2>7, <2>8 DEF Q!Next, Q!Take
<1> QED BY <1>4, <1>5

\* With the swap the frame is returned, or refused as too long.
LEMMA MapsSwap ==
    ASSUME QInv, QInv', SwapAndReturn
    PROVE  Q!Next \/ UNCHANGED Q!vars
<1> DEFINE f == call.got["time"]
<1>1. TypeOK /\ TypeOK' /\ radio \in Radio BY DEF QInv, IInv, TypeOK
<1>2. /\ pc = "rx_swap" /\ pc' = "idle" /\ air' = air /\ radio' = HRBPT(radio)
      /\ ret' = [op |-> "receive", err |-> IF call.fits THEN "none" ELSE "too_small",
                 got |-> call.got]
      /\ given' = IF call.fits THEN given \cup {call.got["buffer"]} ELSE given
  BY DEF SwapAndReturn, TakeAndBecome, Goto, Return
<1>3. radio.rx = "on" BY <1>2 DEF QInv, IInv, PowerInv, RxOnSteps
<1>4. /\ f \in 1..air /\ OtherSet(radio) # f /\ OtherSet(radio) # Cleared
      /\ HostSet(radio) \in {f, Corrupt, Cleared}
  BY <1>2, <1>3 DEF QInv, LeaveInv, OtherInv, Taken
<1>5. /\ radio'.rx = radio.rx /\ radio'.ovrr = radio.ovrr /\ radio'.even = radio.even
      /\ HostSet(radio') = OtherSet(radio) /\ OtherSet(radio') = NoFrame
  BY <1>1, <1>2, HRBPTEffect
<1>6. Leaving = {f} /\ Leaving' = {} BY <1>2 DEF Leaving
<1>7. Spoilt' = Spoilt BY <1>2, <1>4, <1>5 DEF Spoilt
<1>8. Held' = Held
  <2>1. OtherSet(radio) \in Int BY <1>1 DEF Radio, Sets, OtherSet
  <2>2. Held = {g \in {OtherSet(radio)} : g > 0}
    BY <1>1, <1>3, <1>4, <1>6, <2>1, HeldIs DEF HeldIn, Corrupt, Cleared
  <2>3. Held' = {g \in {OtherSet(radio)} : g > 0}
    BY <1>1, <1>3, <1>5, <1>6, <2>1, HeldIs DEF HeldIn, NoFrame
  <2> QED BY <2>2, <2>3
<1>9. CASE call.fits
  <2>1. call.got["buffer"] = f BY <1>2, <1>9 DEF QInv, IInv, TakeInv, RxRegs
  <2>2. given' = given \cup Leaving BY <1>2, <1>6, <1>9, <2>1
  <2>3. Said' = "none" BY <1>2, <1>9 DEF Said
  <2> HIDE DEF f
  <2> QED BY <1>2, <1>5, <1>6, <1>7, <1>8, <2>2, <2>3 DEF Q!Next, Q!Return, Said
<1>10. CASE ~call.fits
  <2>1. given' = given BY <1>2, <1>10
  <2>2. Said' = "too_small" BY <1>2, <1>10 DEF Said
  <2> HIDE DEF f
  <2> QED BY <1>2, <1>5, <1>6, <1>7, <1>8, <2>1, <2>2 DEF Q!Next, Q!Refuse, Said
<1> QED BY <1>9, <1>10

\* Clearing the set of the frame that leaves changes nothing that is held; a
\* clear by dw1000_handle_interrupt may spoil a place.
LEMMA MapsClear ==
    ASSUME QInv, QInv', ClearOnly \/ (WriteBack /\ pc = "int_clear")
    PROVE  Q!Next \/ UNCHANGED Q!vars
<1>1. TypeOK /\ TypeOK' /\ radio \in Radio BY DEF QInv, IInv, TypeOK
<1>2. radio' = ClearHostStatus(radio) /\ UNCHANGED <<call, ret, air, given>>
  BY DEF ClearOnly, WriteBack, Goto, Unchanged
<1>3. /\ radio'.rx = radio.rx /\ radio'.ovrr = radio.ovrr /\ radio'.even = radio.even
      /\ OtherSet(radio') = OtherSet(radio) /\ HostSet(radio') \in {NoFrame, Cleared}
      /\ radio.rx = "off" \/ HostSet(radio) = NoFrame <=> HostSet(radio') = NoFrame
  BY <1>1, <1>2, ClearEffect
<1>4. HostSet(radio) \in Int /\ OtherSet(radio) \in Int
  BY <1>1 DEF Radio, Sets, HostSet, OtherSet
<1>5. CASE ClearOnly
  <2>1. pc = "clr_only" /\ pc' = "rx_swap" BY <1>5 DEF ClearOnly, Goto
  <2>2. radio.rx = "on" BY <2>1 DEF QInv, IInv, PowerInv, RxOnSteps
  <2>3. HostSet(radio) \in {call.got["time"], Corrupt} BY <2>1 DEF QInv, LeaveInv, Taken
  <2>4. Leaving' = Leaving /\ Leaving = {call.got["time"]} BY <1>2, <2>1 DEF Leaving
  <2>5. Held' = Held
    BY <1>1, <1>3, <1>4, <2>2, <2>3, <2>4, HeldIs DEF HeldIn, NoFrame, Cleared, Corrupt
  <2>6. Spoilt' = Spoilt
    <3>1. call.got["time"] # Cleared BY <2>1 DEF QInv, LeaveInv, Taken, IInv, TypeOK, Cleared
    <3> QED BY <2>1, <2>3, <3>1 DEF Spoilt, Corrupt, Cleared
  <2> QED BY <1>2, <1>3, <2>4, <2>5, <2>6 DEF Q!vars
<1>6. CASE WriteBack /\ pc = "int_clear"
  <2>1. pc = "int_clear" /\ pc' = "idle" BY <1>6 DEF WriteBack, Goto
  <2>2. Leaving' = {} /\ Leaving = {} BY <2>1 DEF Leaving
  <2>3. CASE radio.rx = "off" \/ HostSet(radio) \in {NoFrame, Cleared}
    BY <1>1, <1>2, <1>3, <2>1, <2>3, Quiet DEF Taken, Said, NoFrame, Cleared
  <2>4. CASE radio.rx = "on" /\ HostSet(radio) \notin {NoFrame, Cleared}
    <3>1. HostSet(radio') = Cleared BY <1>3, <2>4
    <3>2. Spoilt' = TRUE BY <1>3, <2>1, <2>4, <3>1 DEF Spoilt
    <3>3. CASE radio.ovrr
      <4>1. HostSet(radio) = Corrupt BY <2>4, <3>3 DEF QInv, IInv, SetInv
      <4>2. Held' = Held
        BY <1>1, <1>3, <1>4, <2>2, <2>4, <3>1, <4>1, HeldIs DEF HeldIn, Corrupt, Cleared
      <4> QED BY <1>2, <1>3, <2>2, <3>2, <3>3, <4>2 DEF Q!Next, Q!Spoil
    <3>4. CASE ~radio.ovrr
      <4>1. HostSet(radio) \in 1..air /\ OtherSet(radio) # HostSet(radio)
        BY <2>4, <3>4 DEF QInv, IInv, SetInv
      <4>2. HostSet(radio) \in Held /\ Held' = Held \ {HostSet(radio)}
        BY <1>1, <1>3, <1>4, <2>2, <2>4, <3>1, <4>1, HeldIs DEF HeldIn, Cleared
      <4> QED BY <1>2, <1>3, <2>2, <3>2, <4>2 DEF Q!Next, Q!Spoil
    <3> QED BY <3>3, <3>4
  <2> QED BY <1>1, <2>3, <2>4 DEF Radio
<1> QED BY <1>5, <1>6

\* TRXOFF loses what is held.
LEMMA MapsStop ==
    ASSUME QInv, QInv', WriteTrxoff
    PROVE  Q!Next \/ UNCHANGED Q!vars
<1>1. TypeOK /\ TypeOK' /\ radio \in Radio BY DEF QInv, IInv, TypeOK
<1>2. /\ pc = "clr_trxoff" /\ pc' = "clr_status" /\ UNCHANGED <<call, ret, air, given>>
      /\ radio' = TRXOFF(radio)
  BY DEF WriteTrxoff, Goto, Unchanged
<1>3. radio'.rx = "off" /\ radio'.ovrr = radio.ovrr /\ radio'.even = radio.even
  BY <1>1, <1>2, TRXOFFEffect
<1>4. Leaving = {} /\ Leaving' = {} BY <1>2 DEF Leaving
<1>5. Held' = {} BY <1>3 DEF Held
<1>6. ~Spoilt' BY <1>3 DEF Spoilt
<1> QED BY <1>2, <1>3, <1>4, <1>5, <1>6 DEF Q!Next, Q!Stop

\* RXENAB starts an empty receiver; as the answer of dw1000_receive only after
\* an overrun.
LEMMA MapsStart ==
    ASSUME QInv, QInv', WriteRxenab
    PROVE  Q!Next \/ UNCHANGED Q!vars
<1>1. TypeOK /\ TypeOK' /\ radio \in Radio BY DEF QInv, IInv, TypeOK
<1>2. /\ pc = "en_rxenab" /\ pc' = "idle" /\ UNCHANGED <<call, air, given>>
      /\ radio' = StartRx(radio)
  BY DEF WriteRxenab, Goto, Unchanged
<1>3. /\ radio.rx = "off" /\ HostSet(radio) = NoFrame /\ OtherSet(radio) = NoFrame
      /\ radio.hs = radio.ic
  BY <1>2 DEF QInv, IInv, PowerInv, OffSteps, DrainInv, AlignInv, EnabledAligned
<1>4. /\ radio'.rx = "on" /\ ~radio'.ovrr /\ radio'.even
      /\ HostSet(radio') = NoFrame /\ OtherSet(radio') = NoFrame
  BY <1>1, <1>2, <1>3, StartRxEffect
<1>5. Leaving = {} /\ Leaving' = {} BY <1>2 DEF Leaving
<1>6. Held = {} /\ Held' = {} BY <1>1, <1>3, <1>4, <1>5, HeldIs DEF HeldIn, NoFrame
<1>7. Spoilt' = Spoilt BY <1>3, <1>4 DEF Spoilt, NoFrame, Cleared
<1>8. \/ Said' = "rxovrr" /\ radio.ovrr
      \/ Said' = "other"
  BY <1>2 DEF WriteRxenab, Return, Said, QInv, OvrrInv, Overrun
<1> QED BY <1>2, <1>3, <1>4, <1>5, <1>6, <1>7, <1>8 DEF Q!Next, Q!Start, Said

\* A frame is held, or there was no room for it.
LEMMA MapsArrive ==
    ASSUME QInv, QInv', FrameArrives
    PROVE  Q!Next \/ UNCHANGED Q!vars
<1>1. TypeOK /\ TypeOK' /\ radio \in Radio /\ air \in Nat BY DEF QInv, IInv, TypeOK
<1>2. /\ air' = air + 1 /\ UNCHANGED <<pc, call, ret, given>>
      /\ radio.rx = "on" /\ radio.ovrr = FALSE
  BY <1>1 DEF FrameArrives, CanReceive, Radio
<1>3. radio' = ReceiveFrame(radio, air + 1) /\ air + 1 \in Int
  BY <1>1 DEF FrameArrives
<1>4. LET r == radio'
      IN /\ r.rx = radio.rx /\ r.even = radio.even
         /\ \/ /\ r.ovrr = radio.ovrr /\ HostSet(radio) = NoFrame
               /\ HostSet(r) = air + 1 /\ OtherSet(r) = OtherSet(radio)
            \/ /\ r.ovrr = radio.ovrr /\ OtherSet(radio) = NoFrame
               /\ HostSet(r) = HostSet(radio) /\ OtherSet(r) = air + 1
            \/ /\ r.ovrr = TRUE /\ HostSet(r) = Corrupt /\ OtherSet(r) = Corrupt
               /\ IF radio.ic = radio.hs THEN HostSet(radio) # NoFrame
                                        ELSE OtherSet(radio) # NoFrame
  BY <1>1, <1>3, ReceiveFrameEffect
<1>5. HostSet(radio) \in Int /\ OtherSet(radio) \in Int
  BY <1>1 DEF Radio, Sets, HostSet, OtherSet
<1>6. Leaving' = Leaving /\ air + 1 \notin Leaving
  BY <1>1, <1>2 DEF Leaving, QInv, LeaveInv, Taken
<1>7. CASE radio'.ovrr = radio.ovrr
  <2>1. Held' = Held \cup {air + 1}
    BY <1>1, <1>2, <1>4, <1>5, <1>6, <1>7, HeldIs DEF HeldIn, NoFrame
  <2>2. Spoilt' = Spoilt
    BY <1>1, <1>2, <1>4, <1>7 DEF Spoilt, NoFrame, Cleared
  <2> QED BY <1>2, <1>4, <1>6, <1>7, <2>1, <2>2 DEF Q!Next, Q!Arrive
<1>8. CASE radio'.ovrr # radio.ovrr
  <2>1. /\ radio'.ovrr = TRUE /\ HostSet(radio') = Corrupt /\ OtherSet(radio') = Corrupt
        /\ IF radio.ic = radio.hs THEN HostSet(radio) # NoFrame
                                 ELSE OtherSet(radio) # NoFrame
    BY <1>4, <1>8
  <2>2. Held' = {} BY <1>1, <2>1, HeldIs DEF HeldIn, Corrupt
  <2>3. ~Spoilt' BY <2>1 DEF Spoilt, Corrupt, Cleared
  <2>4. Spoilt \/ ~radio.even \/ \E f, g \in Held \cup Leaving : f # g
    <3> SUFFICES ASSUME ~Spoilt, radio.even
                 PROVE  \E f, g \in Held \cup Leaving : f # g
      OBVIOUS
    <3>1. HostSet(radio) # NoFrame /\ OtherSet(radio) # NoFrame
      BY <1>2, <2>1 DEF QInv, EvenInv
    <3>2. OtherSet(radio) > 0
      BY <1>2, <3>1 DEF QInv, OtherInv, IInv, SetInv
    <3>3. OtherSet(radio) \in Held
      <4>1. OtherSet(radio) \notin Leaving BY DEF Leaving, QInv, LeaveInv, Taken
      <4> QED BY <1>1, <1>2, <3>2, <4>1, HeldIs DEF HeldIn
    <3>4. CASE HostSet(radio) = Cleared
      <4>1. pc = "rx_swap" BY <1>2, <3>4 DEF Spoilt
      <4>2. call.got["time"] \in Leaving BY <4>1 DEF Leaving
      <4>3. call.got["time"] # OtherSet(radio) BY <4>1 DEF QInv, LeaveInv, Taken
      <4> QED BY <3>3, <4>2, <4>3
    <3>5. CASE HostSet(radio) # Cleared
      <4>1. HostSet(radio) > 0 /\ HostSet(radio) # OtherSet(radio)
        BY <1>2, <3>1, <3>5 DEF QInv, EvenInv, IInv, SetInv
      <4>2. HostSet(radio) \in Held \cup Leaving
        BY <1>1, <1>2, <4>1, HeldIs DEF HeldIn
      <4> QED BY <3>3, <4>1, <4>2
    <3> QED BY <3>4, <3>5
  <2> QED BY <1>2, <1>4, <1>6, <2>1, <2>2, <2>3, <2>4 DEF Q!Next, Q!Arrive, Q!NoRoom
<1> QED BY <1>7, <1>8

\* A transmission that waits for a response starts the receiver, skewed or not.
LEMMA MapsEndTx ==
    ASSUME QInv, QInv', TransmissionEnds
    PROVE  Q!Next \/ UNCHANGED Q!vars
<1>1. TypeOK /\ TypeOK' /\ radio \in Radio /\ radio' \in Radio BY DEF QInv, IInv, TypeOK
<1>2. /\ radio' = EndTx(radio) /\ UNCHANGED <<pc, call, ret, air, given>>
      /\ radio.tx # "idle"
  BY DEF TransmissionEnds, Unchanged, CanSend
<1>3. radio.rx = "off" /\ pc \notin RxOnSteps \cup OffSteps
  BY <1>1, <1>2 DEF QInv, IInv, PowerInv, Radio
<1>4. HostSet(radio) = NoFrame /\ OtherSet(radio) = NoFrame
  BY <1>3 DEF QInv, IInv, DrainInv, OffSteps
<1>5. /\ HostSet(radio') = NoFrame /\ OtherSet(radio') = NoFrame
      /\ \/ radio'.rx = radio.rx /\ radio'.ovrr = radio.ovrr /\ radio'.even = radio.even
         \/ radio'.rx = "on" /\ radio'.ovrr = FALSE
  BY <1>1, <1>2, <1>4, EndTxEffect
<1>6. pc \notin Taken /\ pc' \notin Taken BY <1>2, <1>3 DEF RxOnSteps, Taken
<1>7. CASE radio'.rx = radio.rx /\ radio'.ovrr = radio.ovrr /\ radio'.even = radio.even
  BY <1>1, <1>2, <1>3, <1>6, <1>7, Quiet DEF Said
<1>8. CASE radio'.rx = "on" /\ radio'.ovrr = FALSE
  <2>1. Leaving = {} /\ Leaving' = {} BY <1>6 DEF Leaving, Taken
  <2>2. Held = {} /\ Held' = {} BY <1>1, <1>4, <1>5, <2>1, HeldIs DEF HeldIn, NoFrame
  <2>3. Spoilt' = Spoilt BY <1>3, <1>4, <1>5 DEF Spoilt, NoFrame, Cleared
  <2>4. (~radio'.even) \in BOOLEAN BY Zenon
  <2> QED BY <1>2, <1>3, <1>8, <2>1, <2>2, <2>3, <2>4 DEF Q!Next, Q!Start
<1> QED BY <1>5, <1>7, <1>8

LEMMA MapsStep == QInv /\ QInv' /\ [Next]_vars => [Q!Next]_(Q!vars)
<1> SUFFICES ASSUME QInv, QInv', [Next]_vars PROVE Q!Next \/ UNCHANGED Q!vars
  OBVIOUS
<1>1. CASE UNCHANGED vars
  BY <1>1 DEF vars, Q!vars, Spoilt, Held, Leaving
<1>2. CASE \/ DisableTransceiver \/ ReadPointers \/ WriteTime \/ CheckHpdwarn
           \/ ReceiveNull \/ HandleInterrupt \/ (WriteBack /\ pc = "int_keep")
           \/ ReadFinfo \/ ReadBuffer \/ ReadTime \/ ReadTtcki \/ ReadTtcko
           \/ ClearStatus \/ SwapToAlign \/ WriteFctrl \/ WriteTxstrt
           \/ Off /\ RxEnable
           \/ Off /\ \E op \in {"transmit", "scheduled"}, n \in TxLens, w4r \in BOOLEAN :
                         Transmit(op, n, w4r)
  BY <1>2, MapsQuiet
<1>3. CASE Receive BY <1>3, MapsReceive
<1>4. CASE Recheck BY <1>4, MapsRecheck
<1>5. CASE SwapAndReturn BY <1>5, MapsSwap
<1>6. CASE ClearOnly \/ (WriteBack /\ pc = "int_clear") BY <1>6, MapsClear
<1>7. CASE WriteTrxoff BY <1>7, MapsStop
<1>8. CASE WriteRxenab BY <1>8, MapsStart
<1>9. CASE Medium BY <1>9, MapsArrive, MapsEndTx DEF Medium
<1>10. WriteBack => pc \in {"int_clear", "int_keep"} BY DEF WriteBack, Goto
<1> QED
  BY <1>1, <1>2, <1>3, <1>4, <1>5, <1>6, <1>7, <1>8, <1>9, <1>10 DEF Next, DriverStep

LEMMA MapsInit == Init => Q!Init
BY DEF Init, Q!Init, IdleRadio, Spoilt, Held, Leaving, NoFrame, Sets

\* The driver implements the receiver of RxQueue: frames are returned once, in
\* the order they came off the air, and lost only for the reasons given there.
THEOREM Implements == Spec => ImplementsRxQueue
BY MapsInit, MapsStep, QueueInvariant, PTL DEF Spec, ImplementsRxQueue, Q!Spec
=============================================================================
