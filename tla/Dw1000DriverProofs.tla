------------------------- MODULE Dw1000DriverProofs -------------------------
(***************************************************************************)
(* What the driver guarantees to any client that keeps its contract, for   *)
(* every buffer length, every set of frame and message lengths and any     *)
(* number of frames.  IInv is the inductive invariant behind it.           *)
(***************************************************************************)
EXTENDS Dw1000Driver, TLAPS

OtherSet(r) == r.set[1 - r.hs]

----------------------------------------------------------------------------
(* What each operation of the radio gives and what it leaves alone. *)

\* HRBPT releases the host's set, turns the pointer and does nothing else.
LEMMA HRBPTEffect ==
    ASSUME NEW r \in Radio
    PROVE  LET s == HRBPT(r)
           IN /\ s \in Radio
              /\ s.rx = r.rx /\ s.ovrr = r.ovrr /\ s.tx = r.tx /\ s.hpdwarn = r.hpdwarn
              /\ s.txbuf = r.txbuf /\ s.tflen = r.tflen
              /\ s.ic = r.ic /\ s.hs = 1 - r.hs /\ s.even = r.even
              /\ HostSet(s) = OtherSet(r) /\ OtherSet(s) = NoFrame
<1> DEFINE t == [r.set EXCEPT ![r.hs] = NoFrame]
<1>1. t \in [Sets -> Int] /\ 1 - r.hs \in Sets BY DEF Radio, Sets, NoFrame
<1>2. HRBPT(r) = [r EXCEPT !.set = t, !.hs = 1 - r.hs] BY DEF HRBPT
<1>3. t[r.hs] = NoFrame /\ t[1 - r.hs] = r.set[1 - r.hs] BY DEF Radio, Sets
<1>4. 1 - (1 - r.hs) = r.hs BY DEF Radio, Sets
<1> HIDE DEF t
<1> QED BY <1>1, <1>2, <1>3, <1>4 DEF Radio, HostSet, OtherSet

\* Clearing the status bits touches the host's set only.
LEMMA ClearEffect ==
    ASSUME NEW r \in Radio
    PROVE  LET s == ClearHostStatus(r)
           IN /\ s \in Radio
              /\ s.rx = r.rx /\ s.ovrr = r.ovrr /\ s.tx = r.tx /\ s.hpdwarn = r.hpdwarn
              /\ s.txbuf = r.txbuf /\ s.tflen = r.tflen
              /\ s.ic = r.ic /\ s.hs = r.hs /\ s.even = r.even
              /\ HostSet(s) \in {NoFrame, Cleared}
              /\ r.rx = "off" \/ HostSet(r) = NoFrame <=> HostSet(s) = NoFrame
              /\ OtherSet(s) = OtherSet(r)
<1> DEFINE v == IF r.rx = "on" /\ r.set[r.hs] # NoFrame THEN Cleared ELSE NoFrame
           t == [r.set EXCEPT ![r.hs] = v]
<1>1. /\ v \in {NoFrame, Cleared}
      /\ r.rx = "off" \/ r.set[r.hs] = NoFrame <=> v = NoFrame
  BY DEF Radio, NoFrame, Cleared
<1>2. t \in [Sets -> Int] BY <1>1 DEF Radio, Sets, NoFrame, Cleared
<1>3. t[r.hs] = v /\ t[1 - r.hs] = r.set[1 - r.hs] BY DEF Radio, Sets
<1>4. ClearHostStatus(r) = [r EXCEPT !.set = t] BY DEF ClearHostStatus
<1> HIDE DEF t, v
<1> QED BY <1>1, <1>2, <1>3, <1>4 DEF Radio, HostSet, OtherSet

\* TRXOFF stops both directions and empties the set that is not the host's.
LEMMA TRXOFFEffect ==
    ASSUME NEW r \in Radio
    PROVE  LET s == TRXOFF(r)
           IN /\ s \in Radio
              /\ s.rx = "off" /\ s.tx = "idle" /\ s.ovrr = r.ovrr /\ s.even = r.even
              /\ OtherSet(s) = NoFrame
<1> DEFINE t == [r.set EXCEPT ![1 - r.hs] = NoFrame]
<1>1. t \in [Sets -> Int] /\ t[1 - r.hs] = NoFrame BY DEF Radio, Sets, NoFrame
<1>2. TRXOFF(r) = [r EXCEPT !.rx = "off", !.tx = "idle", !.w4r = FALSE,
                            !.hpdwarn = FALSE, !.set = t]
  BY DEF TRXOFF
<1> HIDE DEF t
<1> QED BY <1>1, <1>2 DEF Radio, OtherSet

\* A receiver start leaves an overrun behind and the buffers as they are.
LEMMA StartRxEffect ==
    ASSUME NEW r \in Radio
    PROVE  LET s == StartRx(r)
           IN /\ s \in Radio
              /\ s.rx = "on" /\ s.ovrr = FALSE /\ s.tx = r.tx
              /\ s.hs = r.hs /\ s.ic = r.ic /\ s.even = (r.hs = r.ic)
              /\ HostSet(s) = HostSet(r) /\ OtherSet(s) = OtherSet(r)
<1> DEFINE b == r.hs = r.ic
<1>1. b \in BOOLEAN BY Zenon
<1>2. StartRx(r) = [r EXCEPT !.rx = "on", !.ovrr = FALSE, !.even = b]
  BY Zenon DEF StartRx
<1> HIDE DEF b
<1>3. LET s == StartRx(r)
      IN /\ s \in Radio
         /\ s.rx = "on" /\ s.ovrr = FALSE /\ s.tx = r.tx /\ s.hs = r.hs /\ s.ic = r.ic
         /\ HostSet(s) = HostSet(r) /\ OtherSet(s) = OtherSet(r)
  BY <1>1, <1>2 DEF Radio, HostSet, OtherSet
<1>4. StartRx(r).even = b BY <1>2, Zenon DEF Radio
<1> QED BY <1>3, <1>4, Zenon DEF b

\* A transmission start leaves the receiver and the buffers as they are.
LEMMA StartTxEffect ==
    ASSUME NEW r \in Radio, NEW delayed, NEW w4r, NEW late
    PROVE  LET s == StartTx(r, delayed, w4r, late)
           IN /\ s.rx = r.rx /\ s.ovrr = r.ovrr
              /\ s.hs = r.hs /\ s.ic = r.ic /\ s.even = r.even
              /\ HostSet(s) = HostSet(r) /\ OtherSet(s) = OtherSet(r)
              /\ s.txbuf = r.txbuf /\ s.tflen = r.tflen
<1>1. PICK t, b : StartTx(r, delayed, w4r, late) =
                    [r EXCEPT !.tx = t, !.w4r = w4r, !.hpdwarn = b]
  BY Zenon DEF StartTx
<1> QED BY <1>1 DEF Radio, HostSet, OtherSet

LEMMA StartTxType ==
    ASSUME NEW r \in Radio, NEW delayed \in BOOLEAN, NEW w4r \in BOOLEAN, NEW late \in BOOLEAN
    PROVE  StartTx(r, delayed, w4r, late) \in Radio
<1> DEFINE b == delayed /\ late
           t == IF delayed THEN "delayed" ELSE "sending"
<1>1. b \in BOOLEAN BY Zenon
<1>2. t \in {"sending", "delayed"} OBVIOUS
<1>3. StartTx(r, delayed, w4r, late) = [r EXCEPT !.tx = t, !.w4r = w4r, !.hpdwarn = b]
  BY Zenon DEF StartTx
<1> HIDE DEF b, t
<1> QED BY <1>1, <1>2, <1>3 DEF Radio

\* A frame goes to the receiver's set if that one is free, else both are lost.
LEMMA ReceiveFrameEffect ==
    ASSUME NEW r \in Radio, NEW f \in Int
    PROVE  LET s == ReceiveFrame(r, f)
           IN /\ s \in Radio
              /\ s.rx = r.rx /\ s.tx = r.tx /\ s.hs = r.hs /\ s.even = r.even
              /\ s.txbuf = r.txbuf /\ s.tflen = r.tflen
              /\ \/ /\ s.ovrr = r.ovrr /\ HostSet(r) = NoFrame
                    /\ HostSet(s) = f /\ OtherSet(s) = OtherSet(r)
                    /\ r.ic = r.hs /\ s.ic # s.hs
                 \/ /\ s.ovrr = r.ovrr /\ OtherSet(r) = NoFrame
                    /\ HostSet(s) = HostSet(r) /\ OtherSet(s) = f
                    /\ r.ic # r.hs /\ s.ic = s.hs
                 \/ /\ s.ovrr = TRUE /\ HostSet(s) = Corrupt /\ OtherSet(s) = Corrupt
                    /\ IF r.ic = r.hs THEN HostSet(r) # NoFrame ELSE OtherSet(r) # NoFrame
<1>0. /\ r.ic = r.hs \/ (r.ic = 1 - r.hs /\ 1 - r.ic = r.hs)
      /\ 1 - r.ic # r.ic /\ 1 - r.hs # r.hs
  BY DEF Radio, Sets
<1>1. CASE r.set[r.ic] = NoFrame
  <2> DEFINE t == [r.set EXCEPT ![r.ic] = f]
  <2>1. t \in [Sets -> Int] /\ 1 - r.ic \in Sets BY DEF Radio, Sets
  <2>2. t[r.ic] = f /\ t[1 - r.ic] = r.set[1 - r.ic] BY DEF Radio, Sets
  <2>3. ReceiveFrame(r, f) = [r EXCEPT !.set = t, !.ic = 1 - r.ic]
    BY <1>1 DEF ReceiveFrame
  <2> HIDE DEF t
  <2> QED BY <1>0, <1>1, <2>1, <2>2, <2>3 DEF Radio, HostSet, OtherSet
<1>2. CASE r.set[r.ic] # NoFrame
  <2> DEFINE t == [i \in Sets |-> Corrupt]
  <2>1. t \in [Sets -> Int] /\ t[r.hs] = Corrupt /\ t[1 - r.hs] = Corrupt
    BY DEF Radio, Sets, Corrupt
  <2>2. ReceiveFrame(r, f) = [r EXCEPT !.ovrr = TRUE, !.set = t]
    BY <1>2 DEF ReceiveFrame
  <2> HIDE DEF t
  <2> QED BY <1>0, <1>2, <2>1, <2>2 DEF Radio, HostSet, OtherSet
<1> QED BY <1>1, <1>2

\* The end of a transmission starts the receiver or leaves it alone.
LEMMA EndTxEffect ==
    ASSUME NEW r \in Radio
    PROVE  LET s == EndTx(r)
           IN /\ s \in Radio
              /\ s.tx = "idle" /\ HostSet(s) = HostSet(r) /\ OtherSet(s) = OtherSet(r)
              /\ \/ s.rx = r.rx /\ s.ovrr = r.ovrr /\ s.even = r.even
                 \/ s.rx = "on" /\ s.ovrr = FALSE /\ s.even = (s.hs = s.ic)
<1> DEFINE done == [r EXCEPT !.tx = "idle", !.w4r = FALSE]
<1>1. /\ done \in Radio /\ done.tx = "idle" /\ done.rx = r.rx /\ done.ovrr = r.ovrr
      /\ done.even = r.even /\ HostSet(done) = HostSet(r) /\ OtherSet(done) = OtherSet(r)
  BY DEF Radio, HostSet, OtherSet
<1>2. EndTx(r) \in {StartRx(done), done} BY DEF EndTx
<1>3. LET s == StartRx(done)
      IN /\ s \in Radio
         /\ s.rx = "on" /\ s.ovrr = FALSE /\ s.tx = "idle" /\ s.even = (s.hs = s.ic)
         /\ HostSet(s) = HostSet(r) /\ OtherSet(s) = OtherSet(r)
  BY <1>1, StartRxEffect, Zenon
<1> HIDE DEF done
<1>4. CASE EndTx(r) = done BY <1>1, <1>4
<1>5. CASE EndTx(r) = StartRx(done) BY <1>3, <1>5
<1> QED BY <1>2, <1>4, <1>5

\* A frame that passes the unsigned length test has at most BufLen bytes of
\* data; the two lengths below 2 do not pass it.
LEMMA FitsBounds ==
    ASSUME NEW n \in 0..127, Fits(n)
    PROVE  n - 2 \in 0..BufLen
<1>1. UIntModulus \in Nat /\ UIntModulus > 127 + BufLen /\ BufLen \in Nat
  BY DriverAssumption
<1>2. CASE n >= 2
  <2>1. (n - 2) % UIntModulus = n - 2 BY <1>1, <1>2
  <2> QED BY <1>1, <1>2, <2>1 DEF Fits
<1>3. CASE n < 2
  <2>1. (n - 2) % UIntModulus = n - 2 + UIntModulus BY <1>1, <1>3
  <2> QED BY <1>1, <1>3, <2>1 DEF Fits
<1> QED BY <1>2, <1>3
----------------------------------------------------------------------------
(* The inductive invariant *)

RxSteps == {"rx_finfo", "rx_buffer", "rx_time", "rx_ttcki", "rx_ttcko", "rx_recheck"}
RxOnSteps == RxSteps \cup {"clr_only", "rx_swap"}
OffSteps == {"clr_status", "en_status", "en_swap", "en_rxenab",
             "tx_fctrl", "tx_time", "tx_start"}

\* Which call a step belongs to.
OpInv ==
    /\ pc \in RxOnSteps => call.op = "receive"
    /\ pc \in {"tx_fctrl", "tx_start"} => call.op \in {"transmit", "scheduled"}
    /\ pc \in {"tx_time", "tx_check"} => call.op = "scheduled"
    /\ pc \in {"int_clear", "int_keep"} => call.op = "interrupt"

\* When the receiver is on and when the transceiver is off.
PowerInv ==
    /\ pc \in RxOnSteps => radio.rx = "on"
    /\ pc \in OffSteps => radio.rx = "off" /\ radio.tx = "idle"
    /\ radio.rx = "on" => radio.tx = "idle"

TxInv ==
    /\ SentIntact
    /\ pc = "tx_fctrl" => radio.txbuf = call.len /\ call.len <= 125
    /\ pc \in {"tx_time", "tx_start"} => radio.tflen = radio.txbuf + 2

\* After TRXOFF only the host's set can be full, until its bits are cleared.
DrainInv ==
    radio.rx = "off" => /\ OtherSet(radio) = NoFrame
                        /\ pc # "clr_status" => HostSet(radio) = NoFrame

\* Until an overrun, the sets hold different frames that were not returned yet.
SetInv ==
    /\ given \subseteq 1..air
    /\ radio.rx = "on" =>
          \A v \in {HostSet(radio), OtherSet(radio)} :
              \/ v \in {NoFrame, Cleared}
              \/ radio.ovrr /\ v = Corrupt
              \/ ~radio.ovrr /\ v \in (1..air) \ given
    /\ radio.rx = "on" /\ ~radio.ovrr /\ HostSet(radio) = OtherSet(radio) =>
          HostSet(radio) \in {NoFrame, Cleared}

\* The registers read so far are those of the frame in the host's set, or an
\* overrun has happened, which the second status read will see.
ReadInv ==
    pc \in RxSteps /\ ~radio.ovrr =>
        /\ HostSet(radio) \in 1..air
        /\ pc # "rx_finfo" => call.got["finfo"] = HostSet(radio)
        /\ pc \notin {"rx_finfo", "rx_buffer"} /\ call.fits =>
               call.got["buffer"] = HostSet(radio)
        /\ pc \in {"rx_ttcki", "rx_ttcko", "rx_recheck"} => call.got["time"] = HostSet(radio)
        /\ pc \in {"rx_ttcko", "rx_recheck"} => call.got["ttcki"] = HostSet(radio)
        /\ pc = "rx_recheck" => call.got["ttcko"] = HostSet(radio)

\* The frame about to be returned is whole, new, and only in the host's set.
TakeInv ==
    pc \in {"clr_only", "rx_swap"} /\ call.fits =>
        /\ call.got["buffer"] \in (1..air) \ given
        /\ \A x \in RxRegs : call.got[x] = call.got["buffer"]
        /\ OtherSet(radio) # call.got["buffer"]

AlignInv == EnabledAligned /\ (pc = "en_swap" => radio.hs # radio.ic)

IInv == /\ TypeOK /\ OpInv /\ PowerInv /\ TxInv /\ DrainInv /\ SetInv
        /\ ReadInv /\ TakeInv /\ AlignInv /\ CopyFits /\ ReturnedWhole
----------------------------------------------------------------------------
(* Types *)

LEMMA TypeInit == Init => TypeOK
BY DEF Init, TypeOK, IdleRadio, Radio, Sets, NoFrame, NewCall, Unread, RxRegs,
       Call, Result, Ops, Errors, Steps

LEMMA TypeStep == TypeOK /\ [Next]_vars => TypeOK'
<1> SUFFICES ASSUME TypeOK, [Next]_vars PROVE TypeOK'
  OBVIOUS
<1> USE DEF TypeOK, Steps
<1>1. Unread \in [RxRegs -> Int] BY DEF Unread, NoFrame
<1>2. \A op \in Ops : NewCall(op) \in Call BY <1>1 DEF NewCall, Call
<1>3. radio.hs \in Sets /\ HostSet(radio) \in Int BY DEF Radio, HostSet
<1>4. \A op \in Ops, err \in Errors, got \in [RxRegs -> Int] :
          Return(op, err, got) => ret' \in Result
  BY DEF Return, Result
<1>5. /\ call.op \in Ops /\ call.w4r \in BOOLEAN /\ call.len \in Nat
      /\ call.fits \in BOOLEAN /\ call.got \in [RxRegs -> Int]
  BY DEF Call
<1>6. CASE Receive \/ ReceiveNull
  BY <1>1, <1>2, <1>4, <1>6 DEF Receive, ReceiveNull, Begin, Unchanged, Ops, Errors
<1>7. ASSUME NEW reg \in RxRegs, NEW from, NEW to \in Steps, ReadRxReg(reg, from, to)
      PROVE  TypeOK'
  BY <1>3, <1>7 DEF ReadRxReg, Goto, Unchanged, Call
<1>8. CASE ReadFinfo
  <2> PICK rxflen \in RxLens :
        /\ Goto("rx_finfo", IF Fits(rxflen) THEN "rx_buffer" ELSE "rx_time")
        /\ call' = [call EXCEPT !.got["finfo"] = HostSet(radio), !.len = rxflen,
                                !.fits = Fits(rxflen)]
        /\ Unchanged(radio) /\ UNCHANGED ret
    BY <1>8 DEF ReadFinfo
  <2>1. rxflen \in Nat BY DriverAssumption
  <2>2. Fits(rxflen) \in BOOLEAN BY DEF Fits
  <2>3. call' \in Call BY <2>1, <2>2, <1>3, <1>5 DEF Call
  <2> QED BY <2>3 DEF Goto, Unchanged
<1>9. CASE ReadBuffer \/ ReadTime \/ ReadTtcki \/ ReadTtcko
  BY <1>7, <1>9 DEF ReadBuffer, ReadTime, ReadTtcki, ReadTtcko, RxRegs
<1>10. CASE Recheck
  BY <1>10 DEF Recheck, AfterRecheck, Goto, Unchanged
<1>11. CASE SwapAndReturn
  <2>1. radio' \in Radio BY <1>11, HRBPTEffect DEF SwapAndReturn, TakeAndBecome
  <2>2. call.got["buffer"] \in Int BY <1>5 DEF RxRegs
  <2>3. given' \in SUBSET Int BY <1>11, <2>2 DEF SwapAndReturn, TakeAndBecome
  <2>4. ret' \in Result
    BY <1>5, <1>11 DEF SwapAndReturn, TakeAndBecome, Return, Result, Ops, Errors
  <2> QED BY <1>11, <2>1, <2>3, <2>4 DEF SwapAndReturn, TakeAndBecome, Goto
<1>12. CASE DisableTransceiver \/ WriteTrxoff \/ ClearOnly \/ ClearStatus
  BY <1>1, <1>2, <1>4, <1>5, <1>12, TRXOFFEffect, ClearEffect
     DEF DisableTransceiver, WriteTrxoff, ClearOnly, ClearStatus, EndDisable,
         Begin, Goto, Unchanged, Ops, Errors
<1>13. CASE RxEnable \/ ReadPointers \/ SwapToAlign
  BY <1>2, <1>13, HRBPTEffect
     DEF RxEnable, ReadPointers, SwapToAlign, AfterAlign, Begin, Goto, Unchanged, Ops
<1>14. CASE WriteRxenab
  BY <1>1, <1>4, <1>5, <1>14, StartRxEffect
     DEF WriteRxenab, Goto, Unchanged, Errors
<1>15. ASSUME NEW op \in {"transmit", "scheduled"}, NEW n \in TxLens, NEW w4r \in BOOLEAN,
              Transmit(op, n, w4r)
       PROVE  TypeOK'
  <2>1. n \in Nat BY DriverAssumption
  <2>2. [NewCall(op) EXCEPT !.w4r = w4r, !.len = n] \in Call
    BY <1>2, <2>1 DEF Ops, Call
  <2>3. [radio EXCEPT !.txbuf = n] \in Radio BY <2>1 DEF Radio
  <2> QED BY <1>1, <1>2, <1>4, <1>15, <2>2, <2>3 DEF Transmit, Begin, Unchanged, Ops, Errors
<1>16. CASE WriteFctrl
  <2>1. [radio EXCEPT !.tflen = (call.len + 2) % 128] \in Radio BY <1>5 DEF Radio
  <2> QED BY <1>16, <2>1 DEF WriteFctrl, WriteTflen, Goto, Unchanged
<1>17. CASE WriteTime
  BY <1>17 DEF WriteTime, Goto, Unchanged
<1>18. CASE WriteTxstrt
  <2> PICK late \in BOOLEAN :
        /\ Goto("tx_start", IF call.op = "scheduled" THEN "tx_check" ELSE "idle")
        /\ Unchanged(StartTx(radio, call.op = "scheduled", call.w4r, late))
        /\ UNCHANGED call
        /\ IF call.op = "scheduled" THEN UNCHANGED ret ELSE Return(call.op, "none", Unread)
    BY <1>18, Zenon DEF WriteTxstrt
  <2>1. (call.op = "scheduled") \in BOOLEAN BY Zenon
  <2>2. radio' \in Radio BY <1>5, <2>1, StartTxType, Zenon DEF Unchanged
  <2> QED BY <1>1, <1>4, <1>5, <2>2 DEF Goto, Unchanged, Errors
<1>19. CASE CheckHpdwarn
  BY <1>1, <1>4, <1>5, <1>19 DEF CheckHpdwarn, Goto, Unchanged, Errors
<1>20. CASE HandleInterrupt \/ WriteBack
  BY <1>2, <1>20, ClearEffect DEF HandleInterrupt, WriteBack, Begin, Goto, Unchanged, Ops
<1>21. CASE FrameArrives
  <2>1. air + 1 \in Nat /\ air + 1 \in Int OBVIOUS
  <2>2. ReceiveFrame(radio, air + 1) \in Radio BY <2>1, ReceiveFrameEffect
  <2> QED BY <1>21, <2>1, <2>2 DEF FrameArrives
<1>22. CASE TransmissionEnds
  BY <1>22, EndTxEffect DEF TransmissionEnds, Unchanged
<1>23. CASE UNCHANGED vars
  BY <1>23 DEF vars
<1> QED
  BY <1>6, <1>8, <1>9, <1>10, <1>11, <1>12, <1>13, <1>14, <1>15, <1>16, <1>17, <1>18,
     <1>19, <1>20, <1>21, <1>22, <1>23 DEF Next, DriverStep, Medium

\* Every field of the driver's state stays in its range, TX_FCTRL's 7 bit
\* length included.
THEOREM TypeCorrect == Spec => []TypeOK
BY TypeInit, TypeStep, PTL DEF Spec
----------------------------------------------------------------------------
(* The steps of the driver and of the medium preserve it *)

LEMMA InvInit == Init => IInv
<1> SUFFICES ASSUME Init PROVE IInv
  OBVIOUS
<1>1. TypeOK BY TypeInit
<1>2. /\ radio.rx = "off" /\ radio.tx = "idle"
      /\ HostSet(radio) = NoFrame /\ OtherSet(radio) = NoFrame
  BY DEF Init, IdleRadio, HostSet, OtherSet, Sets
<1>3. pc = "idle" /\ given = {} /\ ret.op = "none" BY DEF Init
<1> QED
  BY <1>1, <1>2, <1>3
     DEF IInv, OpInv, PowerInv, TxInv, SentIntact, DrainInv, SetInv, ReadInv, TakeInv,
         AlignInv, EnabledAligned, CopyFits, ReturnedWhole, RxSteps, RxOnSteps, OffSteps

\* The calls that leave the radio alone, and their status reads.
LEMMA InvReads ==
    ASSUME IInv, TypeOK',
           \/ Receive \/ Recheck \/ DisableTransceiver \/ ReadPointers \/ WriteTime
           \/ CheckHpdwarn \/ ReceiveNull \/ HandleInterrupt
           \/ Off /\ RxEnable
    PROVE  IInv'
<1> USE DEF IInv, OpInv, PowerInv, TxInv, SentIntact, DrainInv, SetInv, ReadInv, TakeInv,
         AlignInv, EnabledAligned, CopyFits, ReturnedWhole, RxSteps, RxOnSteps, OffSteps,
         Begin, Goto, Unchanged
<1>0. radio' = radio /\ UNCHANGED <<air, given>>
  BY DEF Receive, Recheck, DisableTransceiver, ReadPointers, WriteTime, CheckHpdwarn, RxEnable,
         ReceiveNull, HandleInterrupt
<1>1. CASE Receive
  <2>1. radio.rx \in {"on", "off"} BY DEF TypeOK, Radio
  <2>2. CASE RXFCG(radio)
    <3>1. radio.rx = "on" BY <1>1, <2>1, <2>2 DEF Receive, RXFCG
    <3>2. ~radio.ovrr => HostSet(radio) \in 1..air BY <2>2, <3>1 DEF RXFCG
    <3> QED BY <1>0, <1>1, <2>2, <3>1, <3>2 DEF Receive, NewCall
  <2>3. CASE ~RXFCG(radio)
    BY <1>0, <1>1, <2>3 DEF Receive, NewCall, Return
  <2> QED BY <2>2, <2>3
<1>2. CASE Recheck
  <2>1. /\ pc = "rx_recheck" /\ UNCHANGED <<call, ret>> /\ radio.rx = "on"
        /\ pc' = AfterRecheck(radio)
    BY <1>2 DEF Recheck
  <2>2. CASE radio.ovrr
    <3>1. pc' = "clr_trxoff" BY <2>1, <2>2 DEF AfterRecheck
    <3> QED BY <1>0, <2>1, <3>1
  <2>3. CASE ~radio.ovrr
    <3> DEFINE f == HostSet(radio)
    <3>1. pc' \in {"clr_only", "rx_swap"} BY <2>1, <2>3 DEF AfterRecheck
    <3>2. /\ f \in 1..air
          /\ \A x \in RxRegs : x # "buffer" \/ call.fits => call.got[x] = f
      BY <2>1, <2>3 DEF RxRegs
    <3>3. f \notin given /\ OtherSet(radio) # f
      BY <2>1, <2>3, <3>2 DEF NoFrame, Cleared
    <3>4. TakeInv' BY <1>0, <2>1, <3>2, <3>3 DEF RxRegs
    <3> QED BY <1>0, <2>1, <3>1, <3>4
  <2> QED BY <2>2, <2>3
<1>3. CASE DisableTransceiver
  BY <1>0, <1>3 DEF DisableTransceiver
<1>4. CASE ReadPointers
  BY <1>0, <1>4 DEF ReadPointers, AfterAlign
<1>5. CASE WriteTime
  BY <1>0, <1>5 DEF WriteTime
<1>6. CASE CheckHpdwarn
  BY <1>0, <1>6 DEF CheckHpdwarn, Return
<1>7. CASE Off /\ RxEnable
  BY <1>0, <1>7 DEF Off, RxEnable, AfterAlign
<1>8. CASE ReceiveNull
  BY <1>0, <1>8 DEF ReceiveNull, NewCall, Return
<1>9. CASE HandleInterrupt
  BY <1>0, <1>9 DEF HandleInterrupt, NewCall
<1> QED BY <1>1, <1>2, <1>3, <1>4, <1>5, <1>6, <1>7, <1>8, <1>9

\* Reading the registers of a frame, one by one.
LEMMA InvRegisters ==
    ASSUME IInv, TypeOK', ReadFinfo \/ ReadBuffer \/ ReadTime \/ ReadTtcki \/ ReadTtcko
    PROVE  IInv'
<1> USE DEF IInv, OpInv, PowerInv, TxInv, SentIntact, DrainInv, SetInv, ReadInv, TakeInv,
         AlignInv, EnabledAligned, CopyFits, ReturnedWhole, RxSteps, RxOnSteps, OffSteps,
         Goto, Unchanged
<1>1. call \in Call BY DEF TypeOK
<1>2. CASE ReadFinfo
  <2> PICK rxflen \in RxLens :
        /\ Goto("rx_finfo", IF Fits(rxflen) THEN "rx_buffer" ELSE "rx_time")
        /\ call' = [call EXCEPT !.got["finfo"] = HostSet(radio), !.len = rxflen,
                                !.fits = Fits(rxflen)]
        /\ Unchanged(radio) /\ UNCHANGED ret
    BY <1>2 DEF ReadFinfo
  <2>1. Fits(rxflen) => rxflen - 2 \in 0..BufLen BY DriverAssumption, FitsBounds
  <2>2. /\ call'.op = call.op /\ call'.len = rxflen /\ call'.fits = Fits(rxflen)
        /\ call'.got["finfo"] = HostSet(radio)
    BY <1>1 DEF Call, RxRegs
  <2> QED BY <2>1, <2>2
<1>3. ASSUME NEW reg \in RxRegs, NEW from, NEW to, ReadRxReg(reg, from, to)
      PROVE  /\ call'.op = call.op /\ call'.fits = call.fits
             /\ call'.got[reg] = HostSet(radio)
             /\ \A x \in RxRegs \ {reg} : call'.got[x] = call.got[x]
             /\ radio' = radio /\ UNCHANGED <<air, given, ret>> /\ Goto(from, to)
  BY <1>1, <1>3 DEF ReadRxReg, Call
<1>4. CASE ReadBuffer
  <2>1. /\ call'.op = call.op /\ call'.fits = call.fits
        /\ call'.got["buffer"] = HostSet(radio)
        /\ \A x \in RxRegs \ {"buffer"} : call'.got[x] = call.got[x]
        /\ radio' = radio /\ UNCHANGED <<air, given, ret>>
        /\ pc = "rx_buffer" /\ pc' = "rx_time"
    BY <1>3, <1>4 DEF ReadBuffer, RxRegs
  <2> QED BY <2>1 DEF RxRegs
<1>5. CASE ReadTime
  <2>1. /\ call'.op = call.op /\ call'.fits = call.fits
        /\ call'.got["time"] = HostSet(radio)
        /\ \A x \in RxRegs \ {"time"} : call'.got[x] = call.got[x]
        /\ radio' = radio /\ UNCHANGED <<air, given, ret>>
        /\ pc = "rx_time" /\ pc' = "rx_ttcki"
    BY <1>3, <1>5 DEF ReadTime, RxRegs
  <2> QED BY <2>1 DEF RxRegs
<1>6. CASE ReadTtcki
  <2>1. /\ call'.op = call.op /\ call'.fits = call.fits
        /\ call'.got["ttcki"] = HostSet(radio)
        /\ \A x \in RxRegs \ {"ttcki"} : call'.got[x] = call.got[x]
        /\ radio' = radio /\ UNCHANGED <<air, given, ret>>
        /\ pc = "rx_ttcki" /\ pc' = "rx_ttcko"
    BY <1>3, <1>6 DEF ReadTtcki, RxRegs
  <2> QED BY <2>1 DEF RxRegs
<1>7. CASE ReadTtcko
  <2>1. /\ call'.op = call.op /\ call'.fits = call.fits
        /\ call'.got["ttcko"] = HostSet(radio)
        /\ \A x \in RxRegs \ {"ttcko"} : call'.got[x] = call.got[x]
        /\ radio' = radio /\ UNCHANGED <<air, given, ret>>
        /\ pc = "rx_ttcko" /\ pc' = "rx_recheck"
    BY <1>3, <1>7 DEF ReadTtcko, RxRegs
  <2> QED BY <2>1 DEF RxRegs
<1> QED BY <1>2, <1>4, <1>5, <1>6, <1>7

\* Releasing, clearing and turning off.
LEMMA InvReleases ==
    ASSUME IInv, TypeOK',
           SwapAndReturn \/ ClearOnly \/ WriteTrxoff \/ ClearStatus \/ WriteBack
    PROVE  IInv'
<1> USE DEF IInv, OpInv, PowerInv, TxInv, SentIntact, DrainInv, SetInv, ReadInv, TakeInv,
         AlignInv, EnabledAligned, CopyFits, ReturnedWhole, RxSteps, RxOnSteps, OffSteps,
         Goto, Unchanged, Return
<1>1. radio \in Radio /\ call \in Call BY DEF TypeOK
<1>3. CASE SwapAndReturn
  <2>1. LET r == radio'
        IN /\ r.rx = radio.rx /\ r.ovrr = radio.ovrr /\ r.tx = radio.tx
           /\ r.txbuf = radio.txbuf /\ r.tflen = radio.tflen
           /\ HostSet(r) = OtherSet(radio) /\ OtherSet(r) = NoFrame
    BY <1>1, <1>3, HRBPTEffect DEF SwapAndReturn, TakeAndBecome
  <2>2. /\ pc = "rx_swap" /\ pc' = "idle" /\ call' = call /\ air' = air
        /\ ret'.err = (IF call.fits THEN "none" ELSE "too_small") /\ ret'.got = call.got
        /\ given' = IF call.fits THEN given \cup {call.got["buffer"]} ELSE given
    BY <1>3 DEF SwapAndReturn, TakeAndBecome
  <2>3. SetInv' BY <2>1, <2>2
  <2>4. ReturnedWhole'
    <3> DEFINE f == call.got["buffer"]
    <3>1. call.fits => f \in 1..air /\ call.got = [x \in RxRegs |-> f]
      BY <1>1, <2>2 DEF Call
    <3> QED BY <2>2, <3>1
  <2> QED BY <2>1, <2>2, <2>3, <2>4
<1>4. CASE ClearOnly
  <2>1. LET r == radio'
        IN /\ r.rx = radio.rx /\ r.ovrr = radio.ovrr /\ r.tx = radio.tx
           /\ r.txbuf = radio.txbuf /\ r.tflen = radio.tflen
           /\ HostSet(r) \in {NoFrame, Cleared} /\ OtherSet(r) = OtherSet(radio)
    BY <1>1, <1>4, ClearEffect DEF ClearOnly
  <2> QED BY <1>4, <2>1 DEF ClearOnly
<1>5. CASE WriteTrxoff
  <2>1. radio'.rx = "off" /\ radio'.tx = "idle" /\ OtherSet(radio') = NoFrame
    BY <1>1, <1>5, TRXOFFEffect DEF WriteTrxoff
  <2> QED BY <1>5, <2>1 DEF WriteTrxoff
<1>6. CASE ClearStatus
  <2>1. LET r == radio'
        IN /\ r.rx = "off" /\ r.tx = "idle"
           /\ HostSet(r) = NoFrame /\ OtherSet(r) = NoFrame
    BY <1>1, <1>6, ClearEffect DEF ClearStatus, EndDisable
  <2> QED BY <1>6, <2>1 DEF ClearStatus, EndDisable, ThenEnables
<1>7. CASE WriteBack
  <2>1. /\ pc \in {"int_clear", "int_keep"} /\ pc' = "idle"
        /\ UNCHANGED <<call, ret, air, given>>
    BY <1>7 DEF WriteBack
  <2>2. LET r == radio'
        IN /\ r.rx = radio.rx /\ r.ovrr = radio.ovrr /\ r.tx = radio.tx
           /\ r.txbuf = radio.txbuf /\ r.tflen = radio.tflen
           /\ HostSet(r) \in {HostSet(radio), NoFrame, Cleared}
           /\ OtherSet(r) = OtherSet(radio)
           /\ r.rx = "off" => HostSet(r) = NoFrame
    BY <1>1, <1>7, ClearEffect DEF WriteBack
  <2> QED BY <2>1, <2>2
<1> QED BY <1>3, <1>4, <1>5, <1>6, <1>7

\* TXSTRT leaves the receiver, the buffers and the frame to send alone.
LEMMA WriteTxstrtEffect ==
    ASSUME radio \in Radio, WriteTxstrt
    PROVE  LET r == radio'
           IN /\ r.rx = radio.rx /\ r.txbuf = radio.txbuf /\ r.tflen = radio.tflen
              /\ HostSet(r) = HostSet(radio) /\ OtherSet(r) = OtherSet(radio)
<1> DEFINE d == call.op = "scheduled"
<1>1. PICK late \in BOOLEAN : radio' = StartTx(radio, d, call.w4r, late)
  BY Zenon DEF WriteTxstrt, Unchanged
<1> HIDE DEF d
<1> QED BY <1>1, StartTxEffect

\* Starting the receiver and transmitting.
LEMMA InvStarts ==
    ASSUME IInv, TypeOK',
           \/ SwapToAlign \/ WriteRxenab \/ WriteFctrl \/ WriteTxstrt
           \/ Off /\ \E op \in {"transmit", "scheduled"}, n \in TxLens, w4r \in BOOLEAN :
                         Transmit(op, n, w4r)
    PROVE  IInv'
<1> USE DEF IInv, OpInv, PowerInv, TxInv, SentIntact, DrainInv, SetInv, ReadInv, TakeInv,
         AlignInv, EnabledAligned, CopyFits, ReturnedWhole, RxSteps, RxOnSteps, OffSteps,
         Goto, Unchanged, Return
<1>1. radio \in Radio /\ call \in Call BY DEF TypeOK
<1>3. CASE SwapToAlign
  <2>1. LET r == radio'
        IN /\ r.rx = radio.rx /\ r.tx = radio.tx
           /\ r.txbuf = radio.txbuf /\ r.tflen = radio.tflen
           /\ HostSet(r) = NoFrame /\ OtherSet(r) = NoFrame
    BY <1>1, <1>3, HRBPTEffect DEF SwapToAlign
  <2>2. radio'.hs = radio'.ic
    <3>1. radio.hs \in {0, 1} /\ radio.ic \in {0, 1} BY <1>1 DEF Radio, Sets
    <3>2. radio'.hs = 1 - radio.hs /\ radio'.ic = radio.ic
      BY <1>1, <1>3, HRBPTEffect DEF SwapToAlign
    <3> QED BY <1>3, <3>1, <3>2 DEF SwapToAlign
  <2> QED BY <1>3, <2>1, <2>2 DEF SwapToAlign
<1>4. CASE WriteRxenab
  <2>1. LET r == radio'
        IN /\ r.rx = "on" /\ r.tx = "idle"
           /\ HostSet(r) = NoFrame /\ OtherSet(r) = NoFrame
    BY <1>1, <1>4, StartRxEffect DEF WriteRxenab
  <2> QED BY <1>4, <2>1 DEF WriteRxenab
<1>5. CASE WriteFctrl
  <2>1. LET r == radio'
        IN /\ r.rx = radio.rx /\ r.tx = radio.tx /\ r.txbuf = radio.txbuf
           /\ HostSet(r) = HostSet(radio) /\ OtherSet(r) = OtherSet(radio)
           /\ r.tflen = (call.len + 2) % 128
    BY <1>1, <1>5 DEF WriteFctrl, WriteTflen, Radio, HostSet, OtherSet
  <2>2. call.len \in Nat BY <1>1 DEF Call
  <2>3. radio'.tflen = radio'.txbuf + 2 BY <1>5, <2>1, <2>2 DEF WriteFctrl, WriteTflen
  <2> QED BY <1>5, <2>1, <2>3 DEF WriteFctrl, WriteTflen
<1>6. CASE WriteTxstrt
  <2>1. /\ pc = "tx_start" /\ pc' \in {"idle", "tx_check"} /\ call' = call
        /\ pc' = "tx_check" => call.op = "scheduled"
        /\ ret' = ret \/ ret'.op # "receive"
        /\ UNCHANGED <<air, given>>
    BY <1>6 DEF WriteTxstrt
  <2> QED BY <1>1, <1>6, <2>1, WriteTxstrtEffect
<1>7. ASSUME NEW op \in {"transmit", "scheduled"}, NEW n \in TxLens, NEW w4r \in BOOLEAN,
             Off, Transmit(op, n, w4r)
      PROVE  IInv'
  <2>1. CASE TooLong(n)
    BY <1>7, <2>1 DEF Transmit, Begin, NewCall
  <2>2. CASE ~TooLong(n)
    <3>1. /\ pc = "idle" /\ pc' = "tx_fctrl" /\ call'.op = op /\ call'.len = n
          /\ UNCHANGED <<air, given, ret>>
      BY <1>7, <2>2 DEF Transmit, NewCall
    <3>2. LET r == radio'
          IN /\ r.rx = radio.rx /\ r.tx = radio.tx /\ r.txbuf = n
             /\ HostSet(r) = HostSet(radio) /\ OtherSet(r) = OtherSet(radio)
      BY <1>1, <1>7, <2>2 DEF Transmit, Radio, HostSet, OtherSet
    <3>3. n \in Nat /\ n <= 125 BY <2>2, DriverAssumption DEF TooLong
    <3> QED BY <1>7, <3>1, <3>2, <3>3 DEF Off
  <2> QED BY <2>1, <2>2
<1> QED BY <1>3, <1>4, <1>5, <1>6, <1>7

\* Frames arriving and transmissions ending between any two transactions.
LEMMA InvMedium ==
    ASSUME IInv, TypeOK', Medium
    PROVE  IInv'
<1> USE DEF IInv, OpInv, PowerInv, TxInv, SentIntact, DrainInv, SetInv, ReadInv, TakeInv,
         AlignInv, EnabledAligned, CopyFits, ReturnedWhole, RxSteps, RxOnSteps, OffSteps
<1>1. radio \in Radio /\ call \in Call /\ air \in Nat BY DEF TypeOK
<1>2. 1..air \subseteq 1..air + 1 /\ air + 1 \in (1..air + 1) \ (1..air)
  BY <1>1
<1>3. CASE FrameArrives
  <2>1. /\ air' = air + 1 /\ UNCHANGED <<pc, call, ret, given>>
        /\ radio.rx = "on" /\ ~radio.ovrr
    BY <1>3 DEF FrameArrives, CanReceive
  <2>2. LET r == radio'
        IN /\ r.rx = radio.rx /\ r.tx = radio.tx
           /\ r.txbuf = radio.txbuf /\ r.tflen = radio.tflen
           /\ \/ /\ r.ovrr = radio.ovrr /\ HostSet(radio) = NoFrame
                 /\ HostSet(r) = air + 1 /\ OtherSet(r) = OtherSet(radio)
              \/ /\ r.ovrr = radio.ovrr /\ OtherSet(radio) = NoFrame
                 /\ HostSet(r) = HostSet(radio) /\ OtherSet(r) = air + 1
              \/ r.ovrr = TRUE /\ HostSet(r) = Corrupt /\ OtherSet(r) = Corrupt
    <3>1. air + 1 \in Int BY <1>1
    <3>2. radio' = ReceiveFrame(radio, air + 1) BY <1>3 DEF FrameArrives
    <3> HIDE DEF IInv, OpInv, PowerInv, TxInv, DrainInv, SetInv, ReadInv, TakeInv, AlignInv
    <3> QED BY <1>1, <3>1, <3>2, ReceiveFrameEffect
  <2>3. pc \notin OffSteps BY <2>1
  <2>4. OpInv' /\ CopyFits' BY <2>1
  <2>5. PowerInv' /\ TxInv' /\ DrainInv' BY <2>1, <2>2
  <2>6. SetInv' BY <1>2, <2>1, <2>2 DEF NoFrame, Cleared
  <2>7. ReadInv' BY <1>2, <2>1, <2>2 DEF NoFrame
  <2>8. TakeInv' BY <1>2, <2>1, <2>2 DEF Corrupt
  <2>9. AlignInv' BY <2>1, <2>3
  <2>10. ReturnedWhole' BY <1>2, <2>1
  <2> QED BY <2>4, <2>5, <2>6, <2>7, <2>8, <2>9, <2>10
<1>4. CASE TransmissionEnds
  <2>1. /\ UNCHANGED <<pc, call, ret, air, given>> /\ radio.tx # "idle"
    BY <1>4 DEF TransmissionEnds, Unchanged, CanSend
  <2>2. LET r == radio'
        IN /\ r.tx = "idle" /\ HostSet(r) = HostSet(radio) /\ OtherSet(r) = OtherSet(radio)
           /\ (r.rx = radio.rx /\ r.ovrr = radio.ovrr) \/ (r.rx = "on" /\ r.ovrr = FALSE)
    BY <1>1, <1>4, EndTxEffect DEF TransmissionEnds, Unchanged
  <2>3. pc \notin OffSteps /\ radio.rx = "off" BY <1>1, <2>1 DEF Radio
  <2>4. HostSet(radio) = NoFrame /\ OtherSet(radio) = NoFrame BY <2>3
  <2> QED BY <2>1, <2>2, <2>3, <2>4
<1> QED BY <1>3, <1>4 DEF Medium
----------------------------------------------------------------------------
(* The theorems *)

LEMMA InvStep == IInv /\ [Next]_vars => IInv'
<1> SUFFICES ASSUME IInv, [Next]_vars PROVE IInv'
  OBVIOUS
<1>1. TypeOK' BY TypeStep DEF IInv
<1>2. CASE UNCHANGED vars
  BY <1>2 DEF vars, IInv, OpInv, PowerInv, TxInv, SentIntact, DrainInv, SetInv, ReadInv,
              TakeInv, AlignInv, EnabledAligned, CopyFits, ReturnedWhole, TypeOK
<1>3. CASE \/ Receive \/ Recheck \/ DisableTransceiver \/ ReadPointers \/ WriteTime
           \/ CheckHpdwarn \/ ReceiveNull \/ HandleInterrupt
           \/ Off /\ RxEnable
  BY <1>1, <1>3, InvReads
<1>4. CASE ReadFinfo \/ ReadBuffer \/ ReadTime \/ ReadTtcki \/ ReadTtcko
  BY <1>1, <1>4, InvRegisters
<1>5. CASE SwapAndReturn \/ ClearOnly \/ WriteTrxoff \/ ClearStatus \/ WriteBack
  BY <1>1, <1>5, InvReleases
<1>6. CASE \/ SwapToAlign \/ WriteRxenab \/ WriteFctrl \/ WriteTxstrt
           \/ Off /\ \E op \in {"transmit", "scheduled"}, n \in TxLens, w4r \in BOOLEAN :
                         Transmit(op, n, w4r)
  BY <1>1, <1>6, InvStarts
<1>7. CASE Medium
  BY <1>1, <1>7, InvMedium
<1> QED
  BY <1>2, <1>3, <1>4, <1>5, <1>6, <1>7 DEF Next, DriverStep

THEOREM Invariant == Spec => []IInv
BY InvInit, InvStep, PTL DEF Spec

\* Whatever arrives while dw1000_receive reads the five registers, what it
\* returns without error is one frame of the air.
THEOREM ReturnsWholeFrames == Spec => []ReturnedWhole
<1>1. IInv => ReturnedWhole BY DEF IInv
<1> QED BY <1>1, Invariant, PTL

\* No read of RX_BUFFER is longer than the caller's buffer, for every buffer
\* length and every value of RXFLEN.
THEOREM CopiesFit == Spec => []CopyFits
<1>1. IInv => CopyFits BY DEF IInv
<1> QED BY <1>1, Invariant, PTL

\* A transceiver that is off holds no frame of the past.
THEOREM OffDrained == Spec => []OffIsDrained
<1>1. IInv => OffIsDrained
  <2> SUFFICES ASSUME IInv, radio.rx = "off", pc # "clr_status", NEW i \in Sets
               PROVE  radio.set[i] = NoFrame
    BY DEF OffIsDrained
  <2>1. HostSet(radio) = NoFrame /\ OtherSet(radio) = NoFrame BY DEF IInv, DrainInv
  <2>2. i = radio.hs \/ i = 1 - radio.hs BY DEF IInv, TypeOK, Radio, Sets
  <2> QED BY <2>1, <2>2 DEF HostSet, OtherSet
<1> QED BY <1>1, Invariant, PTL

\* When dw1000_rx_enable writes RXENAB, the host looks at the set the receiver
\* fills next; a WAIT4RESP start is not covered.
THEOREM EnablesAligned == Spec => []EnabledAligned
<1>1. IInv => EnabledAligned BY DEF IInv, AlignInv
<1> QED BY <1>1, Invariant, PTL

\* The frame on the air is the frame of one call.
THEOREM SendsIntact == Spec => []SentIntact
<1>1. IInv => SentIntact BY DEF IInv, TxInv
<1> QED BY <1>1, Invariant, PTL

\* No frame is returned twice, for any number of frames and any interleaving
\* of their arrival with the transactions of the driver.
THEOREM ReturnsOnce == Spec => ReturnedOnce
<1>1. IInv /\ [Next]_vars =>
        [pc = "rx_swap" /\ pc' = "idle" /\ call.fits
            => call.got["buffer"] \notin given]_vars
  BY DEF IInv, TakeInv
<1> QED BY <1>1, Invariant, PTL DEF Spec, ReturnedOnce

\* dw1000_scheduled_transmit returns false only with the transmission
\* cancelled and, if a reply is expected, a receiver that can receive; it
\* returns true only if the chip has not warned that the time has passed.
THEOREM SchedulesTruly == Spec => ScheduledOutcome
<1> DEFINE Outcome ==
             pc # "idle" /\ pc' = "idle" /\ call.op = "scheduled" =>
                 IF ret'.err = "false"
                 THEN radio'.tx = "idle" /\ (call.w4r => CanReceive(radio'))
                 ELSE ~radio'.hpdwarn
<1>1. IInv /\ [Next]_vars => [Outcome]_vars
  <2> SUFFICES ASSUME IInv, Next, pc # "idle", pc' = "idle", call.op = "scheduled"
               PROVE  IF ret'.err = "false"
                      THEN radio'.tx = "idle" /\ (call.w4r => CanReceive(radio'))
                      ELSE ~radio'.hpdwarn
    OBVIOUS
  <2>1. radio \in Radio BY DEF IInv, TypeOK
  <2>2. CASE SwapAndReturn
    BY <2>2 DEF SwapAndReturn, TakeAndBecome, Goto, IInv, OpInv, RxOnSteps
  <2>3. CASE ClearStatus
    <3>1. radio.tx = "idle" BY <2>3 DEF ClearStatus, EndDisable, Goto, IInv, PowerInv, OffSteps
    <3> QED BY <2>1, <2>3, <3>1, ClearEffect
            DEF ClearStatus, EndDisable, ThenEnables, Goto, Return, Unchanged
  <2>4. CASE WriteRxenab
    <3>1. radio.tx = "idle" BY <2>4 DEF WriteRxenab, Goto, IInv, PowerInv, OffSteps
    <3> QED BY <2>1, <2>4, <3>1, StartRxEffect
            DEF WriteRxenab, Goto, Return, Unchanged, CanReceive
  <2>5. CASE CheckHpdwarn
    BY <2>5 DEF CheckHpdwarn, Goto, Return, Unchanged
  <2>6. CASE WriteBack
    BY <2>6 DEF WriteBack, Goto, IInv, OpInv
  <2> QED
    BY <2>2, <2>3, <2>4, <2>5, <2>6
       DEF Next, DriverStep, Medium, Receive, ReceiveNull, DisableTransceiver, HandleInterrupt, RxEnable,
           Transmit, ReadFinfo, ReadBuffer, ReadTime, ReadTtcki, ReadTtcko, ReadRxReg,
           Recheck, AfterRecheck, ClearOnly, WriteTrxoff, ReadPointers, AfterAlign,
           SwapToAlign, WriteFctrl, WriteTflen, WriteTime, WriteTxstrt, FrameArrives,
           TransmissionEnds, Begin, Goto, Unchanged
<1> QED BY <1>1, Invariant, PTL DEF Spec, ScheduledOutcome
=============================================================================
