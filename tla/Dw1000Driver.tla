---------------------------- MODULE Dw1000Driver ----------------------------
(***************************************************************************)
(* The driver calls of src/dw1000.c that run after dw1000_init.  Every SPI *)
(* transaction is a step of its own, so frames arrive and transmissions    *)
(* end between any two of them; a decision taken from a SYS_STATUS read is *)
(* kept in pc and may be stale when it is acted upon.  The calls come from *)
(* one thread, which owns the instance; a call starts only when the one    *)
(* before it has returned.                                                 *)
(*                                                                         *)
(* SYS_MASK is 0 from dw1000_config on, so the writes that mask and unmask *)
(* the receive events change nothing and are not steps.                    *)
(***************************************************************************)
EXTENDS Dw1000Radio

CONSTANTS
    BufLen,      \* buf_len of dw1000_receive, in bytes
    RxLens,      \* the RXFLEN values a frame may have
    TxLens,      \* the buf_len values dw1000_transmit is called with
    UIntModulus, \* 2^32 in the code
    MaxFrames    \* bound: frames that come off the air

ASSUME DriverAssumption ==
    /\ BufLen \in Nat /\ MaxFrames \in Nat /\ UIntModulus \in Nat
    /\ UIntModulus > 127 + BufLen
    /\ RxLens \subseteq 0..127
    /\ TxLens \subseteq Nat

VARIABLES
    radio,
    pc,    \* the next SPI transaction of the call in progress
    call,  \* arguments and locals of that call
    ret,   \* what the last call returned
    air,   \* history: the number of frames that came off the air
    given  \* history: the frames dw1000_receive returned without error

vars == <<radio, pc, call, ret, air, given>>

\* The registers dw1000_receive reads of a frame.
RxRegs == {"finfo", "buffer", "time", "ttcki", "ttcko"}
Unread == [x \in RxRegs |-> NoFrame]

Ops == {"none", "receive", "rx_enable", "disable", "transmit", "scheduled", "interrupt"}
Errors == {"none", "no_frame", "too_small", "rxovrr", "nullptr", "false"}
Steps == {"idle", "rx_finfo", "rx_buffer", "rx_time", "rx_ttcki", "rx_ttcko",
          "rx_recheck", "rx_swap", "clr_only", "clr_trxoff", "clr_status",
          "en_status", "en_swap", "en_rxenab", "tx_fctrl", "tx_time", "tx_start", "tx_check",
          "int_clear", "int_keep"}

Call == [op: Ops, w4r: BOOLEAN, len: Nat, fits: BOOLEAN, got: [RxRegs -> Int]]
Result == [op: Ops, err: Errors, got: [RxRegs -> Int]]

NewCall(op) == [op |-> op, w4r |-> FALSE, len |-> 0, fits |-> FALSE, got |-> Unread]

Init == /\ radio = IdleRadio
        /\ pc = "idle"
        /\ call = NewCall("none")
        /\ ret = [op |-> "none", err |-> "none", got |-> Unread]
        /\ air = 0
        /\ given = {}

Begin(op, step) == pc = "idle" /\ pc' = step /\ call' = NewCall(op)
Goto(from, to) == pc = from /\ pc' = to
Return(op, err, got) == ret' = [op |-> op, err |-> err, got |-> got]
Unchanged(r) == UNCHANGED <<air, given>> /\ radio' = r
----------------------------------------------------------------------------
(* dw1000_receive *)

\* The mutants of this module come before the definitions they change.
\* The length is compared as a signed number.
FitsBug(rxflen) == rxflen - 2 <= BufLen

\* RXFLEN-2 <= buf_len, compared as unsigned: 0 and 1 wrap to huge lengths.
Fits(rxflen) == (rxflen - 2) % UIntModulus <= BufLen

\* Entry, and the first SYS_STATUS read: without a good frame it returns.
Receive ==
    \/ /\ RXFCG(radio)
       /\ Begin("receive", "rx_finfo")
       /\ Unchanged(radio) /\ UNCHANGED ret
    \/ /\ ~RXFCG(radio)
       /\ Begin("receive", "idle")
       /\ Return("receive", "no_frame", Unread)
       /\ Unchanged(radio)

\* Without an instance or a buffer nothing is read.
ReceiveNull ==
    /\ Begin("receive", "idle")
    /\ Return("receive", "nullptr", Unread)
    /\ Unchanged(radio)

ReadRxReg(reg, from, to) ==
    /\ Goto(from, to)
    /\ call' = [call EXCEPT !.got[reg] = HostSet(radio)]
    /\ Unchanged(radio) /\ UNCHANGED ret

\* RX_FINFO; a frame that does not fit is not copied but handled to the end.
ReadFinfo ==
    \E rxflen \in RxLens :
        /\ Goto("rx_finfo", IF Fits(rxflen) THEN "rx_buffer" ELSE "rx_time")
        /\ call' = [call EXCEPT !.got["finfo"] = HostSet(radio), !.len = rxflen,
                                !.fits = Fits(rxflen)]
        /\ Unchanged(radio) /\ UNCHANGED ret

ReadBuffer == ReadRxReg("buffer", "rx_buffer", "rx_time")
ReadTime   == ReadRxReg("time", "rx_time", "rx_ttcki")
ReadTtcki  == ReadRxReg("ttcki", "rx_ttcki", "rx_ttcko")
ReadTtcko  == ReadRxReg("ttcko", "rx_ttcko", "rx_recheck")

\* Overruns go unnoticed.
AfterRecheckBug(r) == IF r.hs = r.ic THEN "clr_only" ELSE "rx_swap"

\* The second SYS_STATUS read: recover from an overrun, else release the set,
\* clearing its status bits first when HSRBP = ICRBP.
AfterRecheck(r) == IF r.ovrr THEN "clr_trxoff"
                   ELSE IF r.hs = r.ic THEN "clr_only" ELSE "rx_swap"

Recheck ==
    /\ Goto("rx_recheck", AfterRecheck(radio))
    /\ Unchanged(radio) /\ UNCHANGED <<call, ret>>

TakeAndBecome(r) ==
    /\ Goto("rx_swap", "idle")
    /\ radio' = r
    /\ Return("receive", IF call.fits THEN "none" ELSE "too_small", call.got)
    /\ given' = IF call.fits THEN given \cup {call.got["buffer"]} ELSE given
    /\ UNCHANGED <<call, air>>

\* The buffers are never swapped; only when the pointers are equal; only when
\* the frame fits.
NeverSwapBug   == TakeAndBecome(radio)
SwapIfEqualBug == TakeAndBecome(IF radio.hs = radio.ic THEN HRBPT(radio)
                                ELSE [radio EXCEPT !.set[radio.hs] = NoFrame])
SwapIfFitsBug  == TakeAndBecome(IF call.fits THEN HRBPT(radio) ELSE radio)

\* The status bits are cleared after the swap instead of before it.
SwapThenClearBug == TakeAndBecome(ClearHostStatus(HRBPT(radio)))

\* HRBPT, and dw1000_receive returns what it read.
SwapAndReturn == TakeAndBecome(HRBPT(radio))
----------------------------------------------------------------------------
(* dw1000_clear_double_buffered_status_bits_and_optionally_disable_... *)

DisableTransceiver == Begin("disable", "clr_trxoff") /\ Unchanged(radio) /\ UNCHANGED ret

WriteTrxoff ==
    /\ Goto("clr_trxoff", "clr_status")
    /\ Unchanged(TRXOFF(radio)) /\ UNCHANGED <<call, ret>>

\* The clear on its own, on the way to the swap of dw1000_receive.
ClearOnly ==
    /\ Goto("clr_only", "rx_swap")
    /\ Unchanged(ClearHostStatus(radio)) /\ UNCHANGED <<call, ret>>

\* The receiver stays off after a missed reply; after an overrun.
NoEnableIfLateBug    == call.op = "receive"
NoEnableIfOverrunBug == call.w4r

\* Receive (after an overrun) and a cancelled scheduled transmission that
\* expects a response go on to dw1000_rx_enable.
ThenEnables == call.op = "receive" \/ call.w4r

EndDisable(r) ==
    /\ Goto("clr_status", IF ThenEnables THEN "en_status" ELSE "idle")
    /\ \/ ThenEnables /\ UNCHANGED ret
       \/ /\ ~ThenEnables
          /\ Return(call.op, IF call.op = "scheduled" THEN "false" ELSE "none", Unread)
    /\ Unchanged(r) /\ UNCHANGED call

\* The status bits stay set.
ClearStatusBug == EndDisable(radio)

ClearStatus == EndDisable(ClearHostStatus(radio))
----------------------------------------------------------------------------
(* dw1000_rx_enable *)

\* Swaps when the pointers are equal.
AfterAlignBug(r) == IF r.hs = r.ic THEN "en_swap" ELSE "en_rxenab"

AfterAlign(r) == IF r.hs # r.ic THEN "en_swap" ELSE "en_rxenab"

RxEnable ==
    /\ Begin("rx_enable", AfterAlign(radio))
    /\ Unchanged(radio) /\ UNCHANGED ret

\* The same SYS_STATUS read when another driver call calls dw1000_rx_enable.
ReadPointers ==
    /\ Goto("en_status", AfterAlign(radio))
    /\ Unchanged(radio) /\ UNCHANGED <<call, ret>>

SwapToAlign ==
    /\ Goto("en_swap", "en_rxenab")
    /\ Unchanged(HRBPT(radio)) /\ UNCHANGED <<call, ret>>

\* RXENAB is the last transaction of whichever call this is.
WriteRxenab ==
    /\ Goto("en_rxenab", "idle")
    /\ Unchanged(StartRx(radio)) /\ UNCHANGED call
    /\ Return(call.op, CASE call.op = "receive"   -> "rxovrr"
                         [] call.op = "scheduled" -> "false"
                         [] OTHER                 -> "none", Unread)
----------------------------------------------------------------------------
(* dw1000_transmit and dw1000_scheduled_transmit *)

\* The two CRC bytes are forgotten.
TooLongBug(n) == n > 127

TooLong(n) == n > 125

Transmit(op, n, w4r) ==
    \/ /\ TooLong(n)
       /\ Begin(op, "idle")
       /\ Return(op, IF op = "scheduled" THEN "false" ELSE "none", Unread)
       /\ Unchanged(radio)
    \/ /\ ~TooLong(n)
       /\ pc = "idle" /\ pc' = "tx_fctrl"
       /\ call' = [NewCall(op) EXCEPT !.w4r = w4r, !.len = n]
       /\ Unchanged([radio EXCEPT !.txbuf = n]) /\ UNCHANGED ret

WriteTflen(n) ==
    /\ Goto("tx_fctrl", IF call.op = "scheduled" THEN "tx_time" ELSE "tx_start")
    /\ Unchanged([radio EXCEPT !.tflen = n])
    /\ UNCHANGED <<call, ret>>

\* One byte more than the field can hold.
WriteFctrlBug == WriteTflen(call.len + 3)

\* TFLEN counts the two CRC bytes and is a 7 bit field.
WriteFctrl == WriteTflen((call.len + 2) % 128)

WriteTime ==
    /\ Goto("tx_time", "tx_start")
    /\ Unchanged(radio) /\ UNCHANGED <<call, ret>>

\* TXSTRT; the time to transmit at may have gone by before it is written.
WriteTxstrt ==
    \E late \in BOOLEAN :
        /\ Goto("tx_start", IF call.op = "scheduled" THEN "tx_check" ELSE "idle")
        /\ call.op = "transmit" => ~late
        /\ Unchanged(StartTx(radio, call.op = "scheduled", call.w4r, late))
        /\ UNCHANGED call
        /\ IF call.op = "scheduled" THEN UNCHANGED ret
                                    ELSE Return(call.op, "none", Unread)

\* HPDWARN: cancel and return false, else true.
CheckHpdwarn ==
    /\ Unchanged(radio) /\ UNCHANGED call
    /\ \/ radio.hpdwarn /\ Goto("tx_check", "clr_trxoff") /\ UNCHANGED ret
       \/ ~radio.hpdwarn /\ Goto("tx_check", "idle") /\ Return(call.op, "none", Unread)
----------------------------------------------------------------------------
(* dw1000_handle_interrupt (nothing in the repository calls it) reads      *)
(* SYS_STATUS and then writes back what it has read.  Of the bits this     *)
(* clears only those of the frame matter: RXOVRR stays until the receiver  *)
(* is started again, HPDWARN is never set between two calls, as the call   *)
(* that raises it cancels the transmission, and nobody reads the others.   *)
HandleInterrupt ==
    /\ Begin("interrupt", IF RXFCG(radio) THEN "int_clear" ELSE "int_keep")
    /\ Unchanged(radio) /\ UNCHANGED ret

\* A frame that came in after the read keeps its bits.
WriteBack ==
    /\ \/ Goto("int_clear", "idle") /\ Unchanged(ClearHostStatus(radio))
       \/ Goto("int_keep", "idle") /\ Unchanged(radio)
    /\ UNCHANGED <<call, ret>>
----------------------------------------------------------------------------
FrameArrives ==
    /\ air < MaxFrames /\ CanReceive(radio)
    /\ air' = air + 1
    /\ radio' = ReceiveFrame(radio, air + 1)
    /\ UNCHANGED <<pc, call, ret, given>>

TransmissionEnds ==
    /\ CanSend(radio)
    /\ Unchanged(EndTx(radio)) /\ UNCHANGED <<pc, call, ret>>

\* The transactions after the first one of the calls the loops make.
DriverStep ==
    \/ ReadFinfo \/ ReadBuffer \/ ReadTime \/ ReadTtcki \/ ReadTtcko
    \/ Recheck \/ SwapAndReturn
    \/ ClearOnly \/ WriteTrxoff \/ ClearStatus
    \/ ReadPointers \/ SwapToAlign \/ WriteRxenab
    \/ WriteFctrl \/ WriteTime \/ WriteTxstrt \/ CheckHpdwarn

Medium == FrameArrives \/ TransmissionEnds

\* The contract of the driver, which it does not check: dw1000_rx_enable and
\* the transmit calls are for a transceiver that is off.
Off == radio.rx = "off" /\ radio.tx = "idle"

Next ==
    \/ Receive \/ ReceiveNull \/ DisableTransceiver \/ HandleInterrupt \/ WriteBack
    \/ Off /\ RxEnable
    \/ Off /\ \E op \in {"transmit", "scheduled"}, n \in TxLens, w4r \in BOOLEAN :
                 Transmit(op, n, w4r)
    \/ DriverStep
    \/ Medium

Spec == Init /\ [][Next]_vars
----------------------------------------------------------------------------
TypeOK ==
    /\ radio \in Radio
    /\ pc \in Steps
    /\ call \in Call
    /\ ret \in Result
    /\ air \in Nat
    /\ given \in SUBSET Int

\* A frame dw1000_receive returns without error is a frame that came off the
\* air, and its length, data and three time stamps are all of that frame: the
\* five registers are read one by one while the receiver runs, and an overrun
\* in between must not get past the second SYS_STATUS read.
ReturnedWhole ==
    ret.op = "receive" /\ ret.err = "none" =>
        \E f \in 1..air : ret.got = [x \in RxRegs |-> f]

\* What dw1000_receive copies fits the caller's buffer, also for the lengths
\* below 2 that leave a negative number of bytes once the CRC is taken off.
CopyFits == pc = "rx_buffer" => call.len - 2 \in 0..BufLen

\* dw1000_receive returns no frame twice, whatever arrives between its status
\* reads, its clear of the status bits and its buffer swap.
ReturnedOnce ==
    [][pc = "rx_swap" /\ pc' = "idle" /\ call.fits
          => call.got["buffer"] \notin given]_vars

\* Once the transceiver is off, no frame of the past is left in either buffer
\* set, so none can be taken for one received after the next start.
OffIsDrained ==
    radio.rx = "off" /\ pc # "clr_status" =>
        \A i \in Sets : radio.set[i] = NoFrame

\* dw1000_rx_enable, in each of the three calls that end in it, starts the
\* receiver on the set the host looks at: the pointers it compared are still
\* equal when RXENAB is written.  The start at the end of a WAIT4RESP
\* transmission compares nothing; of that one nothing is said here.
EnabledAligned == pc = "en_rxenab" => radio.hs = radio.ic

\* What dw1000_scheduled_transmit reports is what the radio does: after true
\* the frame was or will be sent on time; a missed time returns false, with
\* the transmission cancelled and the receiver running if one expects a reply.
ScheduledOutcome ==
    [][pc # "idle" /\ pc' = "idle" /\ call.op = "scheduled" =>
          IF ret'.err = "false"
          THEN radio'.tx = "idle" /\ (call.w4r => CanReceive(radio'))
          ELSE ~radio'.hpdwarn]_vars

\* The frame the chip is sending has the data of one call, two bytes of CRC
\* and nothing else: no later call changes TX_BUFFER or TX_FCTRL under it.
SentIntact == radio.tx # "idle" => radio.tflen = radio.txbuf + 2
=============================================================================
