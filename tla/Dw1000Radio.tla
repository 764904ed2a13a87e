---------------------------- MODULE Dw1000Radio ----------------------------
(***************************************************************************)
(* The DW1000 transceiver as src/dw1000.c uses it: its state is one record *)
(* and each SPI command of the driver, and each event on the air, is an    *)
(* operator from records to records.  The chip is not part of the          *)
(* repository; what is assumed of it is listed in README.md.               *)
(*                                                                         *)
(* A frame is its number (1, 2, ...) in the order frames come off the air. *)
(* A receive buffer set is in use from the reception of a frame until the  *)
(* host turns away from it; clearing its RXFCG bit in between only hides   *)
(* the frame from the host.                                                *)
(***************************************************************************)
EXTENDS Integers

NoFrame == 0    \* a released set
Corrupt == -1   \* what an overrun leaves in the registers of a set
Cleared == -2   \* a set in use whose status bits the host has cleared

Sets == 0..1    \* the two halves of the double buffer

Radio == [rx:      {"off", "on"},
          ovrr:    BOOLEAN,                      \* RXOVRR: receiver in error
          tx:      {"idle", "sending", "delayed"},
          w4r:     BOOLEAN,                      \* WAIT4RESP of that transmission
          hpdwarn: BOOLEAN,                      \* HPDWARN: start time missed
          hs:      Sets,                         \* HSRBP: the host's set
          ic:      Sets,                         \* ICRBP: the receiver's set
          even:    BOOLEAN,                      \* history: hs = ic at rx start
          set:     [Sets -> Int],
          txbuf:   Nat,                          \* length of the data in TX_BUFFER
          tflen:   0..127]                       \* TX_FCTRL.TFLEN, 7 bits

\* The radio as dw1000_init leaves it.
IdleRadio == [rx |-> "off", ovrr |-> FALSE, tx |-> "idle", w4r |-> FALSE,
              hpdwarn |-> FALSE, hs |-> 0, ic |-> 0, even |-> TRUE,
              set |-> [i \in Sets |-> NoFrame], txbuf |-> 0, tflen |-> 0]

HostSet(r) == r.set[r.hs]               \* what the host's registers show
RXFCG(r) == HostSet(r) \notin {NoFrame, Cleared}
----------------------------------------------------------------------------
(* Commands of the host. *)

\* SYS_CTRL.HRBPT: the host releases its set and turns to the other one.
HRBPT(r) == [r EXCEPT !.set[r.hs] = NoFrame, !.hs = 1 - r.hs]

\* Writing the double buffered SYS_STATUS bits acts on the host's set only.
ClearHostStatus(r) ==
    [r EXCEPT !.set[r.hs] = IF r.rx = "on" /\ @ # NoFrame THEN Cleared ELSE NoFrame]

\* SYS_CTRL.TRXOFF: drops the reception or transmission under way and the
\* set that is not the host's.  RXOVRR stays: only a receiver start clears it.
TRXOFF(r) == [r EXCEPT !.rx = "off", !.tx = "idle", !.w4r = FALSE,
                       !.hpdwarn = FALSE, !.set[1 - r.hs] = NoFrame]

\* The receiver starts, by RXENAB or at the end of a WAIT4RESP transmission.
StartRx(r) == [r EXCEPT !.rx = "on", !.ovrr = FALSE, !.even = (r.hs = r.ic)]

\* SYS_CTRL.TXSTRT, at once or (TXDLYS) at the time in DX_TIME; "late" says
\* that this time has passed, when the chip raises HPDWARN and does not send.
StartTx(r, delayed, w4r, late) ==
    [r EXCEPT !.tx = IF delayed THEN "delayed" ELSE "sending",
              !.w4r = w4r, !.hpdwarn = delayed /\ late]
----------------------------------------------------------------------------
(* Events on the air. *)

CanReceive(r) == r.rx = "on" /\ ~r.ovrr

\* A good frame goes to the receiver's set, which moves on (RXAUTR re-enables
\* the receiver); when that set is still in use, this is an overrun.
ReceiveFrame(r, f) ==
    IF r.set[r.ic] = NoFrame
    THEN [r EXCEPT !.set[r.ic] = f, !.ic = 1 - r.ic]
    ELSE [r EXCEPT !.ovrr = TRUE, !.set = [i \in Sets |-> Corrupt]]

CanSend(r) == r.tx # "idle" /\ ~r.hpdwarn

EndTx(r) == LET done == [r EXCEPT !.tx = "idle", !.w4r = FALSE]
            IN IF r.w4r THEN StartRx(done) ELSE done
=============================================================================
