--------------------------- MODULE Dw1000RxQueue ---------------------------
(***************************************************************************)
(* The driver implements the receiver of RxQueue.  The frames the radio    *)
(* holds are those in its two sets; the second SYS_STATUS read is where    *)
(* dw1000_receive takes one, the swap is where it lets go of its place.    *)
(***************************************************************************)
EXTENDS Dw1000Driver

Leaving == IF pc \in {"clr_only", "rx_swap"} THEN {call.got["time"]} ELSE {}

Held == IF radio.rx = "off" THEN {}
        ELSE {f \in {radio.set[i] : i \in Sets} : f > 0} \ Leaving

\* A receive call that did nothing but clear its status bits is over only
\* after the swap; at any other time a cleared set is lost to the host.
Spoilt == /\ radio.rx = "on" /\ pc # "rx_swap"
          /\ HostSet(radio) = Cleared

Q == INSTANCE RxQueue WITH
        on      <- radio.rx = "on",
        jam     <- radio.ovrr,
        skew    <- ~radio.even,
        spoilt  <- Spoilt,
        held    <- Held,
        leaving <- Leaving,
        said    <- IF ret.op = "receive" /\ ret.err # "nullptr" THEN ret.err ELSE "other"

\* Every behaviour of the driver, under any client and with frames arriving
\* between any two of its transactions, is one of RxQueue: what comes off the
\* air is returned once, in order, or lost only for the reasons stated there.
ImplementsRxQueue == Q!Spec
=============================================================================
