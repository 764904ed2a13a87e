----------------------------- MODULE Dw1000Init -----------------------------
(***************************************************************************)
(* dw1000_init of src/dw1000.c: reset, LDE microcode, LDO tuning, clocks   *)
(* and dw1000_config, one step per SPI transaction (one for the five of an *)
(* OTP read).  The microcontroller may restart between any two steps while *)
(* the chip stays powered, and then runs dw1000_init from its beginning.   *)
(*                                                                         *)
(* A sleep of the driver ends only after what it waits for has happened in *)
(* the chip.  An OTP word, and what a register read yields, is a number    *)
(* whose first byte is 0 only in Blank.                                    *)
(***************************************************************************)
EXTENDS Dw1000Spi, Dw1000Conf, Sequences

CONSTANTS
    StackBytes,  \* what an uninitialised byte of the stack may hold
    Words,       \* the words an OTP or TX_CAL read may yield
    Blank,       \* the word of an OTP that was never programmed
    MaxRestarts  \* bound: restarts of the microcontroller

ASSUME InitAssumption ==
    /\ StackBytes \subseteq 0..255
    /\ Blank \in Words
    /\ MaxRestarts \in Nat

OtpAddrs == {4, 5}                    \* the OTP words with the LDO calibration
Default == [lo |-> 0, hi |-> 2]       \* PMSC_CTRL0 out of reset
LdeClock == [lo |-> 1, hi |-> 3]      \* 0x0301, for loading the microcode
Untuned == [a \in OtpAddrs |-> Blank] \* LDOTUNE out of reset

VARIABLES
    pc,        \* the next SPI transaction, or the sleep in progress
    hz,        \* the SPI clock in MHz, 0 before spi_device_init
    reg,       \* uint8_t reg[2] of dw1000_clock_enable_all_seq
    cal,       \* ldotune_cal: what the read of each OTP word returned
    next,      \* the number of the next register dw1000_config writes
    boot,      \* chip: "reset", "init" until its PLL has locked, then "idle"
    pmsc,      \* chip: the low 16 bits of PMSC_CTRL0, as two bytes
    lde,       \* chip: "none", "loading" or "loaded" microcode
    otp,       \* chip: the programmed OTP words
    wcfg,      \* chip: AON_WCFG, what it reloads on wake-up
    ldotune,   \* chip: LDOTUNE
    touched,   \* history: the bytes written since the reset, PMSC apart
    restarts

chip == <<boot, pmsc, lde, otp, wcfg, ldotune>>
vars == <<pc, hz, reg, cal, next, chip, touched, restarts>>

Asleep == {"off", "held", "wake"}
OtpSteps == {"otp4", "otp5"}
Steps == Asleep \cup OtpSteps \cup
         {"xti_lo", "xti_hi", "lde_clk", "lde_load", "lde_wait", "ldo_kick", "ldo_tune",
          "seq_read", "seq_lo", "seq_hi", "config", "done"}

Init == /\ pc = "off" /\ hz = 0 /\ next = 1 /\ reg = Default /\ cal = Untuned
        /\ boot = "idle" /\ pmsc = Default /\ lde = "none"
        /\ otp \in [OtpAddrs -> Words]
        /\ wcfg = {} /\ ldotune = Untuned
        /\ touched = {} /\ restarts = 0

\* A step of the driver, a write, and a write to PMSC_CTRL0, which makes the
\* chip drop a microcode load that is under way.
Goto(from, to) == pc = from /\ pc' = to
Write(file, sub, len) == touched' = touched \cup Bytes(file, sub, len)
WritePmsc(value) == /\ pmsc' = value
                    /\ lde' = IF lde = "loading" THEN "none" ELSE lde
                    /\ UNCHANGED <<boot, otp, wcfg, ldotune, touched>>

OnXti == pmsc.lo % 4 = 1
----------------------------------------------------------------------------
(* dw1000_init to dw1000_hard_reset *)

\* spi_device_init at 3 MHz, and RSTn driven low.
HoldReset ==
    /\ Goto("off", "held") /\ hz' = 3 /\ boot' = "reset"
    /\ UNCHANGED <<reg, cal, next, pmsc, lde, otp, wcfg, ldotune, touched, restarts>>

\* RSTn is released after 2 ms; the always-on memory may outlive a reset.
ReleaseReset ==
    /\ Goto("held", "wake")
    /\ boot' = "init" /\ pmsc' = Default /\ lde' = "none" /\ ldotune' = Untuned
    /\ wcfg' \in {{}, wcfg}
    /\ touched' = {}
    /\ UNCHANGED <<hz, reg, cal, next, otp, restarts>>

Awake == Goto("wake", "xti_lo") /\ UNCHANGED <<hz, reg, cal, next, chip, touched, restarts>>

\* The reset line is released, but the 2 ms after that are not waited for.
WokenBug == Awake

\* The second sleep outlasts the locking of the PLL.
Woken == boot = "idle" /\ Awake
----------------------------------------------------------------------------
(* dw1000_clock_force_sys_xti: reg[] is used uninitialised *)

ForceXtiLo ==
    \E garbage \in StackBytes :
        /\ Goto("xti_lo", "xti_hi") /\ hz' = 3
        /\ WritePmsc([pmsc EXCEPT !.lo = 4 * (garbage \div 4) + 1])
        /\ UNCHANGED <<reg, cal, next, restarts>>

ForceXtiHi ==
    \E garbage \in StackBytes :
        /\ Goto("xti_hi", "lde_clk")
        /\ WritePmsc([pmsc EXCEPT !.hi = garbage])
        /\ UNCHANGED <<hz, reg, cal, next, restarts>>
----------------------------------------------------------------------------
(* dw1000_load_lde_microcode *)

ClockLde ==
    /\ Goto("lde_clk", "lde_load") /\ hz' = 3
    /\ WritePmsc(LdeClock)
    /\ UNCHANGED <<reg, cal, next, restarts>>

\* LDELOAD in OTP_CTRL; without its clocks the chip does not load.
StartLoad ==
    /\ Goto("lde_load", "lde_wait")
    /\ lde' = IF pmsc = LdeClock THEN "loading" ELSE lde
    /\ Write(\h2D, 6, 2)
    /\ UNCHANGED <<hz, reg, cal, next, boot, pmsc, otp, wcfg, ldotune, restarts>>

RestoreClock(speed) ==
    /\ Goto("lde_wait", "otp4") /\ hz' = speed
    /\ WritePmsc(Default)
    /\ UNCHANGED <<reg, cal, next, restarts>>

\* The clocks are restored at once.
EndLoadBug == RestoreClock(20)

\* The 150 us outlast the load.
EndLoad == lde # "loading" /\ RestoreClock(20)
----------------------------------------------------------------------------
(* dw1000_load_ldotune *)

\* dw1000_otp_read strobes the address into OTP_IF and reads TX_CAL (0x2A:04).
ReadOtp(addr, from, to) ==
    \E txcal \in Words :
        /\ Goto(from, to)
        /\ cal' = [cal EXCEPT ![addr] = txcal]
        /\ Write(\h2D, 4, 3)
        /\ UNCHANGED <<hz, reg, next, chip, restarts>>

ReadOtp4 == ReadOtp(4, "otp4", "otp5")
ReadOtp5 == ReadOtp(5, "otp5", "ldo_kick")

WriteWcfg(from, to, bits) ==
    /\ Goto(from, to) /\ wcfg' = bits
    /\ Write(\h2C, 0, 2)
    /\ UNCHANGED <<hz, reg, cal, next, boot, pmsc, lde, otp, ldotune, restarts>>

\* A blank calibration leaves AON_WCFG as it is.
NoTuneBug == /\ cal[4] = Blank /\ WriteWcfg("ldo_kick", "seq_read", wcfg)

NoTune == cal[4] = Blank /\ WriteWcfg("ldo_kick", "seq_read", {"ONW_LLDE"})
Kick   == cal[4] # Blank /\ WriteWcfg("ldo_kick", "ldo_tune", {"ONW_LLDE", "ONW_LLDO"})

WriteTune ==
    /\ Goto("ldo_tune", "seq_read") /\ ldotune' = cal
    /\ Write(\h28, \h30, 5)
    /\ UNCHANGED <<hz, reg, cal, next, boot, pmsc, lde, otp, wcfg, restarts>>
----------------------------------------------------------------------------
(* dw1000_clock_enable_all_seq *)

ReadPmsc ==
    /\ Goto("seq_read", "seq_lo") /\ hz' = 3 /\ reg' = pmsc
    /\ UNCHANGED <<cal, next, chip, touched, restarts>>

AllSeqLo ==
    /\ Goto("seq_lo", "seq_hi")
    /\ WritePmsc([pmsc EXCEPT !.lo = 0])
    /\ UNCHANGED <<hz, reg, cal, next, restarts>>

WriteSeqHi(hi) ==
    /\ Goto("seq_hi", "config") /\ hz' = 20
    /\ WritePmsc([pmsc EXCEPT !.hi = hi])
    /\ UNCHANGED <<reg, cal, next, restarts>>

AllSeqHi == WriteSeqHi(2 * (reg.hi \div 2))
----------------------------------------------------------------------------
(* dw1000_config *)

\* The registers written with the configuration that dw1000_init sets.
Writes == ConfigWrites(InitConfig)

ConfigStep(w, last, then) ==
    /\ Goto("config", IF last THEN "done" ELSE "config")
    /\ next' = then
    /\ Write(w[1], w[2], w[3])
    /\ UNCHANGED <<hz, reg, cal, chip, restarts>>

\* One register too many.
ConfigWriteBug ==
    ConfigStep(Writes[next], next = Len(Writes) + 1, next + 1)

ConfigWrite ==
    IF next = Len(Writes) THEN ConfigStep(Writes[next], TRUE, 1)
                                ELSE ConfigStep(Writes[next], FALSE, next + 1)
----------------------------------------------------------------------------
(* The chip, and the microcontroller *)

\* The PLL locks: INIT becomes IDLE.
Lock == /\ boot = "init" /\ boot' = "idle"
        /\ UNCHANGED <<pc, hz, reg, cal, next, pmsc, lde, otp, wcfg, ldotune, touched, restarts>>

Loaded == /\ lde = "loading" /\ lde' = "loaded"
          /\ UNCHANGED <<pc, hz, reg, cal, next, boot, pmsc, otp, wcfg, ldotune, touched, restarts>>

\* A restart lets go of RSTn, which is an input until dw1000_hard_reset.
Restart ==
    /\ restarts < MaxRestarts /\ restarts' = restarts + 1
    /\ pc' = "off" /\ hz' = 0 /\ next' = 1
    /\ reg' = Default /\ cal' = Untuned
    /\ IF boot = "reset"
       THEN boot' = "init" /\ pmsc' = Default /\ lde' = "none" /\ ldotune' = Untuned
            /\ wcfg' \in {{}, wcfg} /\ touched' = {}
       ELSE UNCHANGED <<boot, pmsc, lde, ldotune, wcfg, touched>>
    /\ UNCHANGED otp

Driver ==
    \/ HoldReset \/ ReleaseReset \/ Woken
    \/ ForceXtiLo \/ ForceXtiHi
    \/ ClockLde \/ StartLoad \/ EndLoad
    \/ ReadOtp4 \/ ReadOtp5 \/ NoTune \/ Kick \/ WriteTune
    \/ ReadPmsc \/ AllSeqLo \/ AllSeqHi
    \/ ConfigWrite

Next == Driver \/ Lock \/ Loaded \/ Restart

Spec == Init /\ [][Next]_vars
----------------------------------------------------------------------------
TypeOK ==
    /\ pc \in Steps /\ hz \in {0, 3, 20} /\ next \in 1..Len(Writes)
    /\ reg \in [lo: 0..255, hi: 0..255] /\ pmsc \in [lo: 0..255, hi: 0..255]
    /\ cal \in [OtpAddrs -> Words] /\ otp \in [OtpAddrs -> Words]
    /\ ldotune \in [OtpAddrs -> Words]
    /\ boot \in {"reset", "init", "idle"} /\ lde \in {"none", "loading", "loaded"}
    /\ wcfg \subseteq {"ONW_LLDE", "ONW_LLDO"}
    /\ touched \subseteq (0..63) \X Nat
    /\ restarts \in 0..MaxRestarts

\* No SPI access runs while the chip starts up and switches its clock source,
\* and none is faster than 3 MHz while the crystal is the system clock.
SpiWithinLimits ==
    /\ pc \notin Asleep \cup {"done"} => boot = "idle"
    /\ hz = 20 => ~OnXti

\* Bring-up ends with the microcode loaded and with the clocks as they are out
\* of reset, whatever the stack held and wherever an earlier one was cut off.
\* The chip reloads the LDO tuning on wake-up exactly when this bring-up has
\* tuned it, and always the microcode; nothing is left of an earlier bring-up.
EndsClean ==
    pc = "done" => /\ lde = "loaded" /\ pmsc = Default
                   /\ "ONW_LLDE" \in wcfg
                   /\ "ONW_LLDO" \in wcfg <=> cal[4] # Blank
                   /\ ldotune = IF cal[4] # Blank THEN cal ELSE Untuned

\* The lengths of the register files, where dw1000_config notes them.
FileLen(f) ==
    CASE f = \h08 -> 5  [] f \in {\h0C, \h18} -> 2 [] f = \h21 -> 41
      [] f = \h23 -> 32 [] f = \h24 -> 12 [] f = \h27 -> 44 [] f = \h28 -> 58
      [] f = \h2A -> 52 [] f = \h2B -> 21 [] f = \h2E -> \h8000 [] OTHER -> 4

\* dw1000_config writes each register once and nothing else: no write runs into
\* a neighbour it configures, past its register file or over the LDO tuning.
ConfigDisjoint ==
    [][pc = "config" /\ pc' # "off" /\ next' # next =>
          LET w == Writes[next]
              new == touched' \ touched
          IN /\ Bytes(w[1], w[2], w[3]) \cap touched = {}
             /\ \A b \in new : b[1] = w[1] /\ b[2] < FileLen(w[1])]_vars

\* The OTP is read with the system clock on the crystal (dw1000.c:63, 645).
OtpReadOnXti == pc \in OtpSteps => OnXti

\* What load_ldotune takes for the calibration is what the OTP holds.
CalibrationFromOtp == pc = "ldo_kick" => cal = otp
=============================================================================
