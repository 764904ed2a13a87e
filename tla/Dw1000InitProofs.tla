--------------------------- MODULE Dw1000InitProofs ---------------------------
(***************************************************************************)
(* Where dw1000_init leaves the chip, for whatever the stack and the OTP   *)
(* hold and any number of restarts between its transactions.  The proofs   *)
(* rest on what each transaction finds: the reset has undone an earlier    *)
(* bring-up, and from then on each register is what the last write made it.*)
(***************************************************************************)
EXTENDS Dw1000Init, TLAPS

AfterReset == Steps \ {"off", "held"}
Tuned == {"seq_read", "seq_lo", "seq_hi", "config", "done"}
Clocked == OtpSteps \cup {"ldo_kick", "ldo_tune"} \cup Tuned

\* The bytes that PMSC_CTRL0 and its copy on the stack can be.
Word == [lo: 0..255, hi: 0..255]

\* No access before the chip has its clock, none at 20 MHz on the crystal.
SpiInv ==
    /\ pc \notin Asleep => boot = "idle"
    /\ hz = 20 => ~OnXti

\* The clocks from the microcode load to the end.
ClockInv ==
    /\ pc = "lde_load" => pmsc = LdeClock
    /\ pc = "lde_wait" => lde \in {"loading", "loaded"}
    /\ pc \in Clocked => lde = "loaded" /\ pmsc = Default
    /\ pc \in {"seq_lo", "seq_hi"} => reg = Default

\* A reset undoes the tuning, and only a calibration that is there redoes it.
TuneInv ==
    /\ pc \in AfterReset \ Tuned => ldotune = Untuned
    /\ pc = "ldo_tune" => cal[4] # Blank /\ wcfg = {"ONW_LLDE", "ONW_LLDO"}
    /\ pc \in Tuned =>
          IF cal[4] # Blank THEN wcfg = {"ONW_LLDE", "ONW_LLDO"} /\ ldotune = cal
                            ELSE wcfg = {"ONW_LLDE"} /\ ldotune = Untuned

IInv == pc \in Steps /\ pmsc \in Word /\ SpiInv /\ ClockInv /\ TuneInv
----------------------------------------------------------------------------
LEMMA InvInit == Init => IInv
BY DEF Init, IInv, SpiInv, ClockInv, TuneInv, Steps, Asleep, OtpSteps, Clocked, Tuned,
       AfterReset, Default, Word

\* Until the chip is out of its reset.
LEMMA InvReset ==
    ASSUME IInv, HoldReset \/ ReleaseReset \/ Woken \/ Lock \/ Loaded \/ Restart
    PROVE  IInv'
<1> USE DEF IInv, SpiInv, ClockInv, TuneInv, Steps, Asleep, OtpSteps, Clocked, Tuned, AfterReset,
            Word, Goto, OnXti, Default
<1>1. CASE HoldReset BY <1>1 DEF HoldReset
<1>2. CASE ReleaseReset BY <1>2 DEF ReleaseReset
<1>3. CASE Woken BY <1>3 DEF Woken, Awake, chip
<1>4. CASE Lock BY <1>4 DEF Lock
<1>5. CASE Loaded BY <1>5 DEF Loaded
<1>6. CASE Restart BY <1>6 DEF Restart
<1> QED BY <1>1, <1>2, <1>3, <1>4, <1>5, <1>6

\* The microcode.
LEMMA InvLde ==
    ASSUME IInv, ForceXtiLo \/ ForceXtiHi \/ ClockLde \/ StartLoad \/ EndLoad
    PROVE  IInv'
<1> USE DEF IInv, SpiInv, ClockInv, TuneInv, Steps, Asleep, OtpSteps, Clocked, Tuned, AfterReset,
            Word, Goto, OnXti, Default, LdeClock, WritePmsc
<1>1. CASE ForceXtiLo
  <2>1. PICK garbage \in StackBytes :
            pmsc' = [pmsc EXCEPT !.lo = 4 * (garbage \div 4) + 1]
    BY <1>1 DEF ForceXtiLo
  <2>2. garbage \in 0..255 BY InitAssumption
  <2>3. 4 * (garbage \div 4) + 1 \in 0..255 BY <2>2
  <2>4. pmsc' \in Word BY <2>1, <2>3
  <2> QED BY <1>1, <2>4 DEF ForceXtiLo
<1>2. CASE ForceXtiHi
  <2>1. PICK garbage \in StackBytes : pmsc' = [pmsc EXCEPT !.hi = garbage]
    BY <1>2 DEF ForceXtiHi
  <2>2. garbage \in 0..255 BY InitAssumption
  <2>3. pmsc' \in Word /\ pmsc'.lo = pmsc.lo BY <2>1, <2>2
  <2> QED BY <1>2, <2>3 DEF ForceXtiHi
<1>3. CASE ClockLde BY <1>3 DEF ClockLde
<1>4. CASE StartLoad BY <1>4 DEF StartLoad
<1>5. CASE EndLoad BY <1>5 DEF EndLoad, RestoreClock
<1> QED BY <1>1, <1>2, <1>3, <1>4, <1>5

\* The calibration.
LEMMA InvTune ==
    ASSUME IInv, ReadOtp4 \/ ReadOtp5 \/ NoTune \/ Kick \/ WriteTune
    PROVE  IInv'
<1> USE DEF IInv, SpiInv, ClockInv, TuneInv, Steps, Asleep, OtpSteps, Clocked, Tuned, AfterReset,
            Goto, OnXti, chip
<1>1. CASE ReadOtp4 BY <1>1 DEF ReadOtp4, ReadOtp
<1>2. CASE ReadOtp5 BY <1>2 DEF ReadOtp5, ReadOtp
<1>3. CASE NoTune BY <1>3 DEF NoTune, WriteWcfg
<1>4. CASE Kick BY <1>4 DEF Kick, WriteWcfg
<1>5. CASE WriteTune BY <1>5 DEF WriteTune
<1> QED BY <1>1, <1>2, <1>3, <1>4, <1>5

\* The clocks for the configuration, and the configuration.
LEMMA InvConfig ==
    ASSUME IInv, ReadPmsc \/ AllSeqLo \/ AllSeqHi \/ ConfigWrite
    PROVE  IInv'
<1> USE DEF IInv, SpiInv, ClockInv, TuneInv, Steps, Asleep, OtpSteps, Clocked, Tuned, AfterReset,
            Word, Goto, OnXti, Default, chip, WritePmsc
<1>1. CASE ReadPmsc BY <1>1 DEF ReadPmsc
<1>2. CASE AllSeqLo BY <1>2 DEF AllSeqLo
<1>3. CASE AllSeqHi BY <1>3 DEF AllSeqHi, WriteSeqHi
<1>4. CASE ConfigWrite
  <2>1. pc = "config" /\ pc' \in {"config", "done"} /\ UNCHANGED <<hz, reg, cal, chip>>
    BY <1>4 DEF ConfigWrite, ConfigStep
  <2> QED BY <2>1
<1> QED BY <1>1, <1>2, <1>3, <1>4

LEMMA InvStep == IInv /\ [Next]_vars => IInv'
<1> SUFFICES ASSUME IInv, [Next]_vars PROVE IInv' OBVIOUS
<1>1. CASE UNCHANGED vars
  BY <1>1 DEF vars, chip, IInv, SpiInv, ClockInv, TuneInv, OnXti
<1> QED BY <1>1, InvReset, InvLde, InvTune, InvConfig DEF Next, Driver

THEOREM Invariant == Spec => []IInv
BY InvInit, InvStep, PTL DEF Spec

\* No SPI access while the chip starts up or faster than its clock allows,
\* wherever an earlier bring-up was cut off.
THEOREM KeepsSpiLimits == Spec => []SpiWithinLimits
<1>1. IInv => SpiWithinLimits BY DEF IInv, SpiInv, SpiWithinLimits
<1> QED BY <1>1, Invariant, PTL

\* Bring-up ends with the microcode and the default clocks, for every content
\* of the two bytes that dw1000_clock_force_sys_xti reads uninitialised, and the
\* tuning the chip reloads is that of this bring-up, for every OTP.
THEOREM EndsCleanly == Spec => []EndsClean
<1>1. IInv => EndsClean BY DEF IInv, ClockInv, TuneInv, EndsClean, Clocked, Tuned
<1> QED BY <1>1, Invariant, PTL
----------------------------------------------------------------------------
(* Types *)

\* The registers of dw1000_config are given by proper addresses and lengths.
LEMMA WritesType ==
    /\ Len(Writes) = 35
    /\ \A i \in 1..35 : Writes[i][1] \in Nat /\ Writes[i][2] \in Nat /\ Writes[i][3] \in Nat
BY DEF Writes, ConfigWrites

LEMMA BytesType ==
    ASSUME NEW file \in Nat, NEW sub \in Nat, NEW len \in Nat
    PROVE  Bytes(file, sub, len) \subseteq (0..63) \X Nat
<1> DEFINE h == Header(file, sub, TRUE)
<1>1. /\ h.regfile \in 0..63 /\ h.addressl \in Nat /\ h.addressh \in Nat
  <2>1. file % 64 \in 0..63 /\ sub % 128 \in Nat /\ sub \div 128 \in Nat OBVIOUS
  <2>2. (sub \div 128) % 256 \in Nat BY <2>1
  <2> QED BY <2>1, <2>2 DEF Header
<1> HIDE DEF h
<1>2. h.addressl + 128 * h.addressh \in Nat BY <1>1
<1> DEFINE at == Addressed(h)
<1>3. at[1] \in 0..63 /\ at[2] \in Nat BY <1>1, <1>2 DEF Addressed
<1> HIDE DEF at
<1>4. \A b \in at[2] .. at[2] + len - 1 : <<at[1], b>> \in (0..63) \X Nat BY <1>3
<1> QED BY <1>4 DEF Bytes, h, at

LEMMA WriteType ==
    ASSUME touched \subseteq (0..63) \X Nat,
           NEW file \in Nat, NEW sub \in Nat, NEW len \in Nat, Write(file, sub, len)
    PROVE  touched' \subseteq (0..63) \X Nat
BY BytesType DEF Write

LEMMA TypeInit == Init => TypeOK
<1> SUFFICES ASSUME Init PROVE TypeOK OBVIOUS
<1>1. Untuned \in [OtpAddrs -> Words] BY InitAssumption DEF Untuned
<1>2. 1 \in 1..Len(Writes) BY WritesType
<1>3. Default \in Word BY DEF Default, Word
<1>4. restarts \in 0..MaxRestarts BY InitAssumption DEF Init
<1> QED BY <1>1, <1>2, <1>3, <1>4 DEF Init, TypeOK, Steps, Asleep, Word

LEMMA TypeStep ==
    ASSUME IInv, IInv', TypeOK, [Next]_vars
    PROVE  TypeOK'
<1> USE DEF TypeOK
<1>1. /\ pc' \in Steps /\ pmsc' \in Word BY DEF IInv
<1>2. Untuned \in [OtpAddrs -> Words] BY InitAssumption DEF Untuned
<1>3. Default \in Word BY DEF Default, Word
<1>4. 1 \in 1..Len(Writes) BY WritesType
<1> HIDE DEF IInv
<1>5. CASE UNCHANGED vars BY <1>5 DEF vars, chip
<1>6. CASE HoldReset BY <1>1, <1>6 DEF HoldReset, Word
<1>7. CASE ReleaseReset BY <1>1, <1>2, <1>7 DEF ReleaseReset, Word
<1>8. CASE Woken BY <1>1, <1>8 DEF Woken, Awake, chip
<1>9. CASE Lock \/ Loaded
  <2>1. CASE Lock BY <1>1, <2>1 DEF Lock, Word
  <2>2. CASE Loaded BY <1>1, <2>2 DEF Loaded, Word
  <2> QED BY <1>9, <2>1, <2>2
<1>10. CASE Restart
  <2>1. restarts' \in 0..MaxRestarts BY <1>10, InitAssumption DEF Restart
  <2> QED BY <1>1, <1>2, <1>3, <1>4, <1>10, <2>1 DEF Restart, Word
<1>11. CASE ForceXtiLo \/ ForceXtiHi \/ ClockLde \/ EndLoad \/ AllSeqLo \/ AllSeqHi
  <2>1. /\ hz' \in {hz, 3, 20}
        /\ lde' \in {lde, "none"}
        /\ UNCHANGED <<reg, cal, next, restarts, boot, otp, wcfg, ldotune, touched>>
    BY <1>11 DEF ForceXtiLo, ForceXtiHi, ClockLde, EndLoad, RestoreClock, AllSeqLo, AllSeqHi,
                 WriteSeqHi, WritePmsc
  <2> QED BY <1>1, <2>1 DEF Word
<1>12. CASE StartLoad
  <2>1. touched' \subseteq (0..63) \X Nat
    <3>1. Write(\h2D, 6, 2) BY <1>12 DEF StartLoad
    <3> QED BY <3>1, WriteType
  <2> QED BY <1>1, <1>12, <2>1 DEF StartLoad, Word
<1>13. CASE ReadOtp4 \/ ReadOtp5
  <2>1. touched' \subseteq (0..63) \X Nat
    <3>1. Write(\h2D, 4, 3) BY <1>13 DEF ReadOtp4, ReadOtp5, ReadOtp
    <3> QED BY <3>1, WriteType
  <2>2. cal' \in [OtpAddrs -> Words] /\ UNCHANGED <<hz, reg, next, chip, restarts>>
    BY <1>13 DEF ReadOtp4, ReadOtp5, ReadOtp
  <2> QED BY <1>1, <2>1, <2>2 DEF chip
<1>14. CASE NoTune \/ Kick
  <2>1. touched' \subseteq (0..63) \X Nat
    <3>1. Write(\h2C, 0, 2) BY <1>14 DEF NoTune, Kick, WriteWcfg
    <3> QED BY <3>1, WriteType
  <2>2. /\ wcfg' \subseteq {"ONW_LLDE", "ONW_LLDO"}
        /\ UNCHANGED <<hz, reg, cal, next, boot, pmsc, lde, otp, ldotune, restarts>>
    BY <1>14 DEF NoTune, Kick, WriteWcfg
  <2> QED BY <1>1, <2>1, <2>2
<1>15. CASE WriteTune
  <2>1. touched' \subseteq (0..63) \X Nat
    <3>1. Write(\h28, \h30, 5) BY <1>15 DEF WriteTune
    <3> QED BY <3>1, WriteType
  <2> QED BY <1>1, <1>15, <2>1 DEF WriteTune
<1>16. CASE ReadPmsc BY <1>1, <1>16 DEF ReadPmsc, chip
<1>17. CASE ConfigWrite
  <2>1. next \in 1..35 /\ 35 = Len(Writes) BY WritesType
  <2>2. /\ next' = IF next = 35 THEN 1 ELSE next + 1
        /\ Write(Writes[next][1], Writes[next][2], Writes[next][3])
        /\ UNCHANGED <<hz, reg, cal, chip, restarts>>
    BY <1>17, <2>1 DEF ConfigWrite, ConfigStep
  <2>3. touched' \subseteq (0..63) \X Nat BY <2>1, <2>2, WritesType, WriteType
  <2>4. next' \in 1..Len(Writes)
    <3>1. next' = IF next = 35 THEN 1 ELSE next + 1 BY <2>2
    <3>2. next' \in 1..35 BY <2>1, <3>1
    <3> QED BY <2>1, <3>2
  <2> QED BY <1>1, <2>2, <2>3, <2>4 DEF chip
<1> QED
  BY <1>5, <1>6, <1>7, <1>8, <1>9, <1>10, <1>11, <1>12, <1>13, <1>14, <1>15, <1>16, <1>17
     DEF Next, Driver

\* Every variable keeps its type: dw1000_config walks its list to the end and
\* no further, also when it was cut off before.
THEOREM TypesHold == Spec => []TypeOK
<1>1. IInv /\ IInv' /\ TypeOK /\ [Next]_vars => TypeOK' BY TypeStep
<1> QED BY Invariant, TypeInit, <1>1, PTL DEF Spec
----------------------------------------------------------------------------
(* The SPI header *)

LastSubIndex == 32767
SubIndexes == 0..LastSubIndex
Files == 0..63

\* What the header is built from is what the chip makes of it: with the extended
\* form always used, every register file and every sub-index of fifteen bits can
\* be addressed, whether the transaction reads or writes.
THEOREM HeaderAddresses ==
    ASSUME NEW file \in Files, NEW sub \in SubIndexes, NEW write \in BOOLEAN
    PROVE  Addressed(Header(file, sub, write)) = <<file, sub>>
<1> DEFINE high == sub \div 128
<1> DEFINE low == sub % 128
<1>1. Header(file, sub, write) = [regfile |-> file % 64, write |-> write,
                                  addressl |-> low, addressh |-> high % 256]
  BY DEF Header
<1>2. low \in 0..127 /\ high \in Int BY DEF SubIndexes, LastSubIndex
<1>3. low + 128 * high = sub BY DEF SubIndexes, LastSubIndex
<1>4. file % 64 = file BY DEF Files
<1> HIDE DEF high, low
<1>5. high \in 0..255
  <2>1. low \in Int /\ 0 <= low /\ low <= 127 BY <1>2
  <2>2. 0 <= low + 128 * high /\ low + 128 * high <= 32767
    <3>1. 0 <= sub /\ sub <= 32767 BY DEF SubIndexes, LastSubIndex
    <3> QED BY <1>3, <3>1
  <2>3. high >= 0 BY <1>2, <2>1, <2>2
  <2>4. high <= 255 BY <1>2, <2>1, <2>2
  <2> QED BY <1>2, <2>3, <2>4
<1>6. high % 256 = high BY <1>5
<1> QED BY <1>1, <1>3, <1>4, <1>6 DEF Addressed

\* A transaction touches the bytes from its sub-index on and no others.
THEOREM TouchesItsBytes ==
    ASSUME NEW file \in Files, NEW sub \in SubIndexes, NEW len \in Nat
    PROVE  Bytes(file, sub, len) = {<<file, b>> : b \in sub .. sub + len - 1}
<1>1. Addressed(Header(file, sub, TRUE)) = <<file, sub>>
  BY HeaderAddresses, Zenon
<1>2. <<file, sub>>[1] = file /\ <<file, sub>>[2] = sub OBVIOUS
<1> QED BY <1>1, <1>2 DEF Bytes
----------------------------------------------------------------------------
(* Where dw1000_config writes *)

\* The bytes written before dw1000_config.
Early == {<<\h2D, b>> : b \in 4..7} \cup {<<\h2C, b>> : b \in 0..1}
         \cup {<<\h28, b>> : b \in \h30..\h34}

Below(b, w) == \/ b[1] < w[1]
               \/ b[1] = w[1] /\ b[2] < w[2]

\* The list is sorted, so what is written is below what is yet to be written.
TouchInv ==
    /\ pc # "config" => next = 1
    /\ pc = "wake" => touched = {}
    /\ pc \in AfterReset \ {"wake", "config", "done"} => touched \subseteq Early
    /\ pc = "config" => \A b \in touched : b \in Early \/ Below(b, Writes[next])

LEMMA Sorted ==
    ASSUME NEW k \in 1..34
    PROVE  \/ Writes[k][1] < Writes[k + 1][1]
           \/ Writes[k][1] = Writes[k + 1][1] /\ Writes[k][2] + Writes[k][3] <= Writes[k + 1][2]
BY SMT DEF Writes, ConfigWrites

LEMMA Addressable ==
    ASSUME NEW k \in 1..35
    PROVE  Writes[k][1] \in Files /\ Writes[k][2] \in SubIndexes /\ Writes[k][3] \in 1..5
<1>1. Writes[k][1] \in 0..63 BY SMT DEF Writes, ConfigWrites
<1>2. Writes[k][2] \in Nat /\ Writes[k][2] <= LastSubIndex BY SMT DEF Writes, ConfigWrites, LastSubIndex
<1>3. Writes[k][3] \in 1..5 BY SMT DEF Writes, ConfigWrites
<1>4. LastSubIndex \in Nat BY SMT DEF LastSubIndex
<1> QED BY <1>1, <1>2, <1>3, <1>4, SMT DEF Files, SubIndexes

LEMMA KeepsOff ==
    ASSUME NEW k \in 1..35
    PROVE  /\ Writes[k][1] # \h2C /\ Writes[k][1] # \h2D
           /\ Writes[k][1] = \h28 => Writes[k][2] + Writes[k][3] <= \h30
BY SMT DEF Writes, ConfigWrites

LEMMA FitsFile ==
    ASSUME NEW k \in 1..35
    PROVE  /\ FileLen(Writes[k][1]) \in Nat
           /\ Writes[k][2] + Writes[k][3] <= FileLen(Writes[k][1])
BY SMT DEF Writes, ConfigWrites, FileLen

LEMMA BytesOf ==
    ASSUME NEW k \in 1..35, NEW b \in Bytes(Writes[k][1], Writes[k][2], Writes[k][3])
    PROVE  /\ b = <<Writes[k][1], b[2]>> /\ b[1] = Writes[k][1] /\ b[2] \in Nat
           /\ Writes[k][2] <= b[2] /\ b[2] < Writes[k][2] + Writes[k][3]
<1> DEFINE file == Writes[k][1]
<1> DEFINE sub == Writes[k][2]
<1> DEFINE len == Writes[k][3]
<1>1. file \in Files /\ sub \in SubIndexes /\ len \in Nat BY Addressable
<1> HIDE DEF file, sub, len
<1>2. Bytes(file, sub, len) = {<<file, x>> : x \in sub .. sub + len - 1}
  BY <1>1, TouchesItsBytes
<1>3. PICK x \in sub .. sub + len - 1 : b = <<file, x>>
  BY <1>2 DEF file, sub, len
<1>4. sub \in Nat BY <1>1 DEF SubIndexes
<1>5. b[1] = file /\ b[2] = x /\ x \in Nat /\ sub <= x /\ x < sub + len
  BY <1>1, <1>3, <1>4
<1> QED BY <1>3, <1>5 DEF file, sub, len

\* A byte of the next write is neither an early one nor one already written.
LEMMA BytesNew ==
    ASSUME NEW k \in 1..35, NEW b \in Bytes(Writes[k][1], Writes[k][2], Writes[k][3])
    PROVE  b \notin Early /\ ~Below(b, Writes[k])
<1>1. /\ b[1] = Writes[k][1] /\ b[2] \in Nat
      /\ Writes[k][2] <= b[2] /\ b[2] < Writes[k][2] + Writes[k][3]
  BY BytesOf
<1>2. Writes[k][1] \in Nat /\ Writes[k][2] \in Nat /\ Writes[k][3] \in Nat
  BY WritesType
<1>3. ~Below(b, Writes[k]) BY <1>1, <1>2 DEF Below
<1>4. \A e \in Early : e[1] \in {\h2D, \h2C} \/ (e[1] = \h28 /\ e[2] >= \h30)
  BY DEF Early
<1>5. b \notin Early BY <1>1, <1>2, <1>4, KeepsOff
<1> QED BY <1>3, <1>5

\* All that is written by then is below the write after next.
LEMMA BytesBelow ==
    ASSUME NEW k \in 1..34, NEW b \in (0..63) \X Nat,
           \/ Below(b, Writes[k])
           \/ b \in Bytes(Writes[k][1], Writes[k][2], Writes[k][3])
    PROVE  Below(b, Writes[k + 1])
<1> DEFINE v == Writes[k]
<1> DEFINE w == Writes[k + 1]
<1>1. k \in 1..35 /\ k + 1 \in 1..35 OBVIOUS
<1>2. v[1] \in Nat /\ v[2] \in Nat /\ v[3] \in 1..5 /\ w[1] \in Nat /\ w[2] \in Nat
  BY <1>1, Addressable, WritesType
<1>3. \/ v[1] < w[1]
      \/ v[1] = w[1] /\ v[2] + v[3] <= w[2]
  BY Sorted
<1>4. b \in Bytes(v[1], v[2], v[3]) => b[1] = v[1] /\ b[2] < v[2] + v[3]
  BY <1>1, BytesOf
<1>5. b[1] \in Nat /\ b[2] \in Nat OBVIOUS
<1> HIDE DEF v, w
<1>6. \/ Below(b, v)
      \/ b[1] = v[1] /\ b[2] < v[2] + v[3]
  BY <1>4 DEF v
<1>7. Below(b, w) BY <1>2, <1>3, <1>5, <1>6 DEF Below
<1> QED BY <1>7 DEF w

\* The next write dw1000_config does, if it is cut off or not.
LEMMA TouchConfig ==
    ASSUME TypeOK, TouchInv, ConfigWrite
    PROVE  /\ TouchInv'
           /\ LET w == Writes[next]
              IN /\ Bytes(w[1], w[2], w[3]) \cap touched = {}
                 /\ \A b \in touched' \ touched : b[1] = w[1] /\ b[2] < FileLen(w[1])
<1> DEFINE w == Writes[next]
<1> DEFINE new == Bytes(w[1], w[2], w[3])
<1>1. /\ pc = "config" /\ pc' = IF next = 35 THEN "done" ELSE "config"
      /\ next' = IF next = 35 THEN 1 ELSE next + 1
      /\ touched' = touched \cup new
  BY WritesType DEF ConfigWrite, ConfigStep, Goto, Write
<1>2. next \in 1..35 BY WritesType DEF TypeOK
<1>3. \A b \in touched : b \in Early \/ Below(b, w)
  BY <1>1 DEF TouchInv
<1>4. \A b \in new : b \notin Early /\ ~Below(b, w) BY <1>2, BytesNew
<1>5. new \cap touched = {} BY <1>3, <1>4
<1>6. \A b \in new : b[1] = w[1] /\ b[2] \in Nat /\ b[2] < w[2] + w[3]
  BY <1>2, BytesOf
<1>7. /\ w[2] \in Nat /\ w[3] \in Nat
      /\ FileLen(w[1]) \in Nat /\ w[2] + w[3] <= FileLen(w[1])
  BY <1>2, FitsFile, WritesType
<1>8. new \subseteq (0..63) \X Nat BY <1>2, WritesType, BytesType
<1>9. TouchInv'
  <2>1. CASE next = 35 BY <1>1, <2>1 DEF TouchInv, AfterReset
  <2>2. CASE next # 35
    <3>1. next \in 1..34 /\ next' = next + 1 /\ pc' = "config" BY <1>1, <1>2, <2>2
    <3>2. touched' \subseteq (0..63) \X Nat BY <1>1, <1>8 DEF TypeOK
    <3>3. \A b \in touched' : b \in Early \/ Below(b, w) \/ b \in new BY <1>1, <1>3
    <3>4. \A b \in touched' : b \in Early \/ Below(b, Writes[next + 1])
      BY <3>1, <3>2, <3>3, BytesBelow
    <3>5. \A b \in touched' : b \in Early \/ Below(b, Writes[next'])
      BY <3>1, <3>4
    <3> QED BY <3>1, <3>5 DEF TouchInv
  <2> QED BY <2>1, <2>2
<1>10. \A b \in touched' \ touched : b[1] = w[1] /\ b[2] < FileLen(w[1])
  <2> SUFFICES ASSUME NEW b \in new PROVE b[1] = w[1] /\ b[2] < FileLen(w[1])
    BY <1>1
  <2>1. b[1] = w[1] /\ b[2] \in Nat /\ b[2] < w[2] + w[3] BY <1>6
  <2> QED BY <1>7, <2>1
<1> QED BY <1>5, <1>9, <1>10

\* Every other write comes before, and starts from a chip out of its reset.
LEMMA TouchStep ==
    ASSUME TypeOK, TouchInv, [Next]_vars
    PROVE  TouchInv'
<1> USE DEF TouchInv, AfterReset, Asleep, OtpSteps, Steps
<1>1. CASE UNCHANGED vars \/ Lock \/ Loaded
  <2>1. UNCHANGED <<pc, next, touched>> BY <1>1 DEF vars, Lock, Loaded
  <2> QED BY <2>1
<1>2. CASE HoldReset \/ ReleaseReset \/ Woken
  BY <1>2, Zenon DEF HoldReset, ReleaseReset, Woken, Awake, Goto
<1>3. CASE Restart BY <1>3 DEF Restart
<1>4. CASE ForceXtiLo \/ ForceXtiHi \/ ClockLde \/ EndLoad \/ ReadPmsc \/ AllSeqLo
  BY <1>4 DEF ForceXtiLo, ForceXtiHi, ClockLde, EndLoad, RestoreClock, ReadPmsc, AllSeqLo,
              WritePmsc, Goto
<1>5. CASE AllSeqHi
  <2>1. pc = "seq_hi" /\ pc' = "config" /\ next' = next /\ touched' = touched
    BY <1>5 DEF AllSeqHi, WriteSeqHi, WritePmsc, Goto
  <2> QED BY <2>1
<1>6. Bytes(\h2D, 6, 2) \subseteq Early /\ Bytes(\h2D, 4, 3) \subseteq Early
      /\ Bytes(\h2C, 0, 2) \subseteq Early /\ Bytes(\h28, \h30, 5) \subseteq Early
  BY DEF Bytes, Header, Addressed, Early
<1>7. CASE StartLoad BY <1>6, <1>7 DEF StartLoad, Write, Goto
<1>8. CASE ReadOtp4 \/ ReadOtp5
  BY <1>6, <1>8 DEF ReadOtp4, ReadOtp5, ReadOtp, Write, Goto
<1>9. CASE NoTune \/ Kick BY <1>6, <1>9 DEF NoTune, Kick, WriteWcfg, Write, Goto
<1>10. CASE WriteTune BY <1>6, <1>10 DEF WriteTune, Write, Goto
<1>11. CASE ConfigWrite BY <1>11, TouchConfig
<1> QED
  BY <1>1, <1>2, <1>3, <1>4, <1>5, <1>7, <1>8, <1>9, <1>10, <1>11 DEF Next, Driver

LEMMA TouchAlways == Spec => [](TypeOK /\ TouchInv)
<1>1. Init => TouchInv
  BY DEF Init, TouchInv, AfterReset, Asleep, Steps, OtpSteps
<1> QED BY <1>1, TouchStep, TypesHold, PTL DEF Spec

\* dw1000_config writes no byte twice and none that load_ldotune tuned, and
\* stays in its register files, also after a restart in the middle of it.
THEOREM WritesDisjoint == Spec => ConfigDisjoint
<1> DEFINE Fresh == LET w == Writes[next]
                        new == touched' \ touched
                    IN /\ Bytes(w[1], w[2], w[3]) \cap touched = {}
                       /\ \A b \in new : b[1] = w[1] /\ b[2] < FileLen(w[1])
<1> DEFINE A == pc = "config" /\ pc' # "off" /\ next' # next => Fresh
<1>1. ASSUME TypeOK, TouchInv, [Next]_vars PROVE [A]_vars
  <2> SUFFICES ASSUME Next, pc = "config", pc' # "off", next' # next PROVE Fresh
    BY <1>1
  <2> HIDE DEF Fresh
  <2>1. ConfigWrite \/ Restart \/ Lock \/ Loaded
    BY DEF Next, Driver, HoldReset, ReleaseReset, Woken, Awake, ForceXtiLo, ForceXtiHi, ClockLde,
           StartLoad, EndLoad, RestoreClock, ReadOtp4, ReadOtp5, ReadOtp, NoTune, Kick,
           WriteWcfg, WriteTune, ReadPmsc, AllSeqLo, AllSeqHi, WriteSeqHi, Goto
  <2>2. ConfigWrite BY <2>1 DEF Restart, Lock, Loaded
  <2> QED BY <1>1, <2>2, TouchConfig DEF Fresh
<1> QED BY <1>1, TouchAlways, PTL DEF Spec, ConfigDisjoint
=============================================================================
