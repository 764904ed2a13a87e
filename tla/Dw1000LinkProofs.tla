--------------------------- MODULE Dw1000LinkProofs ---------------------------
(***************************************************************************)
(* The configuration tables for every set of configurations, any number of *)
(* nodes and every length of frame.  The proofs rest on what each register *)
(* that the chips look at holds: dw1000_config writes it once, and of      *)
(* these only TFLEN of TX_FCTRL is written again.                          *)
(***************************************************************************)
EXTENDS Dw1000Link, TLAPS

Holds(r, c) ==
    /\ TxFctrlReg \in DOMAIN r
    /\ \E len \in 0..127 : r[TxFctrlReg] = [TxFctrl(c) EXCEPT !.TFLEN = len]
    /\ r[<<\h1F, 0>>] = ChanCtrl(c)
    /\ r[<<\h21, 0>>] = SfdLength(c)
    /\ r[<<\h27, \h08>>] = DrxTune2(c)
    /\ r[<<\h27, \h20>>] = DrxSfdtoc(c)

IInv == /\ config \in [Nodes -> Configs] /\ DOMAIN reg = Nodes
        /\ \A n \in Nodes : Up(n) => Holds(reg[n], config[n])
----------------------------------------------------------------------------
(* What dw1000_config writes where *)

LEMMA WritesLen == \A c : DOMAIN ConfigWrites(c) = 1..35
BY DEF ConfigWrites

\* A register that one write reaches holds what that write wrote.
LEMMA WrittenOnce ==
    ASSUME NEW c, NEW k \in 1..35, NEW a, At(ConfigWrites(c)[k]) = a,
           \A i \in 1..35 : At(ConfigWrites(c)[i]) = a => i = k
    PROVE  a \in DOMAIN Regs(c) /\ Regs(c)[a] = ConfigWrites(c)[k][4]
<1> DEFINE W == ConfigWrites(c)
<1> DEFINE To(b) == CHOOSE i \in DOMAIN W : At(W[i]) = b
<1>1. DOMAIN W = 1..35 BY WritesLen
<1>2. Regs(c) = [b \in {At(W[i]) : i \in DOMAIN W} |-> W[To(b)][4]] BY DEF Regs
<1>3. To(a) = k BY <1>1
<1>4. a \in {At(W[i]) : i \in DOMAIN W} BY <1>1
<1> HIDE DEF W, To
<1> QED BY <1>2, <1>3, <1>4 DEF W

LEMMA Addresses ==
    ASSUME NEW c, NEW i \in 1..35
    PROVE  LET a == At(ConfigWrites(c)[i])
           IN /\ a = <<\h08, 0>> <=> i = 2
              /\ a = <<\h1F, 0>> <=> i = 10
              /\ a = <<\h21, 0>> <=> i = 11
              /\ a = <<\h27, \h08>> <=> i = 20
              /\ a = <<\h27, \h20>> <=> i = 21
BY DEF ConfigWrites, At

LEMMA Values ==
    ASSUME NEW c
    PROVE  /\ ConfigWrites(c)[2][4] = TxFctrl(c)
           /\ ConfigWrites(c)[10][4] = ChanCtrl(c)
           /\ ConfigWrites(c)[11][4] = SfdLength(c)
           /\ ConfigWrites(c)[20][4] = DrxTune2(c)
           /\ ConfigWrites(c)[21][4] = DrxSfdtoc(c)
BY DEF ConfigWrites

LEMMA Configured == ASSUME NEW c PROVE Holds(Regs(c), c)
<1>1. TxFctrlReg \in DOMAIN Regs(c) /\ Regs(c)[TxFctrlReg] = TxFctrl(c)
  BY WrittenOnce, Addresses, Values DEF TxFctrlReg
<1>2. Regs(c)[<<\h1F, 0>>] = ChanCtrl(c) BY WrittenOnce, Addresses, Values
<1>3. Regs(c)[<<\h21, 0>>] = SfdLength(c) BY WrittenOnce, Addresses, Values
<1>4. Regs(c)[<<\h27, \h08>>] = DrxTune2(c) BY WrittenOnce, Addresses, Values
<1>5. Regs(c)[<<\h27, \h20>>] = DrxSfdtoc(c) BY WrittenOnce, Addresses, Values
<1>6. TxFctrl(c) = [TxFctrl(c) EXCEPT !.TFLEN = 0] BY DEF TxFctrl
<1> QED BY <1>1, <1>2, <1>3, <1>4, <1>5, <1>6 DEF Holds
----------------------------------------------------------------------------
LEMMA InitInv == Init => IInv
BY DEF Init, IInv, Up

LEMMA SendKeeps ==
    ASSUME NEW r, NEW c, Holds(r, c), NEW len \in Nat
    PROVE  Holds([r EXCEPT ![TxFctrlReg] = WithLength(@, len)], c)
<1> DEFINE q == [r EXCEPT ![TxFctrlReg] = WithLength(@, len)]
<1>1. DOMAIN q = DOMAIN r OBVIOUS
<1>2. q[TxFctrlReg] = WithLength(r[TxFctrlReg], len) BY DEF Holds
<1>3. \A a : a # TxFctrlReg => q[a] = r[a] OBVIOUS
<1>4. PICK old \in 0..127 : r[TxFctrlReg] = [TxFctrl(c) EXCEPT !.TFLEN = old]
  BY DEF Holds
<1>5. (len + 2) % 128 \in 0..127 OBVIOUS
<1>6. q[TxFctrlReg] = [TxFctrl(c) EXCEPT !.TFLEN = (len + 2) % 128]
  BY <1>2, <1>4 DEF WithLength, TxFctrl
<1>7. /\ q[<<\h1F, 0>>] = r[<<\h1F, 0>>] /\ q[<<\h21, 0>>] = r[<<\h21, 0>>]
      /\ q[<<\h27, \h08>>] = r[<<\h27, \h08>>] /\ q[<<\h27, \h20>>] = r[<<\h27, \h20>>]
  BY <1>3 DEF TxFctrlReg
<1> HIDE DEF q
<1>8. Holds(q, c) BY <1>1, <1>5, <1>6, <1>7 DEF Holds
<1> QED BY <1>8 DEF q

LEMMA StepInv == IInv /\ [Next]_vars => IInv'
<1> SUFFICES ASSUME IInv, [Next]_vars PROVE IInv' OBVIOUS
<1>1. CASE UNCHANGED vars BY <1>1 DEF vars, IInv, Up
<1>2. ASSUME NEW n \in Nodes, Configure(n) PROVE IInv'
  BY <1>2, Configured DEF Configure, IInv, Up
<1>3. ASSUME NEW n \in Nodes, Reset(n) PROVE IInv'
  BY <1>3 DEF Reset, IInv, Up
<1>4. ASSUME NEW n \in Nodes, NEW len \in Lengths, Send(n, len) PROVE IInv'
  <2>1. len \in Nat BY LinkAssumption
  <2>2. Holds(reg[n], config[n]) BY <1>4 DEF Send, IInv
  <2>3. reg' = [reg EXCEPT ![n] = [reg[n] EXCEPT ![TxFctrlReg] = WithLength(@, len)]]
    BY <1>4 DEF Send
  <2>4. Holds(reg'[n], config[n]) BY <2>1, <2>2, <2>3, SendKeeps DEF IInv
  <2>5. \A o \in Nodes : o # n => reg'[o] = reg[o] BY <2>3 DEF IInv
  <2>6. DOMAIN reg' = Nodes /\ config' = config BY <1>4, <2>3 DEF Send, IInv
  <2> QED BY <2>4, <2>5, <2>6 DEF IInv, Up
<1> QED BY <1>1, <1>2, <1>3, <1>4 DEF Next

\* Whatever was sent between two resets, the registers are those of the
\* configuration but for TFLEN.
THEOREM Invariant == Spec => []IInv
BY InitInv, StepInv, PTL DEF Spec
----------------------------------------------------------------------------
(* What the chips make of the registers *)

LEMMA ConfigFields ==
    ASSUME NEW c \in Config
    PROVE  /\ c.prf \in {"16MHZ", "64MHZ"} /\ c.preamble \in 0..7
           /\ c.channel \in {1, 2, 3, 4, 5, 7} /\ c.rate \in {"110K", "850K", "6_8M"}
           /\ c.pcode \in 0..255
BY DEF Config, Prfs, Preambles, Channels, Rates

LEMMA Powers == 2^0 = 1 /\ 2^1 = 2 /\ 2^2 = 4 /\ 2^3 = 8
OBVIOUS

\* TXPSR and PE stand for the length of the preamble.
LEMMA AnnouncesSymbols ==
    ASSUME NEW c \in Config, NEW f, f.TXPSR = TxFctrl(c).TXPSR, f.PE = TxFctrl(c).PE
    PROVE  Announced(f) = Symbols(c) /\ Symbols(c) \in 64..4096
<1>1. /\ f.TXPSR = <<1, 1, 1, 1, 2, 2, 2, 3>>[c.preamble + 1]
      /\ f.PE = <<0, 1, 2, 3, 0, 1, 2, 0>>[c.preamble + 1]
  BY DEF TxFctrl
<1>2. CASE c.preamble = 0
  <2>1. f.TXPSR = 1 /\ f.PE = 0 BY <1>1, <1>2
  <2> QED BY <1>2, <2>1, Powers DEF Announced, Symbols
<1>3. CASE c.preamble = 1
  <2>1. f.TXPSR = 1 /\ f.PE = 1 BY <1>1, <1>3
  <2> QED BY <1>3, <2>1, Powers DEF Announced, Symbols
<1>4. CASE c.preamble = 2
  <2>1. f.TXPSR = 1 /\ f.PE = 2 BY <1>1, <1>4
  <2> QED BY <1>4, <2>1, Powers DEF Announced, Symbols
<1>5. CASE c.preamble = 3
  <2>1. f.TXPSR = 1 /\ f.PE = 3 BY <1>1, <1>5
  <2> QED BY <1>5, <2>1, Powers DEF Announced, Symbols
<1>6. CASE c.preamble \in {4, 5, 6}
  <2>1. f.TXPSR = 2 /\ f.PE = c.preamble - 4 BY <1>1, <1>6
  <2>2. Announced(f) = 1024 + 512 * f.PE BY <2>1 DEF Announced
  <2>3. Symbols(c) = 1024 + 512 * (c.preamble - 4) BY <1>6 DEF Symbols
  <2> QED BY <1>6, <2>1, <2>2, <2>3
<1>7. CASE c.preamble = 7
  <2>1. f.TXPSR = 3 BY <1>1, <1>7
  <2>2. Announced(f) = 4096 BY <2>1 DEF Announced
  <2>3. Symbols(c) = 4096 BY <1>7 DEF Symbols
  <2> QED BY <2>2, <2>3
<1> QED BY <1>2, <1>3, <1>4, <1>5, <1>6, <1>7, ConfigFields

Chunk(tune2) == (tune2 \div 33554432) % 4

LEMMA PacOf ==
    ASSUME NEW d, NEW k, Chunk(d) = k
    PROVE  Pac(d) = 8 * 2^k
<1>1. Pac(d) = 8 * 2^Chunk(d) BY SMT DEF Pac, Chunk
<1> QED BY <1>1

\* DRX_TUNE2 stands for a chunk of 8 to 64 symbols, no longer than the preamble.
LEMMA ChunkFits ==
    ASSUME NEW c \in Config
    PROVE  Pac(DrxTune2(c)) \in 8..64 /\ Pac(DrxTune2(c)) <= Symbols(c)
<1>1. CASE c.preamble \in {0, 1}
  <2>1. DrxTune2(c) = \h311A002D \/ DrxTune2(c) = \h313B006B
    BY <1>1, ConfigFields, SMT DEF DrxTune2
  <2>2. Chunk(DrxTune2(c)) = 0 BY <2>1, SMT DEF Chunk
  <2>3. Pac(DrxTune2(c)) = 8 * 2^0 BY <2>2, PacOf
  <2> QED BY <1>1, <2>3, Powers, SMT DEF Symbols
<1>2. CASE c.preamble \in {2, 3}
  <2>1. DrxTune2(c) = \h331A0052 \/ DrxTune2(c) = \h333B00BE
    BY <1>2, ConfigFields, SMT DEF DrxTune2
  <2>2. Chunk(DrxTune2(c)) = 1 BY <2>1, SMT DEF Chunk
  <2>3. Pac(DrxTune2(c)) = 8 * 2^1 BY <2>2, PacOf
  <2> QED BY <1>2, <2>3, Powers, SMT DEF Symbols
<1>3. CASE c.preamble = 4
  <2>1. DrxTune2(c) = \h351A009A \/ DrxTune2(c) = \h353B015E
    BY <1>3, ConfigFields, SMT DEF DrxTune2
  <2>2. Chunk(DrxTune2(c)) = 2 BY <2>1, SMT DEF Chunk
  <2>3. Pac(DrxTune2(c)) = 8 * 2^2 BY <2>2, PacOf
  <2> QED BY <1>3, <2>3, Powers, SMT DEF Symbols
<1>4. CASE c.preamble \in {5, 6, 7}
  <2>1. DrxTune2(c) = \h371A011D \/ DrxTune2(c) = \h373B0296
    BY <1>4, ConfigFields, SMT DEF DrxTune2
  <2>2. Chunk(DrxTune2(c)) = 3 BY <2>1, SMT DEF Chunk
  <2>3. Pac(DrxTune2(c)) = 8 * 2^3 BY <2>2, PacOf
  <2> QED BY <1>4, <2>3, Powers, SMT DEF Symbols
<1> QED BY <1>1, <1>2, <1>3, <1>4, ConfigFields
----------------------------------------------------------------------------
(* The theorems *)

LEMMA FctrlOf ==
    ASSUME IInv, NEW n \in Nodes, Up(n)
    PROVE  /\ config[n] \in Config
           /\ Fctrl(n).TFLEN \in 0..127
           /\ Fctrl(n) = [TxFctrl(config[n]) EXCEPT !.TFLEN = Fctrl(n).TFLEN]
           /\ Chan(n) = ChanCtrl(config[n]) /\ SfdLen(n) = SfdLength(config[n])
           /\ Tune2(n) = DrxTune2(config[n]) /\ SfdToc(n) = DrxSfdtoc(config[n])
<1>1. Holds(reg[n], config[n]) BY DEF IInv
<1>2. config[n] \in Config BY LinkAssumption DEF IInv
<1>3. PICK len \in 0..127 : Fctrl(n) = [TxFctrl(config[n]) EXCEPT !.TFLEN = len]
  BY <1>1 DEF Holds, Fctrl, TxFctrlReg
<1>4. Fctrl(n).TFLEN = len BY <1>3 DEF TxFctrl
<1> QED BY <1>1, <1>2, <1>3, <1>4 DEF Holds, Chan, SfdLen, Tune2, SfdToc

LEMMA FctrlFields ==
    ASSUME IInv, NEW n \in Nodes, Up(n)
    PROVE  LET c == config[n]
           IN /\ Fctrl(n).TXPRF = Prf(c)
              /\ Fctrl(n).TXPSR = TxFctrl(c).TXPSR /\ Fctrl(n).PE = TxFctrl(c).PE
              /\ Chan(n).TX_CHAN = c.channel /\ Chan(n).RX_CHAN = c.channel
              /\ Chan(n).TX_PCODE = c.pcode % 32 /\ Chan(n).RX_PCODE = c.pcode % 32
              /\ Chan(n).RXPRF = Prf(c) /\ Chan(n).DWSFD = Dwsfd(c)
<1> DEFINE c == config[n]
<1>1. PICK len \in 0..127 : Fctrl(n) = [TxFctrl(c) EXCEPT !.TFLEN = len]
  BY FctrlOf
<1>2. /\ Fctrl(n).TXPRF = Prf(c)
      /\ Fctrl(n).TXPSR = TxFctrl(c).TXPSR /\ Fctrl(n).PE = TxFctrl(c).PE
  BY <1>1 DEF TxFctrl
<1>3. Chan(n) = ChanCtrl(c) BY FctrlOf
<1> QED BY <1>2, <1>3 DEF ChanCtrl

\* The fields of TX_FCTRL and CHAN_CTRL keep to their widths.
THEOREM FieldsFit == Spec => []TypeOK
<1>1. IInv => TypeOK
  <2> SUFFICES ASSUME IInv, NEW n \in Nodes, Up(n)
               PROVE  Fctrl(n) \in TxFctrlFields /\ Chan(n) \in ChanCtrlFields
    BY DEF IInv, TypeOK
  <2> DEFINE c == config[n]
  <2>1. c \in Config /\ c.pcode % 32 \in 0..31 BY FctrlOf, ConfigFields
  <2>2. TxFctrl(c) \in [TFLEN: {0}, TXBR: 0..3, TXPRF: 0..3, TXPSR: 0..3, PE: 0..3]
    BY <2>1, ConfigFields DEF TxFctrl, Prf
  <2>3. Fctrl(n) \in TxFctrlFields BY <2>2, FctrlOf DEF TxFctrlFields
  <2>4. ChanCtrl(c) \in ChanCtrlFields
    BY <2>1, ConfigFields DEF ChanCtrl, ChanCtrlFields, Prf, Dwsfd
  <2> QED BY <2>3, <2>4, FctrlOf
<1> QED BY <1>1, Invariant, PTL

\* Nodes with one configuration hear each other, for every enumerated
\* configuration, after any transmissions of any length.
THEOREM AlikeNodesHear == Spec => []AlikeHear
<1>1. IInv => AlikeHear
  <2> SUFFICES ASSUME IInv, NEW m \in Nodes, NEW n \in Nodes,
                      config[m] = config[n], Up(m), Up(n)
               PROVE  Hears(n, m)
    BY DEF AlikeHear
  <2> DEFINE c == config[n]
  <2>1. c \in Config BY FctrlOf
  <2>2. SameAir(m, n) BY FctrlFields DEF SameAir
  <2>3. Announced(Fctrl(m)) = Symbols(c) /\ Symbols(c) \in 64..4096
    BY <2>1, FctrlFields, AnnouncesSymbols
  <2>4. Pac(Tune2(n)) \in 8..64 /\ Pac(Tune2(n)) <= Symbols(c)
    BY <2>1, ChunkFits, FctrlOf
  <2>5. SfdLen(m) = SfdLength(c) /\ SfdToc(n) = DrxSfdtoc(c) BY FctrlOf
  <2> HIDE DEF c
  <2>6. \E sfd \in 8..16, toc \in 8..64 :
           /\ SfdLength(c) = sfd /\ DrxSfdtoc(c) = 1 + Symbols(c) + toc /\ sfd - 8 <= toc
    <3>1. CASE c.rate = "110K"
      <4>1. DrxSfdtoc(c) = 1 + Symbols(c) + 64 BY <3>1 DEF DrxSfdtoc
      <4>2. SfdLength(c) = 16 BY <3>1 DEF SfdLength
      <4> QED BY <4>1, <4>2
    <3>2. CASE c.rate = "850K"
      <4>1. DrxSfdtoc(c) = 1 + Symbols(c) + 16 BY <3>2 DEF DrxSfdtoc
      <4>2. SfdLength(c) = 16 BY <3>2 DEF SfdLength
      <4> QED BY <4>1, <4>2
    <3>3. CASE c.rate = "6_8M"
      <4>1. DrxSfdtoc(c) = 1 + Symbols(c) + 8 BY <3>3 DEF DrxSfdtoc
      <4>2. SfdLength(c) = 8 BY <3>3 DEF SfdLength
      <4> QED BY <4>1, <4>2
    <3> QED BY <2>1, <3>1, <3>2, <3>3, ConfigFields
  <2>7. PICK sfd \in 8..16, toc \in 8..64 :
           SfdLen(m) = sfd /\ SfdToc(n) = 1 + Symbols(c) + toc /\ sfd - 8 <= toc
    BY <2>5, <2>6
  <2>8. PICK k \in 64..4096 : Symbols(c) = k /\ Announced(Fctrl(m)) = k BY <2>3
  <2>9. PICK p \in 8..64 : Pac(Tune2(n)) = p /\ p <= k BY <2>4, <2>8
  <2>10. k >= p /\ k + 1 + sfd - p <= 1 + k + toc BY <2>7, <2>9
  <2>11. OutlastsPreamble(m, n)
    BY <2>7, <2>8, <2>9, <2>10 DEF OutlastsPreamble
  <2> QED BY <2>2, <2>11 DEF Hears
<1> QED BY <1>1, Invariant, PTL

\* A node hears only nodes on its channel, at its PRF and with its code, if the
\* codes of the configurations fit the field of CHAN_CTRL.
THEOREM HearsOnlyAlike ==
    ASSUME \A c \in Configs : c.pcode < 32
    PROVE  Spec => []HearAlike
<1>1. IInv => HearAlike
  <2> SUFFICES ASSUME IInv, NEW m \in Nodes, NEW n \in Nodes, Hears(n, m)
               PROVE  /\ config[m].channel = config[n].channel
                      /\ config[m].prf = config[n].prf
                      /\ config[m].pcode = config[n].pcode
    BY DEF HearAlike
  <2>1. Up(m) /\ Up(n) /\ SameAir(m, n) BY DEF Hears
  <2>2. /\ config[m] \in Config /\ config[n] \in Config
        /\ config[m].pcode \in 0..31 /\ config[n].pcode \in 0..31
    <3>1. config[m] \in Configs /\ config[n] \in Configs BY DEF IInv
    <3>2. config[m] \in Config /\ config[n] \in Config BY <3>1, LinkAssumption
    <3>3. config[m].pcode \in 0..255 /\ config[n].pcode \in 0..255
      BY <3>2, ConfigFields
    <3>4. config[m].pcode < 32 /\ config[n].pcode < 32 BY <3>1
    <3> QED BY <3>2, <3>3, <3>4
  <2>3. config[m].pcode % 32 = config[m].pcode /\ config[n].pcode % 32 = config[n].pcode
    BY <2>2
  <2>4. Prf(config[m]) = Prf(config[n]) /\ config[m].channel = config[n].channel
        /\ config[m].pcode % 32 = config[n].pcode % 32
    BY <2>1, FctrlFields DEF SameAir
  <2> QED BY <2>2, <2>3, <2>4, ConfigFields DEF Prf
<1> QED BY <1>1, Invariant, PTL
=============================================================================
