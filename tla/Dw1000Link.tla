----------------------------- MODULE Dw1000Link -----------------------------
(***************************************************************************)
(* Two DW1000 nodes, each configured by its own dw1000_config, that send   *)
(* to each other: what the values of Dw1000Conf are for.  A node may reset *)
(* its chip and configure it again at any time.  The registers of a chip   *)
(* are those dw1000_config writes, by register file and sub-index.         *)
(*                                                                         *)
(* The program itself has one configuration, InitConfig; the tables are    *)
(* written for all of them.                                                *)
(***************************************************************************)
EXTENDS Dw1000Conf, Sequences

CONSTANTS
    Nodes,
    Configs, \* the configurations a node may have
    Lengths  \* the lengths of the frames that are sent

ASSUME LinkAssumption ==
    /\ Configs \subseteq Config /\ Lengths \subseteq 0..125

VARIABLES
    config, \* instance->config of each node
    reg     \* the registers of each chip, << >> from a reset to dw1000_config

vars == <<config, reg>>

At(w) == <<w[1], w[2]>>

\* The registers after dw1000_config, no two of whose writes are to one place.
Regs(c) == LET writes == ConfigWrites(c)
               To(a) == CHOOSE i \in DOMAIN writes : At(writes[i]) = a
           IN [a \in {At(writes[i]) : i \in DOMAIN writes} |-> writes[To(a)][4]]

Init == /\ config \in [Nodes -> Configs]
        /\ reg = [n \in Nodes |-> << >>]

Up(n) == reg[n] # << >>

Configure(n) ==
    /\ ~Up(n)
    /\ reg' = [reg EXCEPT ![n] = Regs(config[n])]
    /\ UNCHANGED config

Reset(n) == /\ Up(n)
            /\ reg' = [reg EXCEPT ![n] = << >>]
            /\ UNCHANGED config
----------------------------------------------------------------------------
(* dw1000_transmit and dw1000_scheduled_transmit, as far as TX_FCTRL goes *)

TxFctrlReg == <<\h08, 0>>

\* The mutants of this module come before the definitions they change.
\* One byte more than the data and its CRC.
LongerBug(fctrl, len) == [fctrl EXCEPT !.TFLEN = len + 3]

\* The register is built anew, as SYS_CTRL is.
WithLengthBug(fctrl, len) ==
    [TFLEN |-> (len + 2) % 128, TXBR |-> 0, TXPRF |-> 0, TXPSR |-> 0, PE |-> 0]

\* TX_FCTRL is read, and written back with another TFLEN.
WithLength(fctrl, len) == [fctrl EXCEPT !.TFLEN = (len + 2) % 128]

Send(n, len) ==
    /\ Up(n)
    /\ reg' = [reg EXCEPT ![n][TxFctrlReg] = WithLength(@, len)]
    /\ UNCHANGED config

Next == \E n \in Nodes : Configure(n) \/ Reset(n) \/ \E len \in Lengths : Send(n, len)

Spec == Init /\ [][Next]_vars
----------------------------------------------------------------------------
(* The chips: what their registers make them send and hear *)

Fctrl(n)   == reg[n][<<\h08, 0>>]
Chan(n)    == reg[n][<<\h1F, 0>>]
SfdLen(n)  == reg[n][<<\h21, 0>>]
Tune2(n)   == reg[n][<<\h27, \h08>>]
SfdToc(n)  == reg[n][<<\h27, \h20>>]

\* The length of the preamble that TX_FCTRL announces, in symbols.
Announced(f) ==
    CASE f.TXPSR = 1 -> 64 * 2^f.PE [] f.TXPSR = 2 -> 1024 + 512 * f.PE
      [] f.TXPSR = 3 -> 4096 [] OTHER -> 0

\* The preamble acquisition chunk, in symbols: bits 25 and 26 of DRX_TUNE2.
Pac(tune2) == 8 * 2^((tune2 \div 33554432) % 4)

\* What m sends is on a channel, with a code and at a PRF that n listens to,
\* and it is followed by the kind of SFD that n looks for.
SameAir(m, n) ==
    /\ Chan(m).TX_CHAN = Chan(n).RX_CHAN
    /\ Chan(m).TX_PCODE = Chan(n).RX_PCODE
    /\ Fctrl(m).TXPRF = Chan(n).RXPRF
    /\ Chan(m).DWSFD = Chan(n).DWSFD

\* n finds the preamble and does not give up before the SFD of it is over.
OutlastsPreamble(m, n) ==
    /\ Announced(Fctrl(m)) >= Pac(Tune2(n))
    /\ Announced(Fctrl(m)) + 1 + SfdLen(m) - Pac(Tune2(n)) <= SfdToc(n)

Hears(n, m) == Up(m) /\ Up(n) /\ SameAir(m, n) /\ OutlastsPreamble(m, n)
----------------------------------------------------------------------------
\* The bit fields of the two registers that are structures.
TxFctrlFields == [TFLEN: 0..127, TXBR: 0..3, TXPRF: 0..3, TXPSR: 0..3, PE: 0..3]
ChanCtrlFields == [TX_CHAN: 0..15, RX_CHAN: 0..15, DWSFD: 0..1, RXPRF: 0..3, TNSSFD: 0..1,
                   RNSSFD: 0..1, TX_PCODE: 0..31, RX_PCODE: 0..31]

TypeOK ==
    /\ config \in [Nodes -> Configs]
    /\ DOMAIN reg = Nodes
    /\ \A n \in Nodes : Up(n) => Fctrl(n) \in TxFctrlFields /\ Chan(n) \in ChanCtrlFields

\* Two nodes with one configuration hear each other, whatever they have sent
\* before: the two halves of CHAN_CTRL, TX_FCTRL, the preamble acquisition chunk
\* and the SFD timeout come from separate tables, and every transmission
\* rewrites TX_FCTRL.
AlikeHear ==
    \A m, n \in Nodes :
        config[m] = config[n] /\ Up(m) /\ Up(n) => Hears(n, m)

\* A node hears only nodes on its channel, with its PRF and its preamble code:
\* nothing of the configuration gets lost on the way to the registers.
HearAlike ==
    \A m, n \in Nodes :
        Hears(n, m) => /\ config[m].channel = config[n].channel
                       /\ config[m].prf = config[n].prf
                       /\ config[m].pcode = config[n].pcode
=============================================================================
