----------------------------- MODULE Dw1000Conf -----------------------------
(***************************************************************************)
(* The registers that follow from the configuration of a DW1000: the       *)
(* tables of src/dw1000_internal.h and the list of registers that          *)
(* dw1000_config writes.  SYS_CFG, TX_FCTRL and CHAN_CTRL are      *)
(* records of the fields that matter, any other register is its value.     *)
(*                                                                         *)
(* The code looks a value up by switch; a configuration that is none of    *)
(* the enumerated ones would fall through to 0 and is not modelled.        *)
(***************************************************************************)
EXTENDS Integers

Prfs == {"16MHZ", "64MHZ"}
Preambles == 0..7             \* DW1000_PREAMBLE_64 to _4096
Channels == {1, 2, 3, 4, 5, 7}
Rates == {"110K", "850K", "6_8M"}

Config == [prf: Prfs, preamble: Preambles, channel: Channels, rate: Rates, pcode: 0..255]

DefaultPcode(prf, channel) ==
    IF prf = "16MHZ"
    THEN CASE channel = 1 -> 1 [] channel \in {2, 5} -> 3 [] channel = 3 -> 5 [] OTHER -> 7
    ELSE IF channel \in {4, 7} THEN 17 ELSE 9

\* The configuration dw1000_init sets.
InitConfig == [prf |-> "64MHZ", preamble |-> 1, channel |-> 7, rate |-> "6_8M",
               pcode |-> DefaultPcode("64MHZ", 7)]

WithDefaultPcode(configs) ==
    {c \in configs : c.pcode = DefaultPcode(c.prf, c.channel)}
----------------------------------------------------------------------------
(* By preamble code *)

LdeRepcTable ==
    <<\h5998, \h5998, \h51EA, \h428E, \h451E, \h2E14, \h8000, \h51EA,
      \h28F4, \h3332, \h3AE0, \h3D70, \h3AE0, \h35C2, \h2B84, \h35C2,
      \h3332, \h35C2, \h35C2, \h47AE, \h3AE0, \h3850, \h30A2, \h3850>>

LdeRepc(c) == IF c.pcode \notin 1..24 THEN 0
              ELSE IF c.rate = "110K" THEN LdeRepcTable[c.pcode] \div 8
              ELSE LdeRepcTable[c.pcode]

(* By data rate *)

Dwsfd(c) == IF c.rate = "6_8M" THEN 0 ELSE 1

SfdLength(c) == IF c.rate = "6_8M" THEN 8 ELSE 16

DrxTune0b(c) == CASE c.rate = "110K" -> IF Dwsfd(c) = 0 THEN \h0A ELSE \h16
                  [] c.rate = "850K" -> IF Dwsfd(c) = 0 THEN \h01 ELSE \h06
                  [] OTHER           -> IF Dwsfd(c) = 0 THEN \h01 ELSE \h02

(* By channel *)

FsPllCfg(c) == CASE c.channel = 1 -> \h09000407 [] c.channel \in {2, 4} -> \h08400508
                 [] c.channel = 3 -> \h08401009 [] OTHER -> \h0800041D

FsPllTune(c) == CASE c.channel = 1 -> \h1E [] c.channel \in {2, 4} -> \h26
                  [] c.channel = 3 -> \h56 [] OTHER -> \hBE

TcPgDelay(c) == CASE c.channel = 1 -> \hC9 [] c.channel = 2 -> \hC2 [] c.channel = 3 -> \hC5
                  [] c.channel = 4 -> \h95 [] c.channel = 5 -> \hC0 [] OTHER -> \h93

RfTxCtrl(c) == CASE c.channel = 1 -> \h005C40 [] c.channel = 2 -> \h045CA0
                 [] c.channel = 3 -> \h086CC0 [] c.channel = 4 -> \h045C80
                 [] c.channel = 5 -> \h1E3FE0 [] OTHER -> \h1E7DE0

RfRxCtrlh(c) == IF c.channel \in {4, 7} THEN \hBC ELSE \hD8

(* By PRF *)

DrxTune1a(c) == IF c.prf = "16MHZ" THEN \h87 ELSE \h8D
AgcTune1(c)  == IF c.prf = "16MHZ" THEN \h8870 ELSE \h889B
LdeCfg2(c)   == IF c.prf = "16MHZ" THEN \h1607 ELSE \h0607

TxPower(c) ==
    IF c.prf = "16MHZ"
    THEN CASE c.channel \in {1, 2} -> \h15355575 [] c.channel = 3 -> \h0F2F4F6F
           [] c.channel = 4 -> \h1F1F3F5F [] c.channel = 5 -> \h0E082848
           [] OTHER -> \h32527292
    ELSE CASE c.channel \in {1, 2} -> \h07274767 [] c.channel = 3 -> \h2B4B6B8B
           [] c.channel = 4 -> \h3A5A7A9A [] c.channel = 5 -> \h25456585
           [] OTHER -> \h5171B1D1

(* By preamble length *)

Symbols(c) == <<64, 128, 256, 512, 1024, 1536, 2048, 4096>>[c.preamble + 1]

DrxTune1b(c) == CASE c.preamble = 0 -> \h10 [] c.preamble \in 1..4 -> \h20 [] OTHER -> \h64
DrxTune4h(c) == IF c.preamble = 0 THEN \h10 ELSE \h28

\* The value of DRX_TUNE2 tells the chip its preamble acquisition chunk.
DrxTune2(c) ==
    IF c.prf = "16MHZ"
    THEN CASE c.preamble \in {0, 1} -> \h311A002D [] c.preamble \in {2, 3} -> \h331A0052
           [] c.preamble = 4 -> \h351A009A [] OTHER -> \h371A011D
    ELSE CASE c.preamble \in {0, 1} -> \h313B006B [] c.preamble \in {2, 3} -> \h333B00BE
           [] c.preamble = 4 -> \h353B015E [] OTHER -> \h373B0296

\* The mutants of this module come before the definitions they change.
\* The SFD is left out.
DrxSfdtocBug(c) == 1 + Symbols(c)

DrxSfdtoc(c) ==
    1 + Symbols(c) + CASE c.rate = "110K" -> 64 [] c.rate = "850K" -> 16 [] OTHER -> 8

(* Registers with fields *)

Prf(c) == IF c.prf = "16MHZ" THEN 1 ELSE 2

\* Only the transmitter's code is set.
ChanCtrlBug(c) ==
    [TX_CHAN |-> c.channel, RX_CHAN |-> c.channel, DWSFD |-> Dwsfd(c), RXPRF |-> Prf(c),
     TNSSFD |-> 0, RNSSFD |-> 0, TX_PCODE |-> 0, RX_PCODE |-> 0]

\* The fields of channel and code have 4 and 5 bits.
ChanCtrl(c) ==
    [TX_CHAN |-> c.channel, RX_CHAN |-> c.channel, DWSFD |-> Dwsfd(c), RXPRF |-> Prf(c),
     TNSSFD |-> 0, RNSSFD |-> 0, TX_PCODE |-> c.pcode % 32, RX_PCODE |-> c.pcode % 32]

\* TXBR is that of 6.8 Mb/s whatever the data rate is.
TxFctrl(c) ==
    [TFLEN |-> 0, TXBR |-> 2, TXPRF |-> Prf(c),
     TXPSR |-> <<1, 1, 1, 1, 2, 2, 2, 3>>[c.preamble + 1],
     PE    |-> <<0, 1, 2, 3, 0, 1, 2, 0>>[c.preamble + 1]]

\* Double buffering is left on; RXM110K, the receiver mode for 110 kb/s, off.
SysCfg == [HIRQ_POL |-> 1, DIS_DRXB |-> 0, RXM110K |-> 0, RXAUTR |-> 1, AUTOACK |-> 0]
----------------------------------------------------------------------------
(* dw1000_config *)

\* What dw1000_config writes, in order: register file, sub-index, bytes, value.
ConfigWrites(c) == <<
    <<\h04, 0, 4, SysCfg>>, <<\h08, 0, 5, TxFctrl(c)>>,
    <<\h0C, 0, 2, 0>>, <<\h0D, 0, 4, 0>>, <<\h0E, 0, 4, 0>>,
    <<\h18, 0, 2, 21620>>, <<\h1A, 0, 4, 0>>, <<\h1D, 0, 4, 0>>,
    <<\h1E, 0, 4, TxPower(c)>>, <<\h1F, 0, 4, ChanCtrl(c)>>, <<\h21, 0, 1, SfdLength(c)>>,
    <<\h23, \h02, 2, 0>>, <<\h23, \h04, 2, AgcTune1(c)>>,
    <<\h23, \h0C, 4, \h2502A907>>, <<\h23, \h1E, 2, \h35>>,
    <<\h24, 0, 4, 0>>,
    <<\h27, \h02, 2, DrxTune0b(c)>>, <<\h27, \h04, 2, DrxTune1a(c)>>,
    <<\h27, \h06, 2, DrxTune1b(c)>>, <<\h27, \h08, 4, DrxTune2(c)>>,
    <<\h27, \h20, 2, DrxSfdtoc(c)>>, <<\h27, \h24, 2, 0>>, <<\h27, \h26, 2, DrxTune4h(c)>>,
    <<\h28, \h00, 4, 0>>, <<\h28, \h0B, 1, RfRxCtrlh(c)>>, <<\h28, \h0C, 4, RfTxCtrl(c)>>,
    <<\h2A, \h0B, 1, TcPgDelay(c)>>, <<\h2A, \h0C, 1, 0>>,
    <<\h2B, \h07, 4, FsPllCfg(c)>>, <<\h2B, \h0B, 1, FsPllTune(c)>>, <<\h2B, \h0E, 1, \h6F>>,
    <<\h2E, \h0806, 1, \h0D>>, <<\h2E, \h1804, 2, 21620>>,
    <<\h2E, \h1806, 2, LdeCfg2(c)>>, <<\h2E, \h2804, 2, LdeRepc(c)>> >>
=============================================================================
