----------------------------- MODULE Dw1000Spi -----------------------------
(***************************************************************************)
(* The three byte header that precedes every SPI transaction of the driver *)
(* (dw1000_read and dw1000_write, src/dw1000.c) and what the chip makes of *)
(* it.  A register is addressed by its register file and a sub-index.      *)
(***************************************************************************)
EXTENDS Integers

\* The sub-index is cut to the seven bits of the short form.
HeaderBug(file, reg, write) ==
    [regfile |-> file % 64, write |-> write, addressl |-> reg % 128, addressh |-> 0]

\* subidx_present and extended_address are always set; regfile, addressl and
\* addressh are fields of 6, 7 and 8 bits.
Header(file, reg, write) ==
    [regfile  |-> file % 64, write |-> write,
     addressl |-> reg % 128, addressh |-> (reg \div 128) % 256]

\* The chip: the register file and sub-index a header addresses.
Addressed(h) == <<h.regfile, h.addressl + 128 * h.addressh>>

\* The bytes that a transaction of len bytes after this header touches.
Bytes(file, reg, len) ==
    LET at == Addressed(Header(file, reg, TRUE))
    IN {<<at[1], b>> : b \in at[2] .. at[2] + len - 1}
=============================================================================
