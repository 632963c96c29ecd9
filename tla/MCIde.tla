------------------------------- MODULE MCIde --------------------------------
(***************************************************************************)
(* Ide for TLC: a CHS disk, a 28-bit disk and a disk beyond 28 bits, and   *)
(* blocks at the ends of the register fields.                              *)
(***************************************************************************)
EXTENDS Ide

MCDisks == {[lba |-> FALSE, heads |-> 16, spt |-> 63, sectors |-> 65536 * 16 * 63],
            [lba |-> TRUE, heads |-> 16, spt |-> 63, sectors |-> Lba28],
            [lba |-> TRUE, heads |-> 16, spt |-> 63, sectors |-> 2000000000]}
MCBlocks == {0, 3, 62, 63, 1007, 1008, 65536 * 16 * 63 - 1, Byte3 - 1, Byte3, Lba28 - 1, Lba28,
             Lba28 + Byte3 + 5, 1999999999}
=============================================================================
