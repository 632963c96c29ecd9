------------------------------- MODULE MCSmBus -------------------------------
(***************************************************************************)
(* SmBus for TLC: the main program reads the DVD or temperature register   *)
(* of one device and writes another; the handler queries the PIC's         *)
(* interrupt reason and then writes to the PIC, reads the AV pack or sets  *)
(* the encoder.                                                            *)
(***************************************************************************)
EXTENDS SmBus

Req(rw, d, r, v) == [rw |-> rw, dev |-> d, reg |-> r, val |-> v]

MCMainOps == {Req("w", "enc", 1, "y"), Req("r", "enc", 1, "x"), Req("w", "pic", 1, "x")}
MCQuery  == Req("r", "pic", 2, "x")
MCIsrOps == {Req("w", "pic", 2, "y"), Req("r", "pic", 1, "x"), Req("w", "enc", 1, "x")}
=============================================================================
