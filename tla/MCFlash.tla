------------------------------ MODULE MCFlash ------------------------------
(***************************************************************************)
(* Flash for TLC: an image of four cells in two pages, on chips that are   *)
(* as large as the image or twice as large, that erase blocks of one page  *)
(* or of the whole image or only the whole chip, and on chips that must be *)
(* refused.                                                                *)
(***************************************************************************)
EXTENDS Flash

TheImage == [c \in 0 .. 3 |-> IF c = 0 THEN {0} ELSE IF c = 1 THEN FF ELSE IF c = 2 THEN {1} ELSE {}]
TheOld   == [c \in 0 .. 7 |-> IF c \in {0, 3} THEN {1} ELSE IF c = 1 THEN FF ELSE {0}]

C(kind, known, lock, alike, len, block, cmd) ==
    [kind |-> kind, known |-> known, lock |-> lock, alike |-> alike,
     len |-> len, block |-> block, cmd |-> cmd]

Good == {C("29", TRUE, FALSE, FALSE, 4, 2, "block"), C("29", TRUE, FALSE, TRUE, 8, 2, "block"),
         C("29", TRUE, FALSE, FALSE, 4, 4, "chip"), C("28", TRUE, FALSE, FALSE, 8, 4, "block"),
         C("29", TRUE, FALSE, FALSE, 8, 4, "chip")}
Refused == {C("29", FALSE, FALSE, FALSE, 4, 2, "block"), C("28", TRUE, TRUE, FALSE, 8, 4, "block"),
            C("rom", TRUE, FALSE, FALSE, 4, 4, "block"), C("29", TRUE, FALSE, FALSE, 2, 2, "block")}
Alike == {C("28", TRUE, FALSE, TRUE, 8, 4, "block")}
MCChips == Good \cup Refused
AllChips == MCChips \cup Alike
=============================================================================
