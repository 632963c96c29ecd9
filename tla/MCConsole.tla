------------------------------ MODULE MCConsole ------------------------------
(***************************************************************************)
(* Console for TLC: three icons and two items on the screen, boot lists    *)
(* with one entry, with several of which one is the default, and nested    *)
(* ones.  Attended consoles differ in what IconMenuInit() finds and in     *)
(* their EEPROM; unattended ones have every encoder, cable and standard    *)
(* between them, and every backdrop.                                       *)
(***************************************************************************)
EXTENDS Console

MCConfig == [one   |-> <<Item("boot", "l1")>>,
             three |-> <<Item("boot", "l1"), Item("boot", "l2"), Item("boot", "l3")>>,
             nest  |-> <<Item("draw", "one"), Item("draw", "three")>>]
MCDefault == [one |-> 0, three |-> 2, nest |-> 0]

Hw(cds, fatx, natives) ==
    [cds |-> cds, cdcfg |-> "nest", fatx |-> fatx, natives |-> natives,
     disk |-> cds = 0 \/ fatx # "" \/ natives # <<>>]

-----------------------------------------------------------------------------
(* The hard disk's answer, EEPROMs of the four versions, computed outside, *)
(* and the passwords that belong to them.                                  *)
Spaces(n) == [i \in 1..n |-> 32]
MCDrive == [model |-> <<84, 83, 49, 51, 48, 48, 52, 49, 67, 65, 32, 69>> \o Spaces(28),
            serial |-> <<72, 51, 49, 84, 66, 65, 68, 67>> \o Spaces(12)]
SealedBytes == [v \in 9..12 |->
    CASE v = 9 -> <<138, 19, 136, 185, 21, 120, 159, 215, 18, 209, 32, 3, 230, 37, 187, 203, 169, 216, 210, 205,
                    251, 189, 91, 64, 65, 226, 99, 173, 141, 219, 31, 243, 173, 142, 153, 133, 5, 144, 19, 160, 192,
                    63, 222, 239, 162, 158, 14, 115>>
      [] v = 10 -> <<22, 236, 95, 151, 127, 236, 114, 29, 157, 45, 254, 0, 254, 104, 49, 153, 73, 159, 139, 163,
                     238, 181, 75, 49, 62, 91, 26, 127, 85, 136, 205, 7, 145, 229, 121, 126, 159, 239, 209, 84, 100,
                     238, 103, 128, 123, 179, 4, 138>>
      [] v = 11 -> <<152, 133, 152, 144, 11, 181, 252, 148, 222, 243, 151, 51, 25, 107, 67, 120, 174, 87, 185, 57,
                     178, 93, 210, 16, 83, 127, 83, 201, 164, 197, 20, 64, 75, 125, 208, 83, 143, 82, 90, 247, 29,
                     104, 17, 88, 99, 238, 9, 122>>
      [] v = 12 -> <<149, 62, 4, 217, 194, 248, 98, 217, 160, 8, 42, 46, 153, 218, 106, 15, 62, 178, 101, 252, 178,
                     84, 96, 156, 186, 82, 96, 184, 179, 215, 5, 195, 11, 222, 192, 104, 24, 60, 217, 220, 141, 62,
                     172, 216, 40, 177, 100, 42>>]
RightPassword(v) ==
    CASE v = 9  -> <<135, 174, 136, 79, 248, 201, 47, 45, 120, 39, 165, 119, 160, 125, 188, 116, 159, 225, 212, 67>>
      [] v = 10 -> <<29, 168, 156, 197, 102, 190, 84, 110, 112, 141, 133, 162, 155, 116, 23, 225, 113, 234, 82, 153>>
      [] v = 11 -> <<144, 110, 40, 253, 42, 114, 158, 186, 199, 142, 118, 42, 209, 145, 167, 5, 224, 207, 205, 193>>
      [] v = 12 -> <<243, 75, 84, 114, 86, 194, 73, 172, 120, 29, 99, 78, 177, 167, 140, 229, 217, 83, 106, 185>>
      [] OTHER  -> Corrupt

(* The chip: the sealed part (v = 0: one byte of it damaged), a standard   *)
(* of the television, or none the code knows, the screen's shape, any      *)
(* other bytes, and the right checksums.                                   *)
SealedFor(v) == IF v = 0 THEN [SealedBytes[9] EXCEPT ![30] = 7] ELSE SealedBytes[v]
StandardFor(tv) == IF tv = "Unknown" THEN <<9, 9, 9, 9>> ELSE StandardBytes[tv]
Unsummed(v, tv, wide) ==
    Written(Written([i \in Address |-> IF i \in {92, 93, 94, 95, 190, 191} THEN 0
                                       ELSE IF i = VideoFlags2 THEN wide ELSE (i * 37) % 256],
                    0, SealedFor(v)), VideoStandard, StandardFor(tv))
Summed(chip) == Written(Written(chip, Checksum2, Checksum(chip, SerialNumber, 95)),
                        Checksum3, Checksum(chip, TimeZoneBias, 191))
ChipWith(v, tv, wide) == Summed(Unsummed(v, tv, wide))

-----------------------------------------------------------------------------
(* Backdrops.                                                              *)
Flat == [i \in 1..64 |-> 1]
Steep == [i \in 1..64 |-> 1 + (i \div 8)]
Uniform(dcs) == [n \in 1..6 |-> [z \in {0} |-> dcs[n]]]
Detail == <<
    [z \in {0, 1, 4} |-> CASE z = 0 -> 200 [] z = 1 -> 100 [] z = 4 -> -3],
    [z \in {0, 3, 55} \cup 56..63 |-> CASE z = 0 -> -100 [] z = 3 -> -2 [] z = 55 -> 9
                                        [] OTHER -> IF z % 2 = 0 THEN 1 ELSE -1],
    [z \in {0, 1, 2} |-> CASE z = 0 -> -100 [] z = 1 -> -127 [] z = 2 -> 20],
    [z \in {0, 1, 2} |-> CASE z = 0 -> -98 [] z = 1 -> 1023 [] z = 2 -> -1023],
    [z \in {0, 1} |-> IF z = 0 THEN 300 ELSE 1],
    [z \in {0, 3} |-> IF z = 0 THEN -300 ELSE 2] >>
Pics ==
    [detail   |-> [width |-> 16, height |-> 14, dri |-> 0, quant |-> <<Steep, Flat>>, mcus |-> <<Detail>>],
     restarts |-> [width |-> 150, height |-> 16, dri |-> 1, quant |-> <<Flat, Flat>>,
                   mcus |-> [i \in 1..10 |-> Uniform([n \in 1..6 |-> 15 + i])]],
     steps    |-> [width |-> 32, height |-> 32, dri |-> 3, quant |-> <<Flat, Flat>>,
                   mcus |-> <<Uniform(<<20, 22, 42, 45, 20, 22>>), Uniform(<<25, 27, 27, 29, 22, 22>>),
                             Uniform(<<31, 31, 29, 27, 42, 20>>), Uniform(<<-20, -22, -42, -44, -20, 2>>)>>]]

(* Files that are damaged: each in a byte, and one whose size is that of   *)
(* the real backdrop but that ends early.                                  *)
MarkerAt(whole, m) == CHOOSE i \in 1..Len(whole) - 1 : whole[i] = 255 /\ whole[i + 1] = m
Changed(bytes, at, to) == [bytes EXCEPT ![at] = to]
FileNames == {"detail", "restarts", "steps", "nosoi", "depth", "comps", "layout", "tables", "selector",
              "spectral", "noeoi", "large"}
WholeFor(name) == IF name \in DOMAIN Pics THEN FileOf(Pics[name]) ELSE FileOf(Pics.steps)
Damaged(name, whole, frame, scan) ==
    CASE name = "nosoi"    -> Changed(whole, 2, 0)
      [] name = "depth"    -> Changed(whole, frame + 4, 12)
      [] name = "comps"    -> Changed(whole, frame + 9, 5)
      [] name = "layout"   -> Changed(whole, frame + 11, 17)
      [] name = "tables"   -> Changed(whole, 13, 9)
      [] name = "selector" -> Changed(whole, scan + 6, 34)
      [] name = "spectral" -> Changed(whole, scan + 12, 1)
      [] name = "noeoi"    -> Changed(whole, Len(whole), 0)
      [] OTHER             -> whole
FileFrom(name, whole) == Damaged(name, whole, MarkerAt(whole, M_SOF0), MarkerAt(whole, M_SOS))
Large == <<255, M_SOI>> \o Segmented(M_SOF0, <<8, 3, 64, 4, 0, 3, 1, 34, 0, 2, 17, 1, 3, 17, 1>>)
MCFiles == [name \in FileNames |-> IF name = "large" THEN Large ELSE FileFrom(name, WholeFor(name))]
MCOriginals == [f \in FileNames |-> IF f \in DOMAIN Pics THEN Pics[f] ELSE NoPicture]

-----------------------------------------------------------------------------
(* A console has an EEPROM of a version, encoders, a cable, a backdrop,    *)
(* devices, and perhaps somebody who presses keys.                         *)
Box(chip, answers, cable, file, hw, locked, attended) ==
    [chip |-> chip, answers |-> answers, cable |-> cable, file |-> file, hw |-> hw, locked |-> locked,
     attended |-> attended]
Attended ==
    { Box(<<9, "PAL", 0>>, {69}, 6, "large", Hw(0, "", <<>>), TRUE, TRUE),
      Box(<<10, "Unknown", 1>>, {69}, 6, "large", Hw(1, "", <<>>), FALSE, TRUE),
      Box(<<11, "USA", 16>>, {106}, 0, "large", Hw(1, "one", <<>>), FALSE, TRUE),
      Box(<<12, "Japan", 17>>, {69}, 4, "large", Hw(1, "three", <<"nest">>), FALSE, TRUE),
      Box(<<0, "PAL", 1>>, {}, 1, "large", Hw(0, "nest", <<"three", "one">>), TRUE, TRUE) }
Cabled == {Box(<<9, tv, wide>>, answers, cable, "large", Hw(1, "three", <<>>), FALSE, FALSE) :
             tv \in {"PAL", "USA"}, wide \in {0, 1}, answers \in {{69}, {106}, {}}, cable \in {0, 1, 2, 4, 6, 7}}
Backdrops == {Box(<<9, "PAL", 0>>, {69}, 6, file, Hw(0, "nest", <<>>), TRUE, FALSE) : file \in FileNames}
MCConsoles == Attended \cup Cabled \cup Backdrops
ChipNames == {0, 9, 10, 11, 12} \X {"PAL", "USA", "Japan", "Unknown"} \X {0, 1, 16, 17}
MCChips == [n \in ChipNames |-> ChipWith(n[1], n[2], n[3])]
MCSecrets == [n \in ChipNames |-> RightPassword(n[1])]
=============================================================================
