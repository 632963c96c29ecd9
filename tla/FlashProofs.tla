---------------------------- MODULE FlashProofs ----------------------------
(***************************************************************************)
(* The flash: reflashing is safe for every image, every chip and every     *)
(* number of retries, faults and aborts; and what the loader in the flash  *)
(* starts is the whole of what was packed, for every image, layout, hash,  *)
(* decompressor and fault.                                                 *)
(*                                                                         *)
(* The three properties of reflashing hold each other up.  That a success  *)
(* means the image is in the flash rests on the prefix VERIFY has read     *)
(* back; that a refused chip keeps its bytes also on the second attempt    *)
(* rests on the first: Compare sends back to Identify only what was        *)
(* refused, since a success would have compared equal.                     *)
(*                                                                         *)
(* The loader's property rests on what its two hashes cover.  The first    *)
(* part says where imagebld puts every byte of the banks; the second that  *)
(* a copy of the loader with the right hash has the header that was built, *)
(* and a copy of the image with the right hash is the image.               *)
(***************************************************************************)
EXTENDS Flash, BootRom, SequenceTheorems, TLAPS

Early == {"read", "ask", "loaded", "identify"}          \* nothing written yet, in this pass
Working == {"retry", "erase", "program", "verify"}      \* in BootReflashAndReset()'s loop
Phases == {"erase", "program", "verify"}
Places == Early \cup Working \cup {"flashed", "reboot", "menu", "halt"}

TypeOK ==
    /\ pc \in Places
    /\ chip \in Chips
    /\ mem \in [0 .. chip.len - 1 -> SUBSET FF]
    /\ conv28 \in BOOLEAN
    /\ rc \in -1 .. 3
    /\ dw \in 0 .. ImageLen

(* The chip holds what it held before.                                     *)
Untouched == \A c \in 0 .. chip.len - 1 : mem[c] = Old[c]

(* Only an accepted chip, with room for the image, is written to.          *)
Accepted == pc \in Working => rc = -1 /\ ImageLen <= chip.len

(* Whoever has not been accepted yet, or was refused, still has all.       *)
Spared ==
    /\ pc \in Early => Untouched
    /\ rc \in {1, 2, 3} => Untouched
    /\ pc = "flashed" => rc # -1

(* Blocks behind the image's last one.                                     *)
RestSpared ==
    \A c \in 0 .. chip.len - 1 :
        c \div chip.block > (ImageLen - 1) \div chip.block => mem[c] = Old[c]

(* VERIFY has compared the cells below dw.                                 *)
ReadBack == pc = "verify" /\ open = "verify" => \A c \in 0 .. dw - 1 : mem[c] = Image[c]

(* Between two phases none is open.                                        *)
NoneOpen == pc \notin Phases => open \in {"none", "aborted"}

FlashInv == /\ TypeOK /\ Accepted /\ Spared /\ RestSpared /\ ReadBack /\ SuccessMeansImage
            /\ NoneOpen

-----------------------------------------------------------------------------
(* What the assumptions say of a chip.                                     *)
LEMMA ChipFacts ==
    ASSUME FlashInv
    PROVE  /\ ImageLen \in Nat /\ ImageLen > 0
           /\ chip.len \in Nat /\ chip.len > 0
           /\ chip.block \in Nat /\ chip.block > 0
           /\ DOMAIN mem = 0 .. chip.len - 1
           /\ \A c \in 0 .. chip.len - 1 : Old[c] \in SUBSET FF
  <1>1. chip \in Chips /\ chip \in ChipType
    BY FlashAssumption DEF FlashInv, TypeOK
  <1>2. ImageLen \in Nat \ {0}
    BY FlashAssumption
  <1>3. chip.len \in Nat \ {0} /\ chip.block \in Nat \ {0}
    BY <1>1 DEF ChipType
  <1>4. \A c \in 0 .. chip.len - 1 : Old[c] \in SUBSET FF
    BY <1>1, FlashAssumption
  <1>5. DOMAIN mem = 0 .. chip.len - 1
    BY DEF FlashInv, TypeOK
  <1>6. QED
    BY <1>2, <1>3, <1>4, <1>5

(* A cell below another is not in a later block.                           *)
LEMMA BlockMonotone ==
    ASSUME NEW a \in Nat, NEW b \in Nat, a <= b, NEW d \in Nat, d > 0
    PROVE  ~(a \div d > b \div d)
  <1> DEFINE p == a \div d
             q == b \div d
  <1>1. p \in Int /\ d * p <= a
    OBVIOUS
  <1>2. q \in Int /\ b < d * q + d
    OBVIOUS
  <1> HIDE DEF p, q
  <1>3. ASSUME p >= q + 1 PROVE FALSE
    <2>1. d * p >= d * (q + 1)
      BY <1>1, <1>2, <1>3
    <2>2. d * (q + 1) = d * q + d
      BY <1>2
    <2>3. d * p \in Int /\ d * q \in Int
      BY <1>1, <1>2
    <2>4. QED
      BY <1>1, <1>2, <2>1, <2>2, <2>3
  <1>4. ~(p > q)
    BY <1>1, <1>2, <1>3
  <1>5. QED
    BY <1>4 DEF p, q

LEMMA InitEstablishes == Init => FlashInv
  <1> SUFFICES ASSUME Init PROVE FlashInv
    OBVIOUS
  <1>1. chip \in Chips /\ chip \in ChipType /\ ImageLen \in Nat \ {0}
    BY FlashAssumption DEF Init
  <1>2. chip.len \in Nat \ {0}
    BY <1>1 DEF ChipType
  <1>3. \A c \in 0 .. chip.len - 1 : Old[c] \in SUBSET FF
    BY <1>1, FlashAssumption
  <1>4. mem \in [0 .. chip.len - 1 -> SUBSET FF] /\ Untouched
    BY <1>3 DEF Init, Untouched
  <1>5. TypeOK
    <2>1. rc \in -1 .. 3 /\ dw \in 0 .. ImageLen
      BY <1>1 DEF Init
    <2>2. pc \in Places /\ conv28 \in BOOLEAN
      BY DEF Init, Places, Early
    <2>3. QED
      BY <1>1, <1>4, <2>1, <2>2 DEF TypeOK
  <1>6. RestSpared
    BY <1>4 DEF RestSpared, Untouched
  <1>7. Accepted /\ ReadBack /\ NoneOpen /\ SuccessMeansImage
    BY DEF Init, Accepted, ReadBack, NoneOpen, SuccessMeansImage, Working, Phases
  <1>8. Spared
    BY <1>4 DEF Init, Spared
  <1>9. QED
    BY <1>5, <1>6, <1>7, <1>8 DEF FlashInv

-----------------------------------------------------------------------------
(* A step of BootReflashAndReset()'s loop that writes nothing: a phase      *)
(* starts, ends, is given up or aborted, or its address advances; VERIFY    *)
(* advances over a cell that compares equal.                                *)
Moves ==
    /\ UNCHANGED <<chip, mem, conv28, rc>>
    /\ pc \in Working /\ pc' \in Working
    /\ dw' \in 0 .. ImageLen
    /\ pc' = "retry" => open' \in {"none", "aborted"}
    /\ pc' = "verify" /\ open' = "verify" =>
          \/ dw' = 0
          \/ /\ pc = "verify" /\ open = "verify"
             /\ dw' = dw \/ (dw' = dw + 1 /\ mem[dw] = Image[dw])

LEMMA MovesKeep ==
    ASSUME FlashInv, Moves
    PROVE  FlashInv'
  <1>1. TypeOK'
    BY DEF FlashInv, TypeOK, Moves, Places
  <1>2. Accepted'
    BY DEF FlashInv, Accepted, Moves
  <1>3. Spared'
    BY DEF FlashInv, Accepted, Spared, Untouched, Moves, Working, Early
  <1>4. RestSpared'
    BY DEF FlashInv, RestSpared, Moves
  <1>5. ReadBack'
    <2> DEFINE e == dw'
    <2> SUFFICES ASSUME pc' = "verify", open' = "verify", NEW c \in 0 .. e - 1
                 PROVE  mem'[c] = Image[c]
      BY DEF ReadBack
    <2>1. dw \in Int /\ e \in Int
      BY DEF FlashInv, TypeOK, Moves
    <2>2. /\ mem' = mem
          /\ \/ e = 0
             \/ /\ pc = "verify" /\ open = "verify"
                /\ e = dw \/ (e = dw + 1 /\ mem[dw] = Image[dw])
      BY DEF Moves
    <2> HIDE DEF e
    <2>3. e # 0
      BY <2>1
    <2>4. \A k \in 0 .. dw - 1 : mem[k] = Image[k]
      BY <2>2, <2>3 DEF FlashInv, ReadBack
    <2>5. c \in 0 .. dw - 1 \/ (c = dw /\ mem[dw] = Image[dw])
      BY <2>1, <2>2, <2>3
    <2>6. QED
      BY <2>2, <2>4, <2>5
  <1>6. SuccessMeansImage'
    BY DEF SuccessMeansImage, Moves, Working
  <1>7. NoneOpen'
    BY DEF NoneOpen, Moves, Working, Phases
  <1>8. QED
    BY <1>1, <1>2, <1>3, <1>4, <1>5, <1>6, <1>7 DEF FlashInv

(* A step that erases or programs, in blocks up to the image's last one.    *)
Writes ==
    /\ UNCHANGED <<chip, conv28, rc, dw>>
    /\ pc \in {"erase", "program"} /\ pc' \in {pc, "retry"}
    /\ pc' = "retry" => open' \in {"none", "aborted"}
    /\ mem' \in [0 .. chip.len - 1 -> SUBSET FF]
    /\ \A c \in 0 .. chip.len - 1 :
          c \div chip.block > (ImageLen - 1) \div chip.block => mem'[c] = mem[c]

LEMMA WritesKeep ==
    ASSUME FlashInv, Writes
    PROVE  FlashInv'
  <1>1. TypeOK'
    BY DEF FlashInv, TypeOK, Writes, Places, Working
  <1>2. Accepted' /\ rc' = -1
    BY DEF FlashInv, Accepted, Writes, Working
  <1>3. Spared'
    BY <1>2 DEF Spared, Writes, Early
  <1>4. RestSpared'
    BY DEF FlashInv, RestSpared, Writes
  <1>5. ReadBack' /\ SuccessMeansImage' /\ NoneOpen'
    BY <1>2 DEF ReadBack, SuccessMeansImage, NoneOpen, Writes, Phases
  <1>6. QED
    BY <1>1, <1>2, <1>3, <1>4, <1>5 DEF FlashInv

-----------------------------------------------------------------------------
(* The cells an erase attempt sets lie in the block of dw, or else the     *)
(* whole chip is being replaced.                                           *)
LEMMA ErasedInside ==
    ASSUME FlashInv, dw < ImageLen, NEW r, NEW c \in Erased(r)
    PROVE  ~(c \div chip.block > (ImageLen - 1) \div chip.block)
  <1>1. c \in 0 .. chip.len - 1
    BY ChipFacts DEF Erased, ErasedWhen
  <1>2. /\ c \in Nat /\ dw \in Nat /\ ImageLen - 1 \in Nat /\ dw <= ImageLen - 1
        /\ chip.block \in Nat /\ chip.block > 0
    BY <1>1, ChipFacts DEF FlashInv, TypeOK
  <1>3. CASE c \div chip.block = dw \div chip.block
    BY <1>2, <1>3, BlockMonotone
  <1>4. CASE chip.len = ImageLen
    <2>1. c <= ImageLen - 1
      BY <1>1, <1>2, <1>4
    <2>2. QED
      BY <1>2, <2>1, BlockMonotone
  <1>5. QED
    BY <1>3, <1>4 DEF Erased, ErasedWhen

LEMMA EraseWrites ==
    ASSUME FlashInv, EraseAttempt
    PROVE  Writes
  <1>1. /\ UNCHANGED <<chip, conv28, rc, dw>> /\ pc = "erase" /\ dw < ImageLen
        /\ pc' \in {pc, "retry"} /\ (pc' = "retry" => open' \in {"none", "aborted"})
    BY DEF EraseAttempt, Dirty, End
  <1>2. mem \in [0 .. chip.len - 1 -> SUBSET FF] /\ DOMAIN mem = 0 .. chip.len - 1
    BY ChipFacts DEF FlashInv, TypeOK
  <1>3. CASE mem' = [c \in DOMAIN mem |-> IF c \in Erased(retry') THEN FF ELSE mem[c]]
    <2>1. mem' \in [0 .. chip.len - 1 -> SUBSET FF]
      BY <1>2, <1>3
    <2>2. \A c \in 0 .. chip.len - 1 :
             c \div chip.block > (ImageLen - 1) \div chip.block => c \notin Erased(retry')
      BY <1>1, ErasedInside
    <2>3. \A c \in 0 .. chip.len - 1 :
             c \div chip.block > (ImageLen - 1) \div chip.block => mem'[c] = mem[c]
      BY <1>2, <1>3, <2>2
    <2>4. QED
      BY <1>1, <2>1, <2>3 DEF Writes
  <1>4. CASE UNCHANGED mem
    BY <1>1, <1>2, <1>4 DEF Writes
  <1>5. QED
    BY <1>3, <1>4 DEF EraseAttempt

LEMMA ProgramWrites ==
    ASSUME FlashInv, ProgramAttempt
    PROVE  Writes
  <1>1. /\ UNCHANGED <<chip, conv28, rc, dw>> /\ pc = "program" /\ dw < ImageLen
        /\ pc' \in {pc, "retry"} /\ (pc' = "retry" => open' \in {"none", "aborted"})
    BY DEF ProgramAttempt, Programming, Differs, End
  <1>2. mem \in [0 .. chip.len - 1 -> SUBSET FF]
    BY DEF FlashInv, TypeOK
  <1>3. /\ dw \in Nat /\ ImageLen \in Nat /\ chip.len \in Nat /\ ImageLen <= chip.len
        /\ chip.block \in Nat /\ chip.block > 0
    BY <1>1, ChipFacts DEF FlashInv, TypeOK, Accepted, Working
  <1>4. dw \in 0 .. chip.len - 1
    BY <1>1, <1>3
  <1>5. \A c \in 0 .. dw : ~(c \div chip.block > (ImageLen - 1) \div chip.block)
    <2> SUFFICES ASSUME NEW c \in 0 .. dw
                 PROVE  ~(c \div chip.block > (ImageLen - 1) \div chip.block)
      OBVIOUS
    <2>1. c \in Nat /\ ImageLen - 1 \in Nat /\ c <= ImageLen - 1
      BY <1>1, <1>3
    <2>2. QED
      BY <1>3, <2>1, BlockMonotone
  <1>6. /\ Written \in [0 .. chip.len - 1 -> SUBSET FF]
        /\ \A c \in 0 .. chip.len - 1 : c # dw => Written[c] = mem[c]
    BY <1>2, <1>4 DEF Written
  <1>7. dw \in 0 .. dw
    BY <1>3
  <1>8. CASE mem' = Written
    BY <1>1, <1>5, <1>6, <1>7, <1>8 DEF Writes
  <1>9. CASE UNCHANGED mem
    BY <1>1, <1>2, <1>9 DEF Writes
  <1>10. ASSUME NEW d \in 0 .. dw, mem' = [Written EXCEPT ![d] = {}]
         PROVE  Writes
    <2>1. mem' \in [0 .. chip.len - 1 -> SUBSET FF]
      BY <1>6, <1>10
    <2>2. \A c \in 0 .. chip.len - 1 : c # dw /\ c # d => mem'[c] = mem[c]
      BY <1>6, <1>10
    <2>3. QED
      BY <1>1, <1>5, <1>7, <2>1, <2>2 DEF Writes
  <1>11. QED
    BY <1>8, <1>9, <1>10 DEF ProgramAttempt

-----------------------------------------------------------------------------
(* Before and after the loop nothing is written.                           *)
LEMMA ReadingKeeps ==
    ASSUME FlashInv, Read \/ ButtonA \/ CheckSize
    PROVE  FlashInv'
  <1>1. /\ UNCHANGED <<chip, mem, conv28, rc, dw, open>>
        /\ pc \in Early /\ pc' \in Early \cup {"halt"}
    BY DEF Read, ButtonA, CheckSize, Early, loop
  <1>2. TypeOK' /\ Accepted' /\ RestSpared'
    BY <1>1 DEF FlashInv, TypeOK, Accepted, RestSpared, Places, Early, Working
  <1>3. Spared'
    BY <1>1 DEF FlashInv, Spared, Untouched, Early
  <1>4. ReadBack' /\ SuccessMeansImage' /\ NoneOpen'
    BY <1>1 DEF FlashInv, ReadBack, SuccessMeansImage, NoneOpen, Early, Phases
  <1>5. QED
    BY <1>2, <1>3, <1>4 DEF FlashInv

LEMMA IdentifyKeeps ==
    ASSUME FlashInv, Identify
    PROVE  FlashInv'
  <1>1. /\ UNCHANGED <<chip, mem, dw, open>> /\ pc = "identify"
        /\ conv28' \in BOOLEAN
        /\ \/ rc' \in {1, 2, 3} /\ pc' = "flashed"
           \/ rc' = -1 /\ pc' = "retry" /\ ~(chip.len < ImageLen)
    BY DEF Identify, Seen28, Answers28, loop
  <1>2. TypeOK'
    BY <1>1 DEF FlashInv, TypeOK, Places, Working
  <1>3. Accepted'
    BY <1>1, ChipFacts DEF Accepted, Working
  <1>4. RestSpared' /\ Spared'
    BY <1>1 DEF FlashInv, RestSpared, Spared, Untouched, Early
  <1>5. ReadBack' /\ SuccessMeansImage' /\ NoneOpen'
    BY <1>1 DEF FlashInv, ReadBack, SuccessMeansImage, NoneOpen, Phases
  <1>6. QED
    BY <1>2, <1>3, <1>4, <1>5 DEF FlashInv

(* VERIFY has reached the end of the image: all of it was read back.        *)
LEMMA VerifyDoneKeeps ==
    ASSUME FlashInv, VerifyDone
    PROVE  FlashInv'
  <1>1. /\ UNCHANGED <<chip, mem, conv28, dw>> /\ pc = "verify" /\ open = "verify" /\ dw = ImageLen
    BY DEF VerifyDone, VerifyDoneAt, Verifying, loop
  <1>2. CASE Abort /\ UNCHANGED rc
    <2>1. Moves
      BY <1>1, <1>2 DEF Moves, Abort, Working, FlashInv, TypeOK
    <2>2. QED
      BY <2>1, MovesKeep
  <1>3. CASE End("flashed") /\ rc' = 0
    <2>1. pc' = "flashed" /\ open' = "none" /\ rc' = 0
      BY <1>3 DEF End
    <2>2. ImageLen \in Nat /\ ImageLen <= chip.len /\ chip.len \in Nat /\ DOMAIN mem = 0 .. chip.len - 1
      BY <1>1, ChipFacts DEF FlashInv, Accepted, Working
    <2>3. \A c \in 0 .. ImageLen - 1 : mem[c] = Image[c]
      BY <1>1 DEF FlashInv, ReadBack
    <2>4. \A c \in 0 .. ImageLen - 1 : c \in DOMAIN mem
      BY <2>2
    <2>5. SuccessMeansImage'
      BY <1>1, <2>3, <2>4 DEF SuccessMeansImage, Holds
    <2>6. TypeOK' /\ Accepted' /\ RestSpared' /\ Spared' /\ ReadBack' /\ NoneOpen'
      BY <1>1, <2>1 DEF FlashInv, TypeOK, Accepted, RestSpared, Spared, ReadBack, NoneOpen,
                        Places, Early, Working, Phases
    <2>7. QED
      BY <2>5, <2>6 DEF FlashInv
  <1>4. QED
    BY <1>2, <1>3 DEF VerifyDone, VerifyDoneAt

(* Only what was refused is sent back to Identify.                         *)
LEMMA CompareKeeps ==
    ASSUME FlashInv, Compare \/ Return
    PROVE  FlashInv'
  <1>1. /\ UNCHANGED <<chip, mem, conv28, rc, dw, open>> /\ pc = "flashed"
        /\ pc' \in {"reboot", "identify", "menu"}
        /\ pc' = "reboot" => Holds
        /\ pc' = "identify" => ~Holds
    BY DEF Compare, Return, loop
  <1>2. ~Holds => rc \in {1, 2, 3}
    BY <1>1 DEF FlashInv, TypeOK, SuccessMeansImage, Spared
  <1>3. TypeOK' /\ Accepted' /\ RestSpared' /\ ReadBack' /\ NoneOpen'
    BY <1>1 DEF FlashInv, TypeOK, Accepted, RestSpared, ReadBack, NoneOpen, Places, Early,
                Working, Phases
  <1>4. Spared'
    BY <1>1, <1>2 DEF FlashInv, Spared, Untouched, Early
  <1>5. SuccessMeansImage'
    BY <1>1 DEF SuccessMeansImage, Holds
  <1>6. QED
    BY <1>3, <1>4, <1>5 DEF FlashInv

(* The other steps of the loop write nothing.                              *)
LoopSteps ==
    \/ EraseStart \/ EraseAdvance \/ EraseGivesUp \/ EraseDone
    \/ ProgramStart \/ ProgramAdvance \/ ProgramGivesUp \/ ProgramDone
    \/ VerifyStart \/ VerifyAdvance \/ VerifyError

LEMMA LoopMoves ==
    ASSUME FlashInv, LoopSteps
    PROVE  Moves
  <1>1. dw \in 0 .. ImageLen /\ ImageLen \in Nat /\ 0 \in 0 .. ImageLen
    BY ChipFacts DEF FlashInv, TypeOK
  <1>2. dw < ImageLen => dw + 1 \in 0 .. ImageLen
    BY <1>1
  <1> USE DEF Moves, Working, loop, Abort, End, Start
  <1>3. CASE EraseStart
    BY <1>1, <1>3 DEF EraseStart
  <1>4. CASE EraseAdvance
    BY <1>1, <1>2, <1>4 DEF EraseAdvance, Advance
  <1>5. CASE EraseGivesUp
    BY <1>1, <1>5 DEF EraseGivesUp, GiveUpErasing
  <1>6. CASE EraseDone
    BY <1>1, <1>6 DEF EraseDone
  <1>7. CASE ProgramStart
    BY <1>1, <1>7 DEF ProgramStart
  <1>8. CASE ProgramAdvance
    BY <1>1, <1>2, <1>8 DEF ProgramAdvance, Programming, Advance
  <1>9. CASE ProgramGivesUp
    BY <1>1, <1>9 DEF ProgramGivesUp, Programming
  <1>10. CASE ProgramDone
    BY <1>1, <1>10 DEF ProgramDone, Programming
  <1>11. CASE VerifyStart
    BY <1>1, <1>11 DEF VerifyStart
  <1>12. CASE VerifyAdvance
    BY <1>1, <1>2, <1>12 DEF VerifyAdvance, Verifying
  <1>13. CASE VerifyError
    BY <1>1, <1>13 DEF VerifyError, Verifying
  <1>14. QED
    BY <1>3, <1>4, <1>5, <1>6, <1>7, <1>8, <1>9, <1>10, <1>11, <1>12, <1>13 DEF LoopSteps

LEMMA StepKeeps == FlashInv /\ [Next]_vars => FlashInv'
  <1> SUFFICES ASSUME FlashInv, [Next]_vars PROVE FlashInv'
    OBVIOUS
  <1>1. CASE Read \/ ButtonA \/ CheckSize
    BY <1>1, ReadingKeeps
  <1>2. CASE Identify
    BY <1>2, IdentifyKeeps
  <1>3. CASE LoopSteps
    BY <1>3, LoopMoves, MovesKeep
  <1>4. CASE EraseAttempt
    BY <1>4, EraseWrites, WritesKeep
  <1>5. CASE ProgramAttempt
    BY <1>5, ProgramWrites, WritesKeep
  <1>6. CASE VerifyDone
    BY <1>6, VerifyDoneKeeps
  <1>7. CASE Compare \/ Return
    BY <1>7, CompareKeeps
  <1>8. CASE UNCHANGED vars
    <2>1. UNCHANGED <<pc, chip, mem, conv28, rc, dw, open>>
      BY <1>8 DEF vars
    <2>2. TypeOK' /\ Accepted' /\ Spared' /\ RestSpared' /\ ReadBack' /\ NoneOpen'
      BY <2>1 DEF FlashInv, TypeOK, Accepted, Spared, Untouched, RestSpared, ReadBack, NoneOpen
    <2>3. SuccessMeansImage'
      BY <2>1 DEF FlashInv, SuccessMeansImage, Holds
    <2>4. QED
      BY <2>2, <2>3 DEF FlashInv
  <1>9. QED
    BY <1>1, <1>2, <1>3, <1>4, <1>5, <1>6, <1>7, <1>8 DEF Next, Program, Stopped, LoopSteps

THEOREM FlashInvariant == Spec => []FlashInv
  BY InitEstablishes, StepKeeps, PTL DEF Spec

-----------------------------------------------------------------------------
(* BootReflashAndReset() reports success, and the console reboots, only    *)
(* when the flash holds the image, whatever the chip, the retries and the  *)
(* callback did.                                                           *)
THEOREM SuccessAlwaysMeansImage == Spec => []SuccessMeansImage
  <1>1. FlashInv => SuccessMeansImage
    BY DEF FlashInv
  <1>2. QED
    BY FlashInvariant, <1>1, PTL

(* A chip that is refused keeps every byte, and one that is accepted keeps  *)
(* those behind the image's last block.                                    *)
THEOREM OutsideAlwaysUntouched == Spec => []OutsideUntouched
  <1>1. FlashInv => OutsideUntouched
    <2> SUFFICES ASSUME FlashInv, NEW c \in DOMAIN mem,
                        rc \in {1, 2, 3} \/ c \div chip.block > (ImageLen - 1) \div chip.block
                 PROVE  mem[c] = Old[c]
      BY DEF OutsideUntouched
    <2>1. c \in 0 .. chip.len - 1
      BY ChipFacts
    <2>2. QED
      BY <2>1 DEF FlashInv, Spared, Untouched, RestSpared
  <1>2. QED
    BY FlashInvariant, <1>1, PTL

(* Every phase the callback was told of has been ended, or aborted by it,   *)
(* when the next attempt begins and when the function returns.             *)
THEOREM EventsAlwaysPaired == Spec => []EventsPaired
  <1>1. FlashInv => EventsPaired
    BY DEF FlashInv, NoneOpen, EventsPaired, Phases
  <1>2. QED
    BY FlashInvariant, <1>1, PTL

-----------------------------------------------------------------------------
(* Bytes                                                                    *)

(* The proofs see a sequence of bytes through its length and its bytes.     *)
Size(bytes) == Len(bytes)
At(bytes, i) == bytes[i]

LEMMA SomeOctets == 0 \in Octets /\ 65 \in Octets /\ 144 \in Octets /\ 170 \in Octets /\ 255 \in Octets
  BY DEF Octets

LEMMA NextByte ==
    ASSUME NEW x \in Octets
    PROVE  /\ (x + 1) % 256 \in Octets /\ (x + 1) % 256 # x /\ (x + 1) % 256 <= x + 1
           /\ (((x + 1) % 256) + 1) % 256 # x
  <1>1. CASE x = 255
    BY <1>1 DEF Octets
  <1>2. CASE x = 254
    BY <1>2 DEF Octets
  <1>3. CASE x < 254
    <2>1. x \in Nat /\ x + 1 \in 1 .. 255 /\ x + 1 + 1 \in 1 .. 255
      BY <1>3 DEF Octets
    <2> QED
      BY <2>1 DEF Octets
  <1>4. x = 255 \/ x = 254 \/ x < 254
    BY DEF Octets
  <1> QED
    BY <1>1, <1>2, <1>3, <1>4

LEMMA FunctionIsBytes ==
    ASSUME NEW k \in Nat, NEW f \in [1 .. k -> Octets]
    PROVE  f \in Bytes /\ Size(f) = k
  <1>1. f \in Seq(Octets)
    BY SeqDef
  <1>2. Len(f) \in Nat /\ DOMAIN f = 1 .. Len(f) /\ DOMAIN f = 1 .. k
    BY <1>1, LenProperties
  <1> QED
    BY <1>1, <1>2 DEF Bytes, Size

LEMMA BytesAre ==
    ASSUME NEW s \in Bytes
    PROVE  /\ Size(s) \in Nat /\ s \in [1 .. Size(s) -> Octets]
           /\ \A i \in 1 .. Size(s) : At(s, i) \in Octets
  BY LenProperties, ElementOfSeq DEF Bytes, Size, At

LEMMA SameBytes ==
    ASSUME NEW s \in Bytes, NEW t \in Bytes, Size(s) = Size(t),
           \A i \in 1 .. Size(s) : At(s, i) = At(t, i)
    PROVE  s = t
  BY SeqEqual DEF Bytes, Size, At

LEMMA PatchIs ==
    ASSUME NEW s \in Bytes, NEW at \in Nat, NEW b \in Bytes
    PROVE  /\ Patch(s, at, b) \in Bytes /\ Size(Patch(s, at, b)) = Size(s)
           /\ \A i \in 1 .. Size(s) :
                 At(Patch(s, at, b), i) = IF i > at /\ i <= at + Size(b) THEN At(b, i - at) ELSE At(s, i)
  <1> DEFINE p == Patch(s, at, b)
  <1>1. p = [i \in 1 .. Size(s) |-> IF i > at /\ i <= at + Size(b) THEN At(b, i - at) ELSE At(s, i)]
    BY DEF Patch, Size, At
  <1>2. Size(s) \in Nat /\ Size(b) \in Nat
    BY BytesAre
  <1>3. ASSUME NEW i \in 1 .. Size(s)
        PROVE  (IF i > at /\ i <= at + Size(b) THEN At(b, i - at) ELSE At(s, i)) \in Octets
    <2>1. CASE i > at /\ i <= at + Size(b)
      <3>1. i - at \in 1 .. Size(b)
        BY <1>2, <2>1
      <3> QED
        BY <2>1, <3>1, BytesAre
    <2>2. CASE ~(i > at /\ i <= at + Size(b))
      BY <2>2, BytesAre
    <2> QED
      BY <2>1, <2>2
  <1> HIDE DEF p
  <1>4. p \in [1 .. Size(s) -> Octets]
    BY <1>1, <1>3
  <1>5. \A i \in 1 .. Size(s) : At(p, i) = IF i > at /\ i <= at + Size(b) THEN At(b, i - at) ELSE At(s, i)
    <2> TAKE i \in 1 .. Size(s)
    <2>1. p[i] = IF i > at /\ i <= at + Size(b) THEN At(b, i - at) ELSE At(s, i)
      BY <1>1
    <2> QED
      BY <2>1 DEF At
  <1>6. p \in Bytes /\ Size(p) = Size(s)
    BY <1>2, <1>4, FunctionIsBytes
  <1> QED
    BY <1>5, <1>6 DEF p

LEMMA PartIs ==
    ASSUME NEW s \in Bytes, NEW at \in Nat, NEW k \in Nat, at + k <= Size(s)
    PROVE  /\ Part(s, at, k) \in Bytes /\ Size(Part(s, at, k)) = k
           /\ \A i \in 1 .. k : At(Part(s, at, k), i) = At(s, at + i)
  <1>1. ASSUME NEW i \in at + 1 .. at + k PROVE s[i] \in Octets
    <2>1. i \in 1 .. Size(s)
      BY BytesAre
    <2> QED
      BY <2>1, BytesAre DEF At
  <1>2. /\ SubSeq(s, at + 1, at + k) \in Seq(Octets)
        /\ Len(SubSeq(s, at + 1, at + k)) = IF at + 1 <= at + k THEN at + k - (at + 1) + 1 ELSE 0
        /\ \A i \in 1 .. at + k - (at + 1) + 1 : SubSeq(s, at + 1, at + k)[i] = s[at + 1 + i - 1]
    BY <1>1, SubSeqProperties
  <1>3. at + k - (at + 1) + 1 = k /\ (at + 1 <= at + k <=> k > 0)
        /\ \A i \in 1 .. k : at + 1 + i - 1 = at + i
    OBVIOUS
  <1>4. \A i \in 1 .. k : SubSeq(s, at + 1, at + k)[i] = s[at + i]
    BY <1>2, <1>3
  <1>5. Len(SubSeq(s, at + 1, at + k)) = k
    BY <1>2, <1>3
  <1> QED
    BY <1>2, <1>4, <1>5 DEF Part, Bytes, Size, At

LEMMA FilledIs ==
    ASSUME NEW k \in Nat, NEW byte \in Octets
    PROVE  /\ Filled(k, byte) \in Bytes /\ Size(Filled(k, byte)) = k
           /\ \A i \in 1 .. k : At(Filled(k, byte), i) = byte
  <1>1. Filled(k, byte) \in [1 .. k -> Octets]
    BY DEF Filled
  <1>2. \A i \in 1 .. k : At(Filled(k, byte), i) = byte
    BY DEF Filled, At
  <1> QED
    BY <1>1, <1>2, FunctionIsBytes

LEMMA ConcatIs ==
    ASSUME NEW a \in Bytes, NEW b \in Bytes
    PROVE  /\ a \o b \in Bytes /\ Size(a \o b) = Size(a) + Size(b)
           /\ \A i \in 1 .. Size(a) : At(a \o b, i) = At(a, i)
           /\ \A i \in 1 .. Size(b) : At(a \o b, Size(a) + i) = At(b, i)
  <1>1. \A i \in 1 .. Len(a) + Len(b) : (a \o b)[i] = IF i <= Len(a) THEN a[i] ELSE b[i - Len(a)]
    BY ConcatProperties DEF Bytes
  <1>2. a \o b \in Bytes /\ Len(a \o b) = Len(a) + Len(b)
    BY ConcatProperties DEF Bytes
  <1>3. Len(a) \in Nat /\ Len(b) \in Nat
    BY LenProperties DEF Bytes
  <1>4. \A i \in 1 .. Len(a) : (a \o b)[i] = a[i]
    BY <1>1, <1>3
  <1>5. \A i \in 1 .. Len(b) : (a \o b)[Len(a) + i] = b[i]
    BY <1>1, <1>3
  <1> QED
    BY <1>2, <1>4, <1>5 DEF Size, At

LEMMA WrongIs ==
    ASSUME NEW s \in Bytes, NEW at \in Nat
    PROVE  /\ WrongByte(s, at) \in Bytes /\ Size(WrongByte(s, at)) = Size(s)
           /\ \A i \in 1 .. Size(s) : i # at => At(WrongByte(s, at), i) = At(s, i)
           /\ at \in 1 .. Size(s) => At(WrongByte(s, at), at) = (At(s, at) + 1) % 256
  <1> DEFINE w == WrongByte(s, at)
  <1>1. s \in [1 .. Size(s) -> Octets] /\ Size(s) \in Nat
    BY BytesAre
  <1>2. at \in 1 .. Size(s) => (s[at] + 1) % 256 \in Octets
    BY <1>1, NextByte
  <1>3. w \in [1 .. Size(s) -> Octets]
    BY <1>1, <1>2 DEF WrongByte
  <1>4. at \in 1 .. Size(s) => w[at] = (s[at] + 1) % 256
    BY <1>1 DEF WrongByte
  <1>5. \A i \in 1 .. Size(s) : i # at => w[i] = s[i]
    BY <1>1 DEF WrongByte
  <1>6. w \in Bytes /\ Size(w) = Size(s)
    BY <1>1, <1>3, FunctionIsBytes
  <1> HIDE DEF w
  <1>7. /\ \A i \in 1 .. Size(s) : i # at => At(w, i) = At(s, i)
        /\ at \in 1 .. Size(s) => At(w, at) = (At(s, at) + 1) % 256
    BY <1>4, <1>5 DEF At
  <1> QED
    BY <1>6, <1>7 DEF w

LEMMA ConcatAt ==
    ASSUME NEW a \in Bytes, NEW b \in Bytes
    PROVE  /\ Size(a \o b) = Size(a) + Size(b)
           /\ \A i \in 1 .. Size(a) : At(a \o b, i) = At(a, i)
           /\ \A i \in 1 .. Size(b) : At(a \o b, Size(a) + i) = At(b, i)
  BY ConcatIs

LEMMA Quotient ==
    ASSUME NEW a \in Nat, NEW b \in Nat, 256 * b <= a, a < 256 * b + 256
    PROVE  a = 256 * b + (a % 256)
  OBVIOUS

LEMMA Le32Is ==
    ASSUME NEW v \in Nat
    PROVE  /\ Le32(v) \in Bytes /\ Size(Le32(v)) = 4
           /\ v < ThreeBytes => ReadLe32(Le32(v), 0) = v
  <1>1. v % 256 \in Octets /\ (v \div 256) % 256 \in Octets /\ (v \div 65536) % 256 \in Octets /\ 0 \in Octets
    BY DEF Octets
  <1>2. Le32(v) \in Bytes /\ Size(Le32(v)) = 4
    BY <1>1 DEF Le32, Bytes, Size
  <1>3. ASSUME v < ThreeBytes
        PROVE  (v % 256) + 256 * ((v \div 256) % 256) + 65536 * ((v \div 65536) % 256) = v
    <2> DEFINE a == v \div 256
               b == v \div 65536
    <2>1. a \in Nat /\ v = a * 256 + (v % 256)
      OBVIOUS
    <2>2. b \in Nat /\ 65536 * b <= v /\ v < 65536 * b + 65536
      OBVIOUS
    <2>3. a = 256 * b + (a % 256)
      <3>1. 256 * b <= a /\ a < 256 * b + 256
        BY <2>1, <2>2
      <3> HIDE DEF a, b
      <3> QED
        BY <2>1, <2>2, <3>1, Quotient
    <2>4. b < 256
      BY <1>3, <2>2 DEF ThreeBytes
    <2>5. b % 256 = b
      BY <2>2, <2>4
    <2> QED
      BY <2>1, <2>3, <2>5
  <1> QED
    BY <1>2, <1>3 DEF Le32, ReadLe32

LEMMA ReadLe32Is ==
    ASSUME NEW s \in Bytes, NEW at \in Nat, at + 3 <= Size(s)
    PROVE  /\ ReadLe32(s, at) = At(s, at + 1) + 256 * At(s, at + 2) + 65536 * At(s, at + 3)
           /\ ReadLe32(s, at) \in Nat /\ ReadLe32(s, at) < ThreeBytes
  <1>1. At(s, at + 1) \in Octets /\ At(s, at + 2) \in Octets /\ At(s, at + 3) \in Octets
    BY BytesAre
  <1>2. ReadLe32(s, at) = At(s, at + 1) + 256 * At(s, at + 2) + 65536 * At(s, at + 3)
    BY DEF ReadLe32, At
  <1> DEFINE x == At(s, at + 1)
             y == At(s, at + 2)
             z == At(s, at + 3)
  <1>3. x \in Octets /\ y \in Octets /\ z \in Octets
    BY <1>1
  <1> HIDE DEF x, y, z
  <1>4. x + 256 * y + 65536 * z \in Nat /\ x + 256 * y + 65536 * z < ThreeBytes
    BY <1>3 DEF Octets, ThreeBytes
  <1> QED
    BY <1>2, <1>4 DEF x, y, z

-----------------------------------------------------------------------------
(* The layout of an image                                                   *)

TypeOf(kind) == IF kind = "256" THEN 0 ELSE 1

LEMMA Layout ==
    ASSUME NEW c \in Croms
    PROVE  /\ bootloaderpos \in Nat /\ bootloaderpos + 36 <= Size(Loader)
           /\ Size_ramcopy \in Nat /\ Size_ramcopy >= 36 /\ Size_ramcopy < ThreeBytes
           /\ compressed_image_start \in Nat /\ bootloaderpos + Size_ramcopy < compressed_image_start
           /\ File[c] \in Bytes /\ Size(File[c]) \in Nat
           /\ compressed_image_start + 20 + Size(File[c]) <= BankSize - TopSize
           /\ TopSize \in Nat /\ TopSize >= 64
           /\ BankSize \in Nat /\ BankSize <= ThreeBytes
           /\ Loader \in Bytes /\ Size(Loader) \in Nat /\ Size(Loader) <= BankSize
  <1>0. Loader \in Bytes /\ Size(Loader) \in Nat /\ Size(Loader) <= BankSize /\ Size(Loader) >= 68
    BY LoaderAssumption, BytesAre DEF Size
  <1>1. bootloaderpos \in Nat
    BY <1>0, ReadLe32Is DEF bootloaderpos
  <1>2. bootloaderpos + 36 <= Size(Loader)
    BY LoaderAssumption DEF HeaderSize, Size
  <1>3. Size_ramcopy \in Nat /\ Size_ramcopy < ThreeBytes /\ Size_ramcopy >= 36
    <2>1. bootloaderpos + 20 + 3 <= Size(Loader) /\ bootloaderpos + 20 \in Nat
      BY <1>0, <1>1, <1>2
    <2> QED
      BY <1>0, <2>1, LoaderAssumption, ReadLe32Is DEF Size_ramcopy, HashSize, HeaderSize
  <1>4. compressed_image_start \in Nat /\ bootloaderpos + Size_ramcopy < compressed_image_start
    <2> DEFINE e == bootloaderpos + Size_ramcopy
    <2>1. e \in Nat /\ SpaceSize \in Nat
      BY <1>1, <1>3, SizesAssumption
    <2> HIDE DEF e
    <2>2. ((e \div 16) + 1) * 16 \in Nat /\ e < ((e \div 16) + 1) * 16
      BY <2>1
    <2>3. ((e \div 16) + 1) * 16 + SpaceSize \in Nat /\ e < ((e \div 16) + 1) * 16 + SpaceSize
      BY <2>1, <2>2
    <2> QED
      BY <2>3 DEF e, compressed_image_start
  <1>5. File[c] \in Bytes /\ Size(File[c]) \in Nat
    BY RomsAssumption, BytesAre
  <1>6. compressed_image_start + 20 + Size(File[c]) <= BankSize - TopSize
    BY RomsAssumption DEF Fits, HashSize, Size
  <1> QED
    BY <1>0, <1>1, <1>2, <1>3, <1>4, <1>5, <1>6, SizesAssumption DEF IdentifierSize

LEMMA LoaderBankIs ==
    ASSUME NEW c \in Croms
    PROVE  LoaderBank \in Bytes /\ Size(LoaderBank) = BankSize
  <1>1. /\ BankSize - Size(Loader) \in Nat /\ BankSize - TopSize \in Nat /\ TopSize \in Nat
        /\ 0 \in Octets /\ 144 \in Octets
    BY Layout DEF Octets
  <1> DEFINE z == Filled(BankSize - Size(Loader), 0)
  <1>2. z \in Bytes /\ Size(z) = BankSize - Size(Loader)
    BY <1>1, FilledIs
  <1> HIDE DEF z
  <1>3. Loader \o z \in Bytes /\ Size(Loader \o z) = BankSize
    BY <1>2, ConcatIs, Layout
  <1>4. TopRom \in Bytes
    BY FilledIs, <1>1 DEF TopRom
  <1>5. PICK b : b = Patch(Loader \o z, BankSize - TopSize, TopRom)
    OBVIOUS
  <1>6. b \in Bytes /\ Size(b) = BankSize
    BY <1>1, <1>3, <1>4, <1>5, PatchIs
  <1>7. Le32(0) \in Bytes
    BY Le32Is
  <1>8. Patch(b, 64, Le32(0)) \in Bytes /\ Size(Patch(b, 64, Le32(0))) = BankSize
    BY <1>6, <1>7, PatchIs
  <1> QED
    BY <1>5, <1>8 DEF LoaderBank, z, Size

(* A number put behind bytes is read back, and what was read before it still.*)
LEMMA Extended ==
    ASSUME NEW s \in Bytes, NEW v \in Nat, v < ThreeBytes
    PROVE  /\ s \o Le32(v) \in Bytes /\ Size(s \o Le32(v)) = Size(s) + 4
           /\ ReadLe32(s \o Le32(v), Size(s)) = v
           /\ \A at \in Nat : at + 3 <= Size(s) => ReadLe32(s \o Le32(v), at) = ReadLe32(s, at)
  <1> DEFINE w == Le32(v)
  <1>1. w \in Bytes /\ Size(w) = 4 /\ ReadLe32(w, 0) = v
    BY Le32Is
  <1> HIDE DEF w
  <1>2. /\ s \o w \in Bytes /\ Size(s \o w) = Size(s) + 4 /\ Size(s) \in Nat
        /\ \A i \in 1 .. Size(s) : At(s \o w, i) = At(s, i)
        /\ \A i \in 1 .. 4 : At(s \o w, Size(s) + i) = At(w, i)
    BY <1>1, ConcatIs, BytesAre
  <1>3. ReadLe32(s \o w, Size(s)) = v
    <2>1. /\ ReadLe32(s \o w, Size(s))
                = At(s \o w, Size(s) + 1) + 256 * At(s \o w, Size(s) + 2) + 65536 * At(s \o w, Size(s) + 3)
          /\ ReadLe32(w, 0) = At(w, 0 + 1) + 256 * At(w, 0 + 2) + 65536 * At(w, 0 + 3)
      BY DEF ReadLe32, At
    <2>2. /\ At(s \o w, Size(s) + 1) = At(w, 1) /\ At(s \o w, Size(s) + 2) = At(w, 2)
          /\ At(s \o w, Size(s) + 3) = At(w, 3) /\ 0 + 1 = 1 /\ 0 + 2 = 2 /\ 0 + 3 = 3
      BY <1>2
    <2> QED
      BY <1>1, <2>1, <2>2
  <1>4. ASSUME NEW at \in Nat, at + 3 <= Size(s) PROVE ReadLe32(s \o w, at) = ReadLe32(s, at)
    <2>1. /\ ReadLe32(s \o w, at) = At(s \o w, at + 1) + 256 * At(s \o w, at + 2) + 65536 * At(s \o w, at + 3)
          /\ ReadLe32(s, at) = At(s, at + 1) + 256 * At(s, at + 2) + 65536 * At(s, at + 3)
      BY DEF ReadLe32, At
    <2>2. at + 1 \in 1 .. Size(s) /\ at + 2 \in 1 .. Size(s) /\ at + 3 \in 1 .. Size(s)
      BY <1>2, <1>4
    <2> QED
      BY <1>2, <2>1, <2>2
  <1> QED
    BY <1>2, <1>3, <1>4 DEF w

(* The header is read as it was written.                                    *)
LEMMA StructIs ==
    ASSUME NEW sum \in Bytes, Size(sum) = 20,
           NEW size \in Nat, NEW start \in Nat, NEW length \in Nat, NEW type \in Nat,
           size < ThreeBytes, start < ThreeBytes, length < ThreeBytes, type < ThreeBytes,
           NEW head, head = ChecksumStruct(sum, size, start, length, type)
    PROVE  /\ head \in Bytes /\ Size(head) = 36
           /\ ReadLe32(head, 20) = size /\ ReadLe32(head, 24) = start
           /\ ReadLe32(head, 28) = length /\ ReadLe32(head, 32) = type
  <1>1. PICK a : a = sum \o Le32(size)
    OBVIOUS
  <1>2. a \in Bytes /\ Size(a) = 24 /\ ReadLe32(a, 20) = size
    BY <1>1, Extended
  <1>3. PICK b : b = a \o Le32(start)
    OBVIOUS
  <1>4. b \in Bytes /\ Size(b) = 28 /\ ReadLe32(b, 20) = size /\ ReadLe32(b, 24) = start
    BY <1>2, <1>3, Extended
  <1>5. PICK d : d = b \o Le32(length)
    OBVIOUS
  <1>6. /\ d \in Bytes /\ Size(d) = 32 /\ ReadLe32(d, 20) = size /\ ReadLe32(d, 24) = start
        /\ ReadLe32(d, 28) = length
    BY <1>4, <1>5, Extended
  <1>7. head = d \o Le32(type)
    BY <1>1, <1>3, <1>5 DEF ChecksumStruct
  <1>8. head \in Bytes /\ Size(head) = 36 /\ ReadLe32(head, 32) = type
    BY <1>6, <1>7, Extended
  <1>9. \A at \in Nat : at + 3 <= 32 => ReadLe32(head, at) = ReadLe32(d, at)
    BY <1>6, <1>7, Extended
  <1>10. ReadLe32(head, 20) = size /\ ReadLe32(head, 24) = start /\ ReadLe32(head, 28) = length
    BY <1>6, <1>9
  <1> QED
    BY <1>8, <1>10

LEMMA HeadedIs ==
    ASSUME NEW c \in Croms, NEW type \in {0, 1},
           NEW h, h = Headed(Size(File[c]), type)
    PROVE  /\ h \in Bytes /\ Size(h) = BankSize
           /\ ReadLe32(h, bootloaderpos + 20) = Size_ramcopy
           /\ ReadLe32(h, bootloaderpos + 24) = compressed_image_start
           /\ ReadLe32(h, bootloaderpos + 28) = Size(File[c])
           /\ ReadLe32(h, bootloaderpos + 32) = type
  <1> DEFINE z == Filled(20, 0)
             head == ChecksumStruct(z, Size_ramcopy, compressed_image_start, Size(File[c]), type)
  <1>1. z \in Bytes /\ Size(z) = 20
    BY FilledIs, SomeOctets
  <1>2. /\ Size_ramcopy \in Nat /\ compressed_image_start \in Nat /\ Size(File[c]) \in Nat /\ type \in Nat
        /\ Size_ramcopy < ThreeBytes /\ compressed_image_start < ThreeBytes
        /\ Size(File[c]) < ThreeBytes /\ type < ThreeBytes
    BY Layout DEF ThreeBytes
  <1> HIDE DEF z
  <1>3. /\ head \in Bytes /\ Size(head) = 36
        /\ ReadLe32(head, 20) = Size_ramcopy /\ ReadLe32(head, 24) = compressed_image_start
        /\ ReadLe32(head, 28) = Size(File[c]) /\ ReadLe32(head, 32) = type
    BY <1>1, <1>2, StructIs
  <1>4. h = Patch(LoaderBank, bootloaderpos, head)
    BY DEF Headed, z, HashSize
  <1> HIDE DEF head
  <1>5. /\ LoaderBank \in Bytes /\ Size(LoaderBank) = BankSize /\ BankSize \in Nat
        /\ bootloaderpos \in Nat /\ bootloaderpos + 36 <= BankSize
    BY LoaderBankIs, Layout
  <1>6. /\ h \in Bytes /\ Size(h) = BankSize
        /\ \A i \in 1 .. 36 : At(h, bootloaderpos + i) = At(head, i)
    <2>1. /\ h \in Bytes /\ Size(h) = BankSize
          /\ \A i \in 1 .. BankSize :
                At(h, i) = IF i > bootloaderpos /\ i <= bootloaderpos + 36
                           THEN At(head, i - bootloaderpos) ELSE At(LoaderBank, i)
      BY <1>3, <1>4, <1>5, PatchIs
    <2>2. ASSUME NEW i \in 1 .. 36 PROVE At(h, bootloaderpos + i) = At(head, i)
      <3>1. /\ bootloaderpos + i \in 1 .. BankSize /\ bootloaderpos + i > bootloaderpos
            /\ bootloaderpos + i <= bootloaderpos + 36 /\ (bootloaderpos + i) - bootloaderpos = i
        BY <1>5
      <3> QED
        BY <2>1, <3>1
    <2> QED
      BY <2>1, <2>2
  <1>7. ASSUME NEW at \in {20, 24, 28, 32} PROVE ReadLe32(h, bootloaderpos + at) = ReadLe32(head, at)
    <2>1. /\ bootloaderpos + at + 1 = bootloaderpos + (at + 1) /\ bootloaderpos + at + 2 = bootloaderpos + (at + 2)
          /\ bootloaderpos + at + 3 = bootloaderpos + (at + 3)
          /\ at + 1 \in 1 .. 36 /\ at + 2 \in 1 .. 36 /\ at + 3 \in 1 .. 36
      BY <1>5
    <2>2. /\ ReadLe32(h, bootloaderpos + at) = At(h, bootloaderpos + at + 1)
                + 256 * At(h, bootloaderpos + at + 2) + 65536 * At(h, bootloaderpos + at + 3)
          /\ ReadLe32(head, at) = At(head, at + 1) + 256 * At(head, at + 2) + 65536 * At(head, at + 3)
      BY DEF ReadLe32, At
    <2> QED
      BY <1>6, <2>1, <2>2
  <1> QED
    BY <1>3, <1>6, <1>7

LEMMA SectionHash ==
    ASSUME NEW x \in Sections
    PROVE  /\ Hash(x) = HashOf[x] /\ Hash(x) \in Bytes /\ Size(Hash(x)) = 20 /\ Hash(x) \notin Strays
           /\ \A y \in Sections : Hash(x) = Hash(y) => x = y
  <1>1. \A y \in Sections : HashOf[y] = Hash(y)
    BY DEF HashOf
  <1> QED
    BY <1>1, HashAssumption DEF Size, HashSize

LEMMA HashedIs ==
    ASSUME NEW c \in Croms, NEW type \in {0, 1},
           NEW h, h = Headed(Size(File[c]), type)
    PROVE  /\ LoaderPart(h) \in Sections /\ LoaderPart(h) \in Bytes /\ Size(LoaderPart(h)) = Size_ramcopy - 20
           /\ \A i \in 1 .. Size_ramcopy - 20 : At(LoaderPart(h), i) = At(h, bootloaderpos + 20 + i)
           /\ Hashed(h) \in Bytes /\ Size(Hashed(h)) = BankSize
           /\ \A i \in 1 .. 20 : At(Hashed(h), bootloaderpos + i) = At(Hash(LoaderPart(h)), i)
           /\ \A i \in 21 .. Size_ramcopy : At(Hashed(h), bootloaderpos + i) = At(h, bootloaderpos + i)
  <1>1. h \in Bytes /\ Size(h) = BankSize
    BY HeadedIs
  <1>2. /\ BankSize \in Nat /\ bootloaderpos \in Nat /\ Size_ramcopy \in Nat /\ Size_ramcopy >= 36
        /\ bootloaderpos + Size_ramcopy <= BankSize
    BY Layout
  <1>3. /\ LoaderPart(h) \in Bytes /\ Size(LoaderPart(h)) = Size_ramcopy - 20
        /\ \A i \in 1 .. Size_ramcopy - 20 : At(LoaderPart(h), i) = At(h, bootloaderpos + 20 + i)
    <2>1. Size_ramcopy - 20 \in Nat /\ bootloaderpos + 20 \in Nat
          /\ (bootloaderpos + 20) + (Size_ramcopy - 20) <= BankSize
      BY <1>2
    <2> QED
      BY <1>1, <2>1, PartIs DEF LoaderPart, HashSize
  <1>4. LoaderPart(h) \in Sections
    BY DEF Sections, WrittenParts, Size
  <1> DEFINE sum == Hash(LoaderPart(h))
  <1>5. sum \in Bytes /\ Size(sum) = 20
    BY <1>4, SectionHash
  <1>6. Hashed(h) = Patch(h, bootloaderpos, sum)
    BY DEF Hashed
  <1> HIDE DEF sum
  <1>7. /\ Hashed(h) \in Bytes /\ Size(Hashed(h)) = BankSize
        /\ \A i \in 1 .. BankSize :
              At(Hashed(h), i) = IF i > bootloaderpos /\ i <= bootloaderpos + 20
                                 THEN At(sum, i - bootloaderpos) ELSE At(h, i)
    BY <1>1, <1>2, <1>5, <1>6, PatchIs
  <1>8. ASSUME NEW i \in 1 .. 20 PROVE At(Hashed(h), bootloaderpos + i) = At(sum, i)
    <2>1. /\ bootloaderpos + i \in 1 .. BankSize /\ bootloaderpos + i > bootloaderpos
          /\ bootloaderpos + i <= bootloaderpos + 20 /\ (bootloaderpos + i) - bootloaderpos = i
      BY <1>2
    <2> QED
      BY <1>7, <2>1
  <1>9. ASSUME NEW i \in 21 .. Size_ramcopy PROVE At(Hashed(h), bootloaderpos + i) = At(h, bootloaderpos + i)
    <2>1. bootloaderpos + i \in 1 .. BankSize /\ ~(bootloaderpos + i <= bootloaderpos + 20)
      BY <1>2
    <2> QED
      BY <1>7, <2>1
  <1> QED
    BY <1>3, <1>4, <1>7, <1>8, <1>9 DEF sum

-----------------------------------------------------------------------------
(* What the banks hold                                                      *)

HoldsLoader(bank, c, type) ==
    \A i \in 1 .. compressed_image_start : At(bank, i) = At(Hashed(Headed(Size(File[c]), type)), i)
HoldsImage(bank, c) ==
    \A i \in 1 .. 20 + Size(File[c]) : At(bank, compressed_image_start + i) = At(ImageBytes(File[c]), i)
HoldsNothing(bank, c) ==
    \A i \in 1 .. 20 + Size(File[c]) : At(bank, compressed_image_start + i) = 255

LEMMA ImageBytesAre ==
    ASSUME NEW c \in Croms
    PROVE  /\ File[c] \in Sections
           /\ ImageBytes(File[c]) \in Bytes /\ Size(ImageBytes(File[c])) = 20 + Size(File[c])
           /\ \A i \in 1 .. 20 : At(ImageBytes(File[c]), i) = At(Hash(File[c]), i)
           /\ \A i \in 1 .. Size(File[c]) : At(ImageBytes(File[c]), 20 + i) = At(File[c], i)
  <1>1. File[c] \in Sections
    BY DEF Sections, WrittenParts
  <1>2. Hash(File[c]) \in Bytes /\ Size(Hash(File[c])) = 20 /\ File[c] \in Bytes
    BY <1>1, SectionHash, Layout
  <1> QED
    BY <1>1, <1>2, ConcatIs DEF ImageBytes

LEMMA IdentifierIs ==
    ASSUME NEW s \in Bytes, Size(s) >= 64
    PROVE  /\ writeBiosIdentifier(s) \in Bytes /\ Size(writeBiosIdentifier(s)) = Size(s)
           /\ \A i \in 1 .. Size(s) - 64 : At(writeBiosIdentifier(s), i) = At(s, i)
  <1>1. Size(s) - 64 \in Nat /\ Size(s) \in Nat
    BY BytesAre
  <1> DEFINE z == Filled(64, 65)
  <1>2. z \in Bytes /\ Size(z) = 64
    BY FilledIs, SomeOctets
  <1>3. writeBiosIdentifier(s) = Patch(s, Size(s) - 64, z)
    BY DEF writeBiosIdentifier, IdentifierSize, Size
  <1> HIDE DEF z
  <1>4. /\ Patch(s, Size(s) - 64, z) \in Bytes /\ Size(Patch(s, Size(s) - 64, z)) = Size(s)
        /\ \A i \in 1 .. Size(s) : ~(i > Size(s) - 64) => At(Patch(s, Size(s) - 64, z), i) = At(s, i)
    BY <1>1, <1>2, PatchIs
  <1> QED
    BY <1>1, <1>3, <1>4

LEMMA SmallFlash ==
    ASSUME NEW c \in Croms, NEW image, image = Flash256(File[c])
    PROVE  image \in Bytes /\ Size(image) = BankSize /\ HoldsLoader(image, c, 0) /\ HoldsImage(image, c)
  <1> DEFINE g == Hashed(Headed(Size(File[c]), 0))
             at == compressed_image_start + 20 + Size(File[c])
             z == Filled(BankSize - at - TopSize, 255)
  <1>1. g \in Bytes /\ Size(g) = BankSize
    BY HashedIs
  <1>2. /\ compressed_image_start \in Nat /\ Size(File[c]) \in Nat /\ TopSize \in Nat /\ TopSize >= 64
        /\ BankSize \in Nat /\ compressed_image_start + 20 + Size(File[c]) <= BankSize - TopSize
    BY Layout
  <1>3. at \in Nat /\ BankSize - at - TopSize \in Nat
    BY <1>2
  <1>4. z \in Bytes
    BY <1>3, FilledIs, SomeOctets
  <1>5. image = writeBiosIdentifier(Patch(Patch(g, at, z), compressed_image_start, ImageBytes(File[c])))
    BY DEF Flash256, HashSize, Size
  <1>6. /\ at = compressed_image_start + 20 + Size(File[c])
        /\ g = Hashed(Headed(Size(File[c]), 0))
    OBVIOUS
  <1> HIDE DEF g, at, z
  <1>7. PICK p : p = Patch(g, at, z)
    OBVIOUS
  <1>8. /\ p \in Bytes /\ Size(p) = BankSize
        /\ \A i \in 1 .. BankSize : ~(i > at) => At(p, i) = At(g, i)
    BY <1>1, <1>3, <1>4, <1>7, PatchIs
  <1>9. PICK q : q = Patch(p, compressed_image_start, ImageBytes(File[c]))
    OBVIOUS
  <1>10. /\ q \in Bytes /\ Size(q) = BankSize
         /\ \A i \in 1 .. BankSize :
               At(q, i) = IF i > compressed_image_start /\ i <= compressed_image_start + (20 + Size(File[c]))
                          THEN At(ImageBytes(File[c]), i - compressed_image_start) ELSE At(p, i)
    BY <1>2, <1>8, <1>9, ImageBytesAre, PatchIs
  <1>11. image = writeBiosIdentifier(q)
    BY <1>5, <1>7, <1>9
  <1>12. /\ image \in Bytes /\ Size(image) = BankSize
         /\ \A i \in 1 .. BankSize - 64 : At(image, i) = At(q, i)
    BY <1>2, <1>10, <1>11, IdentifierIs
  <1>13. HoldsLoader(image, c, 0)
    <2>1. ASSUME NEW i \in 1 .. compressed_image_start PROVE At(image, i) = At(g, i)
      <3>1. i \in 1 .. BankSize - 64 /\ i \in 1 .. BankSize /\ ~(i > at) /\ ~(i > compressed_image_start)
        BY <1>2, <1>6
      <3> QED
        BY <3>1, <1>8, <1>10, <1>12
    <2> QED
      BY <2>1, <1>6 DEF HoldsLoader
  <1>14. HoldsImage(image, c)
    <2>1. ASSUME NEW i \in 1 .. 20 + Size(File[c])
          PROVE  At(image, compressed_image_start + i) = At(ImageBytes(File[c]), i)
      <3> DEFINE j == compressed_image_start + i
      <3>1. /\ j \in 1 .. BankSize - 64 /\ j \in 1 .. BankSize /\ j > compressed_image_start
            /\ j <= compressed_image_start + (20 + Size(File[c])) /\ j - compressed_image_start = i
        BY <1>2
      <3> HIDE DEF j
      <3>2. At(image, j) = At(ImageBytes(File[c]), i)
        BY <3>1, <1>10, <1>12
      <3> QED
        BY <3>2 DEF j
    <2> QED
      BY <2>1 DEF HoldsImage
  <1> QED
    BY <1>12, <1>13, <1>14

LEMMA LoaderOnlyIs ==
    ASSUME NEW c \in Croms, NEW bank, bank = LoaderOnly(File[c])
    PROVE  bank \in Bytes /\ Size(bank) = BankSize /\ HoldsLoader(bank, c, 1) /\ HoldsNothing(bank, c)
  <1> DEFINE g == Hashed(Headed(Size(File[c]), 1))
             z == Filled(BankSize - compressed_image_start - TopSize, 255)
  <1>1. g \in Bytes /\ Size(g) = BankSize
    BY HashedIs
  <1>2. /\ compressed_image_start \in Nat /\ Size(File[c]) \in Nat /\ TopSize \in Nat
        /\ BankSize \in Nat /\ compressed_image_start + 20 + Size(File[c]) <= BankSize - TopSize
    BY Layout
  <1>3. BankSize - compressed_image_start - TopSize \in Nat
    BY <1>2
  <1>4. /\ z \in Bytes /\ Size(z) = BankSize - compressed_image_start - TopSize
        /\ \A i \in 1 .. BankSize - compressed_image_start - TopSize : At(z, i) = 255
    BY <1>3, FilledIs, SomeOctets
  <1>5. bank = Patch(g, compressed_image_start, z)
    BY DEF LoaderOnly, Size
  <1>6. g = Hashed(Headed(Size(File[c]), 1))
    OBVIOUS
  <1> HIDE DEF g, z
  <1>7. /\ bank \in Bytes /\ Size(bank) = BankSize
        /\ \A i \in 1 .. BankSize :
              At(bank, i) = IF i > compressed_image_start
                               /\ i <= compressed_image_start + (BankSize - compressed_image_start - TopSize)
                            THEN At(z, i - compressed_image_start) ELSE At(g, i)
    BY <1>1, <1>2, <1>4, <1>5, PatchIs
  <1>8. HoldsLoader(bank, c, 1)
    <2>1. ASSUME NEW i \in 1 .. compressed_image_start PROVE At(bank, i) = At(g, i)
      <3>1. i \in 1 .. BankSize /\ ~(i > compressed_image_start)
        BY <1>2
      <3> QED
        BY <3>1, <1>7
    <2> QED
      BY <2>1, <1>6 DEF HoldsLoader
  <1>9. HoldsNothing(bank, c)
    <2>1. ASSUME NEW i \in 1 .. 20 + Size(File[c]) PROVE At(bank, compressed_image_start + i) = 255
      <3> DEFINE j == compressed_image_start + i
      <3>1. /\ j \in 1 .. BankSize /\ j > compressed_image_start
            /\ j <= compressed_image_start + (BankSize - compressed_image_start - TopSize)
            /\ j - compressed_image_start = i /\ i \in 1 .. BankSize - compressed_image_start - TopSize
        BY <1>2
      <3> HIDE DEF j
      <3>2. At(bank, j) = 255
        BY <3>1, <1>4, <1>7
      <3> QED
        BY <3>2 DEF j
    <2> QED
      BY <2>1 DEF HoldsNothing
  <1> QED
    BY <1>7, <1>8, <1>9

LEMMA CromwellOnlyIs ==
    ASSUME NEW c \in Croms, NEW bank, bank = CromwellOnly(File[c])
    PROVE  bank \in Bytes /\ Size(bank) = BankSize /\ HoldsImage(bank, c)
  <1> DEFINE z == Filled(BankSize, 255)
  <1>1. /\ compressed_image_start \in Nat /\ Size(File[c]) \in Nat /\ TopSize \in Nat
        /\ BankSize \in Nat /\ compressed_image_start + 20 + Size(File[c]) <= BankSize - TopSize
    BY Layout
  <1>2. z \in Bytes /\ Size(z) = BankSize
    BY <1>1, FilledIs, SomeOctets
  <1>3. bank = Patch(z, compressed_image_start, ImageBytes(File[c]))
    BY DEF CromwellOnly
  <1> HIDE DEF z
  <1>4. /\ bank \in Bytes /\ Size(bank) = BankSize
        /\ \A i \in 1 .. BankSize :
              i > compressed_image_start /\ i <= compressed_image_start + (20 + Size(File[c]))
                 => At(bank, i) = At(ImageBytes(File[c]), i - compressed_image_start)
    BY <1>1, <1>2, <1>3, ImageBytesAre, PatchIs
  <1>5. ASSUME NEW i \in 1 .. 20 + Size(File[c])
        PROVE  At(bank, compressed_image_start + i) = At(ImageBytes(File[c]), i)
    <2> DEFINE j == compressed_image_start + i
    <2>1. /\ j \in 1 .. BankSize /\ j > compressed_image_start
          /\ j <= compressed_image_start + (20 + Size(File[c])) /\ j - compressed_image_start = i
      BY <1>1
    <2> HIDE DEF j
    <2>2. At(bank, j) = At(ImageBytes(File[c]), i)
      BY <2>1, <1>4
    <2> QED
      BY <2>2 DEF j
  <1> QED
    BY <1>4, <1>5 DEF HoldsImage

(* Banks side by side.                                                      *)
LEMMA FourBanks ==
    ASSUME NEW B \in Nat, NEW a \in Bytes, NEW b \in Bytes, NEW d \in Bytes, NEW e \in Bytes,
           Size(a) = B, Size(b) = B, Size(d) = B, Size(e) = B
    PROVE  /\ a \o b \o d \o e \in Bytes /\ Size(a \o b \o d \o e) = 4 * B
           /\ \A i \in 1 .. B : /\ At(a \o b \o d \o e, i) = At(a, i)
                                /\ At(a \o b \o d \o e, B + i) = At(b, i)
                                /\ At(a \o b \o d \o e, 2 * B + i) = At(d, i)
                                /\ At(a \o b \o d \o e, 3 * B + i) = At(e, i)
  <1>1. PICK p : p = a \o b
    OBVIOUS
  <1>2. /\ p \in Bytes /\ Size(p) = B + B
        /\ \A i \in 1 .. B : At(p, i) = At(a, i)
        /\ \A i \in 1 .. B : At(p, B + i) = At(b, i)
    <2>1. /\ Size(a \o b) = Size(a) + Size(b)
          /\ \A i \in 1 .. Size(a) : At(a \o b, i) = At(a, i)
          /\ \A i \in 1 .. Size(b) : At(a \o b, Size(a) + i) = At(b, i)
      BY ConcatAt
    <2>2. p \in Bytes
      BY <1>1, ConcatIs
    <2> DEFINE pd == a \o b
    <2>3. p = pd
      BY <1>1
    <2> HIDE DEF pd
    <2>4. /\ Size(pd) = Size(a) + Size(b)
          /\ \A i \in 1 .. Size(a) : At(pd, i) = At(a, i)
          /\ \A i \in 1 .. Size(b) : At(pd, Size(a) + i) = At(b, i)
      BY <2>1 DEF pd
    <2> QED
      BY <2>2, <2>3, <2>4
  <1>3. PICK q : q = p \o d
    OBVIOUS
  <1>4. /\ q \in Bytes /\ Size(q) = B + B + B
        /\ \A i \in 1 .. B + B : At(q, i) = At(p, i)
        /\ \A i \in 1 .. B : At(q, B + B + i) = At(d, i)
    <2>1. /\ Size(p \o d) = Size(p) + Size(d)
          /\ \A i \in 1 .. Size(p) : At(p \o d, i) = At(p, i)
          /\ \A i \in 1 .. Size(d) : At(p \o d, Size(p) + i) = At(d, i)
      BY <1>2, ConcatAt
    <2>2. q \in Bytes
      BY <1>2, <1>3, ConcatIs
    <2> DEFINE pd == p \o d
    <2>3. q = pd
      BY <1>3
    <2> HIDE DEF pd
    <2>4. /\ Size(pd) = Size(p) + Size(d)
          /\ \A i \in 1 .. Size(p) : At(pd, i) = At(p, i)
          /\ \A i \in 1 .. Size(d) : At(pd, Size(p) + i) = At(d, i)
      BY <2>1 DEF pd
    <2> QED
      BY <1>2, <2>2, <2>3, <2>4
  <1>5. PICK s : s = q \o e
    OBVIOUS
  <1>6. /\ s \in Bytes /\ Size(s) = B + B + B + B
        /\ \A i \in 1 .. B + B + B : At(s, i) = At(q, i)
        /\ \A i \in 1 .. B : At(s, B + B + B + i) = At(e, i)
    <2>1. /\ Size(q \o e) = Size(q) + Size(e)
          /\ \A i \in 1 .. Size(q) : At(q \o e, i) = At(q, i)
          /\ \A i \in 1 .. Size(e) : At(q \o e, Size(q) + i) = At(e, i)
      BY <1>4, ConcatAt
    <2>2. s \in Bytes
      BY <1>4, <1>5, ConcatIs
    <2> DEFINE pd == q \o e
    <2>3. s = pd
      BY <1>5
    <2> HIDE DEF pd
    <2>4. /\ Size(pd) = Size(q) + Size(e)
          /\ \A i \in 1 .. Size(q) : At(pd, i) = At(q, i)
          /\ \A i \in 1 .. Size(e) : At(pd, Size(q) + i) = At(e, i)
      BY <2>1 DEF pd
    <2> QED
      BY <1>4, <2>2, <2>3, <2>4
  <1>7. ASSUME NEW i \in 1 .. B
        PROVE  At(s, i) = At(a, i) /\ At(s, B + i) = At(b, i) /\ At(s, 2 * B + i) = At(d, i) /\ At(s, 3 * B + i) = At(e, i)
    <2>1. /\ i \in 1 .. B + B /\ i \in 1 .. B + B + B
          /\ B + i \in 1 .. B + B /\ B + i \in 1 .. B + B + B
          /\ 2 * B + i = B + B + i /\ B + B + i \in 1 .. B + B + B
          /\ 3 * B + i = B + B + B + i
      OBVIOUS
    <2> QED
      BY <2>1, <1>2, <1>4, <1>6
  <1>8. s = a \o b \o d \o e /\ 4 * B = B + B + B + B
    BY <1>1, <1>3, <1>5
  <1> QED
    BY <1>6, <1>7, <1>8

(* The identifier at the end covers nothing of what the loader reads.       *)
LEMMA SameBelowIdentifier ==
    ASSUME NEW c \in Croms, NEW type, NEW bank, NEW b,
           \A i \in 1 .. BankSize - 64 : At(bank, i) = At(b, i)
    PROVE  /\ HoldsLoader(b, c, type) => HoldsLoader(bank, c, type)
           /\ HoldsImage(b, c) => HoldsImage(bank, c)
           /\ HoldsNothing(b, c) => HoldsNothing(bank, c)
  <1>1. /\ compressed_image_start \in Nat /\ Size(File[c]) \in Nat /\ BankSize \in Nat
        /\ compressed_image_start + 20 + Size(File[c]) <= BankSize - 64
    BY Layout
  <1>2. ASSUME NEW i \in 1 .. compressed_image_start PROVE At(bank, i) = At(b, i)
    <2>1. i \in 1 .. BankSize - 64
      BY <1>1
    <2> QED
      BY <2>1
  <1>3. ASSUME NEW i \in 1 .. 20 + Size(File[c])
        PROVE  At(bank, compressed_image_start + i) = At(b, compressed_image_start + i)
    <2>1. compressed_image_start + i \in 1 .. BankSize - 64
      BY <1>1
    <2> QED
      BY <2>1
  <1> QED
    BY <1>2, <1>3 DEF HoldsLoader, HoldsImage, HoldsNothing

LEMMA BigFlash ==
    ASSUME NEW c \in Croms, NEW image, image = Flash1024(File[c]),
           NEW b \in 0 .. 3, NEW bank, bank = Part(image, b * BankSize, BankSize)
    PROVE  /\ Size(image) = 4 * BankSize
           /\ bank \in Bytes /\ Size(bank) = BankSize
           /\ b = 3 => HoldsLoader(bank, c, 1)
           /\ b \in {1, 2} => HoldsImage(bank, c)
           /\ b \in {0, 3} => HoldsNothing(bank, c)
  <1>1. PICK L : L = LoaderOnly(File[c])
    OBVIOUS
  <1>2. PICK C : C = CromwellOnly(File[c])
    OBVIOUS
  <1>3. /\ L \in Bytes /\ Size(L) = BankSize /\ HoldsLoader(L, c, 1) /\ HoldsNothing(L, c)
        /\ C \in Bytes /\ Size(C) = BankSize /\ HoldsImage(C, c)
    BY <1>1, <1>2, LoaderOnlyIs, CromwellOnlyIs
  <1>4. BankSize \in Nat /\ BankSize >= 64
    BY Layout
  <1>5. PICK s : s = L \o C \o C \o L
    OBVIOUS
  <1>6. /\ s \in Bytes /\ Size(s) = 4 * BankSize
        /\ \A i \in 1 .. BankSize : /\ At(s, i) = At(L, i)
                                    /\ At(s, BankSize + i) = At(C, i)
                                    /\ At(s, 2 * BankSize + i) = At(C, i)
                                    /\ At(s, 3 * BankSize + i) = At(L, i)
    BY <1>3, <1>4, <1>5, FourBanks
  <1>7. image = writeBiosIdentifier(s)
    BY <1>1, <1>2, <1>5 DEF Flash1024
  <1>8. /\ image \in Bytes /\ Size(image) = 4 * BankSize
        /\ \A i \in 1 .. 4 * BankSize - 64 : At(image, i) = At(s, i)
    <2>1. 4 * BankSize >= 64
      BY <1>4
    <2> QED
      BY <2>1, <1>6, <1>7, IdentifierIs
  <1>9. /\ bank \in Bytes /\ Size(bank) = BankSize
        /\ \A i \in 1 .. BankSize : At(bank, i) = At(image, b * BankSize + i)
    <2>1. b * BankSize \in Nat /\ b * BankSize + BankSize <= 4 * BankSize
      BY <1>4
    <2> QED
      BY <2>1, <1>4, <1>8, PartIs
  <1> DEFINE held == IF b \in {1, 2} THEN C ELSE L
  <1>10. \A i \in 1 .. BankSize - 64 : At(bank, i) = At(held, i)
    <2> SUFFICES ASSUME NEW i \in 1 .. BankSize - 64 PROVE At(bank, i) = At(held, i)
      OBVIOUS
    <2>1. i \in 1 .. BankSize /\ b * BankSize + i \in 1 .. 4 * BankSize - 64
      BY <1>4
    <2>2. At(bank, i) = At(s, b * BankSize + i)
      BY <2>1, <1>8, <1>9
    <2>3. CASE b = 0
      <3>1. b * BankSize + i = i
        BY <2>3, <1>4
      <3> QED
        BY <2>1, <2>2, <2>3, <3>1, <1>6
    <2>4. CASE b = 1
      <3>1. b * BankSize + i = BankSize + i
        BY <2>4, <1>4
      <3> QED
        BY <2>1, <2>2, <2>4, <3>1, <1>6
    <2>5. CASE b = 2
      BY <2>1, <2>2, <2>5, <1>6
    <2>6. CASE b = 3
      BY <2>1, <2>2, <2>6, <1>6
    <2> QED
      BY <2>3, <2>4, <2>5, <2>6
  <1> HIDE DEF held
  <1>11. /\ HoldsLoader(held, c, 1) => HoldsLoader(bank, c, 1)
         /\ HoldsImage(held, c) => HoldsImage(bank, c)
         /\ HoldsNothing(held, c) => HoldsNothing(bank, c)
    BY <1>10, SameBelowIdentifier
  <1>12. /\ b \in {1, 2} => held = C
         /\ b \in {0, 3} => held = L
    BY DEF held
  <1> QED
    BY <1>3, <1>8, <1>9, <1>11, <1>12

(* The bank that answers for bank b of a flash.                             *)
LEMMA BankIs ==
    ASSUME NEW c \in Croms, NEW k \in {"256", "1024"}, NEW b \in 0 .. 3,
           NEW bank, bank = FlashImage[c][k][b]
    PROVE  /\ bank \in Bytes /\ Size(bank) = BankSize
           /\ b = 3 => HoldsLoader(bank, c, TypeOf(k))
           /\ k = "256" \/ b \in {1, 2} => HoldsImage(bank, c)
           /\ ~(k = "256" \/ b \in {1, 2}) => HoldsNothing(bank, c)
  <1>1. BankSize \in Nat /\ BankSize >= 64
    BY Layout
  <1>2. CASE k = "256"
    <2>1. PICK image : image = Flash256(File[c])
      OBVIOUS
    <2>2. image \in Bytes /\ Size(image) = BankSize /\ HoldsLoader(image, c, 0) /\ HoldsImage(image, c)
      BY <2>1, SmallFlash
    <2>3. FlashImage[c][k] = Banks(image)
      BY <1>2, <2>1 DEF FlashImage
    <2>4. bank = image
      BY <2>2, <2>3 DEF Banks, Size
    <2> QED
      BY <1>2, <2>2, <2>4 DEF TypeOf
  <1>3. CASE k = "1024"
    <2>1. PICK image : image = Flash1024(File[c])
      OBVIOUS
    <2>2. Size(image) = 4 * BankSize
      BY <2>1, BigFlash
    <2>3. FlashImage[c][k] = Banks(image)
      BY <1>3, <2>1 DEF FlashImage
    <2>4. bank = Part(image, b * BankSize, BankSize)
      <3>1. Size(image) # BankSize
        BY <1>1, <2>2
      <3> QED
        BY <2>3, <3>1 DEF Banks, Size
    <2>5. /\ bank \in Bytes /\ Size(bank) = BankSize
          /\ b = 3 => HoldsLoader(bank, c, 1)
          /\ b \in {1, 2} => HoldsImage(bank, c)
          /\ b \in {0, 3} => HoldsNothing(bank, c)
      BY <2>1, <2>4, BigFlash
    <2> QED
      BY <1>3, <2>5 DEF TypeOf
  <1> QED
    BY <1>2, <1>3

-----------------------------------------------------------------------------
(* The loader's copy                                                        *)

LEMMA SumIs ==
    ASSUME NEW x \in Bytes, Size(x) >= 20
    PROVE  /\ Sum(x) \in Bytes /\ Size(Sum(x)) = 20
           /\ \A i \in 1 .. 20 : At(Sum(x), i) = At(x, i)
  <1>1. /\ Part(x, 0, 20) \in Bytes /\ Size(Part(x, 0, 20)) = 20
        /\ \A i \in 1 .. 20 : At(Part(x, 0, 20), i) = At(x, i)
    <2>1. PICK k \in Nat : k = 20
      OBVIOUS
    <2>2. PICK at \in Nat : at = 0
      OBVIOUS
    <2>3. at + k <= Size(x) /\ \A i \in 1 .. k : at + i = i
      BY <2>1, <2>2
    <2> HIDE <2>1, <2>2
    <2>4. /\ Part(x, at, k) \in Bytes /\ Size(Part(x, at, k)) = k
          /\ \A i \in 1 .. k : At(Part(x, at, k), i) = At(x, at + i)
      BY <2>3, PartIs
    <2> QED
      BY <2>1, <2>2, <2>3, <2>4
  <1>2. Part(x, 0, 20) = Sum(x)
    BY DEF Part, Sum, HashSize
  <1> QED
    BY <1>1, <1>2

LEMMA BodyIs ==
    ASSUME NEW x \in Bytes, Size(x) >= 20
    PROVE  /\ Body(x) \in Bytes /\ Size(Body(x)) = Size(x) - 20
           /\ \A i \in 1 .. Size(x) - 20 : At(Body(x), i) = At(x, 20 + i)
  <1>1. Size(x) - 20 \in Nat /\ 20 + (Size(x) - 20) = Size(x)
    BY BytesAre
  <1>2. /\ Part(x, 20, Size(x) - 20) \in Bytes /\ Size(Part(x, 20, Size(x) - 20)) = Size(x) - 20
        /\ \A i \in 1 .. Size(x) - 20 : At(Part(x, 20, Size(x) - 20), i) = At(x, 20 + i)
    BY <1>1, PartIs
  <1>3. Part(x, 20, Size(x) - 20) = Body(x)
    BY <1>1 DEF Part, Body, HashSize, Size
  <1> QED
    BY <1>2, <1>3

LEMMA LoaderIs ==
    ASSUME NEW c \in Croms, NEW k \in {"256", "1024"},
           NEW x, x = LoaderOf(c, k), NEW h, h = Headed(Size(File[c]), TypeOf(k))
    PROVE  /\ x \in Bytes /\ Size(x) = Size_ramcopy + 4
           /\ Sum(x) = Hash(LoaderPart(h)) /\ ReadLe32(x, 20) = Size_ramcopy
           /\ ReadLe32(x, 24) = compressed_image_start
           /\ ReadLe32(x, 28) = Size(File[c]) /\ ReadLe32(x, 32) = TypeOf(k)
           /\ LoaderPart(h) \in Sections /\ LoaderPart(h) \in Bytes
           /\ Size(LoaderPart(h)) = Size_ramcopy - 20
           /\ \A i \in 1 .. Size_ramcopy - 20 : At(LoaderPart(h), i) = At(x, 20 + i)
  <1>1. /\ BankSize \in Nat /\ bootloaderpos \in Nat /\ Size_ramcopy \in Nat /\ Size_ramcopy >= 36
        /\ compressed_image_start \in Nat /\ bootloaderpos + Size_ramcopy < compressed_image_start
        /\ compressed_image_start + 20 <= BankSize
    BY Layout
  <1>2. PICK bank : bank = FlashImage[c][k][3]
    OBVIOUS
  <1>3. bank \in Bytes /\ Size(bank) = BankSize /\ HoldsLoader(bank, c, TypeOf(k))
    BY <1>2, BankIs
  <1>4. TypeOf(k) \in {0, 1}
    BY DEF TypeOf
  <1>5. /\ h \in Bytes /\ Size(h) = BankSize
        /\ ReadLe32(h, bootloaderpos + 20) = Size_ramcopy
        /\ ReadLe32(h, bootloaderpos + 24) = compressed_image_start
        /\ ReadLe32(h, bootloaderpos + 28) = Size(File[c])
        /\ ReadLe32(h, bootloaderpos + 32) = TypeOf(k)
    BY <1>4, HeadedIs
  <1>6. /\ LoaderPart(h) \in Sections /\ LoaderPart(h) \in Bytes /\ Size(LoaderPart(h)) = Size_ramcopy - 20
        /\ \A i \in 1 .. Size_ramcopy - 20 : At(LoaderPart(h), i) = At(h, bootloaderpos + 20 + i)
        /\ \A i \in 1 .. 20 : At(Hashed(h), bootloaderpos + i) = At(Hash(LoaderPart(h)), i)
        /\ \A i \in 21 .. Size_ramcopy : At(Hashed(h), bootloaderpos + i) = At(h, bootloaderpos + i)
    BY <1>4, HashedIs
  <1>7. /\ x \in Bytes /\ Size(x) = Size_ramcopy + 4
        /\ \A i \in 1 .. Size_ramcopy + 4 : At(x, i) = At(bank, bootloaderpos + i)
    <2>1. Size_ramcopy + 4 \in Nat /\ bootloaderpos + (Size_ramcopy + 4) <= BankSize
      BY <1>1
    <2>2. x = Part(bank, bootloaderpos, Size_ramcopy + 4)
      BY <1>2 DEF LoaderOf, RamSlack
    <2> QED
      BY <2>1, <2>2, <1>1, <1>3, PartIs
  <1>8. ASSUME NEW i \in 1 .. Size_ramcopy PROVE At(x, i) = At(Hashed(h), bootloaderpos + i)
    <2>1. i \in 1 .. Size_ramcopy + 4 /\ bootloaderpos + i \in 1 .. compressed_image_start
      BY <1>1
    <2>2. At(bank, bootloaderpos + i) = At(Hashed(h), bootloaderpos + i)
      BY <2>1, <1>3 DEF HoldsLoader
    <2> QED
      BY <1>7, <2>1, <2>2
  <1>9. \A i \in 1 .. 20 : At(x, i) = At(Hash(LoaderPart(h)), i)
    <2> SUFFICES ASSUME NEW i \in 1 .. 20 PROVE At(x, i) = At(Hash(LoaderPart(h)), i)
      OBVIOUS
    <2>1. i \in 1 .. Size_ramcopy
      BY <1>1
    <2> QED
      BY <2>1, <1>6, <1>8
  <1>10. \A i \in 21 .. Size_ramcopy : At(x, i) = At(h, bootloaderpos + i)
    <2> SUFFICES ASSUME NEW i \in 21 .. Size_ramcopy PROVE At(x, i) = At(h, bootloaderpos + i)
      OBVIOUS
    <2>1. i \in 1 .. Size_ramcopy
      BY <1>1
    <2> QED
      BY <2>1, <1>6, <1>8
  <1>11. Sum(x) = Hash(LoaderPart(h))
    <2>1. Size(x) >= 20
      BY <1>1, <1>7
    <2>2. /\ Sum(x) \in Bytes /\ Size(Sum(x)) = 20
          /\ \A i \in 1 .. 20 : At(Sum(x), i) = At(x, i)
      BY <1>7, <2>1, SumIs
    <2>3. Hash(LoaderPart(h)) \in Bytes /\ Size(Hash(LoaderPart(h))) = 20
      BY <1>6, SectionHash
    <2>4. \A i \in 1 .. 20 : At(Sum(x), i) = At(Hash(LoaderPart(h)), i)
      BY <1>9, <2>2
    <2> QED
      BY <2>2, <2>3, <2>4, SameBytes
  <1>12. ASSUME NEW at \in {20, 24, 28, 32} PROVE ReadLe32(x, at) = ReadLe32(h, bootloaderpos + at)
    <2>1. /\ bootloaderpos + at + 1 = bootloaderpos + (at + 1) /\ bootloaderpos + at + 2 = bootloaderpos + (at + 2)
          /\ bootloaderpos + at + 3 = bootloaderpos + (at + 3)
          /\ at + 1 \in 21 .. Size_ramcopy /\ at + 2 \in 21 .. Size_ramcopy /\ at + 3 \in 21 .. Size_ramcopy
      BY <1>1
    <2>2. /\ ReadLe32(h, bootloaderpos + at) = At(h, bootloaderpos + at + 1)
                + 256 * At(h, bootloaderpos + at + 2) + 65536 * At(h, bootloaderpos + at + 3)
          /\ ReadLe32(x, at) = At(x, at + 1) + 256 * At(x, at + 2) + 65536 * At(x, at + 3)
      BY DEF ReadLe32, At
    <2> QED
      BY <1>10, <2>1, <2>2
  <1>13. \A i \in 1 .. Size_ramcopy - 20 : At(LoaderPart(h), i) = At(x, 20 + i)
    <2> SUFFICES ASSUME NEW i \in 1 .. Size_ramcopy - 20 PROVE At(LoaderPart(h), i) = At(x, 20 + i)
      OBVIOUS
    <2>1. 20 + i \in 21 .. Size_ramcopy /\ bootloaderpos + 20 + i = bootloaderpos + (20 + i)
      BY <1>1
    <2> QED
      BY <2>1, <1>6, <1>10
  <1> QED
    BY <1>5, <1>6, <1>7, <1>11, <1>12, <1>13

LEMMA ReadIs ==
    ASSUME NEW s \in Bytes, NEW at \in {0} \cup ReadFaults, NEW y, y = ReadImage(s, at)
    PROVE  /\ y \in Bytes /\ Size(y) = Size(s) /\ at \in Nat
           /\ \A i \in 1 .. Size(s) : i # at => At(y, i) = At(s, i)
           /\ at \in 1 .. Size(s) => At(y, at) = (At(s, at) + 1) % 256
           /\ at \in 1 .. Size(s) => At(y, at) # At(s, at)
  <1>1. at \in Nat
    BY FaultsAssumption
  <1>2. CASE at = 0
    BY <1>2 DEF ReadImage
  <1>3. CASE at # 0
    <2>1. y = WrongByte(s, at)
      BY <1>3 DEF ReadImage
    <2>2. /\ y \in Bytes /\ Size(y) = Size(s)
          /\ \A i \in 1 .. Size(s) : i # at => At(y, i) = At(s, i)
          /\ at \in 1 .. Size(s) => At(y, at) = (At(s, at) + 1) % 256
      BY <1>1, <2>1, WrongIs
    <2>3. at \in 1 .. Size(s) => (At(s, at) + 1) % 256 # At(s, at)
      BY BytesAre, NextByte
    <2> QED
      BY <1>1, <2>2, <2>3
  <1> QED
    BY <1>2, <1>3

LEMMA EmptyPart ==
    ASSUME NEW s \in Bytes, NEW at \in Nat, NEW k \in Int, k < 0
    PROVE  Size(Part(s, at, k)) = 0
  <1>1. /\ at + 1 \in Nat /\ at + k \in Int /\ ~(at + 1 <= at + k)
        /\ \A i \in at + 1 .. at + k : s[i] \in Octets
    OBVIOUS
  <1>2. Len(SubSeq(s, at + 1, at + k)) = 0
    BY <1>1, SubSeqProperties
  <1> QED
    BY <1>2 DEF Part, Size

(* A copy of the loader whose hash is right has the header that was built.  *)
LEMMA SoundLoader ==
    ASSUME NEW c \in Croms, NEW k \in {"256", "1024"}, NEW at \in {0} \cup ReadFaults,
           NEW y, y = ReadImage(LoaderOf(c, k), at), LoaderSound(y)
    PROVE  /\ Header(y).start = compressed_image_start /\ Header(y).length = Size(File[c])
           /\ Header(y).type = TypeOf(k)
  <1>1. PICK x : x = LoaderOf(c, k)
    OBVIOUS
  <1>2. PICK p : p = LoaderPart(Headed(Size(File[c]), TypeOf(k)))
    OBVIOUS
  <1> DEFINE R == Size_ramcopy
  <1>3. R \in Nat /\ R >= 36
    BY Layout
  <1>4. /\ x \in Bytes /\ Size(x) = R + 4 /\ Sum(x) = Hash(p)
        /\ ReadLe32(x, 20) = R /\ ReadLe32(x, 24) = compressed_image_start
        /\ ReadLe32(x, 28) = Size(File[c]) /\ ReadLe32(x, 32) = TypeOf(k)
        /\ p \in Sections /\ p \in Bytes /\ Size(p) = R - 20
        /\ \A i \in 1 .. R - 20 : At(p, i) = At(x, 20 + i)
    BY <1>1, <1>2, LoaderIs
  <1>5. /\ y \in Bytes /\ Size(y) = R + 4 /\ at \in Nat
        /\ \A i \in 1 .. R + 4 : i # at => At(y, i) = At(x, i)
        /\ at \in 1 .. R + 4 => At(y, at) = (At(x, at) + 1) % 256
        /\ at \in 1 .. R + 4 => At(y, at) # At(x, at)
    BY <1>1, <1>4, ReadIs
  <1>6. at # 22 /\ at # 23
    BY FaultsAssumption DEF HashSize
  <1> DEFINE s == ReadLe32(y, 20)
  <1>7. HashedPart(y) = Part(y, 20, s - 20) /\ HashedPart(y) \in Sections
    <2>1. y \in LoaderReads
      BY DEF LoaderReads, LoaderCopies
    <2> QED
      BY <2>1 DEF Sections, HashedPart, Header, HashSize
  <1>8. Sum(y) = Hash(HashedPart(y))
    BY <1>7, SectionHash DEF LoaderSound
  <1> HIDE DEF R
  <1>9. /\ Sum(x) \in Bytes /\ Size(Sum(x)) = 20 /\ Sum(y) \in Bytes /\ Size(Sum(y)) = 20
        /\ \A i \in 1 .. 20 : At(Sum(x), i) = At(x, i)
        /\ \A i \in 1 .. 20 : At(Sum(y), i) = At(y, i)
    <2>1. Size(x) >= 20 /\ Size(y) >= 20
      BY <1>3, <1>4, <1>5
    <2> QED
      BY <2>1, <1>4, <1>5, SumIs
  <1>10. at \notin 21 .. 23 => s = R
    <2> SUFFICES ASSUME at \notin 21 .. 23 PROVE s = R
      OBVIOUS
    <2>1. At(y, 21) = At(x, 21) /\ At(y, 22) = At(x, 22) /\ At(y, 23) = At(x, 23)
      BY <1>3, <1>5
    <2> QED
      BY <2>1, <1>4 DEF ReadLe32, At
  <1>11. ASSUME at > 20 PROVE Sum(y) = Sum(x) /\ HashedPart(y) = p
    <2>1. \A i \in 1 .. 20 : At(Sum(y), i) = At(Sum(x), i)
      <3> SUFFICES ASSUME NEW i \in 1 .. 20 PROVE At(Sum(y), i) = At(Sum(x), i)
        OBVIOUS
      <3>1. i \in 1 .. R + 4 /\ i # at
        BY <1>3, <1>11
      <3> QED
        BY <3>1, <1>5, <1>9
    <2>2. Sum(y) = Sum(x)
      BY <2>1, <1>9, SameBytes
    <2> QED
      BY <2>2, <1>4, <1>7, <1>8, SectionHash
  <1>12. at \notin 1 .. 20
    <2> SUFFICES ASSUME at \in 1 .. 20 PROVE FALSE
      OBVIOUS
    <2>1. s = R
      BY <1>10
    <2>2. HashedPart(y) = Part(y, 20, R - 20)
      BY <2>1, <1>7
    <2>3. /\ HashedPart(y) \in Bytes /\ Size(HashedPart(y)) = R - 20
          /\ \A i \in 1 .. R - 20 : At(HashedPart(y), i) = At(y, 20 + i)
      <3>1. R - 20 \in Nat /\ 20 + (R - 20) <= R + 4
        BY <1>3
      <3> QED
        BY <2>2, <3>1, <1>5, PartIs
    <2>4. \A i \in 1 .. R - 20 : At(HashedPart(y), i) = At(p, i)
      <3> SUFFICES ASSUME NEW i \in 1 .. R - 20 PROVE At(HashedPart(y), i) = At(p, i)
        OBVIOUS
      <3>1. 20 + i \in 1 .. R + 4 /\ 20 + i # at
        BY <1>3
      <3> QED
        BY <2>3, <3>1, <1>4, <1>5
    <2>5. HashedPart(y) = p
      BY <2>3, <2>4, <1>4, SameBytes
    <2>6. Sum(y) = Sum(x)
      BY <2>5, <1>4, <1>8
    <2>7. At(Sum(y), at) = At(y, at) /\ At(Sum(x), at) = At(x, at)
      BY <1>9
    <2>8. at \in 1 .. R + 4
      BY <1>3
    <2> QED
      BY <2>6, <2>7, <2>8, <1>5
  <1>13. at # 21
    <2> SUFFICES ASSUME at = 21 PROVE FALSE
      OBVIOUS
    <2>1. HashedPart(y) = p
      BY <1>11
    <2>2. At(x, 21) \in Octets /\ At(x, 22) \in Octets /\ At(x, 23) \in Octets
      <3>1. 21 \in 1 .. Size(x) /\ 22 \in 1 .. Size(x) /\ 23 \in 1 .. Size(x)
        BY <1>3, <1>4
      <3> QED
        BY <3>1, <1>4, BytesAre
    <2>3. /\ At(y, 21) = (At(x, 21) + 1) % 256 /\ At(y, 21) # At(x, 21)
          /\ At(y, 22) = At(x, 22) /\ At(y, 23) = At(x, 23)
      BY <1>3, <1>5
    <2>4. At(y, 21) \in Octets /\ At(y, 21) <= At(x, 21) + 1
      BY <2>2, <2>3, NextByte
    <2>5. /\ s = At(y, 21) + 256 * At(y, 22) + 65536 * At(y, 23)
          /\ R = At(x, 21) + 256 * At(x, 22) + 65536 * At(x, 23)
      BY <1>4 DEF ReadLe32, At
    <2> HIDE DEF s
    <2>6. s \in Nat /\ s # R /\ s <= R + 1
      <3> DEFINE a == At(x, 21)
                 b == At(y, 21)
                 d == At(x, 22)
                 e == At(x, 23)
      <3>1. a \in Nat /\ b \in Nat /\ d \in Nat /\ e \in Nat
        BY <2>2, <2>4 DEF Octets
      <3>2. b # a /\ b <= a + 1 /\ s = b + 256 * d + 65536 * e /\ R = a + 256 * d + 65536 * e
        BY <2>3, <2>4, <2>5
      <3> HIDE DEF a, b, d, e
      <3> QED
        BY <3>1, <3>2
    <2>7. CASE s >= 20
      <3>1. s - 20 \in Nat /\ 20 + (s - 20) <= R + 4
        BY <2>6, <2>7, <1>3
      <3>2. Size(HashedPart(y)) = s - 20
        BY <3>1, <1>5, <1>7, PartIs
      <3> QED
        BY <2>1, <2>6, <3>2, <1>3, <1>4
    <2>8. CASE s < 20
      <3>1. Size(HashedPart(y)) = 0
        BY <2>6, <2>8, <1>5, <1>7, EmptyPart
      <3> QED
        BY <2>1, <3>1, <1>3, <1>4
    <2> QED
      BY <2>6, <2>7, <2>8
  <1>14. at \notin 24 .. R
    <2> SUFFICES ASSUME at \in 24 .. R PROVE FALSE
      OBVIOUS
    <2>1. s = R /\ HashedPart(y) = p
      BY <1>5, <1>10, <1>11
    <2>2. HashedPart(y) = Part(y, 20, R - 20)
      BY <2>1, <1>7
    <2>3. \A i \in 1 .. R - 20 : At(HashedPart(y), i) = At(y, 20 + i)
      <3>1. R - 20 \in Nat /\ 20 + (R - 20) <= R + 4
        BY <1>3
      <3> QED
        BY <2>2, <3>1, <1>5, PartIs
    <2>4. at - 20 \in 1 .. R - 20 /\ 20 + (at - 20) = at /\ at \in 1 .. R + 4
      BY <1>3
    <2>5. At(HashedPart(y), at - 20) = At(y, at) /\ At(p, at - 20) = At(x, at)
      BY <2>3, <2>4, <1>4
    <2> QED
      BY <2>1, <2>4, <2>5, <1>5
  <1>15. \A i \in 1 .. 36 : At(y, i) = At(x, i)
    <2> SUFFICES ASSUME NEW i \in 1 .. 36 PROVE At(y, i) = At(x, i)
      OBVIOUS
    <2>1. i \in 1 .. R + 4 /\ i # at
      BY <1>3, <1>5, <1>6, <1>12, <1>13, <1>14
    <2> QED
      BY <2>1, <1>5
  <1>16. /\ ReadLe32(y, 24) = ReadLe32(x, 24) /\ ReadLe32(y, 28) = ReadLe32(x, 28)
         /\ ReadLe32(y, 32) = ReadLe32(x, 32)
    <2>1. /\ At(y, 25) = At(x, 25) /\ At(y, 26) = At(x, 26) /\ At(y, 27) = At(x, 27)
          /\ At(y, 29) = At(x, 29) /\ At(y, 30) = At(x, 30) /\ At(y, 31) = At(x, 31)
          /\ At(y, 33) = At(x, 33) /\ At(y, 34) = At(x, 34) /\ At(y, 35) = At(x, 35)
      BY <1>15
    <2> QED
      BY <2>1 DEF ReadLe32, At
  <1> QED
    BY <1>4, <1>16 DEF Header

-----------------------------------------------------------------------------
(* The images in the banks                                                  *)

LEMMA ImageAtIs ==
    ASSUME NEW c \in Croms, NEW k \in {"256", "1024"}, NEW b \in 0 .. 3, NEW x, x = ImageAt(c, k, b)
    PROVE  /\ x \in Bytes /\ Size(x) = 20 + Size(File[c])
           /\ \/ Sum(x) = Hash(File[c]) /\ Body(x) = File[c]
              \/ Sum(x) = NoImage
  <1>1. PICK bank : bank = FlashImage[c][k][b]
    OBVIOUS
  <1>2. /\ bank \in Bytes /\ Size(bank) = BankSize
        /\ HoldsImage(bank, c) \/ HoldsNothing(bank, c)
    BY <1>1, BankIs
  <1>3. /\ compressed_image_start \in Nat /\ Size(File[c]) \in Nat /\ TopSize \in Nat
        /\ BankSize \in Nat /\ compressed_image_start + 20 + Size(File[c]) <= BankSize - TopSize
        /\ File[c] \in Bytes
    BY Layout
  <1>4. /\ x \in Bytes /\ Size(x) = 20 + Size(File[c])
        /\ \A i \in 1 .. 20 + Size(File[c]) : At(x, i) = At(bank, compressed_image_start + i)
    <2>1. /\ 20 + Size(File[c]) \in Nat
          /\ compressed_image_start + (20 + Size(File[c])) <= BankSize
      BY <1>3
    <2>2. x = Part(bank, compressed_image_start, 20 + Size(File[c]))
      BY <1>1 DEF ImageAt, HashSize, Size
    <2> QED
      BY <2>1, <2>2, <1>2, <1>3, PartIs
  <1>5. Size(x) >= 20 /\ Size(x) - 20 = Size(File[c])
    BY <1>3, <1>4
  <1>6. /\ Sum(x) \in Bytes /\ Size(Sum(x)) = 20
        /\ \A i \in 1 .. 20 : At(Sum(x), i) = At(x, i)
    BY <1>4, <1>5, SumIs
  <1>7. /\ Body(x) \in Bytes /\ Size(Body(x)) = Size(File[c])
        /\ \A i \in 1 .. Size(File[c]) : At(Body(x), i) = At(x, 20 + i)
    BY <1>4, <1>5, BodyIs
  <1>8. ASSUME HoldsImage(bank, c) PROVE Sum(x) = Hash(File[c]) /\ Body(x) = File[c]
    <2>1. \A i \in 1 .. 20 + Size(File[c]) : At(x, i) = At(ImageBytes(File[c]), i)
      BY <1>4, <1>8 DEF HoldsImage
    <2>2. /\ Hash(File[c]) \in Bytes /\ Size(Hash(File[c])) = 20
          /\ \A i \in 1 .. 20 : At(ImageBytes(File[c]), i) = At(Hash(File[c]), i)
          /\ \A i \in 1 .. Size(File[c]) : At(ImageBytes(File[c]), 20 + i) = At(File[c], i)
      BY ImageBytesAre, SectionHash
    <2>3. \A i \in 1 .. 20 : At(Sum(x), i) = At(Hash(File[c]), i)
      <3> SUFFICES ASSUME NEW i \in 1 .. 20 PROVE At(Sum(x), i) = At(Hash(File[c]), i)
        OBVIOUS
      <3>1. i \in 1 .. 20 + Size(File[c])
        BY <1>3
      <3> QED
        BY <3>1, <2>1, <2>2, <1>6
    <2>4. \A i \in 1 .. Size(File[c]) : At(Body(x), i) = At(File[c], i)
      <3> SUFFICES ASSUME NEW i \in 1 .. Size(File[c]) PROVE At(Body(x), i) = At(File[c], i)
        OBVIOUS
      <3>1. 20 + i \in 1 .. 20 + Size(File[c])
        BY <1>3
      <3> QED
        BY <3>1, <2>1, <2>2, <1>7
    <2>5. Sum(x) = Hash(File[c])
      BY <2>2, <2>3, <1>6, SameBytes
    <2>6. Body(x) = File[c]
      BY <2>4, <1>3, <1>7, SameBytes
    <2> QED
      BY <2>5, <2>6
  <1>9. ASSUME HoldsNothing(bank, c) PROVE Sum(x) = NoImage
    <2>1. \A i \in 1 .. 20 + Size(File[c]) : At(x, i) = 255
      BY <1>4, <1>9 DEF HoldsNothing
    <2>2. /\ NoImage \in Bytes /\ Size(NoImage) = 20
          /\ \A i \in 1 .. 20 : At(NoImage, i) = 255
      <3>1. PICK l \in Nat : l = 20
        OBVIOUS
      <3>2. /\ Filled(l, 255) \in Bytes /\ Size(Filled(l, 255)) = l
            /\ \A i \in 1 .. l : At(Filled(l, 255), i) = 255
        BY FilledIs, SomeOctets
      <3>3. NoImage = Filled(l, 255)
        BY <3>1 DEF NoImage, HashSize
      <3> QED
        BY <3>1, <3>2, <3>3
    <2>3. \A i \in 1 .. 20 : At(Sum(x), i) = At(NoImage, i)
      <3> SUFFICES ASSUME NEW i \in 1 .. 20 PROVE At(Sum(x), i) = At(NoImage, i)
        OBVIOUS
      <3>1. i \in 1 .. 20 + Size(File[c])
        BY <1>3
      <3> QED
        BY <3>1, <2>1, <2>2, <1>6
    <2> QED
      BY <2>2, <2>3, <1>6, SameBytes
  <1> QED
    BY <1>2, <1>4, <1>8, <1>9

(* The image in a bank as it reads.                                         *)
ReadAt(c, k, b, damaged) == IF b \in damaged THEN WrongByte(ImageAt(c, k, b), Damage) ELSE ImageAt(c, k, b)

(* What is behind a checksum that is right is the image, from a sound bank. *)
LEMMA AcceptedImage ==
    ASSUME NEW c \in Croms, NEW k \in {"256", "1024"}, NEW b \in 0 .. 3, NEW damaged, NEW at \in {0} \cup ReadFaults,
           NEW y, y = ReadImage(ReadAt(c, k, b, damaged), at)
    PROVE  /\ y \in Reads
           /\ HashOf[Body(y)] = Sum(y) => Body(y) = File[c] /\ b \notin damaged
  <1>0. PICK x : x = ReadAt(c, k, b, damaged)
    OBVIOUS
  <1>1. PICK w : w = ImageAt(c, k, b)
    OBVIOUS
  <1> DEFINE N == 20 + Size(File[c])
  <1>2. /\ w \in Bytes /\ Size(w) = N
        /\ \/ Sum(w) = Hash(File[c]) /\ Body(w) = File[c]
           \/ Sum(w) = NoImage
    BY <1>1, ImageAtIs
  <1>3. N \in Nat /\ N >= 20 /\ N - 20 = Size(File[c]) /\ File[c] \in Bytes
    BY Layout
  <1>4. Damage \in Nat /\ Damage \in 21 .. N
    <2>1. Damage \in 20 + 1 .. 20 + Size(File[c])
      BY FaultsAssumption DEF HashSize, Size
    <2> QED
      BY <2>1, FaultsAssumption
  <1> HIDE DEF N
  <1>5. /\ x \in Bytes /\ Size(x) = N
        /\ \A i \in 1 .. N : i # Damage => At(x, i) = At(w, i)
        /\ b \in damaged => At(x, Damage) = (At(w, Damage) + 1) % 256
    <2>1. CASE b \in damaged
      <3>1. x = WrongByte(w, Damage)
        BY <1>0, <1>1, <2>1 DEF ReadAt
      <3>2. Damage \in 1 .. N
        BY <1>3, <1>4
      <3> QED
        BY <3>1, <3>2, <1>2, <1>4, WrongIs
    <2>2. CASE b \notin damaged
      <3>1. x = w
        BY <1>0, <1>1, <2>2 DEF ReadAt
      <3> QED
        BY <3>1, <1>2, <2>2
    <2> QED
      BY <2>1, <2>2
  <1>6. /\ y \in Bytes /\ Size(y) = N /\ at \in Nat
        /\ \A i \in 1 .. N : i # at => At(y, i) = At(x, i)
        /\ at \in 1 .. N => At(y, at) = (At(x, at) + 1) % 256
    BY <1>0, <1>5, ReadIs
  <1>7. y \in Reads
    <2>1. w \in Copies
      BY <1>1 DEF Copies
    <2>2. x \in Readable
      BY <1>0, <1>1, <2>1 DEF Readable, ReadAt
    <2> QED
      BY <1>0, <2>2 DEF Reads
  <1>8. Body(y) \in Sections
    BY <1>7 DEF Sections
  <1> SUFFICES ASSUME HashOf[Body(y)] = Sum(y) PROVE Body(y) = File[c] /\ b \notin damaged
    BY <1>7
  <1>9. Sum(y) = Hash(Body(y)) /\ Sum(y) \notin Strays
    BY <1>8, SectionHash
  <1>10. /\ Sum(w) \in Bytes /\ Size(Sum(w)) = 20 /\ Sum(y) \in Bytes /\ Size(Sum(y)) = 20
         /\ \A i \in 1 .. 20 : At(Sum(w), i) = At(w, i)
         /\ \A i \in 1 .. 20 : At(Sum(y), i) = At(y, i)
    BY <1>2, <1>3, <1>6, SumIs
  <1>11. ASSUME NEW i \in 1 .. 20 PROVE i \in 1 .. N /\ At(x, i) = At(w, i)
    <2>1. i \in 1 .. N /\ i # Damage
      BY <1>3, <1>4
    <2> QED
      BY <2>1, <1>5
  <1>12. Sum(w) \in {NoImage, Hash(File[c])}
    BY <1>2
  <1>13. at \notin 1 .. 20
    <2> SUFFICES ASSUME at \in 1 .. 20 PROVE FALSE
      OBVIOUS
    <2>1. PICK v : v = WrongByte(Sum(w), at)
      OBVIOUS
    <2>2. /\ v \in Bytes /\ Size(v) = 20
          /\ \A i \in 1 .. 20 : i # at => At(v, i) = At(Sum(w), i)
          /\ At(v, at) = (At(Sum(w), at) + 1) % 256
      <3>1. PICK s \in Bytes : s = Sum(w)
        BY <1>10
      <3>2. /\ v \in Bytes /\ Size(v) = Size(s)
            /\ \A i \in 1 .. Size(s) : i # at => At(v, i) = At(s, i)
            /\ at \in 1 .. Size(s) => At(v, at) = (At(s, at) + 1) % 256
        BY <2>1, <3>1, <1>6, WrongIs
      <3> QED
        BY <3>1, <3>2, <1>10
    <2>3. \A i \in 1 .. 20 : At(Sum(y), i) = At(v, i)
      <3> SUFFICES ASSUME NEW i \in 1 .. 20 PROVE At(Sum(y), i) = At(v, i)
        OBVIOUS
      <3>1. i \in 1 .. N /\ At(x, i) = At(w, i) /\ At(Sum(y), i) = At(y, i) /\ At(Sum(w), i) = At(w, i)
        BY <1>10, <1>11
      <3>2. CASE i = at
        BY <3>1, <3>2, <2>2, <1>6
      <3>3. CASE i # at
        BY <3>1, <3>3, <2>2, <1>6
      <3> QED
        BY <3>2, <3>3
    <2>4. Sum(y) = v
      BY <2>2, <2>3, <1>10, SameBytes
    <2>5. v \in Strays
      <3>1. at \in {i \in ReadFaults : i <= HashSize}
        BY DEF HashSize
      <3> QED
        BY <2>1, <3>1, <1>12 DEF Strays
    <2> QED
      BY <2>4, <2>5, <1>9
  <1>14. Sum(y) = Sum(w)
    <2>1. \A i \in 1 .. 20 : At(Sum(y), i) = At(Sum(w), i)
      <3> SUFFICES ASSUME NEW i \in 1 .. 20 PROVE At(Sum(y), i) = At(Sum(w), i)
        OBVIOUS
      <3>1. i # at
        BY <1>13
      <3>2. i \in 1 .. N /\ At(x, i) = At(w, i)
        BY <1>11
      <3>3. At(Sum(y), i) = At(y, i) /\ At(Sum(w), i) = At(w, i)
        BY <1>10
      <3> QED
        BY <3>1, <3>2, <3>3, <1>6
    <2> QED
      BY <2>1, <1>10, SameBytes
  <1>15. Sum(w) # NoImage
    BY <1>9, <1>14 DEF Strays
  <1>16. Body(w) = File[c] /\ Hash(Body(y)) = Hash(File[c])
    BY <1>2, <1>9, <1>14, <1>15
  <1>17. Body(y) = File[c]
    BY <1>8, <1>16, SectionHash, ImageBytesAre
  <1>18. b \notin damaged
    <2> SUFFICES ASSUME b \in damaged PROVE FALSE
      OBVIOUS
    <2>1. /\ \A i \in 1 .. N - 20 : At(Body(w), i) = At(w, 20 + i)
          /\ \A i \in 1 .. N - 20 : At(Body(y), i) = At(y, 20 + i)
      BY <1>2, <1>3, <1>6, BodyIs
    <2>2. Damage - 20 \in 1 .. N - 20 /\ 20 + (Damage - 20) = Damage /\ Damage \in 1 .. N
      BY <1>3, <1>4
    <2>3. At(y, Damage) = At(w, Damage)
      BY <2>1, <2>2, <1>16, <1>17
    <2>4. At(w, Damage) \in Octets
      BY <2>2, <1>2, BytesAre
    <2>5. At(x, Damage) = (At(w, Damage) + 1) % 256
      BY <1>5
    <2>6. CASE at = Damage
      <3>1. At(y, Damage) = (((At(w, Damage) + 1) % 256) + 1) % 256
        BY <2>2, <2>5, <2>6, <1>6
      <3> QED
        BY <3>1, <2>3, <2>4, NextByte
    <2>7. CASE at # Damage
      <3>1. At(y, Damage) = (At(w, Damage) + 1) % 256
        BY <2>2, <2>5, <2>7, <1>6
      <3> QED
        BY <3>1, <2>3, <2>4, NextByte
    <2> QED
      BY <2>6, <2>7
  <1> QED
    BY <1>17, <1>18

LEMMA XbeCopied ==
    ASSUME NEW c \in Croms
    PROVE  CopiedByStub(XbeOf[c]) = Packed[c]
  <1>1. PICK p : p = Packed[c]
    OBVIOUS
  <1>2. p \in Bytes /\ Stub \in Bytes
    BY <1>1, RomsAssumption
  <1>3. Size(p) \in Nat /\ Size(Stub) \in Nat
    BY <1>2, BytesAre
  <1>4. FilledUp(Size(p)) - Size(p) \in Nat
    BY <1>3 DEF FilledUp
  <1>5. PICK j : j = Filled(FilledUp(Size(p)) - Size(p), 170)
    OBVIOUS
  <1>6. j \in Bytes
    BY <1>4, <1>5, FilledIs, SomeOctets
  <1>7. PICK q : q = Stub \o p
    OBVIOUS
  <1>8. /\ q \in Bytes /\ Size(q) = Size(Stub) + Size(p)
        /\ \A i \in 1 .. Size(p) : At(q, Size(Stub) + i) = At(p, i)
    BY <1>2, <1>7, ConcatIs
  <1>9. PICK body : body = q \o j
    OBVIOUS
  <1>10. /\ body \in Bytes /\ Size(body) = Size(q) + Size(j) /\ Size(j) \in Nat
         /\ \A i \in 1 .. Size(q) : At(body, i) = At(q, i)
    BY <1>6, <1>8, <1>9, ConcatIs, BytesAre
  <1>11. /\ Part(body, Size(Stub), Size(p)) \in Bytes /\ Size(Part(body, Size(Stub), Size(p))) = Size(p)
         /\ \A i \in 1 .. Size(p) : At(Part(body, Size(Stub), Size(p)), i) = At(body, Size(Stub) + i)
    <2>1. Size(Stub) + Size(p) <= Size(body)
      BY <1>3, <1>8, <1>10
    <2> QED
      BY <2>1, <1>3, <1>10, PartIs
  <1>12. Part(body, Size(Stub), Size(p)) = p
    <2>1. \A i \in 1 .. Size(p) : At(Part(body, Size(Stub), Size(p)), i) = At(p, i)
      <3> SUFFICES ASSUME NEW i \in 1 .. Size(p) PROVE At(Part(body, Size(Stub), Size(p)), i) = At(p, i)
        OBVIOUS
      <3>1. Size(Stub) + i \in 1 .. Size(q)
        BY <1>3, <1>8
      <3> QED
        BY <3>1, <1>8, <1>10, <1>11
    <2> QED
      BY <2>1, <1>2, <1>11, SameBytes
  <1>13. CopiedByStub(XbeOf[c]) = Part(Stub \o p \o Filled(FilledUp(Size(p)) - Size(p), 170), Size(Stub), Size(p))
    BY <1>1 DEF CopiedByStub, XbeOf, xberepair, Filled, Size
  <1> QED
    BY <1>1, <1>5, <1>7, <1>9, <1>12, <1>13

-----------------------------------------------------------------------------
(* What is started                                                          *)

(* What the loader knows: its copy, and once that is found right, where the *)
(* image is.                                                                *)
HeaderRight(bytes) ==
    /\ Header(bytes).start = compressed_image_start
    /\ Header(bytes).length = Size(File[rom.crom])
    /\ Header(bytes).type = TypeOf(rom.kind)
RomInv ==
    /\ rom \in Roms /\ flashbank \in 0 .. 3
    /\ romstage = "check" =>
          rom.kind # "xbe" /\ \E at \in {0} \cup ReadFaults : ram = ReadImage(LoaderOf(rom.crom, rom.kind), at)
    /\ romstage \in {"pic", "load"} => rom.kind # "xbe" /\ HeaderRight(ram)
    /\ CromwellWhole

LEMMA RomIs ==
    ASSUME rom \in Roms
    PROVE  rom.crom \in Croms /\ (rom.kind # "xbe" => rom.kind \in {"256", "1024"})
  BY RomsAssumption

LEMMA NextBank ==
    ASSUME NEW type \in {0, 1}, NEW tries, NEW bank \in 0 .. 3
    PROVE  BankOf(type, tries, bank) \in 0 .. 3
  BY DEF BankOf

LEMMA StepLoad ==
    ASSUME RomInv, LoadTry
    PROVE  RomInv'
  <1>1. romstage = "load" /\ rom \in Roms /\ flashbank \in 0 .. 3 /\ rom.kind # "xbe" /\ HeaderRight(ram)
    BY DEF RomInv, LoadTry
  <1>2. PICK c : c = rom.crom
    OBVIOUS
  <1>3. PICK k : k = rom.kind
    OBVIOUS
  <1>4. c \in Croms /\ k \in {"256", "1024"}
    BY <1>1, <1>2, <1>3, RomIs
  <1>5. PICK b : b = BankOf(Header(ram).type, loadretry, flashbank)
    OBVIOUS
  <1>6. b \in 0 .. 3
    <2>1. Header(ram).type \in {0, 1}
      BY <1>1 DEF HeaderRight, TypeOf
    <2> QED
      BY <2>1, <1>1, <1>5, NextBank
  <1>7. LoadFrom(b, Header(ram))
    BY <1>5 DEF LoadTry
  <1>8. PICK at \in {0} \cup ReadFaults :
            Loaded(Outcome[ReadImage(Damaged(Part(flash[b], Header(ram).start, HashSize + Header(ram).length), b), at)],
                   b, Header(ram))
    BY <1>7 DEF LoadFrom
  <1>9. PICK damaged : damaged = rom.damaged
    OBVIOUS
  <1>10. PICK x : x = ReadAt(c, k, b, damaged)
    OBVIOUS
  <1>11. PICK y : y = ReadImage(x, at)
    OBVIOUS
  <1>12. /\ y \in Reads
         /\ HashOf[Body(y)] = Sum(y) => Body(y) = File[c] /\ b \notin damaged
    BY <1>4, <1>6, <1>10, <1>11, AcceptedImage
  <1>13. Part(flash[b], Header(ram).start, HashSize + Header(ram).length) = ImageAt(c, k, b)
    BY <1>1, <1>2, <1>3 DEF HeaderRight, flash, ImageAt, Size
  <1>14. PICK got : got = Outcome[y]
    OBVIOUS
  <1>15. Loaded(got, b, Header(ram))
    BY <1>8, <1>9, <1>10, <1>11, <1>13, <1>14 DEF Damaged, ReadAt
  <1>16. got = IF HashOf[Body(y)] = Sum(y) THEN Unpack(Body(y)) ELSE Refused
    BY <1>12, <1>14 DEF Outcome, ImageSound
  <1>17. /\ romstage' \in {"load", "dead", "started", "hung"} /\ flashbank' = b /\ rom' = rom
         /\ romstage' = "load" => ram' = ram
         /\ romstage' = "started" => got.res = "ok" /\ cromwell' = Configured(got.out, b, TypeOf(k))
    <2>1. flashbank' = b /\ rom' = rom /\ (romstage' = "load" => ram' = ram)
      BY <1>7 DEF LoadTry, LoadFrom
    <2>2. Header(ram).type = TypeOf(k)
      BY <1>1, <1>3 DEF HeaderRight
    <2>3. CASE got.res = "refused"
      BY <2>1, <2>3, <1>15 DEF Loaded
    <2>4. CASE got.res = "ok"
      BY <2>1, <2>2, <2>4, <1>15 DEF Loaded
    <2>5. CASE got.res # "refused" /\ got.res # "ok"
      BY <2>1, <2>5, <1>15 DEF Loaded
    <2> QED
      BY <2>3, <2>4, <2>5
  <1>18. ASSUME romstage' = "started"
         PROVE  /\ Packed[c] # << >> /\ b \notin rom.damaged
                /\ cromwell' = Configured(Packed[c], b, TypeOf(k))
    <2>1. got.res = "ok"
      BY <1>17, <1>18
    <2>2. HashOf[Body(y)] = Sum(y)
      BY <2>1, <1>16 DEF Refused
    <2>3. got = Unpack(File[c]) /\ b \notin rom.damaged
      BY <2>2, <1>9, <1>12, <1>16
    <2>4. got.out = Packed[c] /\ Packed[c] # << >>
      BY <2>1, <2>3, <1>4, UnpackAssumption
    <2> QED
      BY <2>3, <2>4, <1>17, <1>18
  <1>19. CromwellWhole'
    <2> SUFFICES ASSUME romstage' = "started" PROVE CromwellWhole'
      BY DEF CromwellWhole
    <2>1. cromwell' = Patch(Packed[c], 32, Le32(1) \o Le32(1) \o Le32(b + 1) \o Le32(IF k = "256" THEN 0 ELSE 1))
      BY <1>18 DEF Configured, ConfigAt, TypeOf
    <2> QED
      BY <2>1, <1>1, <1>2, <1>3, <1>17, <1>18 DEF CromwellWhole
  <1>20. romstage' = "load" => HeaderRight(ram)'
    BY <1>1, <1>17 DEF HeaderRight
  <1> QED
    BY <1>1, <1>6, <1>17, <1>19, <1>20 DEF RomInv

LEMMA StepRom ==
    ASSUME RomInv, [RomNext]_romvars
    PROVE  RomInv'
  <1>1. CASE CopyLoader
    <2>1. /\ romstage' = "check" /\ rom.kind # "xbe" /\ rom' = rom /\ flashbank' = flashbank
          /\ \E at \in {0} \cup ReadFaults : ram' = ReadImage(LoaderOf(rom.crom, rom.kind), at)
      BY <1>1 DEF CopyLoader, LoaderBytes
    <2> QED
      BY <2>1 DEF RomInv, CromwellWhole
  <1>2. CASE CheckLoader
    <2>1. romstage = "check" /\ rom' = rom /\ flashbank' = flashbank /\ ram' = ram
          /\ romstage' = (IF Sound[ram] THEN "pic" ELSE "dead")
      BY <1>2 DEF CheckLoader
    <2>2. PICK at \in {0} \cup ReadFaults : ram = ReadImage(LoaderOf(rom.crom, rom.kind), at)
      BY <2>1 DEF RomInv
    <2>3. rom.kind # "xbe" /\ rom.crom \in Croms /\ rom.kind \in {"256", "1024"}
      BY <2>1, RomIs DEF RomInv
    <2>4. ram \in LoaderReads
      BY <2>2, <2>3 DEF LoaderReads, LoaderCopies
    <2>5. Sound[ram] => HeaderRight(ram)
      <3> SUFFICES ASSUME Sound[ram] PROVE HeaderRight(ram)
        OBVIOUS
      <3>1. LoaderSound(ram)
        BY <2>4 DEF Sound
      <3> QED
        BY <3>1, <2>2, <2>3, SoundLoader DEF HeaderRight
    <2>6. HeaderRight(ram)' <=> HeaderRight(ram)
      BY <2>1 DEF HeaderRight
    <2> QED
      BY <2>1, <2>3, <2>5, <2>6 DEF RomInv, CromwellWhole
  <1>3. CASE PicChallenge
    <2>1. romstage = "pic" /\ romstage' = "load" /\ flashbank' = 3 /\ rom' = rom /\ ram' = ram
      BY <1>3 DEF PicChallenge
    <2>2. HeaderRight(ram)' <=> HeaderRight(ram)
      BY <2>1 DEF HeaderRight
    <2> QED
      BY <2>1, <2>2 DEF RomInv, CromwellWhole
  <1>4. CASE LoadTry
    BY <1>4, StepLoad
  <1>5. CASE StartXbe
    <2>1. /\ rom.kind = "xbe" /\ rom' = rom /\ flashbank' = flashbank
          /\ \/ romstage' = "started" /\ cromwell' = CopiedByStub(XbeOf[rom.crom])
             \/ romstage' = "dead"
      BY <1>5 DEF StartXbe
    <2>2. rom \in Roms
      BY DEF RomInv
    <2>3. rom.crom \in Croms /\ Packed[rom.crom] # << >>
      BY <2>1, <2>2, RomsAssumption
    <2>4. CopiedByStub(XbeOf[rom.crom]) = Packed[rom.crom]
      BY <2>3, XbeCopied
    <2> QED
      BY <2>1, <2>3, <2>4 DEF RomInv, CromwellWhole
  <1>6. CASE SmcReset
    <2>1. romstage' = "reset" /\ rom' = rom /\ flashbank' = 3
      BY <1>6 DEF SmcReset
    <2> QED
      BY <2>1 DEF RomInv, CromwellWhole
  <1>7. CASE UNCHANGED romvars
    <2>1. /\ rom' = rom /\ romstage' = romstage /\ ram' = ram /\ flashbank' = flashbank
          /\ cromwell' = cromwell
      BY <1>7 DEF romvars
    <2>2. (HeaderRight(ram)' <=> HeaderRight(ram)) /\ (CromwellWhole' <=> CromwellWhole)
      BY <2>1 DEF HeaderRight, CromwellWhole
    <2> QED
      BY <2>1, <2>2 DEF RomInv
  <1> QED
    BY <1>1, <1>2, <1>3, <1>4, <1>5, <1>6, <1>7 DEF RomNext, RomStep

(* What the loader starts is the program that imagebld packed, whole and    *)
(* from a bank that is not damaged, whatever reads of the flash and         *)
(* transfers fail, for every flash image, loader and layout of the banks,   *)
(* every hash that tells the hashed sections apart and every decompressor   *)
(* that gives back what was packed.                                         *)
THEOREM CromwellAlwaysWhole == RomSpec => []CromwellWhole
  <1>1. RomInit => RomInv
    BY DEF RomInit, RomInv, CromwellWhole
  <1>2. RomInv /\ [RomNext]_romvars => RomInv'
    BY StepRom
  <1>3. RomInv => CromwellWhole
    BY DEF RomInv
  <1> QED
    BY <1>1, <1>2, <1>3, PTL DEF RomSpec
=============================================================================
