------------------------------- MODULE Flash -------------------------------
(***************************************************************************)
(* Reflashing the BIOS from a CD: BootLoadFlashCD() (boot/                 *)
(* BootFromDevice.c), BootReflashAndReset() (drivers/flash/BootFlashUi.c)  *)
(* and BootFlashGetDescriptor(), BootFlashEraseMinimalRegion() and         *)
(* BootFlashProgram() (drivers/flash/BootFlash.c).                         *)
(*                                                                         *)
(* A cell of the flash is the set of its bits that read as 1: erasing sets *)
(* all bits of a block, programming can only clear bits.  The chip and its *)
(* faults are external.                                                    *)
(***************************************************************************)
EXTENDS Integers, FiniteSets

CONSTANTS ImageLen,        \* cells of the image, 256K in the code
          Page,       \* cells in which erase retries are counted, 4K
          Kilo,       \* cells between two progress callbacks, 1K
          Retries,    \* 4 for a page and for a byte
          Image, Old, \* the image and what the chip holds before
          Chips,      \* the chips met, see ChipType
          MaxFaults,  \* chip faults and callback aborts in a behaviour
          Tries       \* attempts to read the CD before the tray opens, 16

FF == {0, 1}
ChipType == [kind : {"28", "29", "rom"},  \* command set it understands
             known : BOOLEAN,             \* is it in aknownflashtypesDefault?
             lock : BOOLEAN,              \* master lock bit
             alike : BOOLEAN,             \* byte 0 of the content equals its maker's ID
             len : Nat \ {0}, block : Nat \ {0},
             cmd : {"block", "chip"}]     \* the erase command it supports

ASSUME FlashAssumption ==
    /\ {ImageLen, Page, Kilo, Retries, Tries} \subseteq Nat \ {0} /\ MaxFaults \in Nat
    /\ Chips \subseteq ChipType
    /\ Image \in [0 .. ImageLen - 1 -> SUBSET FF]
    /\ \A c \in Chips : Old \in [DOMAIN Old -> SUBSET FF] /\ 0 .. c.len - 1 \subseteq DOMAIN Old

VARIABLES pc, chip,
          mem,          \* the flash
          conv28,       \* m_fDetectedUsing28xxxConventions
          rc,           \* result of the last BootReflashAndReset()
          dw,           \* address of the loops
          last, retry,  \* dwLast...Address (-1: 0xffffffff) and the retries left
          open,         \* ghost: the phase whose START has had no END yet, "none",
                        \* or "aborted" when the callback ended it
          pass,         \* how many times BootReflashAndReset() was called
          n,            \* attempts to read the CD
          faults
vars == <<pc, chip, mem, conv28, rc, dw, last, retry, open, pass, n, faults>>
loop == <<dw, last, retry>>

Init ==
    /\ pc = "read" /\ chip \in Chips /\ mem = [c \in 0 .. chip.len - 1 |-> Old[c]]
    /\ conv28 = FALSE /\ rc = -1 /\ dw = 0 /\ last = -1 /\ retry = 0
    /\ open = "none" /\ pass = 0 /\ n = 0 /\ faults = 0

-----------------------------------------------------------------------------
(* BootLoadFlashCD(): read /image.bin, with or without asking for a disc,  *)
(* and halt unless it has the right size.                                  *)
Read ==
    /\ pc = "read" /\ n' = n + 1
    /\ pc' \in IF n' < Tries THEN {"read", "loaded"} ELSE {"ask", "loaded"}
    /\ UNCHANGED <<chip, mem, conv28, rc, loop, open, pass, faults>>

ButtonA ==
    /\ pc = "ask" /\ pc' = "loaded"      \* then it waits until the disc is readable
    /\ UNCHANGED <<chip, mem, conv28, rc, loop, open, pass, n, faults>>

CheckSize ==
    /\ pc = "loaded" /\ pc' \in {"identify", "halt"}
    /\ pass' = 1
    /\ UNCHANGED <<chip, mem, conv28, rc, loop, open, n, faults>>

(* BootFlashGetDescriptor(): the 28xxx way of reading the ID first; when   *)
(* what it reads differs from the content, that is the answer, otherwise   *)
(* the 29xxx way.  A 28xxx chip answers both.                              *)
Answers28 == chip.kind = "28"
Seen28 == Answers28 /\ ~chip.alike
Seen == chip.kind # "rom" /\ chip.known
Locked == conv28' /\ chip.lock

Identify ==
    /\ pc = "identify"
    /\ conv28' = Seen28
    /\ rc' = IF ~Seen THEN 1 ELSE IF Locked THEN 2 ELSE IF chip.len < ImageLen THEN 3 ELSE -1
    /\ pc' = IF rc' = -1 THEN "retry" ELSE "flashed"
    /\ UNCHANGED <<chip, mem, loop, open, pass, n, faults>>

-----------------------------------------------------------------------------
(* The callback may abort where the code tests its result.                 *)
Fail == faults < MaxFaults /\ faults' = faults + 1
Abort == Fail /\ pc' = "retry" /\ open' = "aborted"

Start(phase, next, r) ==
    /\ dw' = 0 /\ last' = -1 /\ retry' = r
    /\ \/ pc' = next /\ open' = phase /\ UNCHANGED faults
       \/ Abort
    /\ UNCHANGED <<chip, mem, conv28, rc, pass, n>>

End(to) == open' = "none" /\ pc' = to

(* BootFlashEraseMinimalRegion().                                          *)
EraseStart == pc = "retry" /\ Start("erase", "erase", Retries)

Advance(phase) ==
    /\ dw < ImageLen
    /\ dw' = dw + 1
    /\ \/ pc' = phase /\ UNCHANGED <<open, faults>>
       \/ dw % Kilo = 0 /\ Abort
    /\ UNCHANGED <<chip, mem, conv28, rc, last, retry, pass, n>>

EraseAdvance ==
    /\ pc = "erase" /\ dw < ImageLen /\ mem[dw] = FF
    /\ Advance("erase")

SamePage == last # -1 /\ last \div Page = dw \div Page
Dirty == dw < ImageLen /\ mem[dw] # FF

(* A new page, or a new byte, gets its own retries.                        *)
RetryOf(same) == IF same THEN retry - 1 ELSE Retries

GiveUpErasing ==
    /\ pc = "erase" /\ Dirty /\ SamePage /\ retry = 1
    /\ pc' = "retry"
    /\ UNCHANGED <<chip, mem, conv28, rc, loop, pass, n, faults>>

(* Deviation: the error is reported but not the end of the phase.          *)
EraseGivesUpSilently == GiveUpErasing /\ UNCHANGED open

EraseGivesUp == GiveUpErasing /\ open' = "none"

(* The cells an erase attempt with r retries left sets to FF: the block of *)
(* dw, or the chip when fewer than few retries are left and it is allowed. *)
ErasedWhen(r, few, allowed) ==
    IF chip.kind = "28" /\ ~conv28 THEN {}       \* commands of the wrong kind
    ELSE IF chip.cmd = "block"
         THEN {c \in DOMAIN mem : c \div chip.block = dw \div chip.block}
    ELSE IF ~conv28 /\ r < few /\ allowed THEN DOMAIN mem ELSE {}

(* Deviations: the chip is erased whatever part of it is being replaced;   *)
(* the chip erase comes one attempt too late.                              *)
ErasedUnsafe(r) == ErasedWhen(r, 2, TRUE)
ErasedTooLate(r) == ErasedWhen(r, 1, chip.len = ImageLen)

Erased(r) == ErasedWhen(r, 2, chip.len = ImageLen)

EraseAttempt ==
    /\ pc = "erase" /\ Dirty /\ ~(SamePage /\ retry = 1)
    /\ retry' = RetryOf(SamePage)
    /\ last' = IF SamePage THEN last ELSE dw
    /\ \/ /\ mem' = [c \in DOMAIN mem |-> IF c \in Erased(retry') THEN FF ELSE mem[c]]
          /\ UNCHANGED <<pc, open, faults>>
       \/ /\ Fail                            \* the attempt has no effect,
          /\ \/ UNCHANGED <<pc, open>>
             \/ conv28 /\ End("retry")       \* and a 28xxx chip may say so
          /\ UNCHANGED mem
    /\ UNCHANGED <<chip, conv28, rc, dw, pass, n>>

EraseDone ==
    /\ pc = "erase" /\ dw = ImageLen
    /\ \/ End("program") /\ UNCHANGED faults
       \/ Abort                              \* of the END itself
    /\ UNCHANGED <<chip, mem, conv28, rc, loop, pass, n>>

(* BootFlashProgram().                                                     *)
ProgramStart ==
    /\ pc = "program" /\ open # "program"
    /\ Start("program", "program", Retries)

Programming == pc = "program" /\ open = "program"

ProgramAdvance ==
    /\ Programming /\ dw < ImageLen /\ mem[dw] = Image[dw]
    /\ Advance("program")

Differs == dw < ImageLen /\ mem[dw] # Image[dw]

ProgramGivesUp ==
    /\ Programming /\ Differs /\ last = dw /\ retry = 1
    /\ End("retry")
    /\ UNCHANGED <<chip, mem, conv28, rc, loop, pass, n, faults>>

Written == IF chip.kind = "28" /\ ~conv28 THEN mem
           ELSE [mem EXCEPT ![dw] = @ \cap Image[dw]]

(* A fault writes nothing, disturbs a cell already written, or is reported *)
(* (a 28xxx chip's status, or the time to live runs out).                  *)
ProgramAttempt ==
    /\ Programming /\ Differs /\ ~(last = dw /\ retry = 1)
    /\ retry' = RetryOf(last = dw)
    /\ last' = dw
    /\ \/ mem' = Written /\ UNCHANGED <<pc, open, faults>>
       \/ /\ Fail
          /\ \/ UNCHANGED <<pc, open, mem>>
             \/ \E c \in 0 .. dw : mem' = [Written EXCEPT ![c] = {}] /\ UNCHANGED <<pc, open>>
             \/ conv28 /\ End("retry") /\ UNCHANGED mem
    /\ UNCHANGED <<chip, conv28, rc, dw, pass, n>>

ProgramDone ==
    /\ Programming /\ dw = ImageLen
    /\ \/ End("verify") /\ UNCHANGED faults
       \/ Abort                              \* of the END itself
    /\ UNCHANGED <<chip, mem, conv28, rc, loop, pass, n>>

VerifyStart ==
    /\ pc = "verify" /\ open # "verify"
    /\ Start("verify", "verify", retry)

Verifying == pc = "verify" /\ open = "verify"

VerifyAdvance ==
    /\ Verifying /\ dw < ImageLen /\ mem[dw] = Image[dw]
    /\ dw' = dw + 1
    /\ UNCHANGED <<pc, chip, mem, conv28, rc, last, retry, open, pass, n, faults>>

(* VERIFY_ERROR (which may be aborted) and VERIFY_END.                     *)
VerifyError ==
    /\ Verifying /\ Differs
    /\ \/ End("retry") /\ UNCHANGED faults
       \/ Abort
    /\ UNCHANGED <<chip, mem, conv28, rc, loop, pass, n>>

VerifyDoneAt(end) ==
    /\ Verifying /\ dw = end
    /\ \/ End("flashed") /\ rc' = 0 /\ UNCHANGED faults
       \/ Abort /\ UNCHANGED rc
    /\ UNCHANGED <<chip, mem, conv28, loop, pass, n>>

(* Deviation: nothing is read back.                                        *)
VerifyDoneUnread == VerifyDoneAt(0)

VerifyDone == VerifyDoneAt(ImageLen)

-----------------------------------------------------------------------------
(* Back in BootLoadFlashCD(): compare checksums, then reboot, reflash once *)
(* more, or return to the menu.                                            *)
Holds == \A c \in 0 .. ImageLen - 1 : c \in DOMAIN mem /\ mem[c] = Image[c]

Compare ==
    /\ pc = "flashed" /\ pass = 1
    /\ IF Holds THEN pc' = "reboot" /\ UNCHANGED pass
                ELSE pc' = "identify" /\ pass' = 2
    /\ UNCHANGED <<chip, mem, conv28, rc, loop, open, n, faults>>

Return ==
    /\ pc = "flashed" /\ pass = 2 /\ pc' = "menu"
    /\ UNCHANGED <<chip, mem, conv28, rc, loop, open, pass, n, faults>>

Program ==
    \/ Read \/ CheckSize \/ Identify
    \/ EraseStart \/ EraseAdvance \/ EraseGivesUp \/ EraseAttempt \/ EraseDone
    \/ ProgramStart \/ ProgramAdvance \/ ProgramGivesUp \/ ProgramAttempt \/ ProgramDone
    \/ VerifyStart \/ VerifyAdvance \/ VerifyError \/ VerifyDone
    \/ Compare \/ Return

(* Rebooted, back in the menu, or halted.                                  *)
Stopped == pc \in {"reboot", "menu", "halt"} /\ UNCHANGED vars

Next == Program \/ ButtonA \/ Stopped
Spec == Init /\ [][Next]_vars

(* The program runs with nothing else to wait for; the user need not come. *)
FairSpec == Spec /\ WF_vars(Program)

-----------------------------------------------------------------------------
(* BootReflashAndReset() returns 0, and the console reboots, only when the *)
(* flash holds the image, whatever went wrong on the way.                  *)
SuccessMeansImage == (pc = "flashed" /\ rc = 0) \/ pc = "reboot" => Holds

(* A refused chip keeps every byte, and "erase the minimal footprint":     *)
(* blocks outside the one being replaced are never changed.                *)
OutsideUntouched ==
    \A c \in DOMAIN mem :
        rc \in {1, 2, 3} \/ c \div chip.block > (ImageLen - 1) \div chip.block => mem[c] = Old[c]

(* A reflash of a chip that was identified for what it is and that the     *)
(* code knows how to erase ends with the image in it and a reboot, however *)
(* often erasing and programming fail (finitely often).                    *)
Erasable == conv28 = Answers28 /\ (chip.cmd = "block" \/ chip.len = ImageLen)
Reflashes == pc = "retry" /\ Erasable ~> pc = "reboot"

(* "if you receive *_START, you will always receive *_END even if an error *)
(* is detected": on every path the callback did not abort itself, a phase  *)
(* has been ended when the next attempt begins or the function returns.    *)
EventsPaired == pc \in {"retry", "flashed"} => open \in {"none", "aborted"}
=============================================================================
