----------------------------- MODULE IdeProofs ------------------------------
(***************************************************************************)
(* Theorems about Ide, for every disk, every set of blocks and any number  *)
(* of boots.                                                               *)
(***************************************************************************)
EXTENDS Ide, TLAPS

Byte4 == 4294967296       \* 2^32: block is an unsigned int

(* The two ways of addressing by block.                                    *)
LEMMA LbaExact ==
    ASSUME NEW block \in Nat, block < Byte4
    PROVE  /\ block = ((block \div Byte3) % 256) * Byte3
                      + ((block \div 256) % 65536) * 256 + (block % 256)
           /\ block < Lba28 => block = ((block \div Byte3) % 16) * Byte3
                      + ((block \div 256) % 65536) * 256 + (block % 256)
BY DEF Byte3, Byte4, Lba28

(* Division with remainder.                                                *)
LEMMA DivMod ==
    ASSUME NEW a \in Nat, NEW b \in Nat \ {0}
    PROVE  /\ a \div b \in Nat /\ a % b \in 0 .. (b - 1)
           /\ a = (a \div b) * b + (a % b)
BY Z3

(* The quotient of a number below a product stays below the first factor.  *)
LEMMA QuotientBound ==
    ASSUME NEW a \in Nat, NEW b \in Nat \ {0}, NEW c \in Nat, a < c * b
    PROVE  a \div b < c
<1>1. a \div b \in Nat /\ a = (a \div b) * b + (a % b) /\ a % b >= 0
  BY DivMod
<1> DEFINE q == a \div b
<1>2. ASSUME q >= c PROVE FALSE
  <2>1. q * b >= c * b
    BY <1>1, <1>2, Z3
  <2> QED BY <2>1, <1>1, Z3
<1> QED BY <1>1, <1>2

(* Cylinder, head and sector of a block, and the block from them.          *)
LEMMA ChsSplit ==
    ASSUME NEW block \in Nat, NEW h \in Nat \ {0}, NEW s \in Nat \ {0}, NEW n \in Nat,
           block < (n * h) * s
    PROVE  /\ (block \div s) \div h \in Nat /\ (block \div s) \div h < n
           /\ (block \div s) % h \in 0 .. (h - 1)
           /\ block % s \in 0 .. (s - 1)
           /\ block = (((block \div s) \div h) * h + ((block \div s) % h)) * s + (block % s)
<1>1. n * h \in Nat
  OBVIOUS
<1>2. /\ block \div s \in Nat /\ block % s \in 0 .. (s - 1)
      /\ block = (block \div s) * s + (block % s)
  BY DivMod, Zenon
<1>3. block \div s < n * h
  BY <1>1, QuotientBound, Zenon
<1>4. /\ (block \div s) \div h \in Nat /\ (block \div s) % h \in 0 .. (h - 1)
      /\ block \div s = ((block \div s) \div h) * h + ((block \div s) % h)
  BY <1>2, DivMod, Zenon
<1>5. (block \div s) \div h < n
  BY <1>2, <1>3, QuotientBound, Zenon
<1> QED BY <1>2, <1>4, <1>5, Zenon

(* None of them is truncated by its register.                              *)
LEMMA NoTruncation ==
    ASSUME NEW h \in 1 .. Heads, NEW s \in 1 .. (Byte - 1),
           NEW c \in Nat, c < Cylinders, NEW k \in 0 .. (h - 1), NEW r \in 0 .. (s - 1)
    PROVE  c % Cylinders = c /\ k % Heads = k /\ (1 + r) % Byte = 1 + r
BY DEF Byte, Heads, Cylinders

(* Heads and sectors are positive.                                         *)
LEMMA Widths ==
    /\ Cylinders \in Nat
    /\ \A h \in 1 .. Heads : h \in Nat \ {0}
    /\ \A s \in 1 .. (Byte - 1) : s \in Nat \ {0}
BY DEF Byte, Heads, Cylinders

(* The block is what the cylinder, head and sector registers say.          *)
LEMMA ChsExact ==
    ASSUME NEW block \in Nat, NEW h \in 1 .. Heads, NEW s \in 1 .. (Byte - 1),
           block < (Cylinders * h) * s
    PROVE  ((((block \div s) \div h) % Cylinders) * h + (((block \div s) % h) % Heads)) * s
              + ((1 + (block % s)) % Byte) - 1 = block
<1> DEFINE c == (block \div s) \div h
           k == (block \div s) % h
           r == block % s
<1>1. c \in Nat /\ c < Cylinders /\ k \in 0 .. (h - 1) /\ r \in 0 .. (s - 1)
  BY Widths, ChsSplit, Zenon
<1>2. block = (c * h + k) * s + r
  BY Widths, ChsSplit, Zenon
<1> HIDE DEF c, k, r
<1>3. c % Cylinders = c /\ k % Heads = k /\ (1 + r) % Byte = 1 + r
  BY <1>1, NoTruncation, Zenon
<1>4. (c * h + k) * s + (1 + r) - 1 = (c * h + k) * s + r
  <2>1. (c * h + k) * s \in Int /\ r \in Int
    BY <1>1, Widths
  <2> QED BY <2>1
<1> QED BY <1>2, <1>3, <1>4, Zenon DEF c, k, r

(* A block reaches the drive unchanged, through whichever registers it     *)
(* goes: BootIdeReadSector() addresses the sector it was asked for.        *)
THEOREM AddressExact ==
    ASSUME NEW g, NEW block \in Nat, block < Byte4,
           g.lba \in BOOLEAN, g.heads \in 1 .. Heads, g.spt \in 1 .. (Byte - 1),
           ~g.lba => block < (Cylinders * g.heads) * g.spt /\ block < Lba28
    PROVE  BlockRead(g, Regs(g, block)) = block
<1>1. CASE block >= Lba28
  BY <1>1, LbaExact DEF BlockRead, Regs, Byte, Cylinders
<1>2. CASE ~(block >= Lba28) /\ g.lba
  <2>1. block < Lba28
    BY <1>2 DEF Lba28
  <2> QED BY <1>2, <2>1, LbaExact DEF BlockRead, Regs, Byte, Cylinders, Heads
<1>3. CASE ~(block >= Lba28) /\ ~g.lba
  <2> DEFINE h == g.heads
             s == g.spt
             c == ((block \div s) \div h) % Cylinders
             k == ((block \div s) % h) % Heads
             r == (1 + (block % s)) % Byte
  <2>1. (c * h + k) * s + r - 1 = block
    BY <1>3, ChsExact, Zenon
  <2>2. Regs(g, block) = [ext |-> FALSE, lba |-> FALSE, sectorExt |-> 0,
                          sector |-> r, cylinder |-> c, head |-> k]
    BY <1>3 DEF Regs
  <2> HIDE DEF c, k, r
  <2>3. BlockRead(g, Regs(g, block)) = (c * h + k) * s + r - 1
    BY <2>2 DEF BlockRead
  <2> QED BY <2>1, <2>3, Zenon
<1> QED BY <1>1, <1>2, <1>3, Zenon

-----------------------------------------------------------------------------
(* The inductive invariant.  While a security command is under way its     *)
(* password has been computed and nothing has been reported; at boot it is *)
(* UNLOCK, sent to a drive without a pending error.                        *)
Changing == pc \in {"change", "master", "user", "identify"}
ChangeInv ==
    /\ Changing => eepromOk /\ ~told.ok
    /\ booting /\ Changing => cmd = "unlock" /\ pc # "master"
    /\ booting /\ pc = "change" => ~disk.err
    /\ pc = "master" => cmd = "set"
BootInv ==
    /\ pc = "init" => booting /\ ~told.ok /\ ~info.exists
    /\ booting => pc \in {"init", "probe"} \/ Changing
    /\ pc = "probe" => booting
    /\ booting /\ pc # "init" => info.exists

(* Before the final IDENTIFY the command has already been obeyed.          *)
DoneInv == pc = "identify" => Promised(cmd) /\ ~disk.locked

(* A drive with this console's key is locked only until the boot unlocks   *)
(* it, or for a reason.                                                    *)
KeyInv ==
    /\ cromwell_config = "XROMWELL" /\ disk.locked => disk.user # Key
    /\ disk.locked /\ disk.user = Key =>
          failed \/ ~eepromOk \/ pc = "init" \/ (booting /\ pc \in {"change", "user"})

(* A drive in the wrong addressing mode is locked.                         *)
ModeInv == ~booting /\ info.exists => info.lba = geo.lba \/ (disk.locked /\ ~eepromOk)

ReadInv ==
    /\ pc \in {"read", "data"} =>
          /\ info.exists /\ queue # <<>>
          /\ \A i \in 1 .. Len(queue) : queue[i] < geo.sectors
    /\ pc = "data" => ~disk.locked

Inv == /\ TypeOK /\ ChangeInv /\ BootInv /\ DoneInv /\ KeyInv /\ ModeInv /\ ReadInv
       /\ SuccessIsTrue /\ SectorRight

-----------------------------------------------------------------------------
(* The initial states satisfy the invariant.                               *)
LEMMA InitInv == Init => Inv
<1> SUFFICES ASSUME Init PROVE Inv
  OBVIOUS
<1>1. PICK u \in {"none", Key, "other"} :
        disk = [user |-> u, master |-> "factory", locked |-> Locked(u), err |-> FALSE]
  BY DEF Init
<1>2. Locked(u) \in BOOLEAN /\ (cromwell_config = "XROMWELL" /\ Locked(u) => u # Key)
  BY DEF Locked
<1>3. disk \in DiskType
  BY <1>1, <1>2 DEF DiskType
<1>4. TypeOK
  <2>1. info \in InfoType /\ told \in ToldType /\ got \in [want : Nat, is : Int]
    BY DEF Init, NoDrive, Nothing, Idle, InfoType, ToldType
  <2>2. boots \in 1 .. MaxBoots /\ queue \in Seq(Nat)
    BY BlocksAssumption DEF Init
  <2>3. cmd \in Commands /\ booting \in BOOLEAN /\ failed \in BOOLEAN
    BY DEF Init, Commands
  <2> QED BY <1>3, <2>1, <2>2, <2>3 DEF Init, TypeOK
<1>5. KeyInv
  BY <1>1, <1>2 DEF Init, KeyInv
<1>6. ChangeInv /\ BootInv /\ DoneInv /\ ModeInv /\ ReadInv
  BY DEF Init, ChangeInv, BootInv, DoneInv, ModeInv, ReadInv, Changing, NoDrive, Nothing
<1>7. SuccessIsTrue /\ SectorRight
  BY DEF Init, SuccessIsTrue, SectorRight, Nothing, Idle
<1> QED BY <1>4, <1>5, <1>6, <1>7 DEF Inv

(* Reading a block, the drive is addressed in its own mode, so by          *)
(* AddressExact it delivers the block at the head of the queue.            *)
LEMMA AddressRight == Inv /\ pc = "data" => Address = Head(queue)
<1> SUFFICES ASSUME Inv, pc = "data" PROVE Address = Head(queue)
  OBVIOUS
<1>1. geo \in [lba : BOOLEAN, heads : 1 .. Heads, spt : 1 .. (Byte - 1), sectors : Nat]
      /\ geo.sectors \div 16 < Lba28
      /\ (~geo.lba => geo.sectors <= (Cylinders * geo.heads) * geo.spt /\ geo.sectors <= Lba28)
  BY DisksAssumption DEF Inv, TypeOK
<1>2. info.lba = geo.lba
  BY DEF Inv, TypeOK, BootInv, ModeInv, ReadInv, Changing
<1>3. Head(queue) \in Nat /\ Head(queue) < geo.sectors
  BY DEF Inv, TypeOK, ReadInv
<1>4. [geo EXCEPT !.lba = info.lba] = geo
  BY <1>1, <1>2
<1>5. Head(queue) < Byte4
  BY <1>1, <1>3 DEF Byte4, Lba28
<1>6. BlockRead(geo, Regs(geo, Head(queue))) = Head(queue)
  <2>1. geo.lba \in BOOLEAN /\ geo.heads \in 1 .. Heads /\ geo.spt \in 1 .. (Byte - 1)
    BY <1>1, Zenon
  <2>2. ~geo.lba => Head(queue) < (Cylinders * geo.heads) * geo.spt /\ Head(queue) < Lba28
    <3> HAVE ~geo.lba
    <3>0. geo.heads \in Int /\ geo.spt \in Int /\ Cylinders \in Int
      BY <2>1 DEF Cylinders, Heads, Byte
    <3>1. PICK n \in Int : n = (Cylinders * geo.heads) * geo.spt
      BY <3>0
    <3>2. geo.sectors <= n /\ geo.sectors <= Lba28 /\ geo.sectors \in Nat
      BY <1>1, <3>1
    <3>3. Head(queue) < n /\ Head(queue) < Lba28
      BY <1>3, <3>2 DEF Lba28
    <3> QED BY <3>1, <3>3
  <2> QED BY <1>3, <1>5, <2>1, <2>2, AddressExact, Zenon
<1> QED BY <1>4, <1>6, Zenon DEF Address

-----------------------------------------------------------------------------
(* What the operations on the drive leave alone.                           *)
LEMMA ErrUpdate ==
    ASSUME NEW d \in DiskType, NEW b \in BOOLEAN
    PROVE  /\ [d EXCEPT !.err = b] \in DiskType
           /\ [d EXCEPT !.err = b].user = d.user /\ [d EXCEPT !.err = b].locked = d.locked
           /\ [d EXCEPT !.err = b].err = b
BY DEF DiskType

(* A failing command changes nothing but the error bit.                    *)
LEMMA FailsKeeps ==
    ASSUME NEW obeys, Fails(obeys), disk \in DiskType
    PROVE  /\ disk' \in DiskType /\ disk'.user = disk.user /\ disk'.locked = disk.locked
           /\ failed' \in BOOLEAN /\ failed' = (failed \/ obeys)
<1>1. disk' = [disk EXCEPT !.err = TRUE] /\ failed' = (failed \/ obeys)
  BY DEF Fails
<1>2. failed' \in BOOLEAN
  BY <1>1, Zenon
<1> QED BY <1>1, <1>2, ErrUpdate, Zenon

(* The result that is reported.                                            *)
LEMMA ReturnTells ==
    ASSUME NEW ok \in BOOLEAN, Return(ok), cmd \in Commands
    PROVE  told' \in ToldType /\ told'.of = cmd /\ told'.ok = ok
           /\ pc' = (IF booting THEN "probe" ELSE "menu")
BY DEF Return, ToldType, Commands

(* What the three security commands do to a drive that obeys.              *)
LEMMA ChangedDrive ==
    ASSUME disk \in DiskType, cmd \in Commands, eepromOk, Obeys, disk' = Changed, cmd' = cmd
    PROVE  /\ disk' \in DiskType
           /\ Promised(cmd)' /\ ~disk'.locked
           /\ disk.user \in {"none", Key} => disk'.user \in {"none", Key}
<1>1. CASE cmd = "set"
  BY <1>1 DEF DiskType, Obeys, Changed, Promised, Password
<1>2. CASE cmd = "unlock"
  BY <1>2 DEF DiskType, Obeys, Changed, Promised, Password
<1>3. CASE cmd = "disable"
  BY <1>3 DEF DiskType, Obeys, Changed, Promised, Password
<1> QED BY <1>1, <1>2, <1>3 DEF Commands

-----------------------------------------------------------------------------
(* The commands of DriveSecurityChange() keep the invariant.               *)
LEMMA UserStep == Inv /\ UserCommand => Inv'
<1> SUFFICES ASSUME Inv, UserCommand PROVE Inv'
  OBVIOUS
<1>0. TypeOK /\ eepromOk /\ ~told.ok /\ (booting => cmd = "unlock") /\ pc = "user"
  BY DEF Inv, ChangeInv, Changing, UserCommand, UserCommandIf
<1>1. UNCHANGED <<geo, cromwell_config, eepromOk, info, cmd, booting, queue, got, data, boots>>
  BY DEF UserCommand, UserCommandIf, Keeps, host, rd
<1>2. CASE Fails(Obeys) /\ Return(FALSE)
  <2>1. /\ disk' \in DiskType /\ disk'.user = disk.user /\ disk'.locked = disk.locked
        /\ failed' \in BOOLEAN /\ failed' = (failed \/ Obeys)
    BY <1>0, <1>2, FailsKeeps DEF TypeOK
  <2>2. told' \in ToldType /\ ~told'.ok /\ pc' = (IF booting THEN "probe" ELSE "menu")
    BY <1>0, <1>2, ReturnTells DEF TypeOK
  <2>3. booting /\ disk.user = Key => failed'
    BY <1>0, <2>1 DEF Obeys, Password
  <2>4. TypeOK'
    BY <1>0, <1>1, <2>1, <2>2 DEF TypeOK
  <2>5. KeyInv'
    BY <1>0, <1>1, <2>1, <2>2, <2>3 DEF Inv, KeyInv, TypeOK
  <2>6. (ChangeInv /\ BootInv /\ DoneInv /\ ModeInv /\ ReadInv /\ SuccessIsTrue /\ SectorRight)'
    BY <1>0, <1>1, <2>1, <2>2 DEF Inv, TypeOK, ChangeInv, BootInv, DoneInv, ModeInv, ReadInv,
         Changing, SuccessIsTrue, SectorRight
  <2> QED BY <2>4, <2>5, <2>6 DEF Inv
<1>3. CASE Obeys /\ disk' = Changed /\ pc' = "identify" /\ UNCHANGED <<told, failed>>
  <2>1. disk' \in DiskType /\ Promised(cmd)' /\ ~disk'.locked
    BY <1>0, <1>1, <1>3, ChangedDrive DEF TypeOK
  <2>2. TypeOK'
    BY <1>0, <1>1, <1>3, <2>1 DEF TypeOK
  <2>3. ~told'.ok
    BY <1>0, <1>3
  <2>4. ModeInv'
    BY <1>0, <1>1 DEF Inv, ModeInv
  <2>5. (ChangeInv /\ BootInv /\ DoneInv /\ KeyInv /\ ReadInv /\ SuccessIsTrue /\ SectorRight)'
    BY <1>0, <1>1, <1>3, <2>1, <2>3 DEF Inv, TypeOK, ChangeInv, BootInv, DoneInv, KeyInv, ReadInv,
         Changing, SuccessIsTrue, SectorRight
  <2> QED BY <2>2, <2>4, <2>5 DEF Inv
<1> QED BY <1>2, <1>3 DEF UserCommand, UserCommandIf

(* The master password command of DriveSecurityChange() keeps the          *)
(* invariant whether the drive takes it or not.                            *)
LEMMA MasterStep == Inv /\ MasterCommand => Inv'
<1> SUFFICES ASSUME Inv, MasterCommand PROVE Inv'
  OBVIOUS
<1>0. TypeOK /\ eepromOk /\ ~told.ok /\ ~booting /\ cmd = "set" /\ pc = "master"
  BY DEF Inv, ChangeInv, Changing, MasterCommand
<1>1. UNCHANGED <<geo, cromwell_config, eepromOk, info, cmd, booting, queue, got, data, boots>>
  BY DEF MasterCommand, Keeps, host, rd
<1>2. /\ disk' \in DiskType /\ disk'.user = disk.user /\ disk'.locked = disk.locked
      /\ failed' \in BOOLEAN /\ (failed => failed')
  <2>1. CASE Fails(~disk.locked)
    BY <1>0, <2>1, FailsKeeps DEF TypeOK
  <2>2. CASE disk' = [disk EXCEPT !.master = "XBOXLINUX", !.err = FALSE] /\ UNCHANGED failed
    BY <1>0, <2>2 DEF TypeOK, DiskType
  <2> QED BY <2>1, <2>2 DEF MasterCommand
<1>3. told' \in ToldType /\ ~told'.ok /\ pc' \in {"menu", "user"}
  <2>1. CASE Return(FALSE)
    BY <1>0, <2>1, ReturnTells DEF TypeOK
  <2>2. CASE pc' = "user" /\ UNCHANGED told
    BY <1>0, <2>2 DEF TypeOK
  <2> QED BY <2>1, <2>2 DEF MasterCommand
<1>4. TypeOK'
  BY <1>0, <1>1, <1>2, <1>3 DEF TypeOK
<1>5. KeyInv' /\ ModeInv'
  BY <1>0, <1>1, <1>2, <1>3 DEF Inv, KeyInv, ModeInv
<1>6. (ChangeInv /\ BootInv /\ DoneInv /\ ReadInv /\ SuccessIsTrue /\ SectorRight)'
  BY <1>0, <1>1, <1>2, <1>3 DEF Inv, TypeOK, ChangeInv, BootInv, DoneInv, ReadInv,
       Changing, SuccessIsTrue, SectorRight
<1> QED BY <1>4, <1>5, <1>6 DEF Inv

(* Asking the drive for its state afterwards keeps it, and what is then    *)
(* reported is what the drive says.                                        *)
LEMMA IdentifyStep == Inv /\ Identify => Inv'
<1> SUFFICES ASSUME Inv, Identify PROVE Inv'
  OBVIOUS
<1>0. TypeOK /\ eepromOk /\ ~disk.locked /\ Promised(cmd) /\ pc = "identify"
  BY DEF Inv, ChangeInv, DoneInv, Changing, Identify
<1>1. UNCHANGED <<geo, cromwell_config, eepromOk, info, cmd, booting, queue, got, data, boots>>
  BY DEF Identify, Keeps, host, rd
<1>2. /\ disk' \in DiskType /\ disk'.user = disk.user /\ disk'.locked = disk.locked
      /\ failed' \in BOOLEAN
  <2>1. CASE Fails(TRUE)
    BY <1>0, <2>1, FailsKeeps DEF TypeOK
  <2>2. CASE disk' = [disk EXCEPT !.err = FALSE] /\ UNCHANGED failed
    BY <1>0, <2>2 DEF TypeOK, DiskType
  <2> QED BY <2>1, <2>2 DEF Identify
<1>3. told' \in ToldType /\ told'.of = cmd /\ pc' = (IF booting THEN "probe" ELSE "menu")
  BY <1>0, ReturnTells DEF TypeOK, Identify
<1>4. TypeOK'
  BY <1>0, <1>1, <1>2, <1>3 DEF TypeOK
<1>5. SuccessIsTrue'
  BY <1>0, <1>1, <1>2, <1>3 DEF SuccessIsTrue, Promised
<1>6. KeyInv' /\ ModeInv'
  BY <1>0, <1>1, <1>2, <1>3 DEF Inv, KeyInv, ModeInv
<1>7. (ChangeInv /\ BootInv /\ DoneInv /\ ReadInv /\ SectorRight)'
  BY <1>0, <1>1, <1>2, <1>3 DEF Inv, TypeOK, ChangeInv, BootInv, DoneInv, ReadInv, Changing,
       SectorRight
<1> QED BY <1>4, <1>5, <1>6, <1>7 DEF Inv

(* Starting DriveSecurityChange(), or giving up at once, keeps it.         *)
LEMMA ChangeStep == Inv /\ DriveSecurityChange => Inv'
<1> SUFFICES ASSUME Inv, DriveSecurityChange PROVE Inv'
  OBVIOUS
<1>0. TypeOK /\ eepromOk /\ ~told.ok /\ pc = "change" /\ (booting => ~disk.err /\ cmd = "unlock")
  BY DEF Inv, ChangeInv, Changing, DriveSecurityChange
<1>1. UNCHANGED <<geo, cromwell_config, eepromOk, info, cmd, booting, queue, got, data, boots,
                  disk, failed>>
  BY DEF DriveSecurityChange, Keeps, host, rd
<1>2. /\ told' \in ToldType /\ ~told'.ok
      /\ \/ pc' = "menu" /\ ~booting
         \/ pc' = (IF cmd = "set" THEN "master" ELSE "user")
  <2>1. CASE disk.err
    BY <1>0, <2>1, ReturnTells DEF TypeOK, DriveSecurityChange
  <2>2. CASE ~disk.err
    BY <1>0, <2>2 DEF TypeOK, DriveSecurityChange
  <2> QED BY <2>1, <2>2
<1>3. TypeOK'
  BY <1>0, <1>1, <1>2 DEF TypeOK
<1>4. KeyInv' /\ ModeInv'
  BY <1>0, <1>1, <1>2 DEF Inv, KeyInv, ModeInv
<1>5. (ChangeInv /\ BootInv /\ DoneInv /\ ReadInv /\ SuccessIsTrue /\ SectorRight)'
  BY <1>0, <1>1, <1>2 DEF Inv, TypeOK, ChangeInv, BootInv, DoneInv, ReadInv, Changing,
       SuccessIsTrue, SectorRight
<1> QED BY <1>3, <1>4, <1>5 DEF Inv

(* The boot and the menu keep it.                                          *)
LEMMA InitStep == Inv /\ BootIdeDriveInit => Inv'
<1> SUFFICES ASSUME Inv, BootIdeDriveInit PROVE Inv'
  OBVIOUS
<1>0. TypeOK /\ pc = "init" /\ booting /\ ~told.ok /\ ~info.exists
  BY DEF Inv, BootInv, BootIdeDriveInit, DriveInitWith
<1>1. UNCHANGED <<geo, cromwell_config, eepromOk, told, queue, got, data, boots>>
  BY DEF BootIdeDriveInit, DriveInitWith, host, rd
<1>2. CASE pc' = "menu" /\ booting' = FALSE /\ failed' = TRUE /\ UNCHANGED <<info, disk, cmd>>
  <2>1. TypeOK'
    BY <1>0, <1>1, <1>2 DEF TypeOK
  <2> QED BY <1>0, <1>1, <1>2, <2>1 DEF Inv, ChangeInv, BootInv, DoneInv, KeyInv, ModeInv, ReadInv,
         Changing, SuccessIsTrue, SectorRight
<1>3. CASE /\ info' = [exists |-> TRUE, lba |-> FALSE, sec |-> disk.locked]
           /\ disk' = [disk EXCEPT !.err = FALSE]
           /\ UNCHANGED failed
           /\ IF disk.locked /\ cromwell_config = "CROMWELL"
              THEN IF eepromOk THEN pc' = "change" /\ cmd' = "unlock" /\ UNCHANGED booting
                               ELSE pc' = "menu" /\ booting' = FALSE /\ UNCHANGED cmd
              ELSE pc' = "probe" /\ UNCHANGED <<cmd, booting>>
  <2>1. disk' \in DiskType /\ disk'.user = disk.user /\ disk'.locked = disk.locked /\ ~disk'.err
    BY <1>0, <1>3, ErrUpdate DEF TypeOK
  <2>2. info' \in InfoType /\ info'.exists /\ info'.lba = FALSE
    BY <1>0, <1>3 DEF TypeOK, DiskType, InfoType
  <2>3. \/ pc' = "change" /\ cmd' = "unlock" /\ booting' /\ eepromOk
        \/ pc' = "menu" /\ ~booting' /\ ~eepromOk /\ cmd' = cmd /\ disk.locked
        \/ /\ pc' = "probe" /\ booting' /\ cmd' = cmd
           /\ ~disk.locked \/ cromwell_config = "XROMWELL"
    BY <1>0, <1>3 DEF TypeOK
  <2>4. booting' \in BOOLEAN /\ cmd' \in Commands
    BY <1>0, <1>3 DEF TypeOK, Commands
  <2>5. TypeOK'
    BY <1>0, <1>1, <1>3, <2>1, <2>2, <2>3, <2>4 DEF TypeOK
  <2>6. KeyInv' /\ ModeInv'
    BY <1>0, <1>1, <2>1, <2>2, <2>3 DEF Inv, KeyInv, ModeInv
  <2>7. (ChangeInv /\ BootInv /\ DoneInv /\ ReadInv /\ SuccessIsTrue /\ SectorRight)'
    BY <1>0, <1>1, <2>1, <2>2, <2>3 DEF Inv, ChangeInv, BootInv, DoneInv, ReadInv, Changing,
         SuccessIsTrue, SectorRight
  <2> QED BY <2>5, <2>6, <2>7 DEF Inv
<1> QED BY <1>2, <1>3 DEF BootIdeDriveInit, DriveInitWith

(* The rest of the boot, the menu entries and a request for blocks keep    *)
(* it.                                                                     *)
LEMMA MenuStep == Inv /\ (Probe \/ SecurityMenu \/ Ask) => Inv'
<1>1. ASSUME Inv, Probe PROVE Inv'
  <2>0. TypeOK /\ pc = "probe" /\ geo \in Disks
    BY <1>1 DEF Inv, Probe, TypeOK
  <2>1. UNCHANGED <<geo, cromwell_config, eepromOk, disk, cmd, told, got, data, failed, boots>>
        /\ pc' = "read" /\ booting' = FALSE /\ queue' = <<3, 0>>
    BY <1>1 DEF Probe, host
  <2>2. info' \in InfoType /\ info'.lba = geo.lba /\ geo.sectors > 3 /\ geo.sectors \in Nat
    BY <1>1, <2>0, DisksAssumption DEF Probe, TypeOK, InfoType
  <2>3. queue' \in Seq(Nat) /\ Len(queue') = 2 /\ queue'[1] = 3 /\ queue'[2] = 0 /\ queue' # <<>>
    BY <2>1
  <2>4. TypeOK'
    BY <2>0, <2>1, <2>2, <2>3 DEF TypeOK
  <2>5. info'.exists
    BY <1>1, <2>0 DEF Inv, BootInv, Probe, TypeOK, InfoType
  <2>6. ReadInv'
    BY <2>0, <2>1, <2>2, <2>3, <2>5 DEF ReadInv
  <2>7. KeyInv' /\ ModeInv' /\ SuccessIsTrue'
    BY <1>1, <2>0, <2>1, <2>2 DEF Inv, KeyInv, ModeInv, SuccessIsTrue, Promised
  <2>8. ChangeInv' /\ BootInv' /\ DoneInv' /\ SectorRight'
    BY <1>1, <2>1 DEF Inv, ChangeInv, BootInv, DoneInv, Changing, SectorRight
  <2> QED BY <2>4, <2>6, <2>7, <2>8 DEF Inv
<1>2. ASSUME Inv, SecurityMenu PROVE Inv'
  <2>0. TypeOK /\ pc = "menu" /\ ~booting /\ eepromOk /\ info.exists
    BY <1>2 DEF Inv, BootInv, SecurityMenu, SecurityMenuIf, Changing
  <2>1. UNCHANGED <<geo, cromwell_config, eepromOk, disk, info, booting, queue, got, data,
                    failed, boots>>
        /\ pc' = "change"
    BY <1>2 DEF SecurityMenu, SecurityMenuIf, host, rd
  <2>2. told' \in ToldType /\ ~told'.ok /\ cmd' \in Commands
    BY <1>2 DEF SecurityMenu, SecurityMenuIf, ToldType, Nothing, Commands
  <2>3. TypeOK'
    BY <2>0, <2>1, <2>2 DEF TypeOK
  <2> QED BY <1>2, <2>0, <2>1, <2>2, <2>3 DEF Inv, ChangeInv, BootInv, DoneInv, KeyInv, ModeInv,
         ReadInv, Changing, SuccessIsTrue, SectorRight
<1>3. ASSUME Inv, Ask PROVE Inv'
  <2>0. TypeOK /\ pc = "menu" /\ info.exists
    BY <1>3 DEF Inv, Ask
  <2>1. UNCHANGED <<geo, cromwell_config, eepromOk, disk, info, cmd, booting, told, got, data,
                    failed, boots>>
        /\ pc' = "read"
    BY <1>3 DEF Ask, host, sub
  <2>2. PICK b \in Blocks : b < geo.sectors /\ queue' = <<b>>
    BY <1>3 DEF Ask
  <2>3. TypeOK'
    BY <2>0, <2>1, <2>2, BlocksAssumption DEF TypeOK
  <2>4. ReadInv'
    BY <2>0, <2>1, <2>2 DEF ReadInv
  <2> QED BY <1>3, <2>0, <2>1, <2>3, <2>4 DEF Inv, ChangeInv, BootInv, DoneInv, KeyInv, ModeInv,
         Changing, SuccessIsTrue, SectorRight, Promised
<1> QED BY <1>1, <1>2, <1>3

(* One block of the queue has been read.                                   *)
LEMMA DoneReads ==
    ASSUME Inv, pc \in {"read", "data"}, NEW is \in Int, Done(is), UNCHANGED geo
    PROVE  /\ queue' \in Seq(Nat) /\ got' \in [want : Nat, is : Int] /\ pc' \in {"menu", "read"}
           /\ got'.want = Head(queue) /\ got'.is = is
           /\ pc' = "read" => queue' # <<>> /\ \A i \in 1 .. Len(queue') : queue'[i] < geo'.sectors
<1>1. queue \in Seq(Nat) /\ queue # <<>> /\ \A i \in 1 .. Len(queue) : queue[i] < geo.sectors
  BY DEF Inv, TypeOK, ReadInv
<1>2. queue' = Tail(queue) /\ got' = [want |-> Head(queue), is |-> is]
      /\ pc' = (IF Tail(queue) = <<>> THEN "menu" ELSE "read")
  BY DEF Done
<1> QED BY <1>1, <1>2

(* Both halves of a sector read keep it.                                   *)
LEMMA ReadStep == Inv /\ (ReadCommand \/ ReadData) => Inv'
<1>1. ASSUME Inv, ReadCommand PROVE Inv'
  <2>0. TypeOK /\ pc = "read" /\ info.exists /\ ~booting
    BY <1>1 DEF Inv, BootInv, ReadInv, ReadCommand, ReadCommandOr, Changing
  <2>1. UNCHANGED <<geo, cromwell_config, eepromOk, info, cmd, booting, told, boots>>
    BY <1>1 DEF ReadCommand, ReadCommandOr, host, sub
  <2>2. CASE Fails(~disk.locked) /\ UNCHANGED data /\ Done(-1)
    <3>1. /\ disk' \in DiskType /\ disk'.user = disk.user /\ disk'.locked = disk.locked
          /\ failed' \in BOOLEAN /\ (failed => failed')
      BY <2>0, <2>2, FailsKeeps DEF TypeOK
    <3>2. /\ queue' \in Seq(Nat) /\ got' \in [want : Nat, is : Int] /\ pc' \in {"menu", "read"}
          /\ got'.is = -1
          /\ pc' = "read" => queue' # <<>> /\ \A i \in 1 .. Len(queue') : queue'[i] < geo'.sectors
      BY <1>1, <2>0, <2>1, <2>2, DoneReads
    <3>3. TypeOK'
      BY <2>0, <2>1, <2>2, <3>1, <3>2 DEF TypeOK
    <3>4. ReadInv' /\ SectorRight'
      BY <2>0, <2>1, <3>2 DEF ReadInv, SectorRight
    <3>5. KeyInv' /\ ModeInv' /\ SuccessIsTrue'
      BY <1>1, <2>0, <2>1, <3>1, <3>2 DEF Inv, KeyInv, ModeInv, SuccessIsTrue, Promised
    <3> QED BY <1>1, <2>0, <2>1, <3>2, <3>3, <3>4, <3>5
           DEF Inv, ChangeInv, BootInv, DoneInv, Changing
  <2>3. CASE /\ ~disk.locked /\ disk' = [disk EXCEPT !.err = FALSE]
             /\ data' \in {"ready", "late", "bad"} /\ failed' = (failed \/ data' = "bad")
             /\ pc' = "data" /\ UNCHANGED <<queue, got>>
    <3>1. /\ disk' \in DiskType /\ disk'.user = disk.user /\ disk'.locked = disk.locked
      BY <2>0, <2>3, ErrUpdate DEF TypeOK
    <3>2. failed' \in BOOLEAN
      BY <2>3, Zenon
    <3>3. TypeOK'
      BY <2>0, <2>1, <2>3, <3>1, <3>2 DEF TypeOK
    <3>4. KeyInv' /\ ModeInv' /\ SuccessIsTrue' /\ ReadInv'
      BY <1>1, <2>0, <2>1, <2>3, <3>1 DEF Inv, KeyInv, ModeInv, SuccessIsTrue, Promised, ReadInv
    <3> QED BY <1>1, <2>0, <2>1, <2>3, <3>3, <3>4
           DEF Inv, ChangeInv, BootInv, DoneInv, Changing, SectorRight
  <2> QED BY <1>1, <2>2, <2>3 DEF ReadCommand, ReadCommandOr
<1>2. ASSUME Inv, ReadData PROVE Inv'
  <2>0. TypeOK /\ pc = "data" /\ info.exists /\ ~booting
    BY <1>2 DEF Inv, BootInv, ReadInv, ReadData, Changing
  <2>1. UNCHANGED <<geo, cromwell_config, eepromOk, disk, info, cmd, booting, told, failed, boots>>
        /\ data' = "none" /\ Done(Address)
    BY <1>2 DEF ReadData, host, sub
  <2>2. Address = Head(queue) /\ Address \in Int
    BY <1>2, <2>0, AddressRight DEF Inv, TypeOK, ReadInv
  <2>3. /\ queue' \in Seq(Nat) /\ got' \in [want : Nat, is : Int] /\ pc' \in {"menu", "read"}
        /\ got'.is = got'.want
        /\ pc' = "read" => queue' # <<>> /\ \A i \in 1 .. Len(queue') : queue'[i] < geo'.sectors
    BY <1>2, <2>0, <2>1, <2>2, DoneReads
  <2>4. TypeOK'
    BY <2>0, <2>1, <2>3 DEF TypeOK
  <2>5. ReadInv' /\ SectorRight'
    BY <2>0, <2>1, <2>3 DEF ReadInv, SectorRight
  <2> QED BY <1>2, <2>0, <2>1, <2>3, <2>4, <2>5 DEF Inv, ChangeInv, BootInv, DoneInv, KeyInv,
         ModeInv, Changing, SuccessIsTrue, Promised
<1> QED BY <1>1, <1>2

(* So do the drive and the power switch.                                   *)
LEMMA DriveStep == Inv /\ (Ready \/ PowerCut \/ UNCHANGED vars) => Inv'
<1>1. ASSUME Inv, Ready PROVE Inv'
  <2>1. UNCHANGED <<geo, cromwell_config, eepromOk, disk, info, pc, cmd, booting, told, queue, got,
                    failed, boots>> /\ data' = "ready"
    BY <1>1 DEF Ready, host, sub
  <2>2. TypeOK' /\ ReadInv'
    BY <1>1, <2>1 DEF Inv, TypeOK, ReadInv
  <2>3. KeyInv' /\ ModeInv' /\ SuccessIsTrue' /\ SectorRight'
    BY <1>1, <2>1 DEF Inv, KeyInv, ModeInv, SuccessIsTrue, SectorRight, Promised
  <2>4. ChangeInv' /\ BootInv' /\ DoneInv'
    BY <1>1, <2>1 DEF Inv, ChangeInv, BootInv, DoneInv, Changing, Promised
  <2> QED BY <2>2, <2>3, <2>4 DEF Inv
<1>2. ASSUME Inv, PowerCut PROVE Inv'
  <2>0. TypeOK
    BY <1>2 DEF Inv
  <2>1. /\ UNCHANGED <<geo, cromwell_config, eepromOk, cmd>>
        /\ info' = NoDrive /\ pc' = "init" /\ booting' = TRUE /\ told' = Nothing
        /\ failed' = FALSE /\ queue' = <<>> /\ got' = Idle /\ data' = "none"
        /\ boots' = boots + 1 /\ boots < MaxBoots
    BY <1>2 DEF PowerCut, host
  <2>2. Locked(disk.user) \in BOOLEAN
        /\ (cromwell_config = "XROMWELL" /\ Locked(disk.user) => disk.user # Key)
    BY DEF Locked
  <2>3. disk' \in DiskType /\ disk'.user = disk.user /\ disk'.locked = Locked(disk.user)
    BY <1>2, <2>0, <2>2 DEF PowerCut, TypeOK, DiskType
  <2>4. info' \in InfoType /\ ~info'.exists /\ told' \in ToldType /\ ~told'.ok
        /\ got' \in [want : Nat, is : Int] /\ got'.is = got'.want
    BY <2>1 DEF NoDrive, Nothing, Idle, InfoType, ToldType
  <2>5. boots' \in 1 .. MaxBoots /\ queue' \in Seq(Nat)
    BY <2>0, <2>1, BlocksAssumption DEF TypeOK
  <2>6. TypeOK'
    BY <2>0, <2>1, <2>3, <2>4, <2>5 DEF TypeOK
  <2> QED BY <2>1, <2>2, <2>3, <2>4, <2>6 DEF Inv, ChangeInv, BootInv, DoneInv, KeyInv, ModeInv,
         ReadInv, Changing, SuccessIsTrue, SectorRight
<1>3. ASSUME Inv, UNCHANGED vars PROVE Inv'
  <2>1. UNCHANGED <<geo, cromwell_config, eepromOk, disk, info, pc, cmd, booting, told, queue, got,
                    data, failed, boots>>
    BY <1>3 DEF vars, host, sub, rd
  <2>2. TypeOK' /\ ReadInv'
    BY <1>3, <2>1 DEF Inv, TypeOK, ReadInv
  <2>3. KeyInv' /\ ModeInv' /\ SuccessIsTrue' /\ SectorRight'
    BY <1>3, <2>1 DEF Inv, KeyInv, ModeInv, SuccessIsTrue, SectorRight, Promised
  <2>4. ChangeInv' /\ BootInv' /\ DoneInv'
    BY <1>3, <2>1 DEF Inv, ChangeInv, BootInv, DoneInv, Changing, Promised
  <2> QED BY <2>2, <2>3, <2>4 DEF Inv
<1> QED BY <1>1, <1>2, <1>3

(* The invariant is inductive.                                             *)
LEMMA NextInv == Inv /\ [Next]_vars => Inv'
BY UserStep, MasterStep, IdentifyStep, ChangeStep, InitStep, MenuStep, ReadStep, DriveStep
   DEF Next, Program, Menu, Retry, Polls

(* Every state of every behaviour satisfies it.                            *)
THEOREM Invariance == Spec => []Inv
BY InitInv, NextInv, PTL DEF Spec

(* Success reported by DriveSecurityChange() is true, for every disk and   *)
(* whatever fails.                                                         *)
THEOREM SuccessAlwaysTrue == Spec => []SuccessIsTrue
<1>1. Inv => SuccessIsTrue
  BY DEF Inv
<1> QED BY <1>1, Invariance, PTL

(* A read without an error returns the sector asked for: the addressing is *)
(* exact for every geometry and block, and the mode is right whenever the  *)
(* drive is open.                                                          *)
THEOREM SectorAlwaysRight == Spec => []SectorRight
<1>1. Inv => SectorRight
  BY DEF Inv
<1> QED BY <1>1, Invariance, PTL

(* The console's own drive is open at the menu unless something failed.    *)
THEOREM AlwaysOpenAtMenu == Spec => []OpenAtMenu
<1>1. Inv => OpenAtMenu
  BY DEF Inv, KeyInv, BootInv, Changing, OpenAtMenu
<1> QED BY <1>1, Invariance, PTL

(* The console never gives a drive a password it cannot compute.           *)
THEOREM NoLockout == Spec => NeverLockedOut
<1>1. Inv /\ [Next]_vars => [disk.user \in {"none", Key} => disk'.user \in {"none", Key}]_vars
  <2> SUFFICES ASSUME Inv, Next PROVE disk.user \in {"none", Key} => disk'.user \in {"none", Key}
    BY DEF vars
  <2>0. disk \in DiskType /\ cmd \in Commands /\ (pc = "user" => eepromOk)
    BY DEF Inv, TypeOK, ChangeInv, Changing
  <2>1. CASE UserCommand
    <3>1. CASE Fails(Obeys)
      BY <2>0, <3>1, FailsKeeps
    <3>2. CASE Obeys /\ disk' = Changed
      <4>1. cmd' = cmd /\ eepromOk
        BY <2>0, <2>1 DEF UserCommand, UserCommandIf, Keeps
      <4> QED BY <2>0, <3>2, <4>1, ChangedDrive
    <3> QED BY <2>1, <3>1, <3>2 DEF UserCommand, UserCommandIf
  <2>2. CASE MasterCommand \/ Identify \/ ReadCommand
    <3>1. \/ \E o \in BOOLEAN : Fails(o)
          \/ disk' = [disk EXCEPT !.master = "XBOXLINUX", !.err = FALSE]
          \/ disk' = [disk EXCEPT !.err = FALSE]
      BY <2>0, <2>2 DEF MasterCommand, Identify, ReadCommand, ReadCommandOr, DiskType
    <3> QED BY <2>0, <3>1 DEF Fails, DiskType
  <2>3. CASE BootIdeDriveInit \/ PowerCut
    BY <2>0, <2>3 DEF BootIdeDriveInit, DriveInitWith, PowerCut, DiskType
  <2>4. CASE Probe \/ DriveSecurityChange \/ ReadData \/ SecurityMenu \/ Ask \/ Ready
    BY <2>4 DEF Probe, DriveSecurityChange, ReadData, SecurityMenu, SecurityMenuIf, Ask, Ready
  <2>5. CASE Retry \/ Polls
    BY <2>5 DEF Retry, Polls, vars
  <2> QED BY <2>1, <2>2, <2>3, <2>4, <2>5 DEF Next, Program, Menu
<1> QED BY <1>1, Invariance, PTL DEF Spec, NeverLockedOut
=============================================================================
