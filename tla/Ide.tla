-------------------------------- MODULE Ide ---------------------------------
(***************************************************************************)
(* The hard disk driver (drivers/ide/BootIde.c): BootIdeDriveInit(),       *)
(* DriveSecurityChange() as the boot and the Hdd menu use it, and          *)
(* BootIdeReadSector(), with one hard disk whose commands may fail, which  *)
(* may answer late, and whose power may go at any moment.                  *)
(*                                                                         *)
(* disk is the drive: its user and master passwords ("none": security is   *)
(* off), whether it is locked, and the error bit its last command left.    *)
(***************************************************************************)
EXTENDS Integers, Sequences

-----------------------------------------------------------------------------
(* How BootIdeReadSector() puts a block number into the registers of a     *)
(* drive, and which block the drive then reads.  A geometry g has g.lba    *)
(* (is it addressed by block?), g.heads and g.spt (sectors per track).     *)

Byte == 256
Heads == 16               \* a head is 4 bits
Cylinders == 65536
Byte3 == 16777216         \* 2^24
Lba28 == 268435456        \* 2^28

(* Deviation: a block beyond 28 bits goes out with the 28-bit command, as  *)
(* BootIdeWriteSector() does it.                                           *)
RegsShort(g, block) ==
    [ext |-> FALSE, lba |-> TRUE, sectorExt |-> (block \div Byte3) % Byte,
     sector |-> block % Byte, cylinder |-> (block \div Byte) % Cylinders,
     head |-> IF block < Lba28 THEN (block \div Byte3) % Heads ELSE 0]

(* The registers, each truncated to its width.                             *)
Regs(g, block) ==
    IF block >= Lba28
    THEN [ext |-> TRUE, lba |-> TRUE, sectorExt |-> (block \div Byte3) % Byte,
          sector |-> block % Byte, cylinder |-> (block \div Byte) % Cylinders, head |-> 0]
    ELSE IF g.lba
    THEN [ext |-> FALSE, lba |-> TRUE, sectorExt |-> 0,
          sector |-> block % Byte, cylinder |-> (block \div Byte) % Cylinders,
          head |-> (block \div Byte3) % Heads]
    ELSE LET track == block \div g.spt IN
         [ext |-> FALSE, lba |-> FALSE, sectorExt |-> 0,
          sector |-> (1 + (block % g.spt)) % Byte, cylinder |-> (track \div g.heads) % Cylinders,
          head |-> (track % g.heads) % Heads]

(* The block a drive of geometry g reads for registers r.                  *)
BlockRead(g, r) ==
    IF ~r.lba THEN (r.cylinder * g.heads + r.head) * g.spt + r.sector - 1
    ELSE (IF r.ext THEN r.sectorExt ELSE r.head) * Byte3 + r.cylinder * Byte + r.sector

-----------------------------------------------------------------------------
CONSTANTS Disks,       \* the geometries, with .sectors
          Blocks,      \* blocks the filesystems ask for
          MaxBoots

ASSUME DisksAssumption ==
    /\ Disks \subseteq [lba : BOOLEAN, heads : 1 .. Heads, spt : 1 .. (Byte - 1), sectors : Nat]
    /\ \A g \in Disks :
          /\ g.sectors > 3 /\ g.sectors \div 16 < Lba28     \* 32 bits
          /\ ~g.lba => g.sectors <= (Cylinders * g.heads) * g.spt /\ g.sectors <= Lba28
ASSUME BlocksAssumption == Blocks \subseteq Nat /\ MaxBoots \in Nat \ {0}

Key == "key"               \* what CalculateDrivePassword() computes here
Wild == "wild"             \* an uninitialised password buffer
Commands == {"set", "unlock", "disable"}

VARIABLES geo, disk,
          cromwell_config,     \* "CROMWELL", or "XROMWELL": started by the running Xbox
          eepromOk,            \* does CalculateDrivePassword() succeed?
          info,                \* tsaHarddiskInfo: exists, lba, and sec: word 128, bit 2
          pc, cmd, booting,    \* booting: BootIdeDriveInit() is on the stack
          told,                \* what the last DriveSecurityChange() returned
          queue, got, data,    \* blocks to read, result of the last read, data phase
          failed,              \* ghost: has the drive failed a command since power on?
          boots
host == <<cromwell_config, eepromOk, geo>>
sub  == <<cmd, booting, told>>
rd   == <<queue, got, data>>
vars == <<host, disk, info, pc, sub, rd, failed, boots>>

NoDrive == [exists |-> FALSE, lba |-> FALSE, sec |-> FALSE]
Nothing == [of |-> "none", ok |-> FALSE]
Idle == [want |-> 0, is |-> 0]

(* The lock of a drive as Cromwell or Xromwell finds it.                   *)
Locked(user) == IF cromwell_config = "XROMWELL" THEN user \notin {"none", Key} ELSE user # "none"

Init ==
    /\ geo \in Disks /\ cromwell_config \in {"CROMWELL", "XROMWELL"} /\ eepromOk \in BOOLEAN
    /\ \E u \in {"none", Key, "other"} :
          disk = [user |-> u, master |-> "factory", locked |-> Locked(u), err |-> FALSE]
    /\ info = NoDrive /\ pc = "init" /\ cmd = "set" /\ booting = TRUE /\ told = Nothing
    /\ queue = <<>> /\ got = Idle /\ data = "none" /\ failed = FALSE /\ boots = 1

-----------------------------------------------------------------------------
(* BootIdeDriveInit() up to the partitions: IDENTIFY, and UNLOCK for a     *)
(* drive that says it is locked.                                           *)
DriveInitWith(command) ==
    /\ pc = "init"
    /\ \/ /\ pc' = "menu" /\ booting' = FALSE /\ failed' = TRUE
          /\ UNCHANGED <<info, disk, cmd>>
       \/ /\ info' = [exists |-> TRUE, lba |-> FALSE, sec |-> disk.locked]
          /\ disk' = [disk EXCEPT !.err = FALSE]
          /\ IF disk.locked /\ cromwell_config = "CROMWELL"
             THEN IF eepromOk THEN pc' = "change" /\ cmd' = command /\ UNCHANGED booting
                              ELSE pc' = "menu" /\ booting' = FALSE /\ UNCHANGED cmd
             ELSE pc' = "probe" /\ UNCHANGED <<cmd, booting>>
          /\ UNCHANGED failed
    /\ UNCHANGED <<host, told, rd, boots>>

(* Deviation: the password is removed.                                     *)
DriveInitDisables == DriveInitWith("disable")

BootIdeDriveInit == DriveInitWith("unlock")

(* The rest of it: the addressing mode, then sectors 3 and 0.              *)
Probe ==
    /\ pc = "probe" /\ info' = [info EXCEPT !.lba = geo.lba]
    /\ queue' = <<3, 0>> /\ pc' = "read" /\ booting' = FALSE
    /\ UNCHANGED <<host, disk, cmd, told, got, data, failed, boots>>

-----------------------------------------------------------------------------
(* LockHdd() and UnlockHdd(), confirmed; the menu offers one of them by    *)
(* what IDENTIFY said.                                                     *)
SecurityMenuIf(computed) ==
    /\ pc = "menu" /\ info.exists /\ computed
    /\ cmd' = IF info.sec THEN "disable" ELSE "set"
    /\ pc' = "change" /\ told' = Nothing
    /\ UNCHANGED <<host, disk, info, booting, rd, failed, boots>>

(* Deviation: the password is not checked for having been computed.        *)
SecurityMenuUnchecked == SecurityMenuIf(TRUE)

SecurityMenu == SecurityMenuIf(eepromOk)

Password == IF eepromOk THEN Key ELSE Wild

(* DriveSecurityChange() returns.                                          *)
Return(ok) ==
    /\ told' = [of |-> cmd, ok |-> ok]
    /\ pc' = IF booting THEN "probe" ELSE "menu"

Keeps == UNCHANGED <<host, info, cmd, booting, rd, boots>>

(* "Not Ready": the error bit of the command before is still up.           *)
DriveSecurityChange ==
    /\ pc = "change"
    /\ IF disk.err THEN Return(FALSE)
       ELSE pc' = (IF cmd = "set" THEN "master" ELSE "user") /\ UNCHANGED told
    /\ Keeps /\ UNCHANGED <<disk, failed>>

(* A drive does what a security command asks, or refuses: set and disable  *)
(* need an unlocked drive, unlock and disable the user password.           *)
Obeys == CASE cmd = "set"     -> ~disk.locked
           [] cmd = "unlock"  -> Password = disk.user
           [] cmd = "disable" -> ~disk.locked /\ Password = disk.user
Changed == CASE cmd = "set"     -> [disk EXCEPT !.user = Password, !.err = FALSE]
             [] cmd = "unlock"  -> [disk EXCEPT !.locked = FALSE, !.err = FALSE]
             [] cmd = "disable" -> [disk EXCEPT !.user = "none", !.err = FALSE]

(* A drive may also fail without doing anything.                           *)
Fails(obeys) == disk' = [disk EXCEPT !.err = TRUE] /\ failed' = (failed \/ obeys)

(* The master password: not being taken is noticed for the command, but    *)
(* not for its data.                                                       *)
MasterCommand ==
    /\ pc = "master"
    /\ \/ Fails(~disk.locked) /\ Return(FALSE)
       \/ Fails(~disk.locked) /\ pc' = "user" /\ UNCHANGED told
       \/ /\ ~disk.locked /\ disk' = [disk EXCEPT !.master = "XBOXLINUX", !.err = FALSE]
          /\ pc' = "user" /\ UNCHANGED <<told, failed>>
    /\ Keeps

(* The command itself; WaitNotBusy() after the data reports an error.      *)
UserCommandIf(noticed) ==
    /\ pc = "user"
    /\ \/ Fails(Obeys) /\ Return(FALSE)
       \/ Fails(Obeys) /\ ~noticed /\ pc' = "identify" /\ UNCHANGED told
       \/ Obeys /\ disk' = Changed /\ pc' = "identify" /\ UNCHANGED <<told, failed>>
    /\ Keeps

(* Deviation: the result of the data phase is ignored here too.            *)
UserCommandIgnored == UserCommandIf(FALSE)

UserCommand == UserCommandIf(TRUE)

(* "check that we are unlocked": IDENTIFY again, whatever it says.         *)
Identify ==
    /\ pc = "identify"
    /\ \/ disk' = [disk EXCEPT !.err = FALSE] /\ Return(TRUE) /\ UNCHANGED failed
       \/ Fails(TRUE) /\ Return(FALSE)
    /\ Keeps

-----------------------------------------------------------------------------
(* A filesystem asks for a block.                                          *)
Ask ==
    /\ pc = "menu" /\ info.exists
    /\ \E b \in Blocks : b < geo.sectors /\ queue' = <<b>>
    /\ pc' = "read" /\ UNCHANGED <<host, disk, info, sub, got, data, failed, boots>>

(* The result of a read: what the next in the queue wants and what came.   *)
Done(is) ==
    /\ got' = [want |-> Head(queue), is |-> is] /\ queue' = Tail(queue)
    /\ pc' = IF Tail(queue) = <<>> THEN "menu" ELSE "read"

Address == BlockRead(geo, Regs([geo EXCEPT !.lba = info.lba], Head(queue)))

(* BootIdeReadSector(): a locked drive refuses the command; the data is    *)
(* there, comes later, or the drive reports an error with it.              *)
ReadCommandOr(reported) ==
    /\ pc = "read"
    /\ \/ /\ Fails(~disk.locked) /\ UNCHANGED data
          /\ IF reported THEN Done(-1) ELSE UNCHANGED <<queue, got, pc>>
       \/ /\ ~disk.locked /\ disk' = [disk EXCEPT !.err = FALSE]
          /\ data' \in {"ready", "late", "bad"} /\ failed' = (failed \/ data' = "bad")
          /\ pc' = "data" /\ UNCHANGED <<queue, got>>
    /\ UNCHANGED <<host, info, sub, boots>>

(* Deviation: a refused command is repeated as well.                       *)
ReadCommandBrutal == ReadCommandOr(FALSE)

ReadCommand == ReadCommandOr(TRUE)

(* BootIdeReadData(), called again until it succeeds: "we are brutal, we   *)
(* try again".                                                             *)
ReadData ==
    /\ pc = "data" /\ data = "ready" /\ Done(Address) /\ data' = "none"
    /\ UNCHANGED <<host, disk, info, sub, failed, boots>>

Retry == pc = "data" /\ data # "ready" /\ UNCHANGED vars
Polls == pc = "menu" /\ UNCHANGED vars

-----------------------------------------------------------------------------
(* The drive is late, not dead.                                            *)
Ready ==
    /\ data = "late" /\ data' = "ready"
    /\ UNCHANGED <<host, disk, info, pc, sub, queue, got, failed, boots>>

(* Power off and on, or a reset, which locks a drive that has a password.  *)
PowerCut ==
    /\ boots < MaxBoots /\ boots' = boots + 1
    /\ disk' = [disk EXCEPT !.locked = Locked(disk.user), !.err = FALSE]
    /\ info' = NoDrive /\ pc' = "init" /\ booting' = TRUE /\ told' = Nothing /\ failed' = FALSE
    /\ queue' = <<>> /\ got' = Idle /\ data' = "none"
    /\ UNCHANGED <<host, cmd>>

Program ==
    \/ BootIdeDriveInit \/ Probe \/ DriveSecurityChange \/ MasterCommand
    \/ UserCommand \/ Identify \/ ReadCommand \/ ReadData
Menu == SecurityMenu \/ Ask

Next == Program \/ Menu \/ Retry \/ Polls \/ Ready \/ PowerCut
Spec == Init /\ [][Next]_vars

(* The driver runs and a late drive answers.                               *)
FairSpec == Spec /\ WF_vars(Program) /\ WF_vars(Ready)

-----------------------------------------------------------------------------
DiskType == [user : {"none", Key, "other"}, master : {"factory", "XBOXLINUX"},
             locked : BOOLEAN, err : BOOLEAN]
InfoType == [exists : BOOLEAN, lba : BOOLEAN, sec : BOOLEAN]
ToldType == [of : Commands \cup {"none"}, ok : BOOLEAN]

TypeOK ==
    /\ geo \in Disks /\ cromwell_config \in {"CROMWELL", "XROMWELL"} /\ eepromOk \in BOOLEAN
    /\ disk \in DiskType /\ info \in InfoType /\ told \in ToldType
    /\ pc \in {"init", "change", "master", "user", "identify", "probe", "read", "data", "menu"}
    /\ cmd \in Commands /\ booting \in BOOLEAN
    /\ queue \in Seq(Nat) /\ got \in [want : Nat, is : Int]
    /\ data \in {"none", "ready", "late", "bad"}
    /\ failed \in BOOLEAN /\ boots \in 1 .. MaxBoots

(* When DriveSecurityChange() returns success, and until the next change   *)
(* or power cut, the drive is in the state the menu and the boot messages  *)
(* report: the password set, the drive open, the password removed.         *)
Promised(c) == CASE c = "set"     -> disk.user = Key
                 [] c = "unlock"  -> ~disk.locked
                 [] c = "disable" -> disk.user = "none"
SuccessIsTrue == told.ok => Promised(told.of)

(* Whatever fails and whenever the power goes, a drive this console can    *)
(* open never gets a password it cannot compute: LockHdd() gives up before *)
(* the command when the password could not be calculated.                  *)
NeverLockedOut == [][disk.user \in {"none", Key} => disk'.user \in {"none", Key}]_vars

(* A drive locked with this console's key is open when the menu comes up,  *)
(* unless the drive failed a command or the EEPROM is corrupt; only then   *)
(* may the filesystems find it locked.                                     *)
OpenAtMenu ==
    pc \in {"read", "data", "menu"} /\ disk.locked /\ disk.user = Key => failed \/ ~eepromOk

(* A read that reports success returns the sector that was asked for, in   *)
(* all three ways of addressing and however late the data is.              *)
SectorRight == got.is # -1 => got.is = got.want

(* The boot comes to the menu, unless the drive reports an error with the  *)
(* data of a sector: then BootIdeReadSector() tries for ever.              *)
BootReachesMenu == (pc = "init") ~> (pc = "menu" \/ data = "bad")
=============================================================================
