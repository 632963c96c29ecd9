-------------------------------- MODULE Boot --------------------------------
(***************************************************************************)
(* From the reset of the machine to an operating system: the ROM loader    *)
(* (BootRom) starts Cromwell, and Cromwell (BootFlow) the system.  An SMC  *)
(* that was not answered resets the machine in the middle of either.       *)
(***************************************************************************)
EXTENDS BootRom, BootFlow, Inflate

CONSTANTS
    Machines,      \* the machines: an image of Roms and disks of Boxes
    MaxNatives     \* the largest number of native partitions of a machine

vars == <<romvars, flowvars>>

Init == RomInit /\ FlowInit /\ <<rom, box>> \in Machines

\* The end of the ROM loader is the beginning of BootResetAction(), which reads
\* the configuration words that the loader left at 0x20.
Rom == RomStep /\ UNCHANGED flowvars
Reset == SmcReset /\ FlowReset
Flow == romstage = "started" /\ FlowNext /\ UNCHANGED romvars

Next == Rom \/ Reset \/ Flow

\* A phase is not left for ever once it has begun: the loader and Cromwell run
\* without waiting for anybody, the SMC resets what it did not hear from, and
\* the icon menu takes the icon preselected when its time is over.
Fairness ==
    /\ \A k \in 0..4 * TriesPerBank : []<>~(romstage = "load" /\ loadretry = k)
    /\ \A p \in {"reset", "check", "pic"} : []<>(romstage # p)
    /\ []<>~(pic = "wrong") /\ []<>~(romstage = "dead" /\ pic = "waiting" /\ rom.kind # "xbe")
    /\ \A s \in {"off", "fatx", "initrd", "exit"} : []<>~(romstage = "started" /\ stage = s)
    /\ \A n \in 1..MaxNatives + 1 : []<>~(stage = "native" /\ part = n)
    /\ []<>~(stage = "menu" /\ attempts = 0 /\ icons # << >>)
Spec == Init /\ [][Next]_vars /\ Fairness

------------------------------------------------------------------------------
(* The functions on bytes that BootRom takes as constants, with Digest and *)
(* decompress_kernel of Inflate: a cfg gives them these values.            *)

\* shax(): the hash of a section: its length and its bytes, in two inputs
SectionHash(bytes) == SHA1Result(SHA1Input(SHA1Input(SHA1Reset, Le32(Len(bytes))), bytes), << >>).digest

\* The answer to a challenge of the SMC
Byte(m) == m % 256
RECURSIVE Mix(_, _, _, _, _)
MixSecond(m, b1, b2, b3, b4) == Mix(m, b1, Byte(b2 + (b1 ^^ b4)), b3, b4)
Mix(m, b1, b2, b3, b4) == IF m = 0 THEN <<b1, b2>> ELSE MixSecond(m - 1, Byte(b1 + (b2 ^^ b3)), b2, b3, b4)
BootPicManipulation(c) ==
    Mix(4, 51, 237,
        (Byte(c[1] * 4) ^^ Byte(c[2] + 57)) ^^ ((c[3] \div 4) ^^ Byte(c[4] + 99)),
        (Byte(c[1] + 11) ^^ (c[2] \div 4)) ^^ Byte(c[3] + 27))

------------------------------------------------------------------------------
(* Properties *)

\* The configuration that counts on a volume
PlaceOf(v) == ConfigPlaces(v.dev)[ConfigPlace(v, "none")]
LinesOn(v) == Configs[v.files[PlaceOf(v).path]]
MeantOn(v, e) == Meant(LinesOn(v), e, PlaceOf(v).szPath)
BlocksAt(at, n) == [i \in 1..n |-> store[at + i - 1]]
HeaderOf(k) == Images[k].sects + 1
\* A file of a CD must be shorter than the room there is for it.
FitsOn(v, len, room) == len < room \/ (len = room /\ v.dev # "cd")
KernelFits(v, k) ==
    /\ Images[k].len - HeaderOf(k) \in 0..MAX_KERNEL_SIZE
    /\ v.dev # "fatx" => FitsOn(v, Images[k].len, MAX_KERNEL_SIZE)
InitrdFits(v, f) == FitsOn(v, Images[f].len, MAX_INITRD_SIZE)
LoaderFits(v, f) == v.dev = "cd" => FitsOn(v, Images[f].len, FREELDR_MAX_SIZE)
ConfigFits(v) == ~LongOn(v, PlaceOf(v).path)

AsMeant(v, e) ==
    LET k == v.files[e.kernel] IN
    IF Images[k].elf THEN KernelFits(v, k) => os.system = "elf" /\ os.image = BlocksOf(k)
    ELSE /\ os.system = "linux"
         /\ KernelFits(v, k) =>
               /\ BlocksAt(KERNEL_SETUP, HeaderOf(k)) = SubSeq(BlocksOf(k), 1, HeaderOf(k))
               /\ BlocksAt(KERNEL_PM_CODE, Images[k].len - HeaderOf(k)) = SubSeq(BlocksOf(k), HeaderOf(k) + 1, Images[k].len)
         /\ os.append = First(e.append, CmdLine - 1)
         /\ IF e.initrd = NoText THEN os.ramdisk.size = 0
            ELSE InitrdFits(v, v.files[e.initrd]) =>
                    BlocksAt(os.ramdisk.start, os.ramdisk.size) = BlocksOf(v.files[e.initrd])

\* The system that BootFromDevice() hands the machine to is what the author of
\* the configuration file meant by the entry chosen - kernel, initrd or none,
\* and command line - whatever earlier attempts, detections and resets left in
\* memory; unasked it is the default entry; ReactOS is told its own partition.
\* Files must fit: on a CD all of them, the configuration too, must be shorter
\* than the limit of the code, beyond which it takes what is in memory for the
\* size (read_file() of iso9660.c).
StartedAsConfigured ==
    stage = "gone" /\ clean =>
        IF cur.entry.bootSystem = "reactos"
        THEN LET f == cur.volume.files[cur.entry.szPath] IN
             Images[f].header # 0 =>
                 /\ LoaderFits(cur.volume, f) => os.image = BlocksOf(f)
                 /\ os.device = CASE cur.volume.dev = "native" -> <<128 + cur.volume.drive, cur.volume.partition, 255, 255>>
                                   [] cur.volume.dev = "fatx" -> <<128, 0, 255, 255>>
                                   [] OTHER -> <<224, 254, 255, 255>>
        ELSE WellFormed(LinesOn(cur.volume)) /\ ConfigFits(cur.volume) =>
                 /\ AsMeant(cur.volume, MeantOn(cur.volume, cur.e))
                 /\ cur.auto => cur.e = MeantDefault(LinesOn(cur.volume))

\* The volume whose icon is preselected, and whether its default can be booted
Candidates == SelectSeq(<<box.fatx>> \o SelectSeq(box.natives, LAMBDA v : v.active),
                        LAMBDA v : v # NoVolume /\ (ConfigPlace(v, "none") # 0 \/ LoaderPlace(v, "none") # 0))
SoundEntry(v, e) ==
    /\ e.kernel \in DOMAIN v.files /\ KernelFits(v, v.files[e.kernel])
    /\ e.initrd = NoText \/ (e.initrd \in DOMAIN v.files /\ Images[v.files[e.initrd]].len > 0)
SoundVolume(v) ==
    IF ConfigPlace(v, "none") # 0
    THEN WellFormed(LinesOn(v)) /\ SoundEntry(v, MeantOn(v, MeantDefault(LinesOn(v))))
    ELSE Images[v.files[LoaderPlaces(v.dev)[LoaderPlace(v, "none")]]].header # 0
Healthy == Candidates # << >> /\ SoundVolume(Candidates[Len(Candidates)])

\* A machine with an image that imagebld built, one good copy in a bank that the
\* loader looks at, starts Cromwell and is not reset any more, whatever reads
\* and transfers fail on the way; and left alone, with a sound default entry on
\* the disk preselected, it ends in that system: no path through the two
\* loaders, the detection and the menu stops short of it.
Bootable == Packed[rom.crom] # << >> /\ (IF rom.kind = "256" THEN 3 \notin rom.damaged ELSE ~({1, 2} \subseteq rom.damaged))
Untouched == iofaults = 0 /\ (cur = NoEntry \/ cur.auto)
MachineStarts ==
    <>[](Bootable => romstage = "started" /\ (Healthy /\ Untouched => stage = "gone"))
=============================================================================
