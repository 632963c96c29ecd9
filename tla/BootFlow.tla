------------------------------ MODULE BootFlow ------------------------------
(***************************************************************************)
(* Cromwell at work: BootResetAction() looks for systems on the disks      *)
(* (boot/BootFromDevice.c), an entry is chosen, and LoadLinux.c or         *)
(* LoadReactOS.c loads it and hands the machine over.  Memory is counted   *)
(* in blocks.  The files come from the modules that Files composes: here a *)
(* volume is a function from names to files, and an access may fail as     *)
(* those file systems fail, MaxIoFaults times.                             *)
(***************************************************************************)
EXTENDS Integers, Sequences, SequencesExt, FiniteSets

-----------------------------------------------------------------------------
(* The configuration file linuxboot.cfg: ParseConfig() of                  *)
(* lib/misc/BootParser.c and the lists that the detection of systems makes *)
(* of its result.  A text is a sequence of words and signs, a line a       *)
(* keyword that may have data behind white space.                          *)

CONSTANTS
    KeywordOf,   \* KeywordOf[w]: the keyword the first word of a line begins with, or "other"
    NoWords      \* the words that begin with "no"

NoText == << >>
EmptyEntry == [title |-> NoText, kernel |-> NoText, initrd |-> NoText, append |-> NoText,
               isDefault |-> FALSE, bootSystem |-> "linux", szPath |-> NoText]

\* What is behind the keyword of line n: without white space after it, the
\* text that follows in the buffer, which is all the lines that are still to be
\* split; behind the last line, whatever is in memory.
TextOf(line) == <<line.key>> \o (IF line.sep THEN <<" ">> \o line.data ELSE NoText)
RECURSIVE TextFrom(_, _, _)
TextFrom(lines, n, beyond) ==
    IF n > Len(lines) THEN beyond
    ELSE IF n = Len(lines) THEN TextOf(lines[n])
    ELSE TextOf(lines[n]) \o <<"\n">> \o TextFrom(lines, n + 1, beyond)
ParamData(lines, n, beyond) == IF lines[n].sep THEN lines[n].data ELSE TextFrom(lines, n + 1, beyond)

\* The same place in the buffer when all lines have been split
ParamDataLater(lines, n, beyond) ==
    IF lines[n].sep THEN lines[n].data ELSE IF n < Len(lines) THEN <<lines[n + 1].key>> ELSE beyond

chrreplace(text) == [i \in DOMAIN text |-> IF text[i] = "\\" THEN "/" ELSE text[i]]

\* The directory of the configuration is left out.
PlaceAtRoot(szPath, name) == IF name # NoText /\ Head(name) = "/" THEN name ELSE <<"/">> \o name

\* Names are relative to szPath, or to the root
Place(szPath, name) ==
    IF szPath # NoText THEN szPath \o <<"/">> \o name
    ELSE IF name # NoText /\ Head(name) = "/" THEN name
    ELSE <<"/">> \o name

\* strncpy() with the length of the source leaves the rest of the target alone
Overlaid(old, new) == new \o SubSeq(old, Len(new) + 1, Len(old))

ParseTitle(entries, data) ==
    IF entries[Len(entries)].title = NoText
    THEN [entries EXCEPT ![Len(entries)].title = data]
    ELSE Append(entries, [EmptyEntry EXCEPT !.title = data])

ParseLine(entries, keyword, data, szPath) ==
    LET last == Len(entries) IN
    CASE keyword = "title"  -> ParseTitle(entries, data)
      [] keyword = "kernel" -> [entries EXCEPT ![last].kernel = Place(szPath, chrreplace(data))]
      [] keyword = "initrd" -> IF data # NoText /\ Head(data) \in NoWords THEN entries
                               ELSE [entries EXCEPT ![last].initrd = Place(szPath, chrreplace(data))]
      [] keyword = "append" -> [entries EXCEPT ![last].append = Overlaid(@, data)]
      [] OTHER -> entries

RECURSIVE ParseLines(_, _, _, _, _)
ParseLines(lines, n, entries, szPath, beyond) ==
    IF n > Len(lines) THEN entries
    ELSE ParseLines(lines, n + 1,
             ParseLine(entries, KeywordOf[lines[n].key], ParamData(lines, n, beyond), szPath), szPath, beyond)

\* The search goes on behind the first entry that fits.
MarkLast(entries, text) ==
    [e \in DOMAIN entries |->
        [entries[e] EXCEPT !.isDefault = IsPrefix(text, entries[e].title)
                                /\ \A f \in e + 1..Len(entries) : ~IsPrefix(text, entries[f].title)]]

\* The first entry whose title begins with the text of the last "default"
MarkDefault(entries, text) ==
    LET found == {e \in DOMAIN entries : IsPrefix(text, entries[e].title)}
    IN  [e \in DOMAIN entries |->
            [entries[e] EXCEPT !.isDefault = e \in found /\ \A f \in found : e <= f]]
DefaultLines(lines) == {n \in DOMAIN lines : KeywordOf[lines[n].key] = "default"}
LastOf(S) == CHOOSE n \in S : \A k \in S : k <= n

ParseConfig(lines, szPath, beyond) ==
    LET entries == ParseLines(lines, 1, <<EmptyEntry>>, szPath, beyond)
    IN  IF DefaultLines(lines) = {} THEN entries
        ELSE MarkDefault(entries, ParamDataLater(lines, LastOf(DefaultLines(lines)), beyond))

------------------------------------------------------------------------------
(* The lists for the menus *)

FillConfigEntries(entries, device) == [e \in DOMAIN entries |-> entries[e] @@ [device |-> device]]

AddNestedConfigEntry(config, nested, title) == Append(config, [title |-> title, nested |-> nested])

\* DrawBootMenu() without anybody to ask: the only entry, the default, or the first
Unasked(list) ==
    LET marked == {e \in DOMAIN list : list[e].isDefault}
    IN  IF marked = {} THEN 1 ELSE CHOOSE e \in marked : \A f \in marked : e <= f

------------------------------------------------------------------------------
(* What the author of a file means: the lines up to the second title are   *)
(* the first entry, those from the n-th title on the n-th; the last line   *)
(* of each kind counts.                                                    *)

Kinds(lines, S, keyword) == {n \in S : KeywordOf[lines[n].key] = keyword}
Titles(lines) == Kinds(lines, DOMAIN lines, "title")
EntryOfLine(lines, n) ==
    LET before == Cardinality({t \in Titles(lines) : t <= n}) IN IF before = 0 THEN 1 ELSE before
LinesOf(lines, e) == {n \in DOMAIN lines : EntryOfLine(lines, n) = e}

\* Every line has data, entries have one title, one kernel and at most one append
WellFormed(lines) ==
    /\ Titles(lines) # {}
    /\ \A n \in DOMAIN lines : lines[n].sep /\ lines[n].data # NoText
    /\ \A e \in 1..Cardinality(Titles(lines)) :
          /\ Cardinality(Kinds(lines, LinesOf(lines, e), "kernel")) = 1
          /\ Cardinality(Kinds(lines, LinesOf(lines, e), "append")) <= 1

MeantData(lines, e, keyword) ==
    LET S == Kinds(lines, LinesOf(lines, e), keyword) IN IF S = {} THEN NoText ELSE lines[LastOf(S)].data
MeantFile(szPath, name) ==
    LET rooted == IF name # NoText /\ Head(name) \in {"/", "\\"} THEN Tail(name) ELSE name
    IN  szPath \o <<"/">> \o [i \in DOMAIN rooted |-> IF rooted[i] = "\\" THEN "/" ELSE rooted[i]]
MeantInitrd(lines, e) ==
    LET S == {n \in Kinds(lines, LinesOf(lines, e), "initrd") : Head(lines[n].data) \notin NoWords}
    IN  IF S = {} THEN NoText ELSE lines[LastOf(S)].data
Meant(lines, e, szPath) ==
    [title |-> MeantData(lines, e, "title"), kernel |-> MeantFile(szPath, MeantData(lines, e, "kernel")),
     initrd |-> IF MeantInitrd(lines, e) = NoText THEN NoText ELSE MeantFile(szPath, MeantInitrd(lines, e)),
     append |-> MeantData(lines, e, "append")]
MeantDefault(lines) ==
    LET all == {n \in DOMAIN lines : KeywordOf[lines[n].key] = "default"}
        S == IF all = {} THEN {} ELSE
             {e \in 1..Cardinality(Titles(lines)) : IsPrefix(lines[LastOf(all)].data, MeantData(lines, e, "title"))}
    IN  IF S = {} THEN 1 ELSE CHOOSE e \in S : \A f \in S : e <= f

-----------------------------------------------------------------------------

CONSTANTS
    Boxes,          \* the machines: [fatx, natives, cd], volumes or NoVolume
    Configs,        \* Configs[f]: the lines of the configuration file f
    LongConfigs,    \* those of 0x800 bytes and more, but less than 64 KB
    Images,         \* Images[f]: [len, sects, elf, header], a file by its blocks
    KERNEL_HDR_SIZE,
    SetupRoom,      \* blocks from KERNEL_SETUP to GDT_LOC
    MAX_KERNEL_SIZE, MAX_INITRD_SIZE, FREELDR_MAX_SIZE,
    CmdLine,        \* 512: the words of a command line
    Systems,        \* sizes of RAM, in MB
    Words,          \* the numbers that may be in memory, as sizes in blocks
    MaxIoFaults, MaxAttempts

ASSUME AreasAssumption ==
    {KERNEL_HDR_SIZE, SetupRoom, MAX_KERNEL_SIZE, MAX_INITRD_SIZE, FREELDR_MAX_SIZE, CmdLine, MaxAttempts} \subseteq Nat \ {0}

VARIABLES
    box,            \* the machine
    stage,          \* off, fatx, native, menu, initrd, exit, gone, wild (lost control)
    part,           \* the native partition looked at next
    icons,          \* the lists found: [entries, volume, clean]
    store,              \* memory, by blocks
    dwInitrdSize,
    cur,            \* the entry being booted: [icon, list, e, entry, auto]
    os,             \* what was handed over
    iofaults, attempts,
    clean           \* no access failed in the current attempt
flowvars == <<box, stage, part, icons, store, dwInitrdSize, cur, os, iofaults, attempts, clean>>

------------------------------------------------------------------------------
(* Memory *)

FREELDR_LOAD_AREA == 1
KERNEL_SETUP == FREELDR_LOAD_AREA + FREELDR_MAX_SIZE
GDT_LOC == KERNEL_SETUP + SetupRoom
KERNEL_PM_CODE == GDT_LOC + 1
INITRD_START == KERNEL_PM_CODE + MAX_KERNEL_SIZE
MEMORYMANAGERSTART == INITRD_START + MAX_INITRD_SIZE
Zero == <<"0", 0>>
Garbage == <<"?", 0>>
First(s, n) == SubSeq(s, 1, IF n < Len(s) THEN n ELSE Len(s))
BlocksOf(f) == [i \in 1..Images[f].len |-> <<f, i>>]

Cleared(mm, at, n) == [a \in DOMAIN mm |-> IF a \in at..at + n - 1 THEN Zero ELSE mm[a]]
Stored(mm, at, blocks) == [a \in DOMAIN mm |-> IF a \in at..at + Len(blocks) - 1 THEN blocks[a - at + 1] ELSE mm[a]]
memcpy(mm, to, from, n) == [a \in DOMAIN mm |-> IF a \in to..to + n - 1 THEN mm[from + (a - to)] ELSE mm[a]]

------------------------------------------------------------------------------
(* Files: what an access to a volume gives, fault by fault.  GRUB reports  *)
(* a read that fails and FATX and the CD do not; a directory that cannot   *)
(* be read is an entry that is not there.                                  *)

NoVolume == [dev |-> "none"]
Holds(v, path) == v # NoVolume /\ path \in DOMAIN v.files
IoFaults == {"none", "missing", "garbage", "short", "noloader"}
CanFail(v, fault) == fault = "short" => v.dev = "native"
Spoilt(blocks) == [i \in DOMAIN blocks |-> IF i = 1 THEN Garbage ELSE blocks[i]]
Seen(v, path, fault) == Holds(v, path) /\ fault # "missing"
Content(v, path, fault) ==
    CASE fault = "short" -> << >>
      [] fault = "garbage" -> Spoilt(BlocksOf(v.files[path]))
      [] OTHER -> BlocksOf(v.files[path])

\* What a read from a CD may return and store (CromwellFs): of a file that is not
\* shorter than the caller's limit the word at the address of the limit is taken
\* for the size.  A size of 0 stores one block, a negative one nothing.
CdRead(blocks, word) ==
    [n |-> word, blocks |-> [i \in 1..(IF word = 0 THEN 1 ELSE word) |->
                                IF i \in DOMAIN blocks THEN blocks[i] ELSE Garbage]]
CdReads(blocks, limit, words) ==
    IF Len(blocks) < limit THEN {[n |-> Len(blocks), blocks |-> blocks]} ELSE {CdRead(blocks, w) : w \in words}

\* What runs over Cromwell, or over the descriptors below it
RunsOver(at, n) == IF at = INITRD_START THEN n > MAX_INITRD_SIZE ELSE at + n > GDT_LOC

\* An access of the current attempt that may fail
Access(v, fault) ==
    /\ CanFail(v, fault)
    /\ fault # "none" => iofaults < MaxIoFaults
    /\ iofaults' = iofaults + (IF fault = "none" THEN 0 ELSE 1)

------------------------------------------------------------------------------
(* Detection *)

LeastOf(S) == CHOOSE n \in S : \A k \in S : n <= k

Path(s) == <<"/", s>>
In(d, s) == <<"/", d, "/", s>>

\* The configuration of a volume: the places looked at, the path its names get
ConfigFile(path, szPath) == [path |-> path, szPath |-> szPath]
DetectLinuxNative == <<ConfigFile(In("boot", "linuxboot.cfg"), NoText), ConfigFile(Path("linuxboot.cfg"), NoText)>>
DetectLinuxFATX == <<ConfigFile(Path("linuxboot.cfg"), NoText), ConfigFile(In("debian", "linuxboot.cfg"), Path("debian"))>>
DetectLinuxCD == <<ConfigFile(Path("linuxboo.cfg"), NoText), ConfigFile(Path("linuxboot.cfg"), NoText)>>
ConfigPlaces(dev) == CASE dev = "native" -> DetectLinuxNative [] dev = "fatx" -> DetectLinuxFATX [] OTHER -> DetectLinuxCD

\* The first of some names that is there, or the next if that one is not seen
FirstSeen(v, names, unseen) ==
    LET there == {n \in DOMAIN names : Holds(v, names[n])}
        seen == IF unseen /\ there # {} THEN there \ {LeastOf(there)} ELSE there
    IN  IF seen = {} THEN 0 ELSE LeastOf(seen)
ConfigPlace(v, fault) == FirstSeen(v, [n \in 1..2 |-> ConfigPlaces(v.dev)[n].path], fault = "missing")

Device(v) == IF v.dev = "native" THEN [type |-> "native", drive |-> v.drive, partition |-> v.partition]
             ELSE IF v.dev = "cd" THEN [type |-> "cd", drive |-> v.drive, partition |-> 0]
             ELSE [type |-> "fatx", drive |-> 0, partition |-> 0]

\* On a CD a long file is read as CdRead() says, with the word at 0x800, here the
\* lines of it.
LongOn(v, path) == v.dev = "cd" /\ v.files[path] \in LongConfigs
LinesRead(v, path, word) == First(Configs[v.files[path]], word)

\* An unreadable file
\* is parsed as it is read.  beyond: what is in memory behind the text.
Beyond == {NoText, <<"?">>}
Parsed == [f \in DOMAIN Configs |-> [szPath \in {NoText, Path("debian")} |-> [beyond \in Beyond |->
              ParseConfig(Configs[f], szPath, beyond)]]]
ParsedPlace(v, place, fault, beyond, word) ==
    IF fault \in {"garbage", "short"} THEN <<EmptyEntry>>
    ELSE IF LongOn(v, place.path) THEN ParseConfig(LinesRead(v, place.path, word), place.szPath, beyond)
    ELSE Parsed[v.files[place.path]][place.szPath][beyond]
DetectLinux(v, fault, beyond, word) ==
    IF v = NoVolume THEN << >>
    ELSE IF ConfigPlace(v, fault) = 0 THEN << >>
    ELSE FillConfigEntries(ParsedPlace(v, ConfigPlaces(v.dev)[ConfigPlace(v, fault)], fault, beyond, word), Device(v))

\* The loader of ReactOS: where it may be
DetectReactOSNative == <<Path("freeldr.sys")>>
DetectReactOSFATX == <<Path("freeldr.sys")>>
DetectReactOSCD == <<In("loader", "freeldr.sys"), In("loader", "setupldr.sys")>>
LoaderPlaces(dev) == CASE dev = "native" -> DetectReactOSNative [] dev = "fatx" -> DetectReactOSFATX [] OTHER -> DetectReactOSCD
LoaderPlace(v, fault) == FirstSeen(v, LoaderPlaces(v.dev), fault = "noloader")
ReactOSEntry(v, n) ==
    [EmptyEntry EXCEPT !.bootSystem = "reactos", !.title = <<"ReactOS">>, !.szPath = LoaderPlaces(v.dev)[n]]
DetectReactOS(v, fault) ==
    IF v = NoVolume THEN << >>
    ELSE IF LoaderPlace(v, fault) = 0 THEN << >>
    ELSE FillConfigEntries(<<ReactOSEntry(v, LoaderPlace(v, fault))>>, Device(v))

WithLinux(linux) == IF linux = << >> THEN << >> ELSE AddNestedConfigEntry(<< >>, linux, "Linux")
DetectSystem(v, fault, beyond, word) ==
    LET linux == WithLinux(DetectLinux(v, fault, beyond, word)) IN
    IF DetectReactOS(v, fault) = << >> THEN linux
    ELSE AddNestedConfigEntry(linux, DetectReactOS(v, fault), "ReactOS")

\* Looking for a configuration uses the memory of the kernel's parameters.
AfterDetect(v, mm) == IF v.dev = "fatx" THEN mm ELSE Cleared(mm, KERNEL_SETUP, KERNEL_HDR_SIZE)

Icon(v, fault, list) == [volume |-> v, list |-> list, clean |-> fault = "none"]
WithIcon(v, fault, list) == IF list = << >> THEN icons ELSE Append(icons, Icon(v, fault, list))
Detected(v, fault, beyond) ==
    /\ Access(v, fault)
    /\ icons' = WithIcon(v, fault, DetectSystem(v, fault, beyond, 0))
    /\ store' = AfterDetect(v, store)

\* BootResetAction() up to IconMenuInit()
BootResetAction ==
    /\ stage = "off"
    /\ stage' = "fatx" /\ part' = 1 /\ icons' = << >> /\ dwInitrdSize' = 0 /\ attempts' = 0
    /\ UNCHANGED <<box, store, cur, os, iofaults, clean>>

DetectSystemFatX ==
    /\ stage = "fatx"
    /\ stage' = "native"
    /\ IF box.fatx = NoVolume THEN UNCHANGED <<icons, store, iofaults>>
       ELSE \E fault \in IoFaults, beyond \in Beyond : Detected(box.fatx, fault, beyond)
    /\ UNCHANGED <<box, part, dwInitrdSize, cur, os, attempts, clean>>

\* InitNativeIcons(): the partitions that are marked active
DetectSystemNative ==
    /\ stage = "native" /\ part <= Len(box.natives)
    /\ part' = part + 1
    /\ IF ~box.natives[part].active THEN UNCHANGED <<icons, store, iofaults>>
       ELSE \E fault \in IoFaults, beyond \in Beyond : Detected(box.natives[part], fault, beyond)
    /\ UNCHANGED <<box, stage, dwInitrdSize, cur, os, attempts, clean>>

EnterMenu ==
    /\ stage = "native" /\ part > Len(box.natives)
    /\ stage' = "menu"
    /\ UNCHANGED <<box, part, icons, store, dwInitrdSize, cur, os, iofaults, attempts, clean>>

------------------------------------------------------------------------------
(* Loading *)

Return == stage' = "menu" /\ UNCHANGED <<os, dwInitrdSize>>

\* The kernel is staged where the initrd will be; its first block says how many
\* blocks of parameters and real mode code it has.
SectsOf(block) == IF block[1] \in DOMAIN Images /\ block[2] = 1 THEN Images[block[1]].sects ELSE 0
IsElf(block) == block[1] \in DOMAIN Images /\ block[2] = 1 /\ Images[block[1]].elf
Placed(mm, nSizeHeader, kernelSize) ==
    memcpy(memcpy(mm, KERNEL_SETUP, INITRD_START, nSizeHeader),
           KERNEL_PM_CODE, INITRD_START + nSizeHeader, kernelSize - nSizeHeader)

\* An ELF kernel is started at once, from the blocks that were loaded (as in Etherboot);
\* a size below that of the header makes the second copy run through all memory.
memPlaceKernel(mm, kernelSize, next) ==
    IF kernelSize < SectsOf(mm[INITRD_START]) + 1 \/ SectsOf(mm[INITRD_START]) + 1 > SetupRoom
    THEN stage' = "wild" /\ store' = mm /\ UNCHANGED os
    ELSE /\ store' = Placed(mm, SectsOf(mm[INITRD_START]) + 1, kernelSize)
         /\ IF IsElf(mm[INITRD_START])
            THEN stage' = "gone" /\ os' = [system |-> "elf", image |-> SubSeq(mm, INITRD_START, INITRD_START + kernelSize - 1)]
            ELSE stage' = next /\ UNCHANGED os

\* The first half of LoadLinuxNative(), LoadLinuxFATX() and LoadLinuxCD().  GRUB
\* reads as much as there is room for; FATX has no limit.
KernelRead(mm, blocks) == memPlaceKernel(Stored(mm, INITRD_START, blocks), Len(blocks), "initrd")
Overflows(blocks) == RunsOver(INITRD_START, Len(blocks))
Lost == stage' = "wild" /\ UNCHANGED <<store, os>>
NativeKernel(v, name, fault, mm) == KernelRead(mm, First(Content(v, name, fault), MAX_KERNEL_SIZE))
FatxKernel(v, name, fault, mm) == IF Overflows(Content(v, name, fault)) THEN Lost ELSE KernelRead(mm, Content(v, name, fault))
CdKernel(v, name, fault, mm) ==
    \E r \in CdReads(Content(v, name, fault), MAX_KERNEL_SIZE, Words) :
        IF r.n < 0 THEN store' = mm /\ Return
        ELSE IF Overflows(r.blocks) THEN Lost
        ELSE memPlaceKernel(Stored(mm, INITRD_START, r.blocks), r.n, "initrd")
LoadKernel(v, name, fault, mm) ==
    IF ~Seen(v, name, fault) THEN store' = mm /\ Return
    ELSE /\ CASE v.dev = "native" -> NativeKernel(v, name, fault, mm)
              [] v.dev = "fatx" -> FatxKernel(v, name, fault, mm)
              [] OTHER -> CdKernel(v, name, fault, mm)
         /\ UNCHANGED dwInitrdSize

\* The header of a multiboot image in the first blocks of an area
HeaderIn(block) == block[1] \in DOMAIN Images /\ Images[block[1]].header = block[2] /\ block[2] # 0
CheckMultibootHeader(mm) ==
    LET at == {a \in FREELDR_LOAD_AREA..FREELDR_LOAD_AREA + FREELDR_MAX_SIZE - 1 : HeaderIn(mm[a])}
    IN  IF at = {} THEN 0 ELSE LeastOf(at)

LoaderRead(area, blocks) ==
    /\ store' = Stored(area, FREELDR_LOAD_AREA, blocks)
    /\ stage' = IF CheckMultibootHeader(Stored(area, FREELDR_LOAD_AREA, blocks)) = 0 THEN "menu" ELSE "exit"
    /\ UNCHANGED <<os, dwInitrdSize>>
LoadReactOSNative(v, name, fault, mm) == LoaderRead(mm, Content(v, name, fault))
LoadReactOSFATX(v, name, fault, mm) == LoaderRead(mm, Content(v, name, fault))
\* The word at the limit is in the area, which is zero.
LoadReactOSCD(v, name, fault, mm) ==
    \E r \in CdReads(Content(v, name, fault), FREELDR_MAX_SIZE, {0}) :
        LoaderRead(Cleared(mm, FREELDR_LOAD_AREA, FREELDR_MAX_SIZE), r.blocks)
LoadReactOS(v, name, fault, mm) ==
    IF ~Seen(v, name, fault) THEN store' = mm /\ Return
    ELSE CASE v.dev = "native" -> LoadReactOSNative(v, name, fault, mm)
           [] v.dev = "fatx" -> LoadReactOSFATX(v, name, fault, mm)
           [] OTHER -> LoadReactOSCD(v, name, fault, mm)

\* BootFromDevice() up to the exit: BootFromNative(), BootFromFatX(), BootFromCD()
BootFrom(v, entry, fault, mm) ==
    IF entry.bootSystem = "linux"
    THEN LoadKernel(v, entry.kernel, fault, Cleared(mm, KERNEL_SETUP, KERNEL_HDR_SIZE))
    ELSE LoadReactOS(v, entry.szPath, fault, mm)
BootFromDevice(v, choice, fault, mm) ==
    /\ Access(v, fault)
    /\ cur' = choice /\ attempts' = attempts + 1
    /\ clean' = (choice.clean /\ fault = "none")
    /\ BootFrom(v, choice.entry, fault, mm)
    /\ UNCHANGED <<box, part, icons>>

Choice(icon, l, e, auto) ==
    [volume |-> icon.volume, clean |-> icon.clean, system |-> icon.list[l].title, e |-> e,
     entry |-> icon.list[l].nested[e], auto |-> auto]
FileFaults == IoFaults \ {"noloader"}
CanBoot == stage = "menu" /\ attempts < MaxAttempts

\* The timeout takes the icon preselected, and nobody is asked
TimedOut ==
    /\ CanBoot /\ attempts = 0 /\ icons # << >>
    /\ \E fault \in FileFaults :
          BootFromDevice(icons[Len(icons)].volume,
              Choice(icons[Len(icons)], 1, Unasked(icons[Len(icons)].list[1].nested), TRUE), fault, store)

Chosen ==
    /\ CanBoot
    /\ \E i \in DOMAIN icons : \E l \in DOMAIN icons[i].list : \E e \in DOMAIN icons[i].list[l].nested :
          \E fault \in FileFaults : BootFromDevice(icons[i].volume, Choice(icons[i], l, e, FALSE), fault, store)

\* The detection on a CD reads the files into memory, with the words c and w at
\* the limits of either: one of which nothing is returned is passed over.
Names(paths) == {paths[n] : n \in DOMAIN paths}
LongConfigsOn(v) == {path \in {DetectLinuxCD[n].path : n \in 1..2} \cap DOMAIN v.files : LongOn(v, path)}
LongLoadersOn(v) == {path \in Names(DetectReactOSCD) \cap DOMAIN v.files : Images[v.files[path]].len >= FREELDR_MAX_SIZE}
Returned(v, c, w) ==
    LET refused == (IF c <= 0 THEN LongConfigsOn(v) ELSE {}) \cup (IF w <= 0 THEN LongLoadersOn(v) ELSE {})
    IN  [v EXCEPT !.files = [path \in DOMAIN v.files \ refused |-> v.files[path]]]
LoaderLeft(v, n, w, mm) ==
    LET path == DetectReactOSCD[n] IN
    IF ~Holds(v, path) THEN mm
    ELSE LET r == CHOOSE r \in CdReads(BlocksOf(v.files[path]), FREELDR_MAX_SIZE, {w}) : TRUE
         IN  Stored(mm, FREELDR_LOAD_AREA, r.blocks)
AfterDetectCD(v, first, w, mm) ==
    LET one == LoaderLeft(v, 1, w, AfterDetect(v, mm)) IN IF first THEN one ELSE LoaderLeft(v, 2, w, one)
LostOnCD(v, config, loader, c, w) ==
    \/ config # 0 /\ DetectLinuxCD[config].path \in LongConfigsOn(v) /\ RunsOver(KERNEL_SETUP, c)
    \/ loader # 0 /\ DetectReactOSCD[loader] \in LongLoadersOn(v) /\ RunsOver(FREELDR_LOAD_AREA, w)
ConfigWords(v) == IF LongConfigsOn(v) = {} THEN {0} ELSE Words
LoaderWords(v) == IF LongLoadersOn(v) = {} \/ store[FREELDR_LOAD_AREA + FREELDR_MAX_SIZE - 1] = Zero THEN {0} ELSE Words

\* The CD is looked at when its icon is chosen; without a system on it the user
\* gives up (TrayBoot) and is back in the menu.
ChosenOnCD(icon, mm) ==
    \E l \in DOMAIN icon.list : \E e \in DOMAIN icon.list[l].nested : \E fault \in FileFaults :
        BootFromDevice(icon.volume, Choice(icon, l, e, FALSE), fault, mm)
NothingOnCD == /\ cur' = [auto |-> FALSE, volume |-> box.cd] /\ attempts' = attempts + 1
               /\ UNCHANGED <<box, part, icons, dwInitrdSize, iofaults, clean>>
PrepareBootFromCD ==
    /\ CanBoot /\ box.cd # NoVolume
    /\ \E c \in ConfigWords(box.cd), w \in LoaderWords(box.cd) :
          LET v == Returned(box.cd, c, w)
              config == ConfigPlace(v, "none")
              loader == LoaderPlace(v, "none")
              mm == AfterDetectCD(box.cd, loader = 1, w, store)
              list == DetectSystem(v, "none", NoText, c)
          IN  IF LostOnCD(v, config, loader, c, w)
              THEN Lost /\ NothingOnCD
              ELSE IF list = << >>
              THEN store' = mm /\ UNCHANGED <<stage, os>> /\ NothingOnCD
              ELSE ChosenOnCD(Icon(box.cd, "none", list), mm)

\* The initrd of a Linux entry, to where the kernel was staged
InitrdRead(blocks) == store' = Stored(store, INITRD_START, blocks) /\ dwInitrdSize' = Len(blocks) /\ stage' = "exit"
NoInitrd == stage' = "menu" /\ UNCHANGED <<store, dwInitrdSize>>
LostInitrd == stage' = "wild" /\ UNCHANGED <<store, dwInitrdSize>>
NativeInitrd(v, name, fault) ==
    IF BlocksOf(v.files[name]) = << >> THEN NoInitrd ELSE InitrdRead(First(Content(v, name, fault), MAX_INITRD_SIZE))
FatxInitrd(v, name, fault) == IF Overflows(Content(v, name, fault)) THEN LostInitrd ELSE InitrdRead(Content(v, name, fault))
CdInitrd(v, name, fault) ==
    \E r \in CdReads(Content(v, name, fault), MAX_INITRD_SIZE, Words) :
        IF r.n < 0 THEN NoInitrd
        ELSE IF Overflows(r.blocks) THEN LostInitrd
        ELSE store' = Stored(store, INITRD_START, r.blocks) /\ dwInitrdSize' = r.n /\ stage' = "exit"
InitrdFrom(v, name, fault) ==
    /\ Access(v, fault)
    /\ clean' = (clean /\ fault = "none")
    /\ IF ~Seen(v, name, fault) THEN NoInitrd
       ELSE CASE v.dev = "native" -> NativeInitrd(v, name, fault)
              [] v.dev = "fatx" -> FatxInitrd(v, name, fault)
              [] OTHER -> CdInitrd(v, name, fault)
LoadInitrd ==
    /\ stage = "initrd"
    /\ IF cur.entry.initrd = NoText
       THEN dwInitrdSize' = 0 /\ stage' = "exit" /\ UNCHANGED <<store, iofaults, clean>>
       ELSE \E fault \in FileFaults : InitrdFrom(cur.volume, cur.entry.initrd, fault)
    /\ UNCHANGED <<box, part, icons, cur, os, attempts>>

------------------------------------------------------------------------------
(* Handing over *)

\* setup(): the parameters.  Sizes are in KB.
FB_SIZE == 4096
Range820(addr, size, type) == [addr |-> addr, size |-> size, type |-> type]
setup(initrdSize, append, xbox_ram) ==
    [append |-> First(append, CmdLine - 1),
     ramdisk |-> IF initrdSize = 0 THEN [start |-> 0, size |-> 0] ELSE [start |-> INITRD_START, size |-> initrdSize],
     e820 |-> <<Range820(0, 636, "ram"), Range820(636, 388, "reserved"),
                Range820(1024, (xbox_ram - 1) * 1024 - FB_SIZE, "ram"),
                Range820(xbox_ram * 1024 - FB_SIZE, FB_SIZE, "reserved")>>]

\* ExittoLinux(), startLinux()
startLinux(xbox_ram) ==
    /\ stage' = "gone"
    /\ os' = [system |-> "linux", ram |-> xbox_ram] @@ setup(dwInitrdSize, cur.entry.append, xbox_ram)
    /\ UNCHANGED store

GetMultibootBootDevice(drive, partition) == <<drive, partition, 255, 255>>
BootDevice(d) == IF d.type = "cd" THEN GetMultibootBootDevice(224, 254)
                 ELSE GetMultibootBootDevice(128 + d.drive, d.partition)

\* startReactOS(): the image that the header found is in goes to its place
MemoryMap(xbox_ram) ==
    <<Range820(0, xbox_ram * 1024 - FB_SIZE, "ram"),
      Range820((IF xbox_ram > 64 THEN 64 ELSE xbox_ram) * 1024 - FB_SIZE, FB_SIZE, "reserved")>>
    \o IF xbox_ram > 64 THEN <<Range820(65536, (xbox_ram - 64) * 1024, "ram")>> ELSE << >>
startReactOS(at, xbox_ram) ==
    LET f == store[at][1]
        from == at - Images[f].header + 1
    IN  os' = [system |-> "reactos", image |-> [i \in 1..Images[f].len |-> IF from + i - 1 \in DOMAIN store THEN store[from + i - 1] ELSE Garbage],
               device |-> BootDevice(cur.entry.device), mmap |-> MemoryMap(xbox_ram), ram |-> xbox_ram]

\* ExittoReactOS() looks for the header once more
Exit ==
    /\ stage = "exit"
    /\ \E xbox_ram \in Systems :
          IF cur.entry.bootSystem = "linux" THEN startLinux(xbox_ram)
          ELSE IF CheckMultibootHeader(store) = 0 THEN stage' = "menu" /\ UNCHANGED <<os, store>>
          ELSE stage' = "gone" /\ startReactOS(CheckMultibootHeader(store), xbox_ram) /\ UNCHANGED store
    /\ UNCHANGED <<box, part, icons, dwInitrdSize, cur, iofaults, attempts, clean>>

NoEntry == [auto |-> FALSE]
NoSystem == [system |-> "none"]
\* A reset leaves the memory as it is
FlowReset == /\ stage' = "off" /\ part' = 1 /\ icons' = << >> /\ dwInitrdSize' = 0 /\ cur' = NoEntry /\ os' = NoSystem
             /\ attempts' = 0 /\ clean' = TRUE
             /\ UNCHANGED <<box, store, iofaults>>
FlowInit ==
    /\ box \in Boxes
    /\ stage = "off" /\ part = 1 /\ icons = << >> /\ dwInitrdSize = 0 /\ cur = NoEntry /\ os = NoSystem
    /\ store = [a \in 1..MEMORYMANAGERSTART - 1 |-> Garbage]
    /\ iofaults = 0 /\ attempts = 0 /\ clean = TRUE
FlowNext ==
    \/ BootResetAction \/ DetectSystemFatX \/ DetectSystemNative \/ EnterMenu
    \/ TimedOut \/ Chosen \/ PrepareBootFromCD \/ LoadInitrd \/ Exit
==============================================================================
