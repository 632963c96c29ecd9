------------------------------ MODULE BootRom ------------------------------
(***************************************************************************)
(* boot_rom: the loader in the flash (2bl).  It is copied to RAM, checks   *)
(* its own hash, answers the SMC's challenge, looks for a Cromwell whose   *)
(* hash is right in the banks of the flash and starts it.  The image in    *)
(* the flash is one that imagebld made, below; reads of the flash and      *)
(* transfers on the SMBus may fail, MaxRomFaults times, and a bank may be  *)
(* damaged for good.  An SMC that was not answered resets the machine.     *)
(* An XBE is started by the console's own kernel instead (boot_xbe).       *)
(* The functions on bytes are constants, which Boot gives their values:    *)
(* what holds of the loader holds for every hash that tells the sections   *)
(* apart and every decompressor that gives back what was packed.           *)
(***************************************************************************)
EXTENDS Integers, Sequences

CONSTANTS BankSize,    \* 256*1024: the size of a bank, and of the small image
          TopSize,     \* 512: the bytes at the top that hold the jump and the GDT
          SpaceSize,   \* 0x100: the space left after the loader
          Loader,      \* the bytes of the loader's file, shorter than a bank
          Hash(_),     \* SHA-1 of a sequence of bytes
          shax(_),     \* ... with its length in front, as xberepair computes it
          Unpack(_),   \* decompress_kernel(): [res, out], res = "ok" if it returns
          PicAnswer(_) \* BootPicManipulation(): the answer to a challenge

CONSTANTS
    Croms,       \* names of compressed images
    File,        \* File[c]: the bytes of image c
    Packed,      \* Packed[c]: what was compressed; empty when c is damaged
    Roms,        \* the machines: image, kind ("256", "1024", "xbe"), damaged banks
    Stub,        \* the bytes of the XBE before Cromwell
    TriesPerBank,\* 25: load attempts before the next bank is looked at
    MaxRomFaults,\* how many reads and transfers may fail
    ReadFaults,  \* the places in a copy, from 1 on, where a read may fail
    Damage,      \* the place of the wrong byte in the image of a damaged bank
    Challenges,  \* the challenges the SMC may ask
    Expected     \* Expected[c]: the answer the SMC waits for

-----------------------------------------------------------------------------
(* lib/imagebld/imagebld.c: the images that are built from the ROM loader  *)
(* and the compressed Cromwell.  An image is the sequence of its bytes,    *)
(* addressed from 0 as in the code.  Sizes are scaled by the constants; a  *)
(* build whose Cromwell does not fit the space, which romcopy() does not   *)
(* check, is left out (Fits).                                              *)

Octets == 0..255
Bytes == Seq(Octets)
HashSize == 20     \* SHA1HashSize
HeaderSize == 36   \* sizeof(struct Checksumstruct)

\* memset() and memcpy() on an image
Filled(count, byte) == [i \in 1..count |-> byte]
Patch(image, at, bytes) ==
    [i \in 1..Len(image) |-> IF i > at /\ i <= at + Len(bytes) THEN bytes[i - at] ELSE image[i]]
Part(image, at, count) == SubSeq(image, at + 1, at + count)

Le32(number) == <<number % 256, (number \div 256) % 256, (number \div 65536) % 256, 0>>
ReadLe32(image, at) == image[at + 1] + 256 * image[at + 2] + 65536 * image[at + 3]
ThreeBytes == 256 * 256 * 256

\* struct Checksumstruct at the start of the loader
ChecksumStruct(checksum, size, start, length, type) ==
    checksum \o Le32(size) \o Le32(start) \o Le32(length) \o Le32(type)

\* The jump and the GDT at the top, as bytes that nothing else uses
TopRom == Filled(TopSize, 144)

\* writeBiosIdentifier(): its 64 bytes (magic, versions, size, name, MD5 hash)
\* go over the last ones of the image
IdentifierSize == 64
writeBiosIdentifier(image) == Patch(image, Len(image) - IdentifierSize, Filled(IdentifierSize, 65))

\* The loader's file in a bank: the GDT, and the helper at 0x40 taken out
LoaderBank == Patch(Patch(Loader \o Filled(BankSize - Len(Loader), 0), BankSize - TopSize, TopRom), 64, Le32(0))
bootloaderpos == ReadLe32(Loader, 64)
Size_ramcopy == ReadLe32(Loader, bootloaderpos + HashSize)

\* Where the compressed image starts: 16-byte aligned after the loader, and space
compressed_image_start == (((bootloaderpos + Size_ramcopy) \div 16) + 1) * 16 + SpaceSize

\* A bank with the loader, its header filled in, and its hash
Headed(romsize, type) ==
    Patch(LoaderBank, bootloaderpos,
          ChecksumStruct(Filled(HashSize, 0), Size_ramcopy, compressed_image_start, romsize, type))
LoaderPart(bank) == Part(bank, bootloaderpos + HashSize, Size_ramcopy - HashSize)
Hashed(bank) == Patch(bank, bootloaderpos, Hash(LoaderPart(bank)))

\* The checksum and Cromwell from compressed_image_start on
ImageBytes(crom) == Hash(crom) \o crom
Fits(crom) == compressed_image_start + HashSize + Len(crom) <= BankSize - TopSize

\* romcopy(): the image of one bank
Flash256(crom) ==
    writeBiosIdentifier(
        Patch(Patch(Hashed(Headed(Len(crom), 0)), compressed_image_start + HashSize + Len(crom),
                    Filled(BankSize - (compressed_image_start + HashSize + Len(crom)) - TopSize, 255)),
              compressed_image_start, ImageBytes(crom)))

\* ... and of four: the loader in the first and the last, nothing after it,
\* Cromwell in the second and the third
LoaderOnly(crom) == Patch(Hashed(Headed(Len(crom), 1)), compressed_image_start,
                          Filled(BankSize - compressed_image_start - TopSize, 255))
CromwellOnly(crom) == Patch(Filled(BankSize, 255), compressed_image_start, ImageBytes(crom))
Flash1024(crom) ==
    writeBiosIdentifier(LoaderOnly(crom) \o CromwellOnly(crom) \o CromwellOnly(crom) \o LoaderOnly(crom))

\* What the processor sees in the four banks: the small image answers in each
Banks(image) == IF Len(image) = BankSize THEN [b \in 0..3 |-> image]
                ELSE [b \in 0..3 |-> Part(image, b * BankSize, BankSize)]

\* xberepair(): Cromwell goes behind the XBE's own code ("stub"), with its
\* size in the stub's data; the section is filled up with 16 to 32 bytes of
\* whatever the buffer held and hashed.
FilledUp(romsize) == (romsize \div 16) * 16 + 32
Section(bytes) == [FileSize |-> Len(bytes), VirtualSize |-> Len(bytes), ShaHash |-> shax(bytes)]
xberepair(stub, rom, junk) ==
    LET body == stub \o rom \o [i \in 1..FilledUp(Len(rom)) - Len(rom) |-> junk]
    IN [ImageSize |-> Len(body), sechdr |-> Section(body), body |-> body,
        cromwellstart |-> Len(stub), cromwellsize |-> Len(rom)]

-----------------------------------------------------------------------------
(* The loader in the machine.                                              *)

ASSUME SizesAssumption ==
    /\ BankSize \in Nat /\ BankSize <= ThreeBytes     \* of a size only these are kept
    /\ TopSize \in Nat /\ TopSize >= IdentifierSize /\ SpaceSize \in Nat
    /\ TriesPerBank \in Nat \ {0}

\* The linker script puts the header of the loader, whose place it writes to
\* 0x40, at the start of the part that is copied and hashed.
ASSUME LoaderAssumption ==
    /\ Loader \in Bytes /\ Len(Loader) <= BankSize
    /\ Len(Loader) >= 68 /\ bootloaderpos + HeaderSize <= Len(Loader)
    /\ Size_ramcopy >= HeaderSize

\* The images fit; an XBE has a Cromwell behind its stub.
ASSUME RomsAssumption ==
    /\ \A c \in Croms : File[c] \in Bytes /\ Fits(File[c])
    /\ Stub \in Bytes /\ \A c \in Croms : Packed[c] \in Bytes
    /\ \A r \in Roms : /\ r.crom \in Croms /\ r.kind \in {"256", "1024", "xbe"} /\ r.damaged \subseteq 0..3
                       /\ r.kind = "xbe" => Packed[r.crom] # << >>

\* A byte of the size that is read wrong is its lowest: with the others the
\* loader would hash what the RAM holds behind its copy.
ASSUME FaultsAssumption ==
    /\ ReadFaults \subseteq Nat \ {0, HashSize + 2, HashSize + 3}
    /\ Damage \in Nat /\ \A c \in Croms : Damage \in HashSize + 1 .. HashSize + Len(File[c])

VARIABLES
    rom,        \* the image in the machine, one of Roms
    romstage,   \* reset, check, pic, load, started, dead (endless loop), hung (in error())
    romfaults,  \* failures so far
    ram,        \* the loader's copy of itself at PROGRAMM_Memory_2bl
    pic,        \* what the SMC knows: "waiting", "answered", "wrong"
    loadretry, flashbank,
    cromwell    \* what is at CROMWELL_Memory_pos

romvars == <<rom, romstage, romfaults, ram, pic, loadretry, flashbank, cromwell>>

------------------------------------------------------------------------------
(* The flash *)

FlashImage == [c \in Croms |-> [k \in {"256", "1024"} |->
                  Banks(IF k = "256" THEN Flash256(File[c]) ELSE Flash1024(File[c]))]]

\* What the four banks of the flash hold
flash == FlashImage[rom.crom][rom.kind]

\* A bank as it reads: a damaged one has a wrong byte behind the checksum
WrongByte(bytes, at) == [bytes EXCEPT ![at] = (@ + 1) % 256]
ImageAt(c, k, b) == Part(FlashImage[c][k][b], compressed_image_start, HashSize + Len(File[c]))
Copies == {ImageAt(c, k, b) : c \in Croms, k \in {"256", "1024"}, b \in 0..3}
ReadImage(image, at) == IF at = 0 THEN image ELSE WrongByte(image, at)
Readable == Copies \cup {WrongByte(x, Damage) : x \in Copies}
Reads == {ReadImage(x, at) : x \in Readable, at \in {0} \cup ReadFaults}

\* The loader's copy of itself, and of the image: the hash, and what is hashed
RamSlack == 4
LoaderOf(c, k) == Part(FlashImage[c][k][3], bootloaderpos, Size_ramcopy + RamSlack)
LoaderCopies == {LoaderOf(c, k) : c \in Croms, k \in {"256", "1024"}}
LoaderReads == {ReadImage(x, at) : x \in LoaderCopies, at \in {0} \cup ReadFaults}
Body(bytes) == SubSeq(bytes, HashSize + 1, Len(bytes))
Sum(bytes) == SubSeq(bytes, 1, HashSize)
Header(bytes) == [checksum |-> Sum(bytes), size |-> ReadLe32(bytes, 20), start |-> ReadLe32(bytes, 24),
                  length |-> ReadLe32(bytes, 28), type |-> ReadLe32(bytes, 32)]
HashedPart(bytes) == Part(bytes, HashSize, Header(bytes).size - HashSize)
WrittenParts == {File[c] : c \in Croms} \cup {LoaderPart(Headed(Len(File[c]), type)) : c \in Croms, type \in {0, 1}}
Sections == WrittenParts \cup {Body(x) : x \in Reads} \cup {HashedPart(x) : x \in LoaderReads}
HashOf == [x \in Sections |-> Hash(x)]

\* What the loader makes of every image that can be read: nothing when the
\* checksum is wrong, otherwise the state the decompressor ends in
Refused == [res |-> "refused", out |-> << >>]
\* Deviation: it is unpacked whatever its checksum.
ImageUnchecked(bytes) == TRUE
ImageSound(bytes) == HashOf[Body(bytes)] = Sum(bytes)
Outcome == [x \in Reads |-> IF ImageSound(x) THEN Unpack(Body(x)) ELSE Refused]

Damaged(bytes, b) == IF b \in rom.damaged THEN WrongByte(bytes, Damage) ELSE bytes

------------------------------------------------------------------------------
(* Start *)

RomInit ==
    /\ rom \in Roms
    /\ romstage = "reset" /\ romfaults = 0 /\ ram = << >> /\ pic = "waiting"
    /\ loadretry = 0 /\ flashbank = 3 /\ cromwell = << >>

\* A step that fails, if "wrong", of the MaxRomFaults that may
Faulty(wrong) == IF wrong THEN romfaults < MaxRomFaults /\ romfaults' = romfaults + 1 ELSE UNCHANGED romfaults

\* 2bBootStartup.S: "copy everything into RAM", and some more, from the top bank
LoaderBytes == LoaderOf(rom.crom, rom.kind)
CopyLoader ==
    /\ romstage = "reset" /\ rom.kind # "xbe"
    /\ \E at \in {0} \cup ReadFaults :
          /\ Faulty(at # 0)
          /\ ram' = ReadImage(LoaderBytes, at)
    /\ romstage' = "check"
    /\ UNCHANGED <<rom, pic, loadretry, flashbank, cromwell>>

\* BootStartBiosLoader(): the loader's own hash
LoaderSound(bytes) == HashOf[HashedPart(bytes)] = Sum(bytes)
Sound == [x \in LoaderReads |-> LoaderSound(x)]
CheckLoader ==
    /\ romstage = "check"
    /\ romstage' = IF Sound[ram] THEN "pic" ELSE "dead"
    /\ UNCHANGED <<rom, romfaults, ram, pic, loadretry, flashbank, cromwell>>

------------------------------------------------------------------------------
(* The challenge of the SMC *)

\* I2CTransmitByteGetReturn() and I2CTransmitWord() give up after 400 tries
TransferGivenUp == romfaults < MaxRomFaults /\ romfaults' = romfaults + 1

\* BootPerformPicChallengeResponseAction(): a transfer given up ends it before
\* the answer, or leaves one byte of the answer out; the result is not looked
\* at.
PicChallenge ==
    /\ romstage = "pic"
    /\ \/ UNCHANGED romfaults /\ \E c \in Challenges : pic' = IF PicAnswer(c) = Expected[c] THEN "answered" ELSE "wrong"
       \/ TransferGivenUp /\ pic' = "wrong"
    /\ romstage' = "load" /\ loadretry' = 0 /\ flashbank' = 3
    /\ UNCHANGED <<rom, ram, cromwell>>

------------------------------------------------------------------------------
(* The search for Cromwell *)

BankOf(type, tries, bank) ==
    IF type = 0 THEN 3
    ELSE IF type = 1
    THEN CASE tries = 0 -> 1 [] tries = TriesPerBank -> 2 [] tries = 2 * TriesPerBank -> 0
           [] tries = 3 * TriesPerBank -> 3 [] OTHER -> bank
    ELSE bank

\* Cromwell's configuration words, from 0x20 on
ConfigAt == 32
Configured(out, bank, type) == Patch(out, ConfigAt, Le32(1) \o Le32(1) \o Le32(bank + 1) \o Le32(type))

\* What a copy of the image leads to: another try, Cromwell, or error()
Loaded(got, bank, h) ==
    /\ romstage' = CASE got.res = "refused" -> IF loadretry + 1 = 4 * TriesPerBank THEN "dead" ELSE "load"
               [] got.res = "ok" -> "started"
               [] OTHER -> "hung"
    /\ loadretry' = IF got.res = "refused" THEN loadretry + 1 ELSE loadretry
    /\ cromwell' = IF got.res = "ok" THEN Configured(got.out, bank, h.type) ELSE cromwell
LoadFrom(bank, h) ==
    /\ flashbank' = bank
    /\ \E at \in {0} \cup ReadFaults :
          /\ Faulty(at # 0)
          /\ Loaded(Outcome[ReadImage(Damaged(Part(flash[bank], h.start, HashSize + h.length), bank), at)], bank, h)
LoadTry ==
    /\ romstage = "load"
    /\ LoadFrom(BankOf(Header(ram).type, loadretry, flashbank), Header(ram))
    /\ ram' = IF romstage' = "load" THEN ram ELSE << >>      \* it is not read again
    /\ UNCHANGED <<rom, pic>>

\* The SMC resets a machine that has not answered it
SmcReset ==
    /\ \/ pic = "wrong"
       \/ pic = "waiting" /\ romstage = "dead" /\ rom.kind # "xbe"
    /\ romstage' = "reset" /\ pic' = "waiting" /\ ram' = << >> /\ cromwell' = << >> /\ loadretry' = 0 /\ flashbank' = 3
    /\ UNCHANGED <<rom, romfaults>>

------------------------------------------------------------------------------
(* boot_xbe: the console's kernel, which is not part of the repository,    *)
(* loads the section if its hash is right; the stub copies Cromwell to its *)
(* place and jumps to it.                                                  *)

XbeOf == [c \in Croms |-> xberepair(Stub, Packed[c], 170)]
XbeAccepted(x) == x.sechdr.ShaHash = Hash(Le32(x.sechdr.FileSize) \o SubSeq(x.body, 1, x.sechdr.FileSize))
CopiedByStub(x) == Part(x.body, x.cromwellstart, x.cromwellsize)
StartXbe ==
    /\ romstage = "reset" /\ rom.kind = "xbe"
    /\ IF XbeAccepted(XbeOf[rom.crom])
       THEN romstage' = "started" /\ cromwell' = CopiedByStub(XbeOf[rom.crom])
       ELSE romstage' = "dead" /\ UNCHANGED cromwell
    /\ UNCHANGED <<rom, romfaults, ram, pic, loadretry, flashbank>>

------------------------------------------------------------------------------
(* What the functions on bytes must do.                                    *)

\* Of the sections whose hash the loader computes no two have the same one,
\* and none has a hash that nobody computed: one with a wrong byte, or what an
\* empty bank holds in its place.
NoImage == Filled(HashSize, 255)
Strays == {NoImage} \cup {WrongByte(h, at) : h \in {NoImage} \cup {Hash(File[c]) : c \in Croms},
                                            at \in {i \in ReadFaults : i <= HashSize}}
ASSUME HashAssumption ==
    \A x \in Sections :
        /\ HashOf[x] \in Bytes /\ Len(HashOf[x]) = HashSize
        /\ HashOf[x] \notin Strays
        /\ \A y \in Sections : HashOf[x] = HashOf[y] => x = y

\* What is unpacked is what was packed, and a damaged file is refused.
ASSUME UnpackAssumption ==
    \A c \in Croms : LET got == Unpack(File[c])
                     IN got.res = "ok" => got.out = Packed[c] /\ Packed[c] # << >>

------------------------------------------------------------------------------
(* The loader by itself *)

RomStep == CopyLoader \/ CheckLoader \/ PicChallenge \/ LoadTry \/ StartXbe
RomNext == RomStep \/ SmcReset
RomSpec == RomInit /\ [][RomNext]_romvars

\* What BootStartBiosLoader() jumps to is the program that imagebld packed,
\* byte for byte, with the words Cromwell reads about where it came from: no
\* read fault, damaged bank or damaged file gets past the two hashes and the
\* CRC, and the XBE's stub copies the whole of it.
CromwellWhole ==
    romstage = "started" =>
        /\ Packed[rom.crom] # << >>
        /\ cromwell = IF rom.kind = "xbe" THEN Packed[rom.crom]
                      ELSE Patch(Packed[rom.crom], 32, Le32(1) \o Le32(1) \o Le32(flashbank + 1)
                                                         \o Le32(IF rom.kind = "256" THEN 0 ELSE 1))
        /\ rom.kind # "xbe" => flashbank \notin rom.damaged

=============================================================================
