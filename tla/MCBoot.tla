------------------------------- MODULE MCBoot -------------------------------
(***************************************************************************)
(* A small instance of the boot path: the ROM loader on flash images built *)
(* from seven gzip files, with a window of 16 bytes.                       *)
(***************************************************************************)
EXTENDS Boot, TLC

MCWSIZE == 16
MCBankSize == 320
MCTopSize == 64
MCSpaceSize == 16

\* A loader of 40 bytes at 80, whose place is at 0x40
MCLoader == [i \in 1..64 |-> 7] \o Le32(80) \o [i \in 1..12 |-> 7] \o Filled(20, 0) \o Le32(40) \o Filled(12, 0) \o <<1, 2, 3, 4>>
MCStub == [i \in 1..9 |-> i]

\* Programs, and what gzip made of them: two stored blocks; one block of fixed
\* codes behind a header with an extra field and a name, with copies that
\* overlap themselves and go round the window; one block of codes of up to 11
\* (literals) and 7 bits (distances), longer than the first tables; and one
\* block of each type
PlainProgram == [i \in 1..50 |-> (7 * (i - 1)) % 251]
PlainFile == <<31, 139, 8, 0, 0, 0, 0, 0, 0, 3, 0, 21, 0, 234, 255>> \o SubSeq(PlainProgram, 1, 21)
      \o <<1, 29, 0, 226, 255>> \o SubSeq(PlainProgram, 22, 50) \o <<181, 186, 84, 84, 50, 0, 0, 0>>
FixedProgram == <<1, 2, 3, 1, 2, 3, 1, 2, 200, 200, 200, 200, 255, 9, 1, 2, 200, 200, 200, 200,
          255, 9, 1, 2, 200, 200, 200, 255, 9, 1, 2, 200, 200, 200, 200, 255, 9, 1, 2,
          200, 200, 200, 255, 9, 1, 77, 2, 200, 200, 200, 200, 255, 9, 1, 5>>
FixedFile == <<31, 139, 8, 12, 0, 0, 0, 0, 0, 3, 2, 0, 97, 98, 110, 0, 99, 100, 98, 6, 163,
          19, 64, 240, 159, 19, 137, 198, 198, 245, 133, 241, 89, 1, 42, 50, 177, 174,
          55, 0, 0, 0>>
DeepProgram == <<10, 20, 30, 20, 30, 20, 30, 40, 50, 60, 70, 80, 90, 50, 60, 70, 80, 80, 80,
          80, 80, 10, 70, 80, 80, 80, 80, 80, 10, 70, 80, 80, 80, 90, 80, 80, 80, 10,
          70, 80, 80, 80, 90, 80, 80, 80, 80, 90, 80, 80, 80, 70, 60, 50, 80, 90, 80, 80>>
DeepFile == <<31, 158, 8, 0, 0, 0, 0, 0, 0, 3, 77, 199, 65, 142, 36, 73, 18, 4, 177, 59,
          207, 122, 182, 179, 159, 243, 92, 231, 62, 207, 121, 255, 255, 144, 128, 220,
          150, 162, 230, 145, 105, 87, 239, 247, 247, 239, 191, 255, 245, 196, 255,
          125, 254, 247, 255, 63, 254, 235, 223, 191, 191, 95, 127, 62, 115, 39, 92,
          148, 58, 0, 0, 0>>
MixedProgram == <<1, 2, 3, 4, 1, 2, 3, 4, 100, 101, 102, 103, 104, 105, 106, 107, 108, 109,
          110, 111, 112, 113, 114, 115, 116, 117, 118, 119, 120, 121, 122, 123, 124,
          10, 10, 10, 10, 10, 10, 10, 10, 10, 10, 10, 10, 20, 10, 20, 10, 20, 10, 30,
          10, 10, 10, 10>>
MixedFile == <<31, 139, 8, 0, 0, 0, 0, 0, 0, 3, 98, 100, 98, 102, 1, 97, 0, 0, 25, 0, 230,
          255, 100, 101, 102, 103, 104, 105, 106, 107, 108, 109, 110, 111, 112, 113,
          114, 115, 116, 117, 118, 119, 120, 121, 122, 123, 124, 77, 199, 65, 142, 36,
          73, 18, 4, 177, 59, 207, 122, 182, 179, 159, 243, 92, 231, 62, 207, 121, 255,
          255, 144, 128, 220, 150, 114, 18, 255, 103, 229, 250, 15, 100, 207, 244, 217,
          56, 0, 0, 0>>

MCCroms == {"plain", "fixed", "deep", "mixed", "flipped", "badcrc", "cut", "badtype"}
MCFile == [plain |-> PlainFile, fixed |-> FixedFile, deep |-> DeepFile, mixed |-> MixedFile,
           flipped |-> [DeepFile EXCEPT ![45] = 104], badcrc |-> [PlainFile EXCEPT ![72] = 1],
           cut |-> SubSeq(FixedFile, 1, 30), badtype |-> [FixedFile EXCEPT ![17] = 103]]
MCProgram == [plain |-> PlainProgram, fixed |-> FixedProgram, deep |-> DeepProgram, mixed |-> MixedProgram,
              flipped |-> << >>, badcrc |-> << >>, cut |-> << >>, badtype |-> << >>]
Good == {"plain", "fixed", "deep", "mixed"}
MCRoms == [crom : MCCroms, kind : {"256"}, damaged : {{}}]
    \cup [crom : {"fixed"}, kind : {"256"}, damaged : {0..3}]
    \cup [crom : {"fixed", "deep"}, kind : {"1024"}, damaged : {{}, {1}, {1, 2}}]
    \cup [crom : Good, kind : {"xbe"}, damaged : {{}}]

MCChallenges == {<<0, 0, 0, 0>>, <<255, 200, 17, 160>>}
MCExpected == <<0, 0, 0, 0>> :> <<174, 215>> @@ <<255, 200, 17, 160>> :> <<206, 195>>

------------------------------------------------------------------------------
(* Disks *)

Line(key, data) == [key |-> key, sep |-> TRUE, data |-> data]
Bare(key) == [key |-> key, sep |-> FALSE, data |-> << >>]
MCKeywordOf == [title |-> "title", kernel |-> "kernel", kernel26 |-> "kernel", initrd |-> "initrd", append |-> "append",
                default |-> "default", comment |-> "other"]
MCNoWords == {"no", "none"}

\* One entry; two with a default that is the beginning of a title; a kernel
\* above the title, a default that fits none; lines without data
MCConfigs == [
    one |-> <<Line("title", <<"A">>), Line("kernel", <<"\\", "k1">>), Line("initrd", <<"/", "ird">>),
              Line("append", <<"x", "y", "z">>)>>,
    deb |-> <<Line("title", <<"A">>), Line("kernel", <<"k1">>), Line("initrd", <<"ird">>), Line("append", <<"x">>),
              Line("title", <<"B">>), Line("kernel", <<"/", "k1">>)>>,
    two |-> <<Line("default", <<"B">>), Line("title", <<"A">>), Line("kernel", <<"k1">>), Line("initrd", <<"ird">>),
              Line("title", <<"B", "2">>), Line("kernel26", <<"/", "k2">>), Line("initrd", <<"none">>),
              Line("append", <<"x">>), Line("title", <<"B", "3">>), Line("kernel", <<"kbig">>), Line("initrd", <<"ird3">>)>>,
    above |-> <<Line("kernel", <<"k2">>), Line("comment", <<"x">>), Line("title", <<"A">>), Line("initrd", <<"ird3">>),
                Line("default", <<"C">>)>>,
    elf |-> <<Line("title", <<"A">>), Line("kernel", <<"kelf">>), Line("title", <<"B">>), Line("kernel", <<"gone">>)>>,
    bare |-> <<Bare("default"), Line("title", <<"A">>), Line("kernel", <<"k1">>), Bare("append"), Line("title", << >>),
               Line("append", <<"w">>), Line("title", <<"title">>), Line("kernel", <<"empty">>), Bare("initrd")>>]

MCImages == [k1 |-> [len |-> 3, sects |-> 0, elf |-> FALSE, header |-> 0],
             k2 |-> [len |-> 4, sects |-> 1, elf |-> FALSE, header |-> 0],
             kbig |-> [len |-> 6, sects |-> 0, elf |-> FALSE, header |-> 0],
             kelf |-> [len |-> 3, sects |-> 1, elf |-> TRUE, header |-> 0],
             ird |-> [len |-> 2, sects |-> 0, elf |-> FALSE, header |-> 0],
             ird3 |-> [len |-> 6, sects |-> 0, elf |-> FALSE, header |-> 0],
             empty |-> [len |-> 0, sects |-> 0, elf |-> FALSE, header |-> 0],
             fl |-> [len |-> 2, sects |-> 0, elf |-> FALSE, header |-> 1],
             fl3 |-> [len |-> 3, sects |-> 0, elf |-> FALSE, header |-> 2]]
\* What may be found in memory where a CD file reaches its limit: a negative
\* number, nothing, a part of the file, and more than there is room for
MCWords == {-1, 0, 3, 9}
MCLongConfigs == {"above"}
Kernels == Path("k1") :> "k1" @@ Path("k2") :> "k2" @@ Path("kbig") :> "kbig" @@ Path("kelf") :> "kelf"
           @@ Path("ird") :> "ird" @@ Path("ird3") :> "ird3" @@ Path("empty") :> "empty"
DebianKernels == In("debian", "k1") :> "k1" @@ In("debian", "ird") :> "ird"
Fatx(files) == [dev |-> "fatx", files |-> files]
Native(d, n, files) == [dev |-> "native", active |-> TRUE, drive |-> d, partition |-> n, files |-> files]
Cd(files) == [dev |-> "cd", drive |-> 1, files |-> files]
Debian == [fatx |-> Fatx(In("debian", "linuxboot.cfg") :> "deb" @@ DebianKernels), natives |-> << >>, cd |-> NoVolume]
MCBoxes == {
    Debian,
    [fatx |-> Fatx(Path("linuxboot.cfg") :> "two" @@ Kernels), natives |-> << >>,
     cd |-> Cd(In("loader", "setupldr.sys") :> "fl" @@ Path("linuxboo.cfg") :> "above"
              @@ Path("linuxboot.cfg") :> "one" @@ Kernels)],
    [fatx |-> Fatx(Path("freeldr.sys") :> "fl3"),
     natives |-> <<Native(0, 2, In("boot", "linuxboot.cfg") :> "above" @@ Path("linuxboot.cfg") :> "elf" @@ Kernels),
                   [Native(1, 0, Path("linuxboot.cfg") :> "one" @@ Kernels) EXCEPT !.active = FALSE]>>, cd |-> NoVolume],
    [fatx |-> NoVolume, natives |-> <<Native(0, 0, Path("linuxboot.cfg") :> "bare" @@ Kernels),
                                      Native(1, 3, Path("freeldr.sys") :> "fl" @@ Path("linuxboot.cfg") :> "elf" @@ Kernels)>>,
     cd |-> NoVolume],
    [fatx |-> Fatx(Path("linuxboot.cfg") :> "one" @@ Kernels), natives |-> <<Native(0, 1, Path("freeldr.sys") :> "fl")>>,
     cd |-> Cd(In("loader", "freeldr.sys") :> "fl3" @@ In("loader", "setupldr.sys") :> "fl"
              @@ Path("linuxboot.cfg") :> "two" @@ Kernels)]}

\* Every image with one disk, and every disk with an image of either kind
MCMachines == (MCRoms \X {Debian}) \cup ([crom : {"plain"}, kind : {"256", "xbe"}, damaged : {{}}] \X MCBoxes)
=============================================================================
