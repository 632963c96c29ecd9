---------------------------- MODULE MCEtherboot ----------------------------
(* Instances of Etherboot for TLC.                                         *)
EXTENDS Etherboot

CONSTANTS a, b, g   \* two servers and a gateway

Seg(off, filesz, memsz, paddr) ==
  [load |-> TRUE, off |-> off, filesz |-> filesz, memsz |-> memsz, paddr |-> paddr]
Note(off) == [load |-> FALSE, off |-> off, filesz |-> 1, memsz |-> 1, paddr |-> 0]

MCRam == {<<0, 4>>, <<5, 12>>}

(* A kernel whose headers are not in file order, with upper bits in its    *)
(* addresses, a ramdisk behind sectors that are not loaded, a note and     *)
(* symbols behind the last segment; one that is a block and has no         *)
(* ramdisk; one that does not fit and one with too many headers.           *)
MCKernels == {
  [size |-> 9, hdr |-> 2,
   phdr |-> <<Seg(1, 1, 2, 16), Seg(6, 2, 2, 21), Seg(2, 1, 1, 2), Note(1)>>],
  [size |-> 2, hdr |-> 1, phdr |-> <<Seg(0, 2, 3, 0)>>],
  [size |-> 3, hdr |-> 1, phdr |-> <<Seg(0, 2, 2, 0), Seg(2, 1, 2, 3)>>],
  [size |-> 2, hdr |-> 1,
   phdr |-> <<Note(0), Note(0), Note(0), Note(0), Seg(0, 2, 2, 0)>>]}

Reply(kind, by, yi, si, gw, ext, url) ==
  [kind |-> kind, by |-> by, yi |-> yi, si |-> si, gw |-> gw, ext |-> ext, url |-> url]

(* A DHCP server with an extension file, one behind the gateway whose file *)
(* name is a URL of the first server, and a BOOTP server.                  *)
MCReplies == {
  Reply("offer", a, 1, a, None, TRUE, None),
  Reply("offer", b, 2, b, g, FALSE, a),
  Reply("bootp", b, 2, b, g, FALSE, None)}
=============================================================================
