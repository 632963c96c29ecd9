------------------------------ MODULE Etherboot ------------------------------
(***************************************************************************)
(* Booting from the network: etherboot() of arch/i386/core/xbox.c with the *)
(* DHCP, ARP, IP and TFTP client of core/nic.c, the forcedeth driver and   *)
(* the loader of ELF images.                                               *)
(*                                                                         *)
(* The client is one thread that polls.  Concurrent with it are the        *)
(* receiver of the network chip, which fills the ring, and the servers.    *)
(* Frames are records of what the client looks at; hosts stand for their   *)
(* IP and their Ethernet addresses alike.                                  *)
(***************************************************************************)
EXTENDS Integers, Sequences, FiniteSets

-----------------------------------------------------------------------------
(* How Etherboot's loader places an ELF image that arrives as a stream of  *)
(* blocks: load_block() of core/osloader.c, elf32_probe() and              *)
(* elf32_download() of core/elf_loader.c and the hand-over in xstart32()   *)
(* of arch/i386/core/xbox.c.                                               *)
(*                                                                         *)
(* A byte of the file is its position in the file, so memory holds, for    *)
(* every address, the position whose byte is there, Zero, or Stale (what   *)
(* was there before).  Sizes are in units: Sector stands for 512 bytes.    *)
(* A loader state gathers the statics of load_block() and estate, and the  *)
(* arguments and the offset of elf32_download() while it runs.             *)

CONSTANTS
  Sector,        \* bytes in a sector (512)
  Top,           \* addresses are 0 .. Top - 1
  Ram,           \* regions of meminfo that are RAM: a set of <<first, last + 1>>
  MaxPhdrs,      \* program headers that estate has room for (32)
  PaddrMod,      \* p_paddr is cut to 0 .. PaddrMod - 1 (2^28)
  InitrdStart,   \* INITRD_START of memory_layout.h
  S_RAMDISK      \* the program header that holds the ramdisk

ASSUME ElfAssumption ==
  /\ {Sector, PaddrMod} \subseteq Nat \ {0} /\ {Top, InitrdStart, MaxPhdrs} \subseteq Nat
  /\ Ram \subseteq Nat \X (0 .. Top) /\ S_RAMDISK \in Nat

Zero == -1
Stale == -2
NoSeg == 0

Loads(img) == {i \in 1 .. Len(img.phdr) : img.phdr[i].load}
Memory == 0 .. Top - 1

(* The state after probe_image() of an image that nothing was read of yet. *)
Fresh == [seg |-> NoSeg, loc |-> 0, skip |-> 0, toread |-> 0, curaddr |-> 0,
          skip_sectors |-> 0, skip_bytes |-> 0, data |-> 0, len |-> 0, offset |-> 0]

(* prep_segment(): the segment must not be larger in the file than in      *)
(* memory and must lie in one region of RAM.                               *)
prep_segment(s) ==
  /\ s.filesz <= s.memsz
  /\ \E r \in Ram : r[1] <= s.paddr /\ s.paddr + s.memsz <= r[2]

(* elf32_probe(): the headers must be in the first block and in estate,    *)
(* where the upper bits of the addresses are cut off, and all the segments *)
(* must fit; the segments before one that does not fit have had their bss  *)
(* cleared by then.                                                        *)
HeadersIn(img, len) == img.hdr <= len /\ Len(img.phdr) <= MaxPhdrs
Masked(f) == [f EXCEPT !.phdr = [i \in DOMAIN @ |-> [@[i] EXCEPT !.paddr = @ % PaddrMod]]]

elf32_probe(img, len) ==
  /\ HeadersIn(img, len)
  /\ \A i \in Loads(img) : prep_segment(img.phdr[i])

Cleared(img, len, mem) ==
  LET fits(i) == \A j \in Loads(img) : j <= i => prep_segment(img.phdr[j])
      bss(i)  == img.phdr[i].paddr + img.phdr[i].filesz
                   .. img.phdr[i].paddr + img.phdr[i].memsz - 1
  IN  IF ~HeadersIn(img, len) THEN mem
      ELSE [a \in DOMAIN mem |->
              IF \E i \in Loads(img) : fits(i) /\ a \in bss(i) THEN Zero ELSE mem[a]]

(* The next segment in file order at or after position p: the minimum of   *)
(* the offsets, the first header of those that share it.                   *)
Ahead(img, p) == {i \in Loads(img) : img.phdr[i].filesz # 0 /\ img.phdr[i].off >= p}
NextSegments(img, p) ==
  {i \in Ahead(img, p) : \A j \in Ahead(img, p) :
     \/ img.phdr[i].off < img.phdr[j].off
     \/ img.phdr[i].off = img.phdr[j].off /\ i <= j}

(* When the loop of elf32_download() is left, estate.loc moves past the    *)
(* block and past the sectors that load_block() will skip; the rest of the *)
(* skip stays in estate.skip.                                              *)
AdvanceNoSkip(e) ==
  [Fresh EXCEPT !.seg = e.seg, !.loc = e.loc + e.len, !.skip = e.skip % Sector,
                !.toread = e.toread, !.curaddr = e.curaddr,
                !.skip_sectors = e.skip \div Sector]

Advance(e) ==
  [Fresh EXCEPT !.seg = e.seg, !.loc = e.loc + e.len + (e.skip \div Sector) * Sector,
                !.skip = e.skip % Sector, !.toread = e.toread, !.curaddr = e.curaddr,
                !.skip_sectors = e.skip \div Sector]

(* load_block(): a block that is skipped whole is taken from the skip,     *)
(* borrowing sectors; the loader is not called for it, not even at the end *)
(* of the file.                                                            *)
SkipsWhole(e, len) ==
  \/ e.skip_sectors > len \div Sector
  \/ e.skip_sectors = len \div Sector /\ e.skip_bytes >= len % Sector

Borrow(e, len) ==
  LET need == len - e.skip_bytes
      up   == (need + Sector - 1) \div Sector
  IN  IF e.skip_bytes < len
        THEN [e EXCEPT !.skip_sectors = @ - up, !.skip_bytes = @ + up * Sector - len]
        ELSE [e EXCEPT !.skip_bytes = @ - len]

(* xstart32(): the ramdisk segment is moved to INITRD_START before Linux   *)
(* is started with it.                                                     *)
HasRamdisk(img) ==
  /\ S_RAMDISK \in 1 .. Len(img.phdr)
  /\ img.phdr[S_RAMDISK].paddr # 0

xstart32(img, mem) ==
  LET p == img.phdr[S_RAMDISK]
  IN  IF ~HasRamdisk(img) THEN mem
      ELSE [a \in DOMAIN mem |->
              IF a \in InitrdStart .. InitrdStart + p.filesz - 1
                THEN mem[p.paddr + (a - InitrdStart)] ELSE mem[a]]

-----------------------------------------------------------------------------

CONSTANTS
  RX_RING,      \* descriptors of the receive ring (4)
  Hosts,        \* servers and gateways
  Remote,       \* the hosts outside the client's subnet
  None,         \* no host, no address (0.0.0.0)
  Replies,      \* what the DHCP and BOOTP servers are set up to answer
  Kernels,      \* files that may be behind the name of the kernel
  ExtSize,      \* length of the BOOTP extension file
  DefSize,      \* TFTP_DEFAULTSIZE_PACKET
  OackSizes,    \* block sizes a server may put in an OACK
  BlockMod,     \* TFTP block numbers are 0 .. BlockMod - 1 (2^16)
  MAX_BOOTP_RETRIES, MAX_ARP_RETRIES, MAX_TFTP_RETRIES,
  MaxSessions,  \* bound: transfers the TFTP servers begin
  MaxWire       \* bound: frames on their way to the servers

ASSUME EtherbootAssumption ==
  /\ {RX_RING, BlockMod, DefSize} \subseteq Nat \ {0}
  /\ Remote \subseteq Hosts /\ None \notin Hosts
  /\ {MAX_BOOTP_RETRIES, MAX_ARP_RETRIES, MAX_TFTP_RETRIES, ExtSize} \subseteq Nat

Images == {Masked(f) : f \in Kernels}

(* A linker gives every segment bytes of the file and addresses of its     *)
(* own, and the tool that adds a ramdisk leaves room where it is moved to. *)
ImageSound(img) ==
  LET p == img.phdr
  IN  /\ \A i \in Loads(img) :
           {p[i].off, p[i].filesz, p[i].memsz, p[i].paddr} \subseteq Nat
           /\ p[i].off + p[i].filesz <= img.size
      /\ \A i, j \in Loads(img) : i # j =>
           /\ p[i].filesz # 0 /\ p[j].filesz # 0 =>
                \/ p[i].off + p[i].filesz <= p[j].off
                \/ p[j].off + p[j].filesz <= p[i].off
           /\ \/ p[i].paddr + p[i].memsz <= p[j].paddr
              \/ p[j].paddr + p[j].memsz <= p[i].paddr
      /\ HasRamdisk(img) =>
           /\ S_RAMDISK \in Loads(img)
           /\ \A i \in Loads(img) :
                \/ InitrdStart + p[S_RAMDISK].filesz <= p[i].paddr
                \/ p[i].paddr + p[i].memsz <= InitrdStart

ASSUME ImagesAssumption ==
  \A img \in Images : {img.size, img.hdr, Len(img.phdr)} \subseteq Nat /\ ImageSound(img)

VARIABLES
  nic,      \* forcedeth: receive ring, position of driver and of chip, receiver on
  packet,   \* nic.packet, the frame polled last
  wire,     \* frames of the client on their way to the servers
  sess,     \* transfers of the TFTP servers
  pc,       \* where the client is
  me,       \* arptable[ARP_CLIENT].ipaddr
  arp,      \* arptable[ARP_SERVER] and [ARP_GATEWAY]
  bp,       \* bootp(): retries, which reply it waits for, dhcp_reply, its buffer
  cfg,      \* the reply in BOOTP_DATA_ADDR
  tf,       \* tftp(): its locals and the static iport
  pend,     \* ip_transmit() waiting for ARP: the datagram and where it returns to
  image, ld, mem,   \* the kernel's file, the loader, the memory
  got       \* history: the payloads handed to the callback by this tftp()

net == <<nic, wire, sess>>
client == <<pc, me, arp, bp, cfg, tf, pend>>
load == <<image, ld, mem, got>>
vars == <<net, packet, client, load>>

Avail == [t |-> "avail"]
NoPend == [ok |-> ""]
NoImage == [size |-> 0, hdr |-> 0, phdr |-> << >>]
NoFrame == [t |-> "none"]
NoReply == [kind |-> "none", by |-> None, yi |-> None, si |-> None, gw |-> None,
            ext |-> FALSE, url |-> None]

(* A DHCP server answers a discover with an offer, a BOOTP server with the *)
(* whole configuration.                                                    *)
ASSUME RepliesAssumption ==
  \A c \in Replies : DOMAIN c = DOMAIN NoReply /\ c.kind \in {"offer", "bootp"}

-----------------------------------------------------------------------------
(* forcedeth.c.                                                            *)

(* Descriptors are counted from the one the driver looks at (cur_rx).      *)
Slots == 0 .. RX_RING - 1
AllAvail == [i \in Slots |-> Avail]

(* The receiver fills the descriptor it is at, if that is available.       *)
Received(n, f) ==
  IF n.on /\ n.ring[n.hw] = Avail
    THEN [n EXCEPT !.ring[n.hw] = f, !.hw = (@ + 1) % RX_RING]
    ELSE n

(* forcedeth_poll(): looks at the driver's descriptor only.                *)
Ready == nic.ring[0] # Avail
Polled == nic.ring[0]

(* It then makes every descriptor available again (alloc_rx), the ones     *)
(* with frames it has not seen included.                                   *)
AfterPoll(n) == [n EXCEPT !.hw = (@ + RX_RING - 1) % RX_RING, !.ring = AllAvail]

(* forcedeth_reset(): both sides begin at descriptor 0.  Without a PHY it  *)
(* returns before the receiver is started.                                 *)
forcedeth_reset(phy) == [ring |-> AllAvail, hw |-> 0, on |-> phy]

(* forcedeth_probe(): an invalid MAC address fails the probe; the result   *)
(* of the reset is not looked at.                                          *)
Probe ==
  /\ pc = "probe"
  /\ \/ pc' = "failed" /\ UNCHANGED nic
     \/ /\ pc' = "discover"
        /\ \E phy \in BOOLEAN : nic' = forcedeth_reset(phy)
  /\ bp' = [bp EXCEPT !.retry = 0, !.wait = "offer"]
  /\ UNCHANGED <<packet, wire, sess, me, arp, cfg, tf, pend, load>>

(* forcedeth_disable().                                                    *)
Disabled(n) == [n EXCEPT !.on = FALSE]

-----------------------------------------------------------------------------
(* IP and ARP.                                                             *)

(* eth_transmit().  What was sent before may be lost by then; at most      *)
(* MaxWire frames are on their way.                                        *)
Send(m) ==
  \/ wire' = {m}
  \/ Cardinality(wire) < MaxWire /\ wire' = wire \cup {m}

(* ip_transmit(): a datagram for a host outside the subnet goes to the     *)
(* gateway, if there is one.                                               *)
Entry(host) ==
  IF host \in Remote /\ arp["gateway"].ip # None THEN "gateway" ELSE "server"

(* Transmit(m, ok, fail): sends m to the server, after an ARP request if   *)
(* the entry has no node yet; the client goes on at ok or at fail.         *)
Transmit(m, ok, fail) ==
  LET e == Entry(arp["server"].ip)
  IN  IF arp[e].node # None
        THEN /\ Send([m EXCEPT !.to = arp[e].node])
             /\ pc' = ok /\ UNCHANGED pend
        ELSE /\ Send([t |-> "arp", ip |-> arp[e].ip])
             /\ pend' = [m |-> m, entry |-> e, retry |-> 1, ok |-> ok, fail |-> fail]
             /\ pc' = "arp"

(* eth_poll().  Only a packet that is read again later is kept.            *)
Poll ==
  /\ Ready /\ nic' = AfterPoll(nic)
  /\ packet' = IF pc \in {"arp", "tftp"} THEN Polled ELSE NoFrame

(* await_arp() takes the reply of the host it asked for; other frames are  *)
(* polled and dropped.                                                     *)
AwaitArp ==
  /\ pc = "arp" /\ Poll
  /\ IF Polled.t = "arp" /\ Polled.ip = arp[pend.entry].ip
       THEN /\ arp' = [arp EXCEPT ![pend.entry].node = Polled.node]
            /\ Send([pend.m EXCEPT !.to = Polled.node])
            /\ pc' = pend.ok /\ pend' = NoPend
       ELSE UNCHANGED <<arp, wire, pc, pend>>
  /\ UNCHANGED <<sess, me, bp, cfg, tf, load>>

ArpRetryUncounted(r) == r
ArpRetry(r) == r + 1

ArpTimeout ==
  /\ pc = "arp" /\ ~Ready
  /\ IF pend.retry < MAX_ARP_RETRIES
       THEN /\ Send([t |-> "arp", ip |-> arp[pend.entry].ip])
            /\ pend' = [pend EXCEPT !.retry = ArpRetry(@)] /\ UNCHANGED pc
       ELSE pc' = pend.fail /\ pend' = NoPend /\ UNCHANGED wire
  /\ UNCHANGED <<nic, sess, packet, me, arp, bp, cfg, tf, load>>

(* rx_qdrain(): what is in the queue is thrown away.                       *)
Drain ==
  /\ pc \in {"discover", "rrq"} /\ Poll
  /\ UNCHANGED <<wire, sess, client, load>>

-----------------------------------------------------------------------------
(* bootp(): its locals and dhcp_reply.  There is one buffer, ip, that is   *)
(* sent: once an offer was taken it holds the request, and when no answer  *)
(* came to that, the rounds that wait for an offer send it too.            *)

NoBootp == [retry |-> 0, reqretry |-> 0, wait |-> "offer", reply |-> "none",
            ip |-> [t |-> "discover"]]

Discover ==
  /\ pc = "discover" /\ ~Ready
  /\ IF bp.retry < MAX_BOOTP_RETRIES
       THEN /\ Send(bp.ip)
            /\ bp' = [bp EXCEPT !.retry = @ + 1, !.wait = "offer"]
            /\ pc' = "bootp"
       ELSE pc' = "restart" /\ UNCHANGED <<wire, bp>>
  /\ UNCHANGED <<nic, sess, packet, me, arp, cfg, tf, pend, load>>

Request ==
  /\ pc = "request"
  /\ IF bp.reqretry < MAX_BOOTP_RETRIES
       THEN /\ Send(bp.ip)
            /\ bp' = [bp EXCEPT !.reqretry = @ + 1, !.wait = "ack", !.reply = "none"]
            /\ pc' = "bootp"
       ELSE pc' = "discover" /\ UNCHANGED <<wire, bp>>
  /\ UNCHANGED <<nic, sess, packet, me, arp, cfg, tf, pend, load>>

BootpTimeout ==
  /\ pc = "bootp" /\ ~Ready
  /\ pc' = IF bp.wait = "offer" THEN "discover" ELSE "request"
  /\ UNCHANGED <<net, packet, me, arp, bp, cfg, tf, pend, load>>

(* A new server or gateway address: what ARP knew of the old one is        *)
(* forgotten.                                                              *)

Entries(c) ==
  [e \in {"server", "gateway"} |->
     [ip |-> IF e = "server" THEN c.si ELSE c.gw, node |-> None]]

(* decode_rfc1533(): of the options, the message type is kept in           *)
(* dhcp_reply (a BOOTP reply has none) and the extension file is fetched.  *)
decode_rfc1533(c) ==
  /\ bp' = [bp EXCEPT !.reply = IF c.kind = "bootp" THEN @ ELSE c.kind]
  /\ IF c.ext THEN pc' = "rrq" /\ tf' = [tf EXCEPT !.file = "ext"]
              ELSE pc' = "replied" /\ UNCHANGED tf

(* await_bootp(): every reply (to our xid) that names a server and a file    *)
(* configures the client, whichever reply bootp() is waiting for.          *)
AwaitBootp ==
  /\ pc = "bootp" /\ Poll
  /\ IF Polled.t = "bootp"
       THEN LET c == Polled.c
            IN  me' = c.yi /\ cfg' = c /\ arp' = Entries(c) /\ decode_rfc1533(c)
       ELSE UNCHANGED <<me, cfg, arp, bp, pc, tf>>
  /\ UNCHANGED <<wire, sess, pend, load>>

(* A reply that is no offer ends the wait for an offer (plain BOOTP), only *)
(* an ACK ends the wait for the answer to a request.                       *)
AckAny == TRUE
AckEnough == bp.reply = "ack"

Replied ==
  /\ pc = "replied"
  /\ IF bp.wait = "offer" /\ bp.reply = "offer"
       THEN /\ bp' = [bp EXCEPT !.reply = "none", !.reqretry = 0,
                          !.ip = [t |-> "request", sel |-> cfg]]
            /\ pc' = "request"
       ELSE /\ pc' = IF bp.wait = "ack" /\ ~AckEnough THEN "request" ELSE "load"
            /\ bp' = IF pc' = "load" THEN NoBootp ELSE bp
  /\ UNCHANGED <<net, packet, me, arp, cfg, tf, pend, load>>

-----------------------------------------------------------------------------
(* tftp().                                                                 *)

(* loadkernel(): a URL names the server; the name then goes to tftp().     *)
LoadKernel ==
  /\ pc = "load"
  /\ arp' = IF cfg.url = None THEN arp ELSE [arp EXCEPT !["server"].ip = cfg.url]
  /\ tf' = [tf EXCEPT !.file = "kernel"]
  /\ pc' = "rrq" /\ image' \in Images
  /\ UNCHANGED <<net, packet, me, bp, cfg, pend, ld, mem, got>>

rrq(port) == [t |-> "rrq", file |-> tf.file, cport |-> port, from |-> me, to |-> None]

(* The port of the client is static: it differs from that of any transfer  *)
(* before.                                                                 *)
FirstPort(p) == 1
NextPort(p) == p + 1

(* The locals of tftp(), as it begins.                                     *)
NoTransfer ==
  [file |-> "ext", port |-> 0, retry |-> 0, block |-> 0, prev |-> 0, n |-> 0,
   size |-> DefSize, len |-> 0, tp |-> "rrq"]

(* The first request.                                                      *)
TftpStart ==
  /\ pc = "rrq" /\ ~Ready
  /\ tf' = [NoTransfer EXCEPT !.port = NextPort(tf.port), !.file = tf.file]
  /\ Transmit(rrq(NextPort(tf.port)), "tftp", "tftp_end")
  /\ UNCHANGED <<nic, sess, packet, me, arp, bp, cfg, load>>

(* No answer: before the first block the buffer tp is sent again from a    *)
(* new port.  After an OACK tp holds the ACK, which no server expects at   *)
(* its well-known port.  After the first block there is no retry.          *)
TftpTimeout ==
  /\ pc = "tftp" /\ ~Ready
  /\ IF tf.block = 0 /\ tf.retry < MAX_TFTP_RETRIES
       THEN /\ tf' = [tf EXCEPT !.retry = @ + 1, !.port = NextPort(@)]
            /\ Transmit([rrq(NextPort(tf.port)) EXCEPT !.t = tf.tp], "tftp", "tftp_end")
       ELSE pc' = "tftp_end" /\ UNCHANGED <<tf, wire, pend>>
  /\ UNCHANGED <<nic, sess, packet, me, arp, bp, cfg, load>>

(* await_tftp(): for our address and our port.  ("error" stands for every  *)
(* opcode but DATA and OACK: all of them end the transfer.)                *)
ForUs(f) == f.t \in {"data", "oack", "error"} /\ f.from = me /\ f.cport = tf.port

(* Blocks must follow each other: any other block is answered by the ACK   *)
(* of the block before, and is not counted as a retry.                     *)
InOrder(n) ==
  IF (n # 0 \/ tf.n # 0) /\ n # (tf.prev + 1) % BlockMod THEN tf.prev ELSE n

ack(n, f) ==
  [t |-> "ack", n |-> n, cport |-> tf.port, sport |-> f.sport, to |-> None]

AwaitTftp ==
  /\ pc = "tftp" /\ Poll
  /\ LET f == Polled
         n == InOrder(IF f.t = "oack" THEN 0 ELSE f.n)
         ignored == \/ ~ForUs(f)
                    \/ f.t = "oack" /\ tf.prev # 0
                    \/ f.t = "data" /\ f.len > tf.size
         got_it == [tf EXCEPT !.block = n, !.tp = "ack69"]
     IN  IF ignored THEN UNCHANGED <<tf, wire, pend, pc>>
         ELSE IF f.t = "error" THEN pc' = "tftp_end" /\ UNCHANGED <<tf, wire, pend>>
         ELSE IF f.t = "oack" /\ f.size < DefSize
         THEN /\ Transmit([ack(8, f) EXCEPT !.t = "refuse"], "tftp_end", "tftp_end")
              /\ UNCHANGED tf
         ELSE /\ tf' = IF f.t = "oack" THEN [got_it EXCEPT !.size = f.size]
                                      ELSE [got_it EXCEPT !.len = f.len]
              /\ Transmit(ack(n, f), "data", "data")
  /\ UNCHANGED <<sess, me, arp, bp, cfg, load>>

(* After the ACK: a new block goes to the callback, from the packet buffer.*)
NewBlock == (tf.block + BlockMod - tf.prev) % BlockMod = 1
Eof == tf.len < tf.size

(* load_block() with the probe of the first block.                         *)
KernelBlock ==
  LET first == tf.n = 0
      e     == IF first THEN Fresh ELSE ld
      bad   == first /\ ~elf32_probe(image, tf.len)
      skip  == e.skip_sectors * Sector + e.skip_bytes
  IN  /\ mem' = IF first THEN Cleared(image, tf.len, mem) ELSE mem
      /\ \/ bad /\ pc' = "tftp_end" /\ UNCHANGED ld
         \/ /\ ~bad /\ SkipsWhole(e, tf.len)
            /\ ld' = Borrow(e, tf.len) /\ pc' = IF Eof THEN "tftp_end" ELSE "tftp"
         \/ /\ ~bad /\ ~SkipsWhole(e, tf.len)
            /\ ld' = [e EXCEPT !.data = packet.pos + skip, !.len = tf.len - skip]
            /\ pc' = "download"

Data ==
  /\ pc = "data"
  /\ IF NewBlock
       THEN /\ tf' = [tf EXCEPT !.prev = tf.block, !.retry = 0, !.n = @ + 1]
            /\ got' = Append(got, [file |-> packet.file, pos |-> packet.pos,
                                   len |-> packet.len])
            /\ IF tf.file = "kernel" THEN KernelBlock
               ELSE pc' = (IF Eof THEN "tftp_end" ELSE "tftp") /\ UNCHANGED <<ld, mem>>
       ELSE pc' = "tftp" /\ UNCHANGED <<tf, got, ld, mem>>
  /\ packet' = NoFrame
  /\ UNCHANGED <<nic, wire, sess, me, arp, bp, cfg, pend, image>>

(* elf32_download(), one turn of its loop a step.  First comes what is     *)
(* left of the skip and of the segment: cplen bytes, written to curaddr.   *)
InSkip == ld.seg # NoSeg /\ ld.skip # 0 /\ ld.skip >= ld.len - ld.offset
Offset == ld.offset + ld.skip
Cplen == IF ld.len - Offset >= ld.toread THEN ld.toread ELSE ld.len - Offset

Copied ==
  [a \in DOMAIN mem |->
     IF a \in ld.curaddr .. ld.curaddr + Cplen - 1
       THEN ld.data + Offset + (a - ld.curaddr) ELSE mem[a]]

(* done(), elf_boot() and xstart32().                                      *)
Start(m) == pc' = "started" /\ mem' = xstart32(image, m) /\ nic' = Disabled(nic)

(* The loop ends with the block; the end of the file starts the kernel,    *)
(* whatever has been loaded of it.                                         *)
Leave(e, m) ==
  /\ ld' = Advance(e)
  /\ IF Eof THEN Start(m) ELSE pc' = "tftp" /\ mem' = m /\ UNCHANGED nic

SkipOn == InSkip /\ Leave([ld EXCEPT !.skip = @ - (ld.len - ld.offset)], mem)

CopyPart ==
  /\ ~InSkip /\ Cplen < ld.toread
  /\ Leave([ld EXCEPT !.skip = 0, !.curaddr = @ + Cplen, !.toread = @ - Cplen], Copied)

(* The segment is finished (or none was begun): the next one in the file.  *)
(* With none left the kernel is started.                                   *)
SegmentDone ==
  LET offset == Offset + Cplen
      pos    == ld.loc + offset
  IN  /\ ~InSkip /\ Cplen = ld.toread
      /\ \/ /\ Ahead(image, pos) = {}
            /\ ld' = Fresh /\ Start(Copied)
         \/ \E s \in NextSegments(image, pos) :
              LET p == image.phdr[s]
                  e == [ld EXCEPT !.seg = s, !.curaddr = p.paddr, !.skip = p.off - pos,
                                  !.toread = p.filesz, !.offset = offset]
              IN  IF offset < ld.len
                    THEN ld' = e /\ mem' = Copied /\ UNCHANGED <<pc, nic>>
                    ELSE Leave(e, Copied)

elf32_download ==
  /\ pc = "download" /\ (SkipOn \/ CopyPart \/ SegmentDone)
  /\ UNCHANGED <<packet, wire, sess, me, arp, bp, cfg, tf, pend, image, got>>

(* Back in decode_rfc1533(), or in eth_load(), which restarts; only iport  *)
(* is static.                                                              *)
TftpEnd ==
  /\ pc = "tftp_end"
  /\ pc' = IF tf.file = "ext" THEN "replied" ELSE "restart"
  /\ tf' = [NoTransfer EXCEPT !.port = tf.port, !.file = tf.file]
  /\ packet' = NoFrame /\ got' = << >>
  /\ UNCHANGED <<net, me, arp, bp, cfg, pend, image, ld, mem>>

-----------------------------------------------------------------------------
(* The network and the servers.                                            *)

(* A server takes m off the wire, or answers a copy of it.                 *)
Take(m) == wire' \in {wire \ {m}, wire}

ArpAnswer(m) ==
  /\ m.t = "arp" /\ m.ip \in Hosts /\ Take(m)
  /\ nic' = Received(nic, [t |-> "arp", ip |-> m.ip, node |-> m.ip])
  /\ UNCHANGED sess

(* An offer to a discover, an ACK from the server that a request names; a  *)
(* BOOTP server answers both, for it does not look at the options.  (A NAK *)
(* names no server to boot from, and await_bootp() drops it.)              *)
DhcpAnswer(m) ==
  /\ \/ \E c \in Replies :
          /\ m.t = "discover" \/ (m.t = "request" /\ c.kind = "bootp")
          /\ nic' = Received(nic, [t |-> "bootp", c |-> c])
     \/ /\ m.t = "request"
        /\ nic' = Received(nic, [t |-> "bootp",
                                 c |-> [m.sel EXCEPT !.kind = "ack"]])
  /\ Take(m) /\ UNCHANGED sess

FileSize(f) == IF f = "ext" THEN ExtSize ELSE image.size

(* What transfer s sends: an OACK first (block 0), or the next block.      *)
Frame(i, s) ==
  IF s.n = 0
    THEN [t |-> "oack", size |-> s.size, n |-> 0, from |-> s.from,
          cport |-> s.cport, sport |-> i]
    ELSE LET pos == (s.n - 1) * s.size
             left == FileSize(s.file) - pos
         IN  [t |-> "data", n |-> s.n % BlockMod, pos |-> pos, file |-> s.file,
              len |-> IF left < s.size THEN left ELSE s.size, from |-> s.from,
              cport |-> s.cport, sport |-> i]

(* A copy of a request gets the same answer as the request did.            *)
TftpAccept(m) ==
  /\ m.t = "rrq" /\ Len(sess) < MaxSessions /\ Take(m)
  /\ \E size \in OackSizes \cup {DefSize}, oack \in BOOLEAN :
       /\ oack <=> size \in OackSizes
       /\ \A i \in DOMAIN sess : sess[i].cport = m.cport => sess[i].size = size
       /\ sess' = Append(sess, [file |-> m.file, cport |-> m.cport, from |-> m.from,
                                size |-> size, n |-> IF oack THEN 0 ELSE 1])
  /\ nic' = Received(nic, Frame(Len(sess'), sess'[Len(sess')]))

TftpRefuse(m) ==
  /\ m.t \in {"rrq", "ack69"} /\ Take(m)
  /\ nic' = Received(nic, [t |-> "error", from |-> m.from, cport |-> m.cport, sport |-> 0])
  /\ UNCHANGED sess

TftpNext(m) ==
  /\ m.t = "ack" /\ Take(m)
  /\ LET s == sess[m.sport]
         n == [s EXCEPT !.n = @ + 1]
         goes == m.n = s.n % BlockMod /\ s.n * s.size <= FileSize(s.file)
     IN  IF goes
           THEN sess' = [sess EXCEPT ![m.sport] = n] /\ nic' = Received(nic, Frame(m.sport, n))
           ELSE UNCHANGED <<sess, nic>>

(* A server sends its last frame again, as often as it likes.  (Bounds: a  *)
(* repeat does not queue behind another frame; nor does it come when the   *)
(* client is nearly a round of block numbers ahead with another transfer   *)
(* of the same request, for 2^16 blocks take longer than a server waits.)  *)
RoundBehind(s) == s.cport = tf.port /\ tf.n - s.n >= BlockMod - 2

Resend ==
  /\ nic.ring = AllAvail
  /\ \E i \in DOMAIN sess :
       ~RoundBehind(sess[i]) /\ nic' = Received(nic, Frame(i, sess[i]))
  /\ UNCHANGED <<wire, sess>>

World ==
  /\ \/ Resend
     \/ \E m \in wire : \/ ArpAnswer(m) \/ DhcpAnswer(m) \/ TftpAccept(m)
                        \/ TftpRefuse(m) \/ TftpNext(m)
  /\ UNCHANGED <<packet, client, load>>

-----------------------------------------------------------------------------
Init ==
  /\ nic = [ring |-> AllAvail, hw |-> 0, on |-> FALSE]
  /\ packet = NoFrame /\ wire = {} /\ sess = << >>
  /\ pc = "probe" /\ me = None
  /\ arp = [e \in {"server", "gateway"} |-> [ip |-> None, node |-> None]]
  /\ bp = NoBootp
  /\ cfg = NoReply
  /\ tf = NoTransfer
  /\ pend = NoPend /\ image = NoImage
  /\ ld = Fresh /\ mem = [a \in Memory |-> Stale] /\ got = << >>

Waiting ==
  \/ Probe \/ Drain \/ AwaitArp \/ ArpTimeout
  \/ Discover \/ Request \/ BootpTimeout \/ AwaitBootp \/ Replied
  \/ LoadKernel \/ TftpStart \/ TftpTimeout \/ AwaitTftp \/ elf32_download \/ TftpEnd

Next == Waiting \/ Data \/ World

(* The client runs for ever: it polls, and a block it has is worked on.    *)
(* (The second conjunct is weak fairness of Data, which is enabled exactly *)
(* when pc = "data".)  Nothing is assumed of the network.                  *)
Spec == Init /\ [][Next]_vars /\ WF_vars(Waiting) /\ []<>(pc # "data")

(* restart_etherboot() goes back to the menu.                              *)
Over == pc \in {"started", "failed", "restart"}

-----------------------------------------------------------------------------
(* The client boots with an address that a server has given it: when it    *)
(* goes on to load, the reply in force is an ACK or a BOOTP reply, never   *)
(* an offer, though every offer that arrives meanwhile reconfigures it     *)
(* (bootp, await_bootp).                                                   *)
AddressGranted ==
  pc = "load" => cfg.kind \in {"ack", "bootp"} /\ me = cfg.yi

(* What tftp() hands to its callback is the file it asked for, from the    *)
(* start, without gaps or repeats, whatever is lost, repeated or left over *)
(* from an earlier transfer.                                               *)
FileInOrder ==
  \A i \in 1 .. Len(got) :
    /\ got[i].file = tf.file
    /\ got[i].pos = IF i = 1 THEN 0 ELSE got[i - 1].pos + got[i - 1].len

(* Every segment is in memory m as the file has it, its bss is clear, the  *)
(* ramdisk is where Linux is told it is and nothing else was written.      *)
Whole(img, m) ==
  LET p == img.phdr
      file(i) == p[i].paddr .. p[i].paddr + p[i].filesz - 1
      bss(i) == p[i].paddr + p[i].filesz .. p[i].paddr + p[i].memsz - 1
      rd == IF HasRamdisk(img)
              THEN InitrdStart .. InitrdStart + p[S_RAMDISK].filesz - 1 ELSE {}
  IN  \A a \in Memory :
        /\ \A i \in Loads(img) :
             /\ a \in file(i) => m[a] = p[i].off + (a - p[i].paddr)
             /\ a \in bss(i) => m[a] = Zero
        /\ a \in rd => m[a] = p[S_RAMDISK].off + (a - InitrdStart)
        /\ a \notin rd \cup UNION {file(i) \cup bss(i) : i \in Loads(img)} => m[a] = Stale

(* When the kernel is entered the file is in memory, whole and nothing but *)
(* the file, in whatever blocks it came (load_block, elf32_download,       *)
(* xstart32).                                                              *)
KernelWhole == pc = "started" => Whole(image, mem)

(* etherboot() comes to an end: the kernel runs or the menu is back,       *)
(* whatever the network loses, delays or repeats, unless it goes on        *)
(* repeating frames for ever: a wait looks at its timeout only when the    *)
(* ring is empty, and tftp() answers a repeated block and waits again      *)
(* without counting it.                                                    *)
Repeats == World /\ UNCHANGED wire
EtherbootEnds == <>Over \/ []<><<Repeats>>_vars
==============================================================================
