-------------------------- MODULE EtherbootProofs --------------------------
(***************************************************************************)
(* Three proofs about the network boot, for every set of servers and       *)
(* whatever the network does with the frames: the address it uses is one a *)
(* server has granted, tftp() hands on a file in order, and the kernel is  *)
(* whole in memory when it is entered.  The second and the third are laid  *)
(* out below, where they start.                                            *)
(*                                                                         *)
(* Every reply that arrives reconfigures the client, whichever it waits    *)
(* for, and dhcp_reply keeps the message type of an earlier one when a     *)
(* BOOTP reply comes.  BootpInv relates the three: from the moment a reply *)
(* was decoded, through the transfer of its extension file, until bootp()  *)
(* looks at dhcp_reply, the configuration in force is the one dhcp_reply   *)
(* speaks of, or is no offer; and an ACK is never left over in dhcp_reply. *)
(***************************************************************************)
EXTENDS Etherboot, TLAPS

Kinds == {"offer", "bootp", "ack"}

HasKind(c) == "kind" \in DOMAIN c

(* A frame the client may find, and one on its way to the servers.         *)
FrameOK(f) == f.t = "bootp" => HasKind(f.c) /\ f.c.kind \in Kinds
WireOK(m) == m.t = "request" => HasKind(m.sel)

NicOK(n) ==
  /\ DOMAIN n = {"ring", "hw", "on"}
  /\ n = [n EXCEPT !.ring = [i \in Slots |-> n.ring[i]]]
  /\ n.hw \in Slots
  /\ \A i \in Slots : FrameOK(n.ring[i])

(* Where the client is while tftp() runs and where ip_transmit() returns.  *)
Transfers == {"rrq", "arp", "tftp", "data", "download", "tftp_end"}
Returns == {"tftp", "data", "tftp_end"}
Looking == {"probe", "discover", "request", "bootp"}

PendOK ==
  pc = "arp" => /\ pend.ok \in Returns /\ pend.fail \in Returns
                /\ DOMAIN pend = {"m", "entry", "retry", "ok", "fail"}
                /\ "t" \in DOMAIN pend.m /\ pend.m.t # "request"

BpOK ==
  /\ DOMAIN bp = DOMAIN NoBootp
  /\ bp.wait \in {"offer", "ack"} /\ bp.reply \in {"none", "offer", "ack"}
  /\ bp.ip.t \in {"discover", "request"} /\ WireOK(bp.ip)

TfOK == {"file", "tp"} \subseteq DOMAIN tf /\ tf.tp \in {"rrq", "ack69"}

TypeOK ==
  /\ NicOK(nic) /\ \A m \in wire : WireOK(m)
  /\ PendOK /\ BpOK /\ HasKind(cfg) /\ TfOK

(* The reply in force and what dhcp_reply says of it.                      *)
Decoded ==
  /\ cfg.kind \in Kinds /\ me = cfg.yi
  /\ bp.reply = "ack" => cfg.kind = "ack"
  /\ cfg.kind = "offer" => bp.reply = "offer"

BootpInv ==
  /\ TypeOK
  /\ pc \in Looking \cup Transfers \cup {"replied", "load", "started", "failed", "restart"}
  /\ pc \in Looking => bp.reply # "ack"
  /\ pc = "replied" => Decoded
  /\ pc \in Transfers /\ tf.file = "ext" => Decoded
  /\ AddressGranted

-----------------------------------------------------------------------------
(* The chip and the driver only pass frames on.                            *)
LEMMA SlotsFacts == 0 \in Slots /\ \A h \in Slots : (h + 1) % RX_RING \in Slots
                    /\ (h + RX_RING - 1) % RX_RING \in Slots
  BY EtherbootAssumption DEF Slots

LEMMA ReceivedOK ==
  ASSUME NEW n, NicOK(n), NEW f, FrameOK(f)
  PROVE  NicOK(Received(n, f))
  BY SlotsFacts DEF NicOK, Received

LEMMA AfterPollOK ==
  ASSUME NEW n, NicOK(n)
  PROVE  NicOK(AfterPoll(n))
  <1>1. \A i \in Slots : FrameOK(AllAvail[i])
    BY DEF FrameOK, AllAvail, Avail
  <1> QED
    BY <1>1, SlotsFacts DEF NicOK, AfterPoll, AllAvail

LEMMA ResetOK ==
  ASSUME NEW phy
  PROVE  NicOK(forcedeth_reset(phy))
  BY SlotsFacts DEF NicOK, forcedeth_reset, AllAvail, FrameOK, Avail

LEMMA SendOK ==
  ASSUME NEW m, WireOK(m), \A x \in wire : WireOK(x), Send(m)
  PROVE  \A x \in wire' : WireOK(x)
  BY DEF Send

(* A datagram of tftp() goes out, or waits for ARP.                        *)
LEMMA TransmitOK ==
  ASSUME NEW m, "t" \in DOMAIN m, m.t # "request", \A x \in wire : WireOK(x),
         NEW ok \in Returns, NEW fail \in Returns, Transmit(m, ok, fail), pc # "arp"
  PROVE  /\ \A x \in wire' : WireOK(x)
         /\ PendOK' /\ pc' \in Returns \cup {"arp"}
  <1> DEFINE e == Entry(arp["server"].ip)
  <1> HIDE DEF e
  <1>1. CASE arp[e].node # None
    <2>1. Send([m EXCEPT !.to = arp[e].node]) /\ pc' = ok
      BY <1>1 DEF Transmit, e
    <2>2. WireOK([m EXCEPT !.to = arp[e].node])
      BY DEF WireOK
    <2> QED
      BY <2>1, <2>2, SendOK DEF PendOK, Returns
  <1>2. CASE arp[e].node = None
    <2>1. /\ Send([t |-> "arp", ip |-> arp[e].ip])
          /\ pend' = [m |-> m, entry |-> e, retry |-> 1, ok |-> ok, fail |-> fail]
          /\ pc' = "arp"
      BY <1>2 DEF Transmit, e
    <2>2. WireOK([t |-> "arp", ip |-> arp[e].ip])
      BY DEF WireOK
    <2> QED
      BY <2>1, <2>2, SendOK DEF PendOK
  <1> QED
    BY <1>1, <1>2

-----------------------------------------------------------------------------
LEMMA InitBootp == Init => BootpInv
  <1> SUFFICES ASSUME Init PROVE BootpInv
    OBVIOUS
  <1>1. NicOK(nic)
    BY ResetOK DEF Init, forcedeth_reset
  <1>2. TypeOK
    BY <1>1 DEF Init, TypeOK, TfOK, PendOK, BpOK, HasKind, NoBootp, NoReply, NoTransfer, WireOK
  <1> QED
    BY <1>2 DEF Init, BootpInv, AddressGranted, NoBootp, Looking, Transfers

(* The client polls: what it finds is a frame, what is left of the ring is *)
(* empty.                                                                  *)
LEMMA PollOK ==
  ASSUME BootpInv, Poll
  PROVE  NicOK(nic') /\ FrameOK(Polled)
  BY AfterPollOK, SlotsFacts DEF BootpInv, TypeOK, Poll, NicOK, Polled

(* bootp() and await_bootp().                                              *)
LEMMA BootpKeeps ==
  ASSUME BootpInv,
         Probe \/ Discover \/ Request \/ BootpTimeout \/ AwaitBootp \/ Replied
  PROVE  BootpInv'
  <1> TypeOK /\ BpOK /\ NicOK(nic) /\ HasKind(cfg) /\ TfOK
    BY DEF BootpInv, TypeOK
  <1>1. CASE Probe
    <2>1. NicOK(nic')
      BY <1>1, ResetOK DEF Probe
    <2>2. BpOK' /\ bp'.reply = bp.reply
      BY <1>1 DEF Probe, BpOK, NoBootp
    <2> QED
      BY <1>1, <2>1, <2>2 DEF BootpInv, TypeOK, TfOK, PendOK, Probe, AddressGranted,
         Looking, Transfers
  <1>2. CASE Discover
    <2>1. \A m \in wire' : WireOK(m)
      BY <1>2, SendOK DEF Discover, TypeOK, BpOK
    <2>2. BpOK' /\ bp'.reply = bp.reply
      BY <1>2 DEF Discover, BpOK, NoBootp
    <2> QED
      BY <1>2, <2>1, <2>2 DEF BootpInv, TypeOK, TfOK, PendOK, Discover, AddressGranted,
         Looking, Transfers
  <1>3. CASE Request
    <2>1. \A m \in wire' : WireOK(m)
      BY <1>3, SendOK DEF Request, TypeOK, BpOK
    <2>2. BpOK' /\ bp'.reply # "ack"
      BY <1>3 DEF Request, BpOK, NoBootp, BootpInv, Looking
    <2> QED
      BY <1>3, <2>1, <2>2 DEF BootpInv, TypeOK, TfOK, PendOK, Request, AddressGranted,
         Looking, Transfers
  <1>4. CASE BootpTimeout
    BY <1>4 DEF BootpInv, TypeOK, TfOK, PendOK, BpOK, BootpTimeout, net, AddressGranted,
       Looking, Transfers
  <1>5. CASE AwaitBootp
    <2>1. NicOK(nic') /\ FrameOK(Polled) /\ wire' = wire /\ pend' = pend
      BY <1>5, PollOK DEF AwaitBootp
    <2>2. CASE Polled.t = "bootp"
      <3> DEFINE c == Polled.c
      <3>1. HasKind(c) /\ c.kind \in Kinds
        BY <2>1, <2>2 DEF FrameOK
      <3> HIDE DEF c
      <3>2. me' = c.yi /\ cfg' = c /\ decode_rfc1533(c)
        BY <1>5, <2>2 DEF AwaitBootp, c
      <3>3. /\ BpOK' /\ bp'.reply = IF c.kind = "bootp" THEN bp.reply ELSE c.kind
            /\ bp.reply # "ack"
        BY <1>5, <3>1, <3>2 DEF AwaitBootp, decode_rfc1533, BpOK, NoBootp, Kinds,
           BootpInv, Looking
      <3>4. Decoded'
        BY <3>1, <3>2, <3>3 DEF Decoded, Kinds
      <3>5. pc' \in {"rrq", "replied"} /\ TfOK'
        BY <3>2 DEF decode_rfc1533, TfOK
      <3> QED
        BY <2>1, <3>1, <3>2, <3>3, <3>4, <3>5 DEF BootpInv, TypeOK, TfOK, PendOK,
           AddressGranted, Looking, Transfers
    <2>3. CASE Polled.t # "bootp"
      BY <1>5, <2>1, <2>3 DEF AwaitBootp, BootpInv, TypeOK, TfOK, PendOK, BpOK,
         AddressGranted, Looking, Transfers
    <2> QED
      BY <2>2, <2>3
  <1>6. CASE Replied
    <2>1. Decoded /\ nic' = nic /\ wire' = wire /\ tf' = tf /\ cfg' = cfg /\ me' = me
      BY <1>6 DEF Replied, BootpInv, net
    <2>2. BpOK'
      <3> DEFINE ip == [t |-> "request", sel |-> cfg]
      <3>1. bp' \in {bp, NoBootp, [bp EXCEPT !.reply = "none", !.reqretry = 0, !.ip = ip]}
        BY <1>6 DEF Replied
      <3>2. CASE bp' = bp
        BY <3>2 DEF BpOK, TypeOK
      <3>3. CASE bp' = NoBootp
        BY <3>3 DEF BpOK, NoBootp, WireOK
      <3>4. CASE bp' = [bp EXCEPT !.reply = "none", !.reqretry = 0, !.ip = ip]
        <4>1. ip.t = "request" /\ WireOK(ip)
          BY DEF WireOK, TypeOK
        <4> QED
          BY <3>4, <4>1 DEF BpOK, NoBootp
      <3> QED
        BY <3>1, <3>2, <3>3, <3>4
    <2>3. pc' \in {"request", "load"}
      BY <1>6 DEF Replied
    <2>4. pc' = "request" => bp'.reply # "ack"
      BY <1>6 DEF Replied, BpOK, NoBootp, AckEnough
    <2>5. pc' = "load" => cfg.kind \in {"ack", "bootp"}
      BY <1>6, <2>1 DEF Replied, BpOK, Decoded, Kinds, AckEnough
    <2> QED
      BY <2>1, <2>2, <2>3, <2>4, <2>5 DEF BootpInv, TypeOK, TfOK, PendOK, AddressGranted, Decoded,
         Looking, Transfers
  <1> QED
    BY <1>1, <1>2, <1>3, <1>4, <1>5, <1>6

-----------------------------------------------------------------------------
(* ARP and tftp(): the reply in force stays.                               *)

(* What a step of a transfer leaves as it is.                              *)
Keeping ==
  /\ me' = me /\ cfg' = cfg /\ bp' = bp /\ tf'.file = tf.file /\ TfOK'
  /\ NicOK(nic') /\ \A m \in wire' : WireOK(m)

LEMMA KeepingOK ==
  ASSUME BootpInv, Keeping, PendOK',
         \/ pc \in Transfers /\ pc' \in Transfers \cup {"started"}
         \/ pc' = pc
         \/ pc \in Transfers /\ pc' = IF tf.file = "ext" THEN "replied" ELSE "restart"
  PROVE  BootpInv'
  <1>1. TypeOK'
    BY DEF BootpInv, TypeOK, Keeping, BpOK, HasKind
  <1>2. Decoded' = Decoded /\ (pc' = pc => AddressGranted' = AddressGranted)
    BY DEF Keeping, Decoded, AddressGranted
  <1> QED
    BY <1>1, <1>2 DEF BootpInv, Keeping, AddressGranted, Looking, Transfers

LEMMA ArpKeeps ==
  ASSUME BootpInv, AwaitArp \/ ArpTimeout \/ Drain
  PROVE  BootpInv'
  <1> TypeOK
    BY DEF BootpInv
  <1>1. CASE AwaitArp
    <2>1. NicOK(nic') /\ tf' = tf /\ me' = me /\ cfg' = cfg /\ bp' = bp /\ pc = "arp"
      BY <1>1, PollOK DEF AwaitArp
    <2>2. CASE Polled.t = "arp" /\ Polled.ip = arp[pend.entry].ip
      <3>1. /\ Send([pend.m EXCEPT !.to = Polled.node])
            /\ pc' = pend.ok /\ pc' \in Returns
        BY <1>1, <2>1, <2>2 DEF AwaitArp, TypeOK, TfOK, PendOK
      <3>2. WireOK([pend.m EXCEPT !.to = Polled.node])
        BY <2>1 DEF WireOK, TypeOK, TfOK, PendOK
      <3>3. \A m \in wire' : WireOK(m)
        BY <3>1, <3>2, SendOK DEF TypeOK
      <3> QED
        BY <2>1, <3>1, <3>3, KeepingOK DEF TypeOK, TfOK, PendOK, Keeping, Returns, Transfers
    <2>3. CASE ~(Polled.t = "arp" /\ Polled.ip = arp[pend.entry].ip)
      BY <1>1, <2>1, <2>3, KeepingOK DEF AwaitArp, TypeOK, TfOK, PendOK, Keeping
    <2> QED
      BY <2>2, <2>3
  <1>2. CASE ArpTimeout
    <2>1. /\ nic' = nic /\ tf' = tf /\ me' = me /\ cfg' = cfg /\ bp' = bp /\ pc = "arp"
      BY <1>2 DEF ArpTimeout
    <2>2. CASE pend.retry < MAX_ARP_RETRIES
      <3>1. Send([t |-> "arp", ip |-> arp[pend.entry].ip]) /\ pc' = pc
        BY <1>2, <2>2 DEF ArpTimeout
      <3>2. WireOK([t |-> "arp", ip |-> arp[pend.entry].ip])
        BY DEF WireOK
      <3>3. \A m \in wire' : WireOK(m)
        BY <3>1, <3>2, SendOK DEF TypeOK
      <3>4. PendOK'
        BY <1>2, <2>1, <2>2 DEF ArpTimeout, TypeOK, TfOK, PendOK
      <3> QED
        BY <2>1, <3>1, <3>3, <3>4, KeepingOK DEF TypeOK, TfOK, Keeping
    <2>3. CASE ~(pend.retry < MAX_ARP_RETRIES)
      <3>1. pc' \in Returns /\ wire' = wire
        BY <1>2, <2>1, <2>3 DEF ArpTimeout, TypeOK, TfOK, PendOK
      <3> QED
        BY <2>1, <3>1, KeepingOK DEF TypeOK, TfOK, PendOK, Keeping, Returns, Transfers
    <2> QED
      BY <2>2, <2>3
  <1>3. CASE Drain
    <2>1. NicOK(nic')
      BY <1>3, PollOK DEF Drain
    <2> QED
      BY <1>3, <2>1, KeepingOK DEF Drain, client, Keeping, TypeOK, TfOK, PendOK
  <1> QED
    BY <1>1, <1>2, <1>3

(* A step of tftp() that sends a datagram.                                 *)
LEMMA TftpSends ==
  ASSUME BootpInv, pc \in {"rrq", "tftp"}, NicOK(nic'),
         me' = me, cfg' = cfg, bp' = bp, tf'.file = tf.file, TfOK',
         NEW m, "t" \in DOMAIN m, m.t # "request",
         NEW ok \in Returns, NEW fail \in Returns, Transmit(m, ok, fail)
  PROVE  BootpInv'
  <1>1. \A x \in wire' : WireOK(x)
    BY TransmitOK DEF BootpInv, TypeOK
  <1>2. PendOK' /\ pc' \in Returns \cup {"arp"}
    BY TransmitOK DEF BootpInv, TypeOK
  <1> QED
    BY <1>1, <1>2, KeepingOK DEF Keeping, Returns, Transfers

LEMMA RrqFacts ==
  ASSUME NEW p PROVE "t" \in DOMAIN rrq(p) /\ rrq(p).t = "rrq"
  BY DEF rrq

LEMMA TftpKeeps ==
  ASSUME BootpInv, TftpStart \/ TftpTimeout \/ AwaitTftp \/ TftpEnd
  PROVE  BootpInv'
  <1> TypeOK
    BY DEF BootpInv
  <1>1. CASE TftpStart
    <2>1. /\ Transmit(rrq(NextPort(tf.port)), "tftp", "tftp_end")
          /\ pc = "rrq" /\ nic' = nic /\ me' = me /\ cfg' = cfg /\ bp' = bp
      BY <1>1 DEF TftpStart
    <2>2. tf'.file = tf.file /\ TfOK'
      BY <1>1 DEF TftpStart, NoTransfer, TfOK
    <2> QED
      BY <2>1, <2>2, RrqFacts, TftpSends DEF TypeOK, Returns
  <1>2. CASE TftpTimeout
    <2>1. pc = "tftp" /\ nic' = nic /\ me' = me /\ cfg' = cfg /\ bp' = bp
      BY <1>2 DEF TftpTimeout
    <2>2. CASE tf.block = 0 /\ tf.retry < MAX_TFTP_RETRIES
      <3>1. /\ tf' = [tf EXCEPT !.retry = @ + 1, !.port = NextPort(@)]
            /\ Transmit([rrq(NextPort(tf.port)) EXCEPT !.t = tf.tp], "tftp", "tftp_end")
        BY <1>2, <2>2 DEF TftpTimeout
      <3>2. tf'.file = tf.file /\ TfOK'
        BY <3>1 DEF TypeOK, TfOK
      <3>3. "t" \in DOMAIN [rrq(NextPort(tf.port)) EXCEPT !.t = tf.tp]
            /\ [rrq(NextPort(tf.port)) EXCEPT !.t = tf.tp].t = tf.tp
        BY DEF rrq
      <3>4. tf.tp # "request"
        BY DEF TypeOK, TfOK
      <3> QED
        BY <2>1, <3>1, <3>2, <3>3, <3>4, TftpSends DEF TypeOK, Returns
    <2>3. CASE ~(tf.block = 0 /\ tf.retry < MAX_TFTP_RETRIES)
      BY <1>2, <2>1, <2>3, KeepingOK DEF TftpTimeout, TypeOK, TfOK, PendOK, Keeping, Transfers
    <2> QED
      BY <2>2, <2>3
  <1>3. CASE AwaitTftp
    <2> DEFINE f == Polled
               n == InOrder(IF f.t = "oack" THEN 0 ELSE f.n)
    <2>1. pc = "tftp" /\ NicOK(nic') /\ me' = me /\ cfg' = cfg /\ bp' = bp
      BY <1>3, PollOK DEF AwaitTftp
    <2>2. CASE UNCHANGED <<tf, wire, pend>> /\ pc' \in {pc, "tftp_end"}
      BY <2>1, <2>2, KeepingOK DEF TypeOK, TfOK, PendOK, Keeping, Transfers
    <2>3. CASE /\ Transmit([ack(8, f) EXCEPT !.t = "refuse"], "tftp_end", "tftp_end")
               /\ UNCHANGED tf
      <3>1. "t" \in DOMAIN [ack(8, f) EXCEPT !.t = "refuse"]
            /\ [ack(8, f) EXCEPT !.t = "refuse"].t = "refuse"
        BY DEF ack
      <3> QED
        BY <2>1, <2>3, <3>1, TftpSends DEF TypeOK, TfOK, Returns
    <2>4. CASE /\ Transmit(ack(n, f), "data", "data")
               /\ tf'.file = tf.file /\ TfOK'
      <3>1. "t" \in DOMAIN ack(n, f) /\ ack(n, f).t = "ack"
        BY DEF ack
      <3> QED
        BY <2>1, <2>4, <3>1, TftpSends DEF Returns
    <2> HIDE DEF f, n
    <2>5. \/ UNCHANGED <<tf, wire, pend>> /\ pc' \in {pc, "tftp_end"}
          \/ /\ Transmit([ack(8, f) EXCEPT !.t = "refuse"], "tftp_end", "tftp_end")
             /\ UNCHANGED tf
          \/ /\ Transmit(ack(n, f), "data", "data")
             /\ tf'.file = tf.file /\ TfOK'
      BY <1>3 DEF AwaitTftp, TypeOK, TfOK, f, n
    <2> QED
      BY <2>2, <2>3, <2>4, <2>5
  <1>4. CASE TftpEnd
    <2>1. tf'.file = tf.file /\ TfOK'
      BY <1>4 DEF TftpEnd, NoTransfer, TfOK
    <2>2. nic' = nic /\ wire' = wire /\ UNCHANGED <<me, cfg, bp, pend>> /\ pc' # "arp"
          /\ pc = "tftp_end" /\ pc' = IF tf.file = "ext" THEN "replied" ELSE "restart"
      BY <1>4 DEF TftpEnd, net
    <2> QED
      BY <2>1, <2>2, KeepingOK DEF TypeOK, TfOK, PendOK, Keeping, Transfers
  <1> QED
    BY <1>1, <1>2, <1>3, <1>4

(* loadkernel() and the callback.                                          *)
LEMMA LoadKeeps ==
  ASSUME BootpInv, LoadKernel \/ Data \/ elf32_download
  PROVE  BootpInv'
  <1> TypeOK
    BY DEF BootpInv
  <1>1. CASE LoadKernel
    <2>1. tf'.file = "kernel" /\ TfOK'
      BY <1>1 DEF LoadKernel, TypeOK, TfOK
    <2> QED
      BY <1>1, <2>1 DEF LoadKernel, net, BootpInv, TypeOK, TfOK, PendOK, BpOK, HasKind,
         AddressGranted, Looking, Transfers
  <1>2. CASE Data
    <2>1. pc = "data" /\ pc' \in {"tftp", "tftp_end", "download"} /\ nic' = nic
      BY <1>2 DEF Data, KernelBlock
    <2>2. tf'.file = tf.file /\ TfOK'
      BY <1>2 DEF Data, TypeOK, TfOK
    <2> QED
      BY <1>2, <2>1, <2>2, KeepingOK DEF Data, TypeOK, TfOK, PendOK, Keeping, Transfers
  <1>3. CASE elf32_download
    <2>1. pc = "download" /\ pc' \in {"download", "tftp", "started"}
          /\ (nic' = nic \/ nic' = Disabled(nic))
      BY <1>3 DEF elf32_download, SkipOn, CopyPart, SegmentDone, Leave, Start
    <2>2. NicOK(nic')
      BY <2>1 DEF TypeOK, NicOK, Disabled
    <2> QED
      BY <1>3, <2>1, <2>2, KeepingOK DEF elf32_download, TypeOK, TfOK, PendOK, Keeping, Transfers
  <1> QED
    BY <1>1, <1>2, <1>3

-----------------------------------------------------------------------------
(* The network and the servers.                                            *)
LEMMA WorldKeeps ==
  ASSUME BootpInv, World
  PROVE  BootpInv'
  <1> TypeOK
    BY DEF BootpInv
  <1>1. ASSUME NEW i, NEW s PROVE FrameOK(Frame(i, s))
    BY DEF FrameOK, Frame
  <1>2. CASE Resend
    <2>1. wire' = wire /\ NicOK(nic')
      BY <1>1, <1>2, ReceivedOK DEF Resend, TypeOK
    <2> QED
      BY <2>1, KeepingOK DEF World, client, TypeOK, TfOK, PendOK, Keeping
  <1>3. ASSUME NEW m \in wire, Take(m), NicOK(nic') PROVE BootpInv'
    <2>1. \A x \in wire' : WireOK(x)
      BY <1>3 DEF Take, TypeOK
    <2> QED
      BY <1>3, <2>1, KeepingOK DEF World, client, TypeOK, TfOK, PendOK, Keeping
  <1>4. ASSUME NEW m \in wire, ArpAnswer(m) PROVE NicOK(nic')
    <2>1. FrameOK([t |-> "arp", ip |-> m.ip, node |-> m.ip])
      BY DEF FrameOK
    <2> QED
      BY <1>4, <2>1, ReceivedOK DEF ArpAnswer, TypeOK
  <1>5. ASSUME NEW m \in wire, DhcpAnswer(m) PROVE NicOK(nic')
    <2>1. ASSUME NEW c \in Replies, nic' = Received(nic, [t |-> "bootp", c |-> c])
          PROVE  NicOK(nic')
      <3>1. FrameOK([t |-> "bootp", c |-> c])
        BY RepliesAssumption DEF FrameOK, HasKind, NoReply, Kinds
      <3> QED
        BY <2>1, <3>1, ReceivedOK DEF TypeOK
    <2>2. ASSUME m.t = "request",
                 nic' = Received(nic, [t |-> "bootp", c |-> [m.sel EXCEPT !.kind = "ack"]])
          PROVE  NicOK(nic')
      <3> DEFINE c == [m.sel EXCEPT !.kind = "ack"]
      <3>1. HasKind(m.sel)
        BY <2>2 DEF TypeOK, WireOK
      <3>2. FrameOK([t |-> "bootp", c |-> c])
        BY <3>1 DEF FrameOK, HasKind, Kinds
      <3> QED
        BY <2>2, <3>2, ReceivedOK DEF TypeOK
    <2> QED
      BY <1>5, <2>1, <2>2 DEF DhcpAnswer
  <1>6. ASSUME NEW m \in wire, TftpAccept(m) PROVE NicOK(nic')
    BY <1>1, <1>6, ReceivedOK DEF TftpAccept, TypeOK
  <1>7. ASSUME NEW m \in wire, TftpRefuse(m) PROVE NicOK(nic')
    <2>1. FrameOK([t |-> "error", from |-> m.from, cport |-> m.cport, sport |-> 0])
      BY DEF FrameOK
    <2> QED
      BY <1>7, <2>1, ReceivedOK DEF TftpRefuse, TypeOK
  <1>8. ASSUME NEW m \in wire, TftpNext(m) PROVE NicOK(nic')
    BY <1>1, <1>8, ReceivedOK DEF TftpNext, TypeOK
  <1>9. \/ Resend
        \/ \E m \in wire : /\ Take(m)
                           /\ \/ ArpAnswer(m) \/ DhcpAnswer(m) \/ TftpAccept(m)
                              \/ TftpRefuse(m) \/ TftpNext(m)
    BY DEF World, ArpAnswer, DhcpAnswer, TftpAccept, TftpRefuse, TftpNext
  <1> QED
    BY <1>2, <1>3, <1>4, <1>5, <1>6, <1>7, <1>8, <1>9

LEMMA NextBootp == BootpInv /\ [Next]_vars => BootpInv'
  <1> SUFFICES ASSUME BootpInv, [Next]_vars PROVE BootpInv'
    OBVIOUS
  <1>1. CASE UNCHANGED vars
    BY <1>1, KeepingOK DEF vars, net, client, Keeping, BootpInv, TypeOK, TfOK, PendOK
  <1> QED
    BY <1>1, BootpKeeps, ArpKeeps, TftpKeeps, LoadKeeps, WorldKeeps DEF Next, Waiting

(* When bootp() returns and the kernel is loaded, the address in use is    *)
(* that of an ACK or a BOOTP reply, never of an offer.                     *)
THEOREM AddressAlwaysGranted == Spec => []AddressGranted
  <1>1. BootpInv => AddressGranted
    BY DEF BootpInv
  <1> QED
    BY <1>1, InitBootp, NextBootp, PTL DEF Spec

-----------------------------------------------------------------------------
(* The file arrives in order.                                              *)
(*                                                                         *)
(* Blocks are told apart by their number alone, 16 bits of it, so this     *)
(* needs files that are shorter than BlockMod blocks.  A transfer is told  *)
(* from the ones before by the client's port, which is new every time.     *)

Files == {"ext", "kernel"}
Sizes == OackSizes \cup {DefSize}

FilesFit ==
  /\ Sizes \subseteq Nat \ {0}
  /\ \A size \in Sizes : \A len \in {ExtSize} \cup {img.size : img \in Images \cup {NoImage}} :
       len \in Nat /\ len < (BlockMod - 1) * size

IsSeq(s) == Len(s) \in Nat /\ s = [i \in 1 .. Len(s) |-> s[i]]

SessOK(s) ==
  /\ DOMAIN s = {"file", "cport", "from", "size", "n"}
  /\ s.file \in Files /\ s.cport \in Nat /\ s.size \in Sizes /\ s.n \in 0 .. BlockMod - 1

(* A frame in the ring comes from one of the transfers ss, and a message   *)
(* on its way to a server is answered by one of them.                      *)
FrameIn(f, ss) ==
  /\ f.t \in {"oack", "data"} => f.sport \in DOMAIN ss /\ f.cport = ss[f.sport].cport
  /\ f.t = "oack" => f.size = ss[f.sport].size
  /\ f.t = "data" => LET s == ss[f.sport]
                     IN  /\ f.file = s.file /\ f.n \in 1 .. s.n /\ f.pos = (f.n - 1) * s.size
                         /\ f.len \in Int /\ f.len <= s.size
  /\ f.t = "arp" => f.node # None

MessageIn(m, ss, port) ==
  /\ m.t = "rrq" => m.file \in Files /\ m.cport \in 0 .. port
  /\ m.t = "ack" => m.sport \in DOMAIN ss /\ m.cport = ss[m.sport].cport

SessionsOK ==
  /\ IsSeq(sess)
  /\ \A i \in DOMAIN sess : SessOK(sess[i]) /\ sess[i].cport <= tf.port
  /\ \A i, j \in DOMAIN sess : sess[i].cport = sess[j].cport => sess[i].size = sess[j].size

TransferTypes ==
  /\ DOMAIN tf = DOMAIN NoTransfer
  /\ tf.file \in Files /\ tf.port \in Nat /\ tf.size \in Sizes /\ tf.len \in Int
  /\ tf.n \in 0 .. BlockMod - 1 /\ tf.prev = tf.n /\ tf.n = Len(got) /\ IsSeq(got)
  /\ image \in Images \cup {NoImage}

(* While a block is worked on its ACK never has to wait for ARP, which     *)
(* would overwrite the packet buffer the block is in.                      *)
ArpInv ==
  /\ DOMAIN arp = {"server", "gateway"}
  /\ \A e \in DOMAIN arp : DOMAIN arp[e] = {"ip", "node"}
  /\ pc = "arp" => /\ pend.entry = Entry(arp["server"].ip)
                   /\ pend.ok = "tftp" /\ pend.fail = "tftp_end" /\ tf.tp = "rrq"
                   /\ {"t", "file", "cport", "to"} \subseteq DOMAIN pend.m
                   /\ pend.m.t = "rrq" /\ pend.m.file = tf.file /\ pend.m.cport = tf.port
  /\ pc \in {"tftp", "data", "download"} => arp[Entry(arp["server"].ip)].node # None

(* The transfers that answer the client's port send its file in blocks of  *)
(* the size it expects, from the moment an ACK reaches them.               *)
InTransfer == pc \in {"arp", "tftp", "data", "download"}
SizeKnown ==
  tf.size = DefSize \/ \E i \in DOMAIN sess : sess[i].cport = tf.port /\ sess[i].size = tf.size
Current ==
  /\ tf.tp = "rrq" => tf.size = DefSize
  /\ \A i \in DOMAIN sess : sess[i].cport = tf.port =>
       sess[i].file = tf.file /\ (sess[i].n > 0 => sess[i].size = tf.size)
  /\ \A m \in wire : m.t = "rrq" /\ m.cport = tf.port => m.file = tf.file /\ SizeKnown
  /\ \A m \in wire : m.t = "ack" /\ m.cport = tf.port => sess[m.sport].size = tf.size

(* The packet buffer holds the block after the last one.                   *)
NextIsBlock ==
  /\ packet.file = tf.file /\ packet.pos = tf.n * tf.size /\ packet.len = tf.len
  /\ tf.len <= tf.size /\ tf.n + 1 < BlockMod /\ tf.block = tf.n + 1

Complete == pc \in {"arp", "tftp", "data"}
GotOK ==
  /\ pc \notin {"tftp", "data", "download", "tftp_end", "started"} => got = << >>
  /\ \A i \in 1 .. Len(got) :
       /\ got[i].file = tf.file /\ got[i].pos = (i - 1) * tf.size
       /\ i < Len(got) \/ Complete => got[i].len = tf.size
       /\ pc = "download" /\ i = Len(got) => got[i].len = tf.len
  /\ pc \in {"arp", "tftp", "download"} => tf.block = tf.prev
  /\ pc = "download" => tf.len <= tf.size
  /\ pc = "data" => tf.block = tf.prev \/ NextIsBlock

OrderInv ==
  /\ TransferTypes /\ SessionsOK
  /\ \A i \in Slots : FrameIn(nic.ring[i], sess)
  /\ \A m \in wire : MessageIn(m, sess, tf.port)
  /\ ArpInv /\ (InTransfer => Current) /\ GotOK

-----------------------------------------------------------------------------
(* Arithmetic and sequences.                                               *)
LEMMA BlockNumbers ==
  ASSUME NEW B \in Nat, B > 1, NEW n \in 0 .. B - 1
  PROVE  n % B = n /\ (n + B - n) % B = 0 /\ (n + 1 + B - n) % B = 1
         /\ (n + 1) % B = IF n + 1 < B THEN n + 1 ELSE 0
  <1>1. n + B - n = B /\ n + 1 + B - n = B + 1
    OBVIOUS
  <1>2. B % B = 0 /\ (B + 1) % B = 1
    OBVIOUS
  <1>3. n % B = n
    OBVIOUS
  <1>4. (n + 1) % B = IF n + 1 < B THEN n + 1 ELSE 0
    OBVIOUS
  <1> QED
    BY <1>1, <1>2, <1>3, <1>4

LEMMA OneBlockMore ==
  ASSUME NEW n \in Int, NEW size \in Nat
  PROVE  n * size = (n - 1) * size + size
  <1>1. n * size = ((n - 1) + 1) * size
    OBVIOUS
  <1> QED
    BY <1>1, SMT

(* A file shorter than B - 1 blocks reaches none with the number B - 1.    *)
LEMMA FewBlocks ==
  ASSUME NEW B \in Nat, NEW size \in Nat \ {0}, NEW n \in Nat, NEW F \in Nat,
         n * size <= F, F < (B - 1) * size
  PROVE  n < B - 1
  <1>1. n * size < (B - 1) * size
    BY SMT
  <1>2. SUFFICES ASSUME n >= B - 1 PROVE FALSE
    BY SMT
  <1>3. PICK d \in Nat : n = B - 1 + d
    <2>1. n - (B - 1) \in Nat
      BY <1>2
    <2> QED
      BY <2>1
  <1>4. n * size = (B - 1) * size + d * size
    BY <1>3, SMT
  <1>5. d * size >= 0
    BY SMT
  <1> QED
    BY <1>1, <1>4, <1>5, SMT

LEMMA SeqFacts ==
  ASSUME NEW S, NEW s \in Seq(S)
  PROVE  IsSeq(s)
  <1>1. Len(s) \in Nat /\ s \in [1 .. Len(s) -> S]
    OBVIOUS
  <1> QED
    BY <1>1 DEF IsSeq

LEMMA EmptyFacts == IsSeq(<< >>) /\ Len(<< >>) = 0
  <1>1. << >> \in Seq({})
    OBVIOUS
  <1> QED
    BY <1>1, SeqFacts

LEMMA AppendFacts ==
  ASSUME NEW s, IsSeq(s), NEW x
  PROVE  /\ IsSeq(Append(s, x)) /\ Len(Append(s, x)) = Len(s) + 1
         /\ \A i \in 1 .. Len(s) : Append(s, x)[i] = s[i]
         /\ Append(s, x)[Len(s) + 1] = x
  <1> DEFINE S == {s[i] : i \in 1 .. Len(s)} \cup {x}
  <1>1. s \in Seq(S)
    <2>1. s \in [1 .. Len(s) -> S] /\ Len(s) \in Nat
      BY DEF IsSeq
    <2> QED
      BY <2>1
  <1>2. x \in S
    OBVIOUS
  <1> HIDE DEF S
  <1>3. Append(s, x) \in Seq(S) /\ Len(Append(s, x)) = Len(s) + 1
    BY <1>1, <1>2
  <1>4. IsSeq(Append(s, x))
    BY <1>3, SeqFacts
  <1> QED
    BY <1>1, <1>2, <1>3, <1>4

LEMMA UpdateFacts ==
  ASSUME NEW s, IsSeq(s), NEW x, NEW k \in DOMAIN s
  PROVE  IsSeq([s EXCEPT ![k] = x]) /\ DOMAIN [s EXCEPT ![k] = x] = DOMAIN s
  <1> DEFINE S == {s[i] : i \in 1 .. Len(s)} \cup {x}
  <1>1. s \in Seq(S)
    <2>1. s \in [1 .. Len(s) -> S] /\ Len(s) \in Nat
      BY DEF IsSeq
    <2> QED
      BY <2>1
  <1>2. x \in S
    OBVIOUS
  <1> HIDE DEF S
  <1>3. [s EXCEPT ![k] = x] \in Seq(S)
    BY <1>1, <1>2
  <1>4. IsSeq([s EXCEPT ![k] = x])
    BY <1>3, SeqFacts
  <1> QED
    BY <1>4

LEMMA DomFacts ==
  ASSUME NEW s, IsSeq(s)
  PROVE  DOMAIN s = 1 .. Len(s)
  BY DEF IsSeq

LEMMA FitFacts ==
  ASSUME FilesFit
  PROVE  /\ \A size \in Sizes : size \in Nat /\ size > 0
         /\ \A size \in Sizes : ExtSize \in Nat /\ ExtSize < (BlockMod - 1) * size
         /\ \A img \in Images \cup {NoImage} : \A size \in Sizes :
              img.size \in Nat /\ img.size < (BlockMod - 1) * size
  <1> USE DEF FilesFit
  <1>1. \A size \in Sizes : size \in Nat \ {0}
    OBVIOUS
  <1>2. \A img \in Images \cup {NoImage} : img.size \in {x.size : x \in Images \cup {NoImage}}
    OBVIOUS
  <1> QED
    BY <1>1, <1>2

-----------------------------------------------------------------------------
(* What a frame or a message says of the transfers stays true as they go   *)
(* on and new ones begin.                                                  *)
Grows(ss, tt) ==
  \A i \in DOMAIN ss :
    /\ i \in DOMAIN tt /\ tt[i].cport = ss[i].cport /\ tt[i].file = ss[i].file
    /\ tt[i].size = ss[i].size /\ ss[i].n <= tt[i].n

LEMMA FrameGrows ==
  ASSUME NEW f, NEW ss, NEW tt, FrameIn(f, ss), Grows(ss, tt),
         \A i \in DOMAIN ss : ss[i].n \in Nat, \A i \in DOMAIN tt : tt[i].n \in Nat
  PROVE  FrameIn(f, tt)
  <1>1. CASE f.t = "data"
    <2> DEFINE s == ss[f.sport]
               t == tt[f.sport]
    <2>1. /\ f.sport \in DOMAIN ss /\ f.sport \in DOMAIN tt
          /\ t.cport = s.cport /\ t.file = s.file /\ t.size = s.size /\ s.n <= t.n
          /\ s.n \in Nat /\ t.n \in Nat
      BY <1>1 DEF FrameIn, Grows
    <2>2. f.n \in 1 .. s.n
      BY <1>1 DEF FrameIn
    <2>3. f.n \in 1 .. t.n
      BY <2>1, <2>2
    <2> QED
      BY <1>1, <2>1, <2>3 DEF FrameIn
  <1>2. CASE f.t # "data"
    BY <1>2 DEF FrameIn, Grows
  <1> QED
    BY <1>1, <1>2

LEMMA MessageGrows ==
  ASSUME NEW m, NEW ss, NEW tt, NEW p \in Nat, NEW q \in Nat, p <= q,
         MessageIn(m, ss, p), Grows(ss, tt)
  PROVE  MessageIn(m, tt, q)
  BY DEF MessageIn, Grows

LEMMA GrowsFacts ==
  ASSUME SessionsOK
  PROVE  Grows(sess, sess) /\ \A i \in DOMAIN sess : sess[i].n \in Nat
  BY DEF SessionsOK, SessOK, Grows

LEMMA ReceivedIn ==
  ASSUME NEW n, NicOK(n), NEW ss, NEW f, FrameIn(f, ss),
         \A i \in Slots : FrameIn(n.ring[i], ss)
  PROVE  \A i \in Slots : FrameIn(Received(n, f).ring[i], ss)
  BY DEF NicOK, Received

LEMMA AvailIn ==
  ASSUME NEW ss, NEW i \in Slots
  PROVE  FrameIn(AllAvail[i], ss)
  BY DEF FrameIn, AllAvail, Avail

(* Polling: the frame comes from a transfer, the ring is empty.            *)
LEMMA PollIn ==
  ASSUME BootpInv, OrderInv, Poll
  PROVE  FrameIn(Polled, sess) /\ \A i \in Slots : FrameIn(nic'.ring[i], sess)
  <1>1. nic'.ring = AllAvail
    BY DEF Poll, AfterPoll, BootpInv, TypeOK, NicOK
  <1> QED
    BY <1>1, AvailIn, SlotsFacts DEF OrderInv, Polled

LEMMA SendIn ==
  ASSUME NEW m, Send(m), NEW ss, NEW p, MessageIn(m, ss, p), \A x \in wire : MessageIn(x, ss, p)
  PROVE  \A x \in wire' : MessageIn(x, ss, p)
  BY DEF Send

(* The server's node is known: the datagram goes out at once.              *)
LEMMA TransmitKnown ==
  ASSUME NEW m, NEW ok, NEW fail, Transmit(m, ok, fail),
         arp[Entry(arp["server"].ip)].node # None
  PROVE  /\ Send([m EXCEPT !.to = arp[Entry(arp["server"].ip)].node])
         /\ pc' = ok /\ pend' = pend
  BY DEF Transmit

-----------------------------------------------------------------------------
LEMMA InitOrder == FilesFit /\ Init => OrderInv
  <1> SUFFICES ASSUME FilesFit, Init PROVE OrderInv
    OBVIOUS
  <1>1. sess = << >> /\ got = << >> /\ wire = {} /\ pc = "probe" /\ image = NoImage
        /\ tf = NoTransfer
    BY DEF Init
  <1>2. IsSeq(<< >>)
    BY EmptyFacts
  <1>3. DefSize \in Nat \ {0} /\ DefSize \in Sizes /\ BlockMod \in Nat \ {0}
    BY EtherbootAssumption DEF Sizes
  <1>4. TransferTypes
    <2>1. /\ DOMAIN tf = DOMAIN NoTransfer
          /\ tf.file = "ext" /\ tf.port = 0 /\ tf.size = DefSize /\ tf.len = 0
          /\ tf.n = 0 /\ tf.prev = 0
      BY <1>1 DEF NoTransfer
    <2>2. Len(got) = 0
      BY <1>1
    <2> QED
      BY <1>1, <1>2, <1>3, <2>1, <2>2 DEF TransferTypes, Files
  <1>5. SessionsOK
    BY <1>1, <1>2 DEF SessionsOK
  <1>6. \A i \in Slots : FrameIn(nic.ring[i], sess)
    BY AvailIn DEF Init
  <1>7. ArpInv
    BY <1>1 DEF Init, ArpInv
  <1>8. GotOK /\ ~InTransfer
    BY <1>1 DEF GotOK, Complete, InTransfer
  <1> QED
    BY <1>1, <1>4, <1>5, <1>6, <1>7, <1>8 DEF OrderInv

(* The steps before and after a transfer.                                  *)
LEMMA OutsideKeeps ==
  ASSUME BootpInv, OrderInv, got' = << >>, sess' = sess,
         pc' \notin {"arp", "tftp", "data", "download", "tftp_end", "started"},
         TransferTypes', tf'.port = tf.port,
         \A i \in Slots : FrameIn(nic'.ring[i], sess),
         \A m \in wire' : MessageIn(m, sess, tf.port),
         DOMAIN arp' = {"server", "gateway"},
         \A e \in DOMAIN arp' : DOMAIN arp'[e] = {"ip", "node"}
  PROVE  OrderInv'
  <1>1. SessionsOK'
    BY DEF OrderInv, SessionsOK
  <1>2. ArpInv'
    BY DEF ArpInv
  <1>3. GotOK' /\ ~InTransfer'
    BY DEF GotOK, Complete, InTransfer
  <1> QED
    BY <1>1, <1>2, <1>3 DEF OrderInv

LEMMA BeforeKeeps ==
  ASSUME BootpInv, OrderInv,
         Probe \/ Drain \/ Discover \/ Request \/ BootpTimeout \/ AwaitBootp \/ Replied
  PROVE  OrderInv'
  <1> USE DEF OrderInv
  <1>1. /\ sess' = sess /\ got' = got /\ image' = image
        /\ pc \in Looking \cup {"rrq", "replied"} /\ pc' \in {"failed", "discover", "rrq", "bootp",
             "restart", "request", "replied", "load"}
    BY DEF Probe, Drain, Discover, Request, BootpTimeout, AwaitBootp, Replied, net, client, load,
       Looking, decode_rfc1533
  <1>2. got = << >>
    BY <1>1 DEF GotOK, Looking
  <1>3. tf' = tf \/ tf' = [tf EXCEPT !.file = "ext"]
    BY DEF Probe, Drain, Discover, Request, BootpTimeout, AwaitBootp, Replied, client,
       decode_rfc1533
  <1>4. TransferTypes' /\ tf'.port = tf.port
    <2>1. CASE tf' = tf
      BY <1>1, <2>1 DEF TransferTypes
    <2>2. CASE tf' = [tf EXCEPT !.file = "ext"]
      <3>1. DOMAIN tf' = DOMAIN tf /\ tf'.file = "ext" /\ tf'.port = tf.port /\ tf'.size = tf.size
            /\ tf'.len = tf.len /\ tf'.n = tf.n /\ tf'.prev = tf.prev
        BY <2>2 DEF TransferTypes, NoTransfer
      <3> QED
        BY <1>1, <3>1 DEF TransferTypes, Files
    <2> QED
      BY <1>3, <2>1, <2>2
  <1>5. \A i \in Slots : FrameIn(nic'.ring[i], sess)
    <2>1. CASE Poll
      BY <2>1, PollIn
    <2>2. CASE nic' = nic
      BY <2>2
    <2>3. CASE Probe
      BY <2>3, AvailIn DEF Probe, forcedeth_reset
    <2> QED
      BY <2>1, <2>2, <2>3 DEF Drain, Discover, Request, BootpTimeout, AwaitBootp, Replied, net
  <1>6. \A m \in wire' : MessageIn(m, sess, tf.port)
    <2>1. CASE wire' = wire
      BY <2>1
    <2>2. ASSUME NEW m, Send(m), m.t \in {"discover", "request"}
          PROVE  \A x \in wire' : MessageIn(x, sess, tf.port)
      <3>1. MessageIn(m, sess, tf.port)
        BY <2>2 DEF MessageIn
      <3> QED
        BY <2>2, <3>1, SendIn
    <2>3. wire' = wire \/ Send(bp.ip)
      BY DEF Probe, Drain, Discover, Request, BootpTimeout, AwaitBootp, Replied, net
    <2>4. bp.ip.t \in {"discover", "request"}
      BY DEF BootpInv, TypeOK, BpOK
    <2> QED
      BY <2>1, <2>2, <2>3, <2>4
  <1>7. DOMAIN arp' = {"server", "gateway"} /\ \A e \in DOMAIN arp' : DOMAIN arp'[e] = {"ip", "node"}
    <2>1. arp' = arp \/ \E c : arp' = Entries(c)
      BY DEF Probe, Drain, Discover, Request, BootpTimeout, AwaitBootp, Replied, client
    <2> QED
      BY <2>1 DEF ArpInv, Entries
  <1> QED
    BY <1>1, <1>2, <1>4, <1>5, <1>6, <1>7, OutsideKeeps

LEMMA AroundKeeps ==
  ASSUME FilesFit, BootpInv, OrderInv, LoadKernel \/ TftpEnd
  PROVE  OrderInv'
  <1> USE DEF OrderInv
  <1>1. CASE LoadKernel
    <2>1. /\ sess' = sess /\ got' = got /\ got = << >> /\ pc' = "rrq" /\ image' \in Images
          /\ nic' = nic /\ wire' = wire /\ tf' = [tf EXCEPT !.file = "kernel"]
          /\ arp' = arp \/ arp' = [arp EXCEPT !["server"].ip = cfg.url]
      BY <1>1 DEF LoadKernel, net, GotOK
    <2>2. /\ DOMAIN tf' = DOMAIN tf /\ tf'.file = "kernel" /\ tf'.port = tf.port
          /\ tf'.size = tf.size /\ tf'.len = tf.len /\ tf'.n = tf.n /\ tf'.prev = tf.prev
      BY <2>1 DEF TransferTypes, NoTransfer
    <2>3. TransferTypes'
      BY <2>1, <2>2 DEF TransferTypes, Files
    <2>4. DOMAIN arp' = {"server", "gateway"}
          /\ \A e \in DOMAIN arp' : DOMAIN arp'[e] = {"ip", "node"}
      BY <2>1 DEF ArpInv
    <2> QED
      BY <2>1, <2>2, <2>3, <2>4, OutsideKeeps
  <1>2. CASE TftpEnd
    <2>1. /\ sess' = sess /\ got' = << >> /\ pc' \in {"replied", "restart"} /\ image' = image
          /\ nic' = nic /\ wire' = wire /\ arp' = arp
          /\ tf' = [NoTransfer EXCEPT !.port = tf.port, !.file = tf.file]
      BY <1>2 DEF TftpEnd, net
    <2>2. /\ DOMAIN tf' = DOMAIN NoTransfer /\ tf'.file = tf.file /\ tf'.port = tf.port
          /\ tf'.size = DefSize /\ tf'.len = 0 /\ tf'.n = 0 /\ tf'.prev = 0
      BY <2>1 DEF NoTransfer
    <2>3. IsSeq(<< >>) /\ Len(<< >>) = 0
      BY EmptyFacts
    <2>4. TransferTypes'
      BY <2>1, <2>2, <2>3, EtherbootAssumption DEF TransferTypes, Sizes
    <2> QED
      BY <2>1, <2>2, <2>4, OutsideKeeps DEF ArpInv
  <1> QED
    BY <1>1, <1>2

-----------------------------------------------------------------------------
(* tftp() asks for the file, from a port no message was sent from before.  *)
LEMMA FreshPort ==
  ASSUME OrderInv, sess' = sess, tf'.port = tf.port + 1, DOMAIN tf' = DOMAIN NoTransfer,
         tf'.tp = "rrq" => tf'.size = DefSize,
         \A m \in wire' : \/ m \in wire
                          \/ m.t = "rrq" /\ m.file = tf'.file /\ tf'.size = DefSize
                          \/ m.t \in {"arp", "ack69"}
  PROVE  Current' /\ SessionsOK'
  <1> USE DEF OrderInv
  <1>1. tf.port \in Nat
    BY DEF TransferTypes
  <1>2. \A i \in DOMAIN sess : sess[i].cport \in Nat /\ sess[i].cport <= tf.port
    BY DEF SessionsOK, SessOK
  <1>3. \A i \in DOMAIN sess : sess[i].cport # tf'.port /\ sess[i].cport <= tf'.port
    BY <1>1, <1>2
  <1>4. \A m \in wire : m.t \in {"rrq", "ack"} => m.cport # tf'.port
    BY <1>1, <1>3 DEF MessageIn
  <1> QED
    BY <1>3, <1>4 DEF Current, SessionsOK, SizeKnown

LEMMA StartKeeps ==
  ASSUME BootpInv, OrderInv, TftpStart
  PROVE  OrderInv'
  <1> USE DEF OrderInv
  <1> DEFINE m == rrq(NextPort(tf.port))
  <1>1. /\ pc = "rrq" /\ sess' = sess /\ nic' = nic /\ got' = got /\ image' = image /\ arp' = arp
        /\ tf' = [NoTransfer EXCEPT !.port = NextPort(tf.port), !.file = tf.file]
        /\ Transmit(m, "tftp", "tftp_end")
    BY DEF TftpStart, load
  <1>2. got = << >>
    BY <1>1 DEF GotOK
  <1>3. tf.port \in Nat /\ tf.file \in Files
    BY DEF TransferTypes
  <1>4. /\ DOMAIN tf' = DOMAIN NoTransfer /\ tf'.file = tf.file /\ tf'.port = tf.port + 1
        /\ tf'.size = DefSize /\ tf'.len = 0 /\ tf'.n = 0 /\ tf'.prev = 0 /\ tf'.block = 0
        /\ tf'.tp = "rrq"
    BY <1>1 DEF NoTransfer, NextPort
  <1>5. /\ DOMAIN m = {"t", "file", "cport", "from", "to"}
        /\ m.t = "rrq" /\ m.file = tf'.file /\ m.cport = tf'.port
    BY <1>4 DEF rrq, NextPort
  <1> HIDE DEF m
  <1>6. TransferTypes'
    BY <1>1, <1>2, <1>3, <1>4, EmptyFacts, EtherbootAssumption DEF TransferTypes, Sizes
  <1>7. \A x \in wire : MessageIn(x, sess, tf'.port)
    BY <1>3, <1>4, GrowsFacts, MessageGrows
  <1> DEFINE e == Entry(arp["server"].ip)
  <1>8. e \in DOMAIN arp /\ Entry(arp["server"].ip)' = e
    BY <1>1 DEF Entry, ArpInv
  <1>9. CASE arp[e].node # None
    <2>1. Send([m EXCEPT !.to = arp[e].node]) /\ pc' = "tftp" /\ pend' = pend
      BY <1>1, <1>9, TransmitKnown
    <2> DEFINE x == [m EXCEPT !.to = arp[e].node]
    <2>2. x.t = "rrq" /\ x.file = tf'.file /\ x.cport = tf'.port
      BY <1>5
    <2> HIDE DEF x
    <2>3. MessageIn(x, sess, tf'.port)
      BY <1>3, <1>4, <2>2 DEF MessageIn
    <2>4. \A y \in wire' : MessageIn(y, sess, tf'.port)
      BY <1>7, <2>1, <2>3, SendIn DEF x
    <2>5. \A y \in wire' : y \in wire \/ y = x
      BY <2>1 DEF Send, x
    <2>6. Current' /\ SessionsOK'
      BY <1>1, <1>4, <2>2, <2>5, FreshPort
    <2>7. ArpInv'
      BY <1>1, <1>8, <1>9, <2>1 DEF ArpInv
    <2>8. GotOK'
      BY <1>1, <1>2, <1>4, <2>1, EmptyFacts DEF GotOK
    <2> QED
      BY <1>1, <1>6, <2>4, <2>6, <2>7, <2>8
  <1>10. CASE arp[e].node = None
    <2> DEFINE x == [t |-> "arp", ip |-> arp[e].ip]
    <2>1. /\ Send(x) /\ pc' = "arp"
          /\ pend' = [m |-> m, entry |-> e, retry |-> 1, ok |-> "tftp", fail |-> "tftp_end"]
      BY <1>1, <1>10 DEF Transmit
    <2>2. x.t = "arp"
      OBVIOUS
    <2> HIDE DEF x
    <2>3. MessageIn(x, sess, tf'.port)
      BY <2>2 DEF MessageIn
    <2>4. \A y \in wire' : MessageIn(y, sess, tf'.port)
      BY <1>7, <2>1, <2>3, SendIn
    <2>5. \A y \in wire' : y \in wire \/ y = x
      BY <2>1 DEF Send
    <2>6. Current' /\ SessionsOK'
      BY <1>1, <1>4, <2>2, <2>5, FreshPort
    <2>7. ArpInv'
      BY <1>1, <1>4, <1>5, <1>8, <2>1 DEF ArpInv
    <2>8. GotOK'
      BY <1>1, <1>2, <1>4, <2>1, EmptyFacts DEF GotOK
    <2> QED
      BY <1>1, <1>6, <2>4, <2>6, <2>7, <2>8
  <1> QED
    BY <1>9, <1>10

(* Nothing came: the request is repeated from a new port, before the first *)
(* block only, or the transfer ends.                                       *)
LEMMA TimeoutKeeps ==
  ASSUME BootpInv, OrderInv, TftpTimeout
  PROVE  OrderInv'
  <1> USE DEF OrderInv
  <1>1. /\ pc = "tftp" /\ sess' = sess /\ nic' = nic /\ got' = got /\ image' = image /\ arp' = arp
    BY DEF TftpTimeout, load
  <1>2. Current /\ tf.block = tf.prev /\ tf.prev = tf.n
    BY <1>1 DEF InTransfer, Complete, GotOK, TransferTypes
  <1>3. CASE tf.block = 0 /\ tf.retry < MAX_TFTP_RETRIES
    <2> DEFINE m == [rrq(NextPort(tf.port)) EXCEPT !.t = tf.tp]
    <2>1. /\ tf' = [tf EXCEPT !.retry = @ + 1, !.port = NextPort(@)]
          /\ Transmit(m, "tftp", "tftp_end")
      BY <1>3 DEF TftpTimeout
    <2>2. /\ DOMAIN tf' = DOMAIN tf /\ tf'.file = tf.file /\ tf'.port = tf.port + 1
          /\ tf'.size = tf.size /\ tf'.len = tf.len /\ tf'.n = tf.n /\ tf'.prev = tf.prev
          /\ tf'.block = tf.block /\ tf'.tp = tf.tp
      BY <2>1 DEF TransferTypes, NoTransfer, NextPort
    <2>3. TransferTypes'
      BY <1>1, <2>2 DEF TransferTypes
    <2> DEFINE x == [m EXCEPT !.to = arp[Entry(arp["server"].ip)].node]
    <2>4. x.t = tf.tp /\ x.file = tf'.file /\ x.cport = tf'.port
      BY <2>2 DEF rrq, NextPort
    <2>5. Send(x) /\ pc' = "tftp" /\ pend' = pend
      BY <1>1, <2>1, TransmitKnown DEF ArpInv
    <2> HIDE DEF x
    <2>6. tf.tp \in {"rrq", "ack69"}
      BY DEF BootpInv, TypeOK, TfOK
    <2>7. tf.port \in Nat /\ tf.file \in Files
      BY DEF TransferTypes
    <2>8. MessageIn(x, sess, tf'.port)
      BY <2>2, <2>4, <2>6, <2>7 DEF MessageIn
    <2>9. \A y \in wire : MessageIn(y, sess, tf'.port)
      BY <2>2, <2>7, GrowsFacts, MessageGrows
    <2>10. \A y \in wire' : MessageIn(y, sess, tf'.port)
      BY <2>5, <2>8, <2>9, SendIn
    <2>11. \A y \in wire' : y \in wire \/ y = x
      BY <2>5 DEF Send
    <2>12. tf'.tp = "rrq" => tf'.size = DefSize
      BY <1>2, <2>2 DEF Current
    <2>13. DOMAIN tf' = DOMAIN NoTransfer
      BY <2>2 DEF TransferTypes
    <2>14. Current' /\ SessionsOK'
      BY <1>1, <2>2, <2>4, <2>6, <2>11, <2>12, <2>13, FreshPort
    <2>15. ArpInv'
      BY <1>1, <2>5 DEF ArpInv, Entry
    <2>16. Len(got) = 0
      BY <1>2, <1>3 DEF TransferTypes
    <2>17. GotOK'
      BY <1>1, <1>2, <2>2, <2>5, <2>16 DEF GotOK
    <2> QED
      BY <1>1, <2>3, <2>10, <2>14, <2>15, <2>17
  <1>4. CASE ~(tf.block = 0 /\ tf.retry < MAX_TFTP_RETRIES)
    <2>1. pc' = "tftp_end" /\ tf' = tf /\ wire' = wire /\ pend' = pend
      BY <1>4 DEF TftpTimeout
    <2> QED
      BY <1>1, <2>1 DEF TransferTypes, SessionsOK, ArpInv, GotOK, Complete, InTransfer
  <1> QED
    BY <1>3, <1>4

(* A frame for this transfer: the ACK goes out at once, and a new block is *)
(* the next one of the file.                                               *)
LEMMA AwaitKeeps ==
  ASSUME FilesFit, BootpInv, OrderInv, AwaitTftp
  PROVE  OrderInv'
  <1> USE DEF OrderInv
  <1> DEFINE f == Polled
             n == InOrder(IF f.t = "oack" THEN 0 ELSE f.n)
             node == arp[Entry(arp["server"].ip)].node
             i == f.sport
  <1>1. /\ pc = "tftp" /\ Poll /\ packet' = f /\ sess' = sess /\ got' = got /\ image' = image
        /\ arp' = arp /\ me' = me
    BY DEF AwaitTftp, Poll, load
  <1>2. FrameIn(f, sess) /\ \A j \in Slots : FrameIn(nic'.ring[j], sess)
    BY <1>1, PollIn
  <1>3. Current /\ tf.block = tf.prev /\ tf.prev = tf.n /\ node # None
    BY <1>1 DEF InTransfer, Complete, GotOK, TransferTypes, ArpInv
  <1>4. CASE UNCHANGED <<tf, wire, pend>> /\ pc' \in {"tftp", "tftp_end"}
    <2> HIDE DEF f, n, node
    <2>1. TransferTypes' /\ SessionsOK'
      BY <1>1, <1>4 DEF TransferTypes, SessionsOK
    <2>2. ArpInv'
      BY <1>1, <1>3, <1>4 DEF ArpInv, Entry, node
    <2>3. Current'
      BY <1>1, <1>3, <1>4 DEF Current, SizeKnown
    <2>4. GotOK'
      BY <1>1, <1>3, <1>4 DEF GotOK, Complete, InTransfer
    <2> QED
      BY <1>1, <1>2, <1>4, <2>1, <2>2, <2>3, <2>4
  <1>5. CASE /\ Transmit([ack(8, f) EXCEPT !.t = "refuse"], "tftp_end", "tftp_end")
             /\ UNCHANGED tf
    <2> DEFINE x == [[ack(8, f) EXCEPT !.t = "refuse"] EXCEPT !.to = node]
    <2>1. Send(x) /\ pc' = "tftp_end" /\ pend' = pend
      BY <1>3, <1>5, TransmitKnown
    <2>2. x.t = "refuse"
      BY DEF ack
    <2> HIDE DEF x
    <2>3. MessageIn(x, sess, tf.port)
      BY <2>2 DEF MessageIn
    <2>4. \A y \in wire' : MessageIn(y, sess, tf.port)
      BY <2>1, <2>3, SendIn
    <2> QED
      BY <1>1, <1>2, <1>3, <1>5, <2>1, <2>4 DEF TransferTypes, SessionsOK, ArpInv, GotOK,
         Complete, InTransfer
  <1>6. CASE /\ ForUs(f) /\ f.t # "error"
             /\ f.t = "oack" => tf.prev = 0
             /\ f.t = "data" => ~(f.len > tf.size)
             /\ tf' = IF f.t = "oack" THEN [tf EXCEPT !.block = n, !.tp = "ack69", !.size = f.size]
                                      ELSE [tf EXCEPT !.block = n, !.tp = "ack69", !.len = f.len]
             /\ Transmit(ack(n, f), "data", "data")
    <2>1. /\ f.t \in {"data", "oack"} /\ f.cport = tf.port
          /\ i \in DOMAIN sess /\ sess[i].cport = tf.port
      BY <1>2, <1>6 DEF ForUs, FrameIn
    <2>2. /\ DOMAIN tf' = DOMAIN tf /\ tf'.file = tf.file /\ tf'.port = tf.port /\ tf'.n = tf.n
          /\ tf'.prev = tf.prev /\ tf'.block = n /\ tf'.tp = "ack69"
          /\ f.t = "oack" => tf'.size = f.size /\ tf'.len = tf.len
          /\ f.t = "data" => tf'.size = tf.size /\ tf'.len = f.len
      BY <1>6, <2>1 DEF TransferTypes, NoTransfer
    <2> DEFINE x == [ack(n, f) EXCEPT !.to = node]
    <2>3. Send(x) /\ pc' = "data" /\ pend' = pend
      BY <1>3, <1>6, TransmitKnown
    <2>4. x.t = "ack" /\ x.cport = tf.port /\ x.sport = i
      BY DEF ack
    <2> HIDE DEF x
    <2>5. \A y \in wire' : MessageIn(y, sess, tf.port) /\ (y \in wire \/ y = x)
      <3>1. MessageIn(x, sess, tf.port)
        BY <2>1, <2>4 DEF MessageIn
      <3> QED
        BY <2>3, <3>1, SendIn DEF Send
    <2>6. tf'.size = sess[i].size /\ (f.t = "oack" => tf.n = 0) /\ (f.t = "data" => sess[i].n > 0)
      <3>1. CASE f.t = "oack"
        BY <1>2, <1>3, <1>6, <2>2, <3>1 DEF FrameIn
      <3>2. CASE f.t = "data"
        <4>1. f.n \in 1 .. sess[i].n /\ sess[i].n \in Nat
          BY <1>2, <2>1, <3>2 DEF FrameIn, SessionsOK, SessOK
        <4>2. sess[i].n > 0
          BY <4>1
        <4> QED
          BY <1>3, <2>1, <2>2, <3>2, <4>2 DEF Current
      <3> QED
        BY <2>1, <3>1, <3>2
    <2>7. TransferTypes'
      <3>1. tf'.size \in Sizes
        BY <2>1, <2>6 DEF SessionsOK, SessOK
      <3>2. tf'.len \in Int
        BY <1>2, <2>1, <2>2 DEF FrameIn, TransferTypes
      <3> QED
        BY <1>1, <2>2, <3>1, <3>2 DEF TransferTypes
    <2>8. SessionsOK'
      BY <1>1, <2>2 DEF SessionsOK
    <2>9. ArpInv'
      BY <1>1, <1>3, <2>3 DEF ArpInv, Entry
    <2>10. Current'
      <3>1. \A j \in DOMAIN sess : sess[j].cport = tf.port => sess[j].size = tf'.size
        BY <2>1, <2>6 DEF SessionsOK
      <3>2. \A y \in wire' : y.t = "ack" /\ y.cport = tf.port => sess[y.sport].size = tf'.size
        BY <2>5, <3>1 DEF MessageIn
      <3>3. SizeKnown'
        BY <1>1, <2>1, <2>2, <2>6 DEF SizeKnown
      <3>4. \A y \in wire' : y.t = "rrq" /\ y.cport = tf.port => y.file = tf.file
        BY <1>3, <2>4, <2>5 DEF Current
      <3> QED
        BY <1>1, <1>3, <2>2, <3>1, <3>2, <3>3, <3>4 DEF Current
    <2>11. GotOK'
      <3>1. CASE f.t = "oack"
        <4>1. n = 0 /\ tf.n = 0
          BY <1>3, <2>6, <3>1 DEF InOrder
        <4>2. Len(got) = 0
          BY <4>1 DEF TransferTypes
        <4> QED
          BY <1>1, <1>3, <2>2, <2>3, <4>1, <4>2 DEF GotOK
      <3>2. CASE f.t = "data"
        <4>1. \A j \in 1 .. Len(got) :
                got[j].file = tf.file /\ got[j].pos = (j - 1) * tf.size /\ got[j].len = tf.size
          BY <1>1 DEF GotOK, Complete, InTransfer
        <4>2. n = tf.prev \/ NextIsBlock'
          <5> DEFINE s == sess[i]
          <5>1. /\ f.file = s.file /\ f.n \in 1 .. s.n /\ f.pos = (f.n - 1) * s.size
                /\ f.len \in Int /\ f.len <= s.size /\ s.size = tf.size
            BY <1>2, <2>2, <2>6, <3>2 DEF FrameIn
          <5>2. s.file = tf.file /\ s.n \in 0 .. BlockMod - 1 /\ BlockMod \in Nat
            BY <1>3, <2>1, EtherbootAssumption DEF Current, SessionsOK, SessOK
          <5>3. f.n \in Nat /\ 0 < f.n /\ f.n < BlockMod
            BY <5>1, <5>2
          <5>4. tf.n \in 0 .. BlockMod - 1 /\ BlockMod > 1
            BY <5>2, <5>3 DEF TransferTypes
          <5>5. (tf.n + 1) % BlockMod = IF tf.n + 1 < BlockMod THEN tf.n + 1 ELSE 0
            BY <5>2, <5>4, BlockNumbers
          <5>6. CASE f.n # (tf.prev + 1) % BlockMod
            BY <3>2, <5>3, <5>6 DEF InOrder
          <5>7. CASE f.n = (tf.prev + 1) % BlockMod
            <6>1. n = f.n
              BY <3>2, <5>7 DEF InOrder
            <6>2. f.n = tf.n + 1 /\ tf.n + 1 < BlockMod
              BY <1>3, <5>3, <5>5, <5>7
            <6>3. f.pos = tf.n * tf.size
              BY <5>1, <5>4, <6>2
            <6> HIDE DEF n, f
            <6> QED
              BY <1>1, <2>2, <3>2, <5>1, <5>2, <6>1, <6>2, <6>3 DEF NextIsBlock
          <5> QED
            BY <5>6, <5>7
        <4> QED
          BY <1>1, <2>2, <2>3, <3>2, <4>1, <4>2 DEF GotOK
      <3> QED
        BY <2>1, <3>1, <3>2
    <2> QED
      BY <1>1, <1>2, <2>2, <2>5, <2>7, <2>8, <2>9, <2>10, <2>11
  <1> HIDE DEF f, n
  <1>7. \/ UNCHANGED <<tf, wire, pend>> /\ pc' \in {"tftp", "tftp_end"}
        \/ /\ Transmit([ack(8, f) EXCEPT !.t = "refuse"], "tftp_end", "tftp_end")
           /\ UNCHANGED tf
        \/ /\ ForUs(f) /\ f.t # "error"
           /\ f.t = "oack" => tf.prev = 0
           /\ f.t = "data" => ~(f.len > tf.size)
           /\ tf' = IF f.t = "oack" THEN [tf EXCEPT !.block = n, !.tp = "ack69", !.size = f.size]
                                    ELSE [tf EXCEPT !.block = n, !.tp = "ack69", !.len = f.len]
           /\ Transmit(ack(n, f), "data", "data")
    BY <1>1 DEF AwaitTftp, f, n
  <1> QED
    BY <1>4, <1>5, <1>6, <1>7

(* await_arp(): the node is known from then on, and the request goes out.  *)
LEMMA ResolvedKeeps ==
  ASSUME BootpInv, OrderInv, AwaitArp \/ ArpTimeout
  PROVE  OrderInv'
  <1> USE DEF OrderInv
  <1>1. /\ pc = "arp" /\ sess' = sess /\ got' = got /\ image' = image /\ tf' = tf
    BY DEF AwaitArp, ArpTimeout, load
  <1>2. TransferTypes' /\ SessionsOK'
    BY <1>1 DEF TransferTypes, SessionsOK
  <1>3. Current /\ tf.size = DefSize /\ got = << >> /\ tf.block = tf.prev
    BY <1>1 DEF InTransfer, Complete, Current, ArpInv, GotOK
  <1>4. \A i \in Slots : FrameIn(nic'.ring[i], sess)
    BY <1>2, PollIn DEF AwaitArp, ArpTimeout
  <1>5. ASSUME \A m \in wire' : \/ m \in wire \/ m.t = "arp"
                                \/ m.t = "rrq" /\ m.file = tf.file /\ m.cport = tf.port
        PROVE  (\A m \in wire' : MessageIn(m, sess, tf.port)) /\ Current'
    <2>1. tf.file \in Files /\ tf.port \in Nat
      BY DEF TransferTypes
    <2>2. \A m \in wire' : MessageIn(m, sess, tf.port)
      BY <1>5, <2>1 DEF MessageIn
    <2> QED
      BY <1>1, <1>3, <1>5, <2>2 DEF Current, SizeKnown
  <1>6. CASE /\ AwaitArp /\ Polled.t = "arp" /\ Polled.ip = arp[pend.entry].ip
    <2> DEFINE x == [pend.m EXCEPT !.to = Polled.node]
               e == Entry(arp["server"].ip)
    <2>1. /\ arp' = [arp EXCEPT ![e].node = Polled.node]
          /\ Send(x) /\ pc' = "tftp" /\ pend' = NoPend
      BY <1>1, <1>6 DEF AwaitArp, ArpInv
    <2>2. x.t = "rrq" /\ x.file = tf.file /\ x.cport = tf.port
      BY <1>1 DEF ArpInv
    <2>3. FrameIn(Polled, sess)
      BY <1>6, PollIn DEF AwaitArp
    <2>4. Polled.node # None
      BY <1>6, <2>3 DEF FrameIn
    <2> HIDE DEF x
    <2>5. e \in DOMAIN arp
      BY DEF Entry, ArpInv
    <2>6. /\ DOMAIN arp' = DOMAIN arp /\ arp'[e].node # None
          /\ \A d \in DOMAIN arp : DOMAIN arp'[d] = {"ip", "node"} /\ arp'[d].ip = arp[d].ip
      BY <2>1, <2>4, <2>5 DEF ArpInv
    <2>7. Entry(arp["server"].ip)' = e
      BY <2>6 DEF Entry, ArpInv
    <2>8. ArpInv'
      BY <2>1, <2>6, <2>7 DEF ArpInv
    <2>9. GotOK'
      BY <1>1, <1>3, <2>1, EmptyFacts DEF GotOK
    <2>10. \A m \in wire' : m \in wire \/ m = x
      BY <2>1 DEF Send
    <2> QED
      BY <1>1, <1>2, <1>4, <1>5, <2>2, <2>8, <2>9, <2>10
  <1>7. CASE AwaitArp /\ ~(Polled.t = "arp" /\ Polled.ip = arp[pend.entry].ip)
    <2>1. UNCHANGED <<arp, wire, pc, pend>>
      BY <1>7 DEF AwaitArp
    <2>2. ArpInv' /\ GotOK'
      BY <1>1, <1>3, <2>1 DEF ArpInv, GotOK, Complete, Entry, InTransfer
    <2> QED
      BY <1>1, <1>2, <1>4, <1>5, <2>1, <2>2
  <1>8. CASE ArpTimeout /\ pend.retry < MAX_ARP_RETRIES
    <2> DEFINE x == [t |-> "arp", ip |-> arp[pend.entry].ip]
    <2>1. /\ Send(x) /\ pc' = pc /\ arp' = arp
          /\ pend' = [pend EXCEPT !.retry = ArpRetry(@)]
      BY <1>8 DEF ArpTimeout
    <2>2. \A m \in wire' : m \in wire \/ m.t = "arp"
      BY <2>1 DEF Send
    <2>3. pend'.m = pend.m /\ pend'.ok = pend.ok /\ pend'.fail = pend.fail
          /\ pend'.entry = pend.entry
      BY <1>1, <2>1 DEF BootpInv, TypeOK, PendOK
    <2>4. ArpInv' /\ GotOK'
      BY <1>1, <1>3, <2>1, <2>3 DEF ArpInv, GotOK, Complete, Entry, InTransfer
    <2> QED
      BY <1>1, <1>2, <1>4, <1>5, <2>2, <2>4
  <1>9. CASE ArpTimeout /\ ~(pend.retry < MAX_ARP_RETRIES)
    <2>1. pc' = "tftp_end" /\ wire' = wire /\ arp' = arp
      BY <1>1, <1>9 DEF ArpTimeout, ArpInv
    <2>2. ArpInv' /\ GotOK' /\ ~InTransfer'
      BY <1>1, <1>3, <2>1, EmptyFacts DEF ArpInv, GotOK, Complete, InTransfer
    <2> QED
      BY <1>1, <1>2, <1>4, <2>1, <2>2
  <1> QED
    BY <1>6, <1>7, <1>8, <1>9

(* A block that is new to tftp() is the one after the last one.            *)
LEMMA NewIsNext ==
  ASSUME OrderInv, pc = "data", NewBlock
  PROVE  NextIsBlock
  <1>1. CASE tf.block = tf.prev
    <2>1. tf.n \in 0 .. BlockMod - 1 /\ BlockMod \in Nat \ {0} /\ tf.prev = tf.n
      BY EtherbootAssumption DEF OrderInv, TransferTypes
    <2>2. tf.block + BlockMod - tf.prev = BlockMod
      BY <1>1, <2>1
    <2>3. BlockMod % BlockMod = 0
      BY <2>1
    <2> QED
      BY <2>2, <2>3 DEF NewBlock
  <1> QED
    BY <1>1 DEF OrderInv, GotOK

(* The callback gets the block after the last one; a short one is the last.*)
LEMMA DataKeeps ==
  ASSUME FilesFit, BootpInv, OrderInv, Data
  PROVE  OrderInv'
  <1> USE DEF OrderInv
  <1>1. /\ pc = "data" /\ sess' = sess /\ wire' = wire /\ image' = image /\ arp' = arp
        /\ nic' = nic
    BY DEF Data, KernelBlock
  <1>2. \A i \in Slots : FrameIn(nic'.ring[i], sess)
    BY <1>1
  <1>3. /\ Current /\ tf.prev = tf.n /\ tf.n = Len(got) /\ IsSeq(got)
        /\ tf.n \in 0 .. BlockMod - 1 /\ BlockMod \in Nat \ {0}
        /\ tf.size \in Sizes /\ tf.len \in Int
        /\ arp[Entry(arp["server"].ip)].node # None
    BY <1>1, EtherbootAssumption DEF InTransfer, TransferTypes, ArpInv
  <1>4. \A i \in 1 .. Len(got) :
          got[i].file = tf.file /\ got[i].pos = (i - 1) * tf.size /\ got[i].len = tf.size
    BY <1>1 DEF GotOK, Complete, InTransfer
  <1>5. CASE NewBlock
    <2>1. NextIsBlock
      BY <1>1, <1>5, NewIsNext
    <2> DEFINE b == [file |-> packet.file, pos |-> packet.pos, len |-> packet.len]
    <2>2. /\ tf' = [tf EXCEPT !.prev = tf.block, !.retry = 0, !.n = @ + 1]
          /\ got' = Append(got, b)
          /\ pc' \in {"tftp", "tftp_end", "download"} /\ (pc' = "tftp" => ~Eof)
      BY <1>5 DEF Data, KernelBlock
    <2>3. /\ DOMAIN tf' = DOMAIN tf /\ tf'.file = tf.file /\ tf'.port = tf.port
          /\ tf'.size = tf.size /\ tf'.len = tf.len /\ tf'.n = tf.n + 1 /\ tf'.prev = tf.n + 1
          /\ tf'.block = tf.n + 1 /\ tf'.tp = tf.tp
      BY <2>1, <2>2 DEF TransferTypes, NoTransfer, NextIsBlock
    <2>4. b.file = tf.file /\ b.pos = tf.n * tf.size /\ b.len = tf.len
      BY <2>1 DEF NextIsBlock
    <2> HIDE DEF b
    <2>5. /\ IsSeq(got') /\ Len(got') = tf.n + 1
          /\ \A i \in 1 .. Len(got) : got'[i] = got[i]
          /\ got'[tf.n + 1] = b
      BY <1>3, AppendFacts, <2>2
    <2>6. TransferTypes'
      BY <1>1, <1>3, <2>1, <2>3, <2>5 DEF TransferTypes, NextIsBlock
    <2>7. SessionsOK' /\ ArpInv'
      <3>1. SessionsOK'
        BY <1>1, <2>3 DEF SessionsOK
      <3>2. ArpInv'
        BY <1>1, <1>3, <2>2 DEF ArpInv, Entry
      <3> QED
        BY <3>1, <3>2
    <2>8. Current'
      BY <1>1, <1>3, <2>3 DEF Current, SizeKnown
    <2>9. tf.size \in Int
      BY <1>3, FitFacts
    <2>10. pc' = "tftp" => b.len = tf.size
      BY <1>3, <2>1, <2>2, <2>4, <2>9 DEF Eof, NextIsBlock
    <2>11. \A i \in 1 .. Len(got') :
             /\ got'[i].file = tf.file /\ got'[i].pos = (i - 1) * tf.size
             /\ i < Len(got') \/ pc' = "tftp" => got'[i].len = tf.size
             /\ i = Len(got') => got'[i].len = tf.len
      <3> SUFFICES ASSUME NEW i \in 1 .. Len(got')
                   PROVE  /\ got'[i].file = tf.file /\ got'[i].pos = (i - 1) * tf.size
                          /\ i < Len(got') \/ pc' = "tftp" => got'[i].len = tf.size
                          /\ i = Len(got') => got'[i].len = tf.len
        OBVIOUS
      <3>1. CASE i = tf.n + 1
        <4>1. i - 1 = tf.n /\ ~(i < Len(got')) /\ got'[i] = b
          BY <1>3, <2>5, <3>1
        <4> QED
          BY <2>4, <2>10, <4>1
      <3>2. CASE i # tf.n + 1
        <4>1. i \in 1 .. Len(got) /\ i # Len(got')
          BY <1>3, <2>5, <3>2
        <4> QED
          BY <1>4, <2>5, <4>1
      <3> QED
        BY <3>1, <3>2
    <2>12. GotOK'
      BY <2>1, <2>2, <2>3, <2>11 DEF GotOK, Complete, NextIsBlock
    <2> QED
      BY <1>1, <1>2, <2>3, <2>6, <2>7, <2>8, <2>12
  <1>6. CASE ~NewBlock
    <2>1. UNCHANGED <<tf, got>> /\ pc' = "tftp"
      BY <1>6 DEF Data
    <2>2. tf.block = tf.prev
      <3>1. CASE NextIsBlock
        <4>1. BlockMod > 1 /\ tf.block = tf.n + 1
          BY <1>3, <3>1 DEF NextIsBlock
        <4>2. (tf.n + 1 + BlockMod - tf.n) % BlockMod = 1
          BY <1>3, <4>1, BlockNumbers
        <4> QED
          BY <1>3, <1>6, <4>1, <4>2 DEF NewBlock
      <3> QED
        BY <1>1, <3>1 DEF GotOK
    <2>3. TransferTypes' /\ SessionsOK'
      BY <1>1, <2>1 DEF TransferTypes, SessionsOK
    <2>4. ArpInv' /\ Current'
      BY <1>1, <1>3, <2>1 DEF ArpInv, Entry, Current, SizeKnown
    <2>5. GotOK'
      BY <1>4, <2>1, <2>2 DEF GotOK
    <2> QED
      BY <1>1, <1>2, <2>1, <2>3, <2>4, <2>5
  <1> QED
    BY <1>5, <1>6

(* The loader works on a block the callback has; the transfer goes on if   *)
(* it was not the last.                                                    *)
LEMMA DownloadKeeps ==
  ASSUME FilesFit, BootpInv, OrderInv, elf32_download
  PROVE  OrderInv'
  <1> USE DEF OrderInv
  <1>1. /\ pc = "download" /\ sess' = sess /\ wire' = wire /\ image' = image /\ arp' = arp
        /\ tf' = tf /\ got' = got /\ pend' = pend
        /\ nic' = nic \/ nic' = Disabled(nic)
        /\ pc' \in {"download", "tftp", "started"} /\ (pc' = "tftp" => ~Eof)
    BY DEF elf32_download, SkipOn, CopyPart, SegmentDone, Leave, Start
  <1>2. \A i \in Slots : FrameIn(nic'.ring[i], sess)
    <2>1. nic'.ring = nic.ring
      BY <1>1 DEF Disabled, BootpInv, TypeOK, NicOK
    <2> QED
      BY <2>1
  <1>3. Current /\ tf.block = tf.prev /\ tf.len <= tf.size
        /\ arp[Entry(arp["server"].ip)].node # None
    BY <1>1 DEF InTransfer, GotOK, ArpInv
  <1>4. TransferTypes' /\ SessionsOK'
    BY <1>1 DEF TransferTypes, SessionsOK
  <1>5. ArpInv' /\ Current'
    BY <1>1, <1>3 DEF ArpInv, Entry, Current, SizeKnown
  <1>6. tf.len \in Int /\ tf.size \in Nat
    BY FitFacts DEF TransferTypes
  <1>7. pc' = "tftp" => tf.len = tf.size
    BY <1>1, <1>3, <1>6 DEF Eof
  <1>8. Len(got) \in Nat
    BY DEF TransferTypes, IsSeq
  <1>9. GotOK'
    BY <1>1, <1>3, <1>7, <1>8 DEF GotOK, Complete
  <1> QED
    BY <1>1, <1>2, <1>4, <1>5, <1>9

-----------------------------------------------------------------------------
(* The servers' transfers go on and new ones begin: what the client knows  *)
(* of them stays true.                                                     *)
Unchanged == UNCHANGED <<packet, client, load>>

LEMMA ServersKeep ==
  ASSUME OrderInv, Unchanged, SessionsOK', Grows(sess, sess'), \A m \in wire' : m \in wire,
         \A i \in Slots : FrameIn(nic'.ring[i], sess'),
         InTransfer => \A i \in DOMAIN sess' : sess'[i].cport = tf.port =>
           sess'[i].file = tf.file /\ (sess'[i].n > 0 => sess'[i].size = tf.size)
  PROVE  OrderInv'
  <1> USE DEF OrderInv
  <1>1. /\ pc' = pc /\ tf' = tf /\ got' = got /\ image' = image /\ arp' = arp /\ pend' = pend
        /\ packet' = packet
    BY DEF Unchanged, client, load
  <1>2. TransferTypes'
    BY <1>1 DEF TransferTypes
  <1>3. ArpInv' /\ GotOK'
    BY <1>1 DEF ArpInv, GotOK, Complete, Entry, InTransfer, NextIsBlock
  <1>4. \A m \in wire' : MessageIn(m, sess', tf.port)
    BY MessageGrows DEF TransferTypes
  <1>5. InTransfer => Current'
    <2> SUFFICES ASSUME InTransfer PROVE Current'
      OBVIOUS
    <2>1. SizeKnown => SizeKnown'
      BY <1>1 DEF SizeKnown, Grows
    <2>2. \A m \in wire' : m.t = "ack" => sess'[m.sport].size = sess[m.sport].size
      BY DEF MessageIn, Grows
    <2>3. Current
      OBVIOUS
    <2> QED
      BY <1>1, <2>1, <2>2, <2>3 DEF Current
  <1> QED
    BY <1>1, <1>2, <1>3, <1>4, <1>5 DEF InTransfer

(* The frame a transfer sends, and the numbers its blocks have.            *)
LEMMA FrameFacts ==
  ASSUME FilesFit, image \in Images \cup {NoImage}, NEW ss, NEW i \in DOMAIN ss, SessOK(ss[i])
  PROVE  FrameIn(Frame(i, ss[i]), ss)
  <1> DEFINE s == ss[i]
             f == Frame(i, s)
  <1>1. s.size \in Sizes /\ s.n \in 0 .. BlockMod - 1 /\ s.file \in Files /\ BlockMod \in Nat \ {0}
    BY EtherbootAssumption DEF SessOK
  <1>2. s.size \in Nat /\ s.n \in Nat /\ s.n < BlockMod
    BY <1>1, FitFacts
  <1>3. FileSize(s.file) \in Nat
    BY <1>1, FitFacts DEF FileSize
  <1>4. CASE s.n = 0
    <2>1. f.t = "oack" /\ f.sport = i /\ f.cport = s.cport /\ f.size = s.size
      BY <1>4 DEF Frame
    <2> QED
      BY <2>1 DEF FrameIn
  <1>5. CASE s.n # 0
    <2> DEFINE left == FileSize(s.file) - (s.n - 1) * s.size
    <2>1. /\ f.t = "data" /\ f.sport = i /\ f.cport = s.cport /\ f.file = s.file
          /\ f.n = s.n % BlockMod /\ f.pos = (s.n - 1) * s.size
          /\ f.len = IF left < s.size THEN left ELSE s.size
      BY <1>5 DEF Frame
    <2>2. left \in Int
      BY <1>2, <1>3
    <2>3. s.n % BlockMod = s.n
      BY <1>1, <1>2, BlockNumbers
    <2> HIDE DEF left, f
    <2>4. f.len \in Int /\ f.len <= s.size
      BY <1>2, <2>1, <2>2
    <2>5. f.n \in 1 .. s.n
      BY <1>2, <1>5, <2>1, <2>3
    <2> QED
      BY <2>1, <2>3, <2>4, <2>5 DEF FrameIn, f
  <1> QED
    BY <1>4, <1>5

LEMMA NextBlockFits ==
  ASSUME FilesFit, image \in Images \cup {NoImage}, NEW s, SessOK(s),
         s.n * s.size <= FileSize(s.file)
  PROVE  s.n + 1 \in 0 .. BlockMod - 1
  <1>1. /\ s.size \in Sizes /\ s.size \in Nat \ {0} /\ s.n \in Nat
        /\ s.file \in Files /\ BlockMod \in Nat
    BY FitFacts, EtherbootAssumption DEF SessOK
  <1>2. FileSize(s.file) \in Nat /\ FileSize(s.file) < (BlockMod - 1) * s.size
    BY <1>1, FitFacts DEF FileSize
  <1>3. s.n < BlockMod - 1
    BY <1>1, <1>2, FewBlocks
  <1> QED
    BY <1>1, <1>3

LEMMA FramesGrow ==
  ASSUME OrderInv, NEW tt, Grows(sess, tt), \A i \in DOMAIN tt : SessOK(tt[i])
  PROVE  \A i \in Slots : FrameIn(nic.ring[i], tt)
  <1>1. \A i \in DOMAIN tt : tt[i].n \in Nat
    BY DEF SessOK
  <1>2. \A i \in DOMAIN sess : sess[i].n \in Nat
    BY GrowsFacts DEF OrderInv
  <1> QED
    BY <1>1, <1>2, FrameGrows DEF OrderInv

LEMMA AcceptKeeps ==
  ASSUME FilesFit, BootpInv, OrderInv, Unchanged, NEW m \in wire, TftpAccept(m)
  PROVE  OrderInv'
  <1> USE DEF OrderInv
  <1>1. PICK size \in OackSizes \cup {DefSize}, oack \in BOOLEAN :
          /\ oack <=> size \in OackSizes
          /\ \A i \in DOMAIN sess : sess[i].cport = m.cport => sess[i].size = size
          /\ sess' = Append(sess, [file |-> m.file, cport |-> m.cport, from |-> m.from,
                                   size |-> size, n |-> IF oack THEN 0 ELSE 1])
    BY DEF TftpAccept
  <1>2. /\ m.t = "rrq" /\ Take(m) /\ nic' = Received(nic, Frame(Len(sess'), sess'[Len(sess')]))
    BY DEF TftpAccept
  <1> DEFINE s == [file |-> m.file, cport |-> m.cport, from |-> m.from,
                   size |-> size, n |-> IF oack THEN 0 ELSE 1]
  <1>3. m.file \in Files /\ m.cport \in Nat /\ m.cport <= tf.port /\ tf.port \in Nat
    BY <1>2 DEF MessageIn, TransferTypes
  <1>4. BlockMod \in Nat /\ BlockMod > 1
    <2>1. DefSize \in Sizes
      BY DEF Sizes
    <2>2. DefSize \in Nat \ {0} /\ ExtSize \in Nat /\ ExtSize < (BlockMod - 1) * DefSize
      BY <2>1, FitFacts
    <2>3. BlockMod \in Nat \ {0}
      BY EtherbootAssumption
    <2>4. 0 * DefSize <= ExtSize
      BY <2>2
    <2>5. 0 < BlockMod - 1
      BY <2>2, <2>3, <2>4, FewBlocks
    <2> QED
      BY <2>3, <2>5
  <1>5. /\ s.file = m.file /\ s.cport = m.cport /\ s.size = size /\ SessOK(s)
        /\ s.n > 0 => size = DefSize
    BY <1>1, <1>3, <1>4 DEF SessOK, Sizes
  <1> HIDE DEF s
  <1>6. /\ IsSeq(sess') /\ Len(sess') = Len(sess) + 1 /\ Len(sess) \in Nat
        /\ \A i \in 1 .. Len(sess) : sess'[i] = sess[i]
        /\ sess'[Len(sess) + 1] = s
    <2>1. IsSeq(sess) /\ sess' = Append(sess, s)
      BY <1>1 DEF SessionsOK, s
    <2> QED
      BY <2>1, AppendFacts DEF IsSeq
  <1>7. DOMAIN sess = 1 .. Len(sess) /\ DOMAIN sess' = 1 .. Len(sess')
    BY <1>6, DomFacts DEF SessionsOK
  <1>8. \A i \in DOMAIN sess' : (i \in DOMAIN sess /\ sess'[i] = sess[i]) \/ sess'[i] = s
    BY <1>6, <1>7
  <1>9. Grows(sess, sess')
    BY <1>6, <1>7, GrowsFacts DEF Grows
  <1>10. tf' = tf /\ \A x \in wire' : x \in wire
    BY <1>2 DEF Unchanged, client, Take
  <1>11. SessionsOK'
    <2>1. \A i \in DOMAIN sess' : SessOK(sess'[i]) /\ sess'[i].cport <= tf.port
      BY <1>3, <1>5, <1>8 DEF SessionsOK
    <2>2. \A i, j \in DOMAIN sess' : sess'[i].cport = sess'[j].cport => sess'[i].size = sess'[j].size
      BY <1>1, <1>5, <1>8 DEF SessionsOK
    <2> QED
      BY <1>6, <1>10, <2>1, <2>2 DEF SessionsOK
  <1>12. \A i \in Slots : FrameIn(nic'.ring[i], sess')
    <2>1. Len(sess') \in DOMAIN sess' /\ SessOK(sess'[Len(sess')])
      BY <1>5, <1>6, <1>7
    <2>2. FrameIn(Frame(Len(sess'), sess'[Len(sess')]), sess')
      BY <2>1, FrameFacts DEF TransferTypes
    <2>3. \A i \in Slots : FrameIn(nic.ring[i], sess')
      BY <1>9, <1>11, FramesGrow DEF SessionsOK
    <2> QED
      BY <1>2, <2>2, <2>3, ReceivedIn DEF BootpInv, TypeOK
  <1>13. InTransfer => \A i \in DOMAIN sess' : sess'[i].cport = tf.port =>
           sess'[i].file = tf.file /\ (sess'[i].n > 0 => sess'[i].size = tf.size)
    <2> SUFFICES ASSUME InTransfer, NEW i \in DOMAIN sess', sess'[i].cport = tf.port
                 PROVE  sess'[i].file = tf.file /\ (sess'[i].n > 0 => sess'[i].size = tf.size)
      OBVIOUS
    <2>1. CASE i \in DOMAIN sess /\ sess'[i] = sess[i]
      BY <2>1 DEF Current
    <2>2. CASE sess'[i] = s
      <3>1. m.file = tf.file /\ SizeKnown
        BY <1>2, <1>5, <2>2 DEF Current
      <3>2. tf.size = DefSize \/ tf.size = size
        BY <1>1, <1>5, <2>2, <3>1 DEF SizeKnown
      <3> QED
        BY <1>5, <2>2, <3>1, <3>2
    <2> QED
      BY <1>8, <2>1, <2>2
  <1> QED
    BY <1>9, <1>10, <1>11, <1>12, <1>13, ServersKeep

LEMMA NextKeeps ==
  ASSUME FilesFit, BootpInv, OrderInv, Unchanged, NEW m \in wire, TftpNext(m)
  PROVE  OrderInv'
  <1> USE DEF OrderInv
  <1> DEFINE k == m.sport
             s == sess[k]
             t == [s EXCEPT !.n = @ + 1]
  <1>1. m.t = "ack" /\ Take(m) /\ tf' = tf /\ \A x \in wire' : x \in wire
    BY DEF TftpNext, Take, Unchanged, client
  <1>2. k \in DOMAIN sess /\ m.cport = s.cport /\ SessOK(s) /\ s.cport <= tf.port
    BY <1>1 DEF MessageIn, SessionsOK
  <1>3. CASE UNCHANGED <<sess, nic>>
    <2>1. SessionsOK' /\ Grows(sess, sess')
      BY <1>1, <1>3, GrowsFacts DEF SessionsOK
    <2> QED
      BY <1>1, <1>3, <2>1, ServersKeep DEF Current
  <1>4. CASE /\ s.n * s.size <= FileSize(s.file)
             /\ sess' = [sess EXCEPT ![k] = t] /\ nic' = Received(nic, Frame(k, t))
    <2>1. s.n + 1 \in 0 .. BlockMod - 1
      BY <1>2, <1>4, NextBlockFits DEF TransferTypes
    <2>2. /\ SessOK(t) /\ t.cport = s.cport /\ t.file = s.file /\ t.size = s.size
          /\ t.n = s.n + 1 /\ s.n \in Nat
      BY <1>2, <2>1 DEF SessOK
    <2> HIDE DEF t
    <2>3. IsSeq(sess') /\ DOMAIN sess' = DOMAIN sess /\ sess'[k] = t
          /\ \A i \in DOMAIN sess : i # k => sess'[i] = sess[i]
      BY <1>2, <1>4, UpdateFacts DEF SessionsOK
    <2>4. Grows(sess, sess')
      BY <2>2, <2>3, GrowsFacts DEF Grows
    <2>5. SessionsOK'
      <3>1. \A i \in DOMAIN sess' : SessOK(sess'[i]) /\ sess'[i].cport = sess[i].cport
                                    /\ sess'[i].size = sess[i].size /\ sess'[i].file = sess[i].file
        BY <2>2, <2>3 DEF SessionsOK
      <3> QED
        BY <1>1, <2>3, <3>1 DEF SessionsOK
    <2>6. \A i \in Slots : FrameIn(nic'.ring[i], sess')
      <3>1. FrameIn(Frame(k, t), sess')
        BY <1>2, <2>2, <2>3, FrameFacts DEF TransferTypes
      <3>2. \A i \in Slots : FrameIn(nic.ring[i], sess')
        BY <2>4, <2>5, FramesGrow DEF SessionsOK
      <3> QED
        BY <1>4, <3>1, <3>2, ReceivedIn DEF BootpInv, TypeOK
    <2>7. InTransfer => \A i \in DOMAIN sess' : sess'[i].cport = tf.port =>
            sess'[i].file = tf.file /\ (sess'[i].n > 0 => sess'[i].size = tf.size)
      BY <1>1, <1>2, <2>2, <2>3 DEF Current
    <2> QED
      BY <1>1, <2>4, <2>5, <2>6, <2>7, ServersKeep
  <1> HIDE DEF k, s, t
  <1> QED
    BY <1>3, <1>4 DEF TftpNext, k, s, t

(* The other servers only put frames into the ring.                        *)
LEMMA AnswersKeep ==
  ASSUME FilesFit, BootpInv, OrderInv, Unchanged, sess' = sess, \A x \in wire' : x \in wire,
         NEW f, FrameIn(f, sess), nic' = Received(nic, f)
  PROVE  OrderInv'
  <1> USE DEF OrderInv
  <1>1. SessionsOK' /\ Grows(sess, sess')
    BY GrowsFacts DEF SessionsOK, Unchanged, client
  <1>2. \A i \in Slots : FrameIn(nic'.ring[i], sess')
    BY ReceivedIn DEF BootpInv, TypeOK
  <1> QED
    BY <1>1, <1>2, ServersKeep DEF Current

LEMMA WorldInOrder ==
  ASSUME FilesFit, BootpInv, OrderInv, World
  PROVE  OrderInv'
  <1>1. Unchanged
    BY DEF World, Unchanged
  <1>2. CASE Resend
    <2>1. PICK i \in DOMAIN sess : nic' = Received(nic, Frame(i, sess[i]))
      BY <1>2 DEF Resend
    <2>2. FrameIn(Frame(i, sess[i]), sess)
      BY FrameFacts DEF OrderInv, TransferTypes, SessionsOK
    <2> QED
      BY <1>1, <1>2, <2>1, <2>2, AnswersKeep DEF Resend
  <1>3. ASSUME NEW m \in wire, ArpAnswer(m) \/ DhcpAnswer(m) \/ TftpRefuse(m) PROVE OrderInv'
    <2>1. sess' = sess /\ \A x \in wire' : x \in wire
      BY <1>3 DEF ArpAnswer, DhcpAnswer, TftpRefuse, Take
    <2>2. \E f : nic' = Received(nic, f) /\ FrameIn(f, sess)
      <3>1. CASE ArpAnswer(m)
        <4> DEFINE f == [t |-> "arp", ip |-> m.ip, node |-> m.ip]
        <4>1. nic' = Received(nic, f) /\ m.ip # None
          BY <3>1, EtherbootAssumption DEF ArpAnswer
        <4>2. FrameIn(f, sess)
          BY <4>1 DEF FrameIn
        <4> QED
          BY <4>1, <4>2
      <3>2. CASE DhcpAnswer(m)
        <4>1. PICK c : nic' = Received(nic, [t |-> "bootp", c |-> c])
          BY <3>2 DEF DhcpAnswer
        <4>2. FrameIn([t |-> "bootp", c |-> c], sess)
          BY DEF FrameIn
        <4> QED
          BY <4>1, <4>2
      <3>3. CASE TftpRefuse(m)
        <4> DEFINE f == [t |-> "error", from |-> m.from, cport |-> m.cport, sport |-> 0]
        <4>1. nic' = Received(nic, f)
          BY <3>3 DEF TftpRefuse
        <4>2. FrameIn(f, sess)
          BY DEF FrameIn
        <4> QED
          BY <4>1, <4>2
      <3> QED
        BY <1>3, <3>1, <3>2, <3>3
    <2> QED
      BY <1>1, <2>1, <2>2, AnswersKeep
  <1> QED
    BY <1>1, <1>2, <1>3, AcceptKeeps, NextKeeps DEF World

LEMMA NextOrder == FilesFit /\ BootpInv /\ OrderInv /\ [Next]_vars => OrderInv'
  <1> SUFFICES ASSUME FilesFit, BootpInv, OrderInv, [Next]_vars PROVE OrderInv'
    OBVIOUS
  <1>1. CASE UNCHANGED vars
    <2>1. /\ sess' = sess /\ nic' = nic /\ wire' = wire /\ Unchanged
      BY <1>1 DEF vars, net, Unchanged
    <2>2. SessionsOK' /\ Grows(sess, sess')
      BY <2>1, GrowsFacts DEF OrderInv, SessionsOK, Unchanged, client
    <2> QED
      BY <2>1, <2>2, ServersKeep DEF OrderInv, Current
  <1> QED
    BY <1>1, BeforeKeeps, AroundKeeps, StartKeeps, TimeoutKeeps, AwaitKeeps, ResolvedKeeps,
       DataKeeps, DownloadKeeps, WorldInOrder DEF Next, Waiting

(* tftp() hands its callback the file it asked for, in order and without   *)
(* gaps or repeats, if no file has as many blocks as there are numbers.    *)
THEOREM FileAlwaysInOrder ==
  ASSUME FilesFit
  PROVE  Spec => []FileInOrder
  <1>1. OrderInv => FileInOrder
    <2> SUFFICES ASSUME OrderInv, NEW i \in 1 .. Len(got)
                 PROVE  /\ got[i].file = tf.file
                        /\ got[i].pos = IF i = 1 THEN 0 ELSE got[i - 1].pos + got[i - 1].len
      BY DEF FileInOrder
    <2>1. Len(got) \in Nat /\ tf.size \in Nat
      BY FitFacts DEF OrderInv, TransferTypes, IsSeq
    <2>2. got[i].file = tf.file /\ got[i].pos = (i - 1) * tf.size
      BY DEF OrderInv, GotOK
    <2>3. CASE i = 1
      BY <2>1, <2>2, <2>3
    <2>4. CASE i # 1
      <3>1. i - 1 \in 1 .. Len(got) /\ i - 1 < Len(got)
        BY <2>1, <2>4
      <3>2. got[i - 1].pos = (i - 1 - 1) * tf.size /\ got[i - 1].len = tf.size
        BY <3>1 DEF OrderInv, GotOK
      <3>3. (i - 1) * tf.size = (i - 1 - 1) * tf.size + tf.size
        <4>1. i - 1 \in Int
          BY <2>1
        <4> QED
          BY <2>1, <4>1, OneBlockMore
      <3> QED
        BY <2>2, <2>4, <3>2, <3>3
    <2> QED
      BY <2>3, <2>4
  <1> QED
    BY <1>1, InitBootp, NextBootp, InitOrder, NextOrder, PTL DEF Spec

-----------------------------------------------------------------------------
(* The kernel is whole in memory.                                          *)
(*                                                                         *)
(* load_block() and elf32_download() know where in the file a block is     *)
(* only by counting what came before it.  KernelInv says that the count is *)
(* right: the blocks are of the kernel (RightFile), each is as long as the *)
(* protocol says (LengthInv), and the loader stands where the bytes so far *)
(* have brought it (LoadInv): between two blocks its position, with what   *)
(* is left to skip, is the end of the last block; in a block it is the     *)
(* offset in the block; and of each segment memory holds the bytes before  *)
(* that position and no other, while its bss is clear from the first block *)
(* on and the rest is as it was.                                           *)
(*                                                                         *)
(* The segments are told apart by what a linker guarantees of an image     *)
(* (ImagesAssumption): in the file and in memory they do not overlap, so   *)
(* the order of their offsets is the order in which they are placed.       *)

(* A kernel is asked for once, with the image that is behind its name      *)
(* then; before that nothing on the network is of the kernel.              *)
RightFile ==
  /\ tf.file = "kernel" =>
       /\ pc \in {"rrq", "arp", "tftp", "data", "download", "tftp_end", "started", "restart"}
       /\ image \in Images
  /\ pc \in {"download", "started"} => tf.file = "kernel"
  /\ tf.file # "kernel" => /\ \A i \in DOMAIN sess : sess[i].file # "kernel"
                           /\ \A m \in wire : m.t = "rrq" => m.file # "kernel"

(* A block begins in its file, and is short only if it ends it.            *)
BlockOK(file, pos, len, size) ==
  /\ pos \in 0 .. FileSize(file)
  /\ len = IF FileSize(file) - pos < size THEN FileSize(file) - pos ELSE size

LengthInv ==
  /\ \A i \in DOMAIN sess : sess[i].n > 0 =>
       (sess[i].n - 1) * sess[i].size <= FileSize(sess[i].file)
  /\ \A i \in Slots : LET f == nic.ring[i]
                      IN  f.t = "data" => BlockOK(f.file, f.pos, f.len, sess[f.sport].size)
  /\ pc = "data" /\ tf.block # tf.prev => BlockOK(tf.file, packet.pos, tf.len, tf.size)
  /\ pc = "download" => tf.n > 0 /\ BlockOK("kernel", (tf.n - 1) * tf.size, tf.len, tf.size)

(* How many bytes of each segment the loader has placed.                   *)
Have(img, e) ==
  [i \in Loads(img) |->
     IF e.seg = NoSeg THEN 0
     ELSE IF i = e.seg THEN img.phdr[i].filesz - e.toread
     ELSE IF img.phdr[i].off < img.phdr[e.seg].off THEN img.phdr[i].filesz ELSE 0]

(* What memory holds when h[i] bytes of segment i have been placed.        *)
Placed(img, m, h) ==
  LET p == img.phdr
  IN  /\ DOMAIN m = Memory
      /\ \A i \in Loads(img) :
           /\ \A x \in p[i].paddr .. p[i].paddr + h[i] - 1 : m[x] = p[i].off + (x - p[i].paddr)
           /\ \A x \in p[i].paddr + p[i].filesz .. p[i].paddr + p[i].memsz - 1 : m[x] = Zero
      /\ \A x \in Memory :
           (\A i \in Loads(img) : x \notin p[i].paddr .. p[i].paddr + p[i].memsz - 1)
             => m[x] = Stale

Fits(img) == \A i \in Loads(img) : prep_segment(img.phdr[i])

(* Where the loader is in the file: position e.loc + ..., of segment e.seg.*)
InSegment(img, e, pos) ==
  LET p == img.phdr[e.seg]
  IN  /\ e.seg \in Loads(img) /\ p.filesz # 0
      /\ e.toread \in 1 .. p.filesz /\ e.skip \in Nat
      /\ e.curaddr = p.paddr + (p.filesz - e.toread)
      /\ pos + e.skip = p.off + (p.filesz - e.toread)

(* Between two blocks, when the first E bytes of the file have come.       *)
Between(img, e, E) ==
  /\ DOMAIN e = DOMAIN Fresh /\ InSegment(img, e, e.loc) /\ e.offset = 0
  /\ e.skip_sectors \in Nat /\ e.skip_bytes \in 0 .. Sector - 1
  /\ e.loc = E + (e.skip_sectors * Sector + e.skip_bytes)

(* In a block that ends at E.                                              *)
InBlock(img, e, E) ==
  /\ DOMAIN e = DOMAIN Fresh
  /\ e.loc \in Nat /\ e.data = e.loc /\ e.len \in Nat /\ e.loc + e.len = E
  /\ e.offset \in 0 .. e.len - 1
  /\ \/ /\ e.seg = NoSeg
        /\ e.loc = 0 /\ e.offset = 0 /\ e.skip = 0 /\ e.toread = 0 /\ e.curaddr = 0
     \/ InSegment(img, e, e.loc + e.offset)

AtEnd(n) == (n - 1) * tf.size + tf.len

LoadInv ==
  /\ tf.file # "kernel" \/ (pc \in {"rrq", "arp", "tftp", "data"} /\ tf.n = 0) =>
       mem = [x \in Memory |-> Stale]
  /\ pc \in {"tftp", "data"} /\ tf.file = "kernel" /\ tf.n > 0 =>
       Between(image, ld, tf.n * tf.size)
  /\ pc = "download" => InBlock(image, ld, AtEnd(tf.n))
  /\ pc = "download" \/ (pc \in {"tftp", "data"} /\ tf.file = "kernel" /\ tf.n > 0) =>
       Fits(image) /\ Placed(image, mem, Have(image, ld))
  /\ KernelWhole

KernelInv == RightFile /\ LengthInv /\ LoadInv

-----------------------------------------------------------------------------
(* The loader: sectors to skip, what one turn of the loop places, and what *)
(* is in memory when the last segment is done.                             *)
LEMMA SectorFacts ==
  ASSUME NEW n \in Nat
  PROVE  /\ n = (n \div Sector) * Sector + (n % Sector)
         /\ n \div Sector \in Nat /\ n % Sector \in 0 .. Sector - 1
  BY ElfAssumption

(* Products of naturals are naturals.                                      *)
LEMMA NatProduct ==
  ASSUME NEW n \in Nat, NEW k \in Nat
  PROVE  n * k \in Nat
  BY SMT

(* A block is skipped whole exactly when the skip is as long as the block. *)
LEMMA SkipsWholeFacts ==
  ASSUME NEW e, NEW len \in Nat, e.skip_sectors \in Nat, e.skip_bytes \in 0 .. Sector - 1
  PROVE  SkipsWhole(e, len) <=> e.skip_sectors * Sector + e.skip_bytes >= len
  <1> DEFINE q == len \div Sector
             r == len % Sector
             k == e.skip_sectors
             b == e.skip_bytes
  <1>1. len = q * Sector + r /\ q \in Nat /\ r \in 0 .. Sector - 1
    BY SectorFacts
  <1>2. SkipsWhole(e, len) <=> k > q \/ (k = q /\ b >= r)
    BY DEF SkipsWhole
  <1>3. Sector \in Nat /\ Sector > 0 /\ k \in Nat /\ b \in 0 .. Sector - 1
    BY ElfAssumption
  <1> HIDE DEF q, r, k, b
  <1>4. CASE k = q
    <2>1. q * Sector \in Nat
      BY <1>1, <1>3, NatProduct
    <2>2. k * Sector + b >= len <=> b >= r
      BY <1>1, <1>3, <1>4, <2>1
    <2>3. (k > q \/ (k = q /\ b >= r)) <=> b >= r
      BY <1>3, <1>4
    <2> QED
      BY <1>2, <2>2, <2>3 DEF k, b
  <1>5. CASE k > q
    <2>1. PICK d \in Nat : k = q + 1 + d
      <3>1. k - (q + 1) \in Nat /\ k = q + 1 + (k - (q + 1))
        BY <1>1, <1>3, <1>5
      <3> QED
        BY <3>1
    <2>2. k * Sector = q * Sector + Sector + d * Sector
      BY <1>1, <1>3, <2>1, SMT
    <2>3. q * Sector \in Nat /\ d * Sector \in Nat
      BY <1>1, <1>3, <2>1, NatProduct
    <2>4. k * Sector + b >= len
      BY <1>1, <1>3, <2>2, <2>3
    <2> QED
      BY <1>2, <1>5, <2>4 DEF k, b
  <1>6. CASE k < q
    <2>1. PICK d \in Nat : q = k + 1 + d
      <3>1. q - (k + 1) \in Nat /\ q = k + 1 + (q - (k + 1))
        BY <1>1, <1>3, <1>6
      <3> QED
        BY <3>1
    <2>2. q * Sector = k * Sector + Sector + d * Sector
      BY <1>1, <1>3, <2>1, SMT
    <2>3. k * Sector \in Nat /\ d * Sector \in Nat
      BY <1>1, <1>3, <2>1, NatProduct
    <2>4. k * Sector + b < len
      BY <1>1, <1>3, <2>2, <2>3
    <2>5. ~(k > q \/ (k = q /\ b >= r))
      BY <1>1, <1>3, <1>6
    <2> QED
      BY <1>2, <1>3, <2>3, <2>4, <2>5 DEF k, b
  <1> QED
    BY <1>1, <1>3, <1>4, <1>5, <1>6

(* Such a block is taken from the skip.                                    *)
LEMMA BorrowFacts ==
  ASSUME NEW e, DOMAIN e = DOMAIN Fresh, NEW len \in Nat,
         e.skip_sectors \in Nat, e.skip_bytes \in 0 .. Sector - 1, SkipsWhole(e, len),
         NEW f, f = Borrow(e, len)
  PROVE  /\ DOMAIN f = DOMAIN Fresh /\ f.seg = e.seg /\ f.loc = e.loc /\ f.skip = e.skip
         /\ f.toread = e.toread /\ f.curaddr = e.curaddr /\ f.offset = e.offset
         /\ f.skip_sectors \in Nat /\ f.skip_bytes \in 0 .. Sector - 1
         /\ f.skip_sectors * Sector + f.skip_bytes = (e.skip_sectors * Sector + e.skip_bytes) - len
  <1> DEFINE k == e.skip_sectors
             b == e.skip_bytes
             up == ((len - b) + Sector - 1) \div Sector
  <1>1. Sector \in Nat /\ Sector > 0 /\ k \in Nat /\ b \in 0 .. Sector - 1
    BY ElfAssumption
  <1>2. k * Sector + b >= len
    BY SkipsWholeFacts
  <1>3. CASE b < len
    <2>1. f = [e EXCEPT !.skip_sectors = @ - up, !.skip_bytes = @ + up * Sector - len]
      BY <1>3 DEF Borrow
    <2>2. /\ DOMAIN f = DOMAIN Fresh /\ f.seg = e.seg /\ f.loc = e.loc /\ f.skip = e.skip
          /\ f.toread = e.toread /\ f.curaddr = e.curaddr /\ f.offset = e.offset
          /\ f.skip_sectors = k - up /\ f.skip_bytes = b + up * Sector - len
      BY <2>1 DEF Fresh
    <2>3. len - b + Sector - 1 \in Nat
      BY <1>1, <1>3
    <2> DEFINE r == (len - b + Sector - 1) % Sector
    <2>4. /\ len - b + Sector - 1 = up * Sector + r
          /\ up \in Nat /\ r \in 0 .. Sector - 1
      BY <2>3, SectorFacts
    <2> HIDE DEF up, r, k, b
    <2>5. up * Sector \in Nat /\ k * Sector \in Nat
      BY <1>1, <2>4, NatProduct
    <2>6. b + up * Sector - len \in 0 .. Sector - 1
      BY <1>1, <2>4, <2>5
    <2>7. k - up \in Nat /\ (k - up) * Sector = k * Sector - up * Sector
      <3>1. (k - up) * Sector = k * Sector - up * Sector
        BY <1>1, <2>4, SMT
      <3>2. k - up >= 0
        <4> SUFFICES ASSUME up >= k + 1 PROVE FALSE
          BY <1>1, <2>4
        <4>1. PICK d \in Nat : up = k + 1 + d
          <5>1. up - (k + 1) \in Nat /\ up = k + 1 + (up - (k + 1))
            BY <1>1, <2>4
          <5> QED
            BY <5>1
        <4>2. up * Sector = k * Sector + Sector + d * Sector
          BY <1>1, <2>4, <4>1, SMT
        <4>3. d * Sector \in Nat
          BY <1>1, <4>1, NatProduct
        <4> QED
          BY <1>1, <1>2, <2>4, <2>5, <4>2, <4>3 DEF k, b
      <3> QED
        BY <1>1, <2>4, <3>1, <3>2
    <2> QED
      BY <1>1, <2>2, <2>5, <2>6, <2>7 DEF k, b
  <1>4. CASE ~(b < len)
    <2>1. f = [e EXCEPT !.skip_bytes = @ - len]
      BY <1>4 DEF Borrow
    <2>2. /\ DOMAIN f = DOMAIN Fresh /\ f.seg = e.seg /\ f.loc = e.loc /\ f.skip = e.skip
          /\ f.toread = e.toread /\ f.curaddr = e.curaddr /\ f.offset = e.offset
          /\ f.skip_sectors = k /\ f.skip_bytes = b - len
      BY <2>1 DEF Fresh
    <2>3. k * Sector \in Nat
      BY <1>1, NatProduct
    <2> HIDE DEF k, b
    <2> QED
      BY <1>1, <1>4, <2>2, <2>3 DEF k, b
  <1> QED
    BY <1>3, <1>4

(* What a linker guarantees.                                               *)
LEMMA ImageFacts ==
  ASSUME NEW img \in Images
  PROVE  /\ img.size \in Nat /\ img.hdr \in Nat
         /\ \A i \in Loads(img) :
              /\ i # NoSeg
              /\ img.phdr[i].off \in Nat /\ img.phdr[i].filesz \in Nat
              /\ img.phdr[i].memsz \in Nat /\ img.phdr[i].paddr \in Nat
              /\ img.phdr[i].off + img.phdr[i].filesz <= img.size
  <1>1. {img.size, img.hdr, Len(img.phdr)} \subseteq Nat /\ ImageSound(img)
    BY ImagesAssumption
  <1>2. \A i \in Loads(img) :
          {img.phdr[i].off, img.phdr[i].filesz, img.phdr[i].memsz, img.phdr[i].paddr} \subseteq Nat
          /\ img.phdr[i].off + img.phdr[i].filesz <= img.size
    BY <1>1 DEF ImageSound
  <1>3. \A i \in Loads(img) : i # NoSeg
    BY <1>1 DEF Loads, NoSeg
  <1> QED
    BY <1>1, <1>2, <1>3

(* Two segments of an image have no byte of the file in common.            *)
LEMMA FileApart ==
  ASSUME NEW img \in Images, NEW i \in Loads(img), NEW j \in Loads(img), i # j,
         img.phdr[i].filesz # 0, img.phdr[j].filesz # 0
  PROVE  \/ img.phdr[i].off + img.phdr[i].filesz <= img.phdr[j].off
         \/ img.phdr[j].off + img.phdr[j].filesz <= img.phdr[i].off
  BY ImagesAssumption DEF ImageSound

(* ... and no address.                                                     *)
LEMMA MemoryApart ==
  ASSUME NEW img \in Images, NEW i \in Loads(img), NEW j \in Loads(img), i # j
  PROVE  \/ img.phdr[i].paddr + img.phdr[i].memsz <= img.phdr[j].paddr
         \/ img.phdr[j].paddr + img.phdr[j].memsz <= img.phdr[i].paddr
  BY ImagesAssumption DEF ImageSound

(* Segments that fit lie in memory.                                        *)
LEMMA FitsFacts ==
  ASSUME NEW img \in Images, Fits(img), NEW i \in Loads(img)
  PROVE  /\ img.phdr[i].filesz <= img.phdr[i].memsz
         /\ img.phdr[i].paddr + img.phdr[i].memsz <= Top
  <1>1. prep_segment(img.phdr[i])
    BY DEF Fits
  <1>2. PICK r \in Ram : img.phdr[i].paddr + img.phdr[i].memsz <= r[2]
    BY <1>1 DEF prep_segment
  <1>3. r[2] \in Nat /\ r[2] <= Top /\ Top \in Nat
    BY ElfAssumption
  <1>4. img.phdr[i].paddr \in Nat /\ img.phdr[i].memsz \in Nat
    BY ImageFacts
  <1> QED
    BY <1>1, <1>2, <1>3, <1>4 DEF prep_segment

(* elf32_probe() clears the bss.                                           *)
LEMMA ClearedPlaced ==
  ASSUME NEW img \in Images, Fits(img), NEW len, HeadersIn(img, len),
         NEW h, \A i \in Loads(img) : h[i] = 0,
         NEW m, m = Cleared(img, len, [x \in Memory |-> Stale])
  PROVE  Placed(img, m, h)
  <1> DEFINE p == img.phdr
             bss(i) == p[i].paddr + p[i].filesz .. p[i].paddr + p[i].memsz - 1
  <1>1. m = [x \in Memory |-> IF \E i \in Loads(img) : x \in bss(i) THEN Zero ELSE Stale]
    <2>1. \A i \in Loads(img) : \A j \in Loads(img) : j <= i => prep_segment(p[j])
      BY DEF Fits
    <2> QED
      BY <2>1 DEF Cleared
  <1>2. ASSUME NEW i \in Loads(img)
        PROVE  /\ \A x \in p[i].paddr .. p[i].paddr + h[i] - 1 : m[x] = p[i].off + (x - p[i].paddr)
               /\ \A x \in bss(i) : m[x] = Zero
    <2>1. /\ p[i].paddr \in Nat /\ p[i].filesz \in Nat /\ p[i].memsz \in Nat
          /\ p[i].paddr + p[i].memsz <= Top /\ Top \in Nat
      BY ImageFacts, FitsFacts, ElfAssumption
    <2>2. \A x \in bss(i) : x \in Memory
      <3> SUFFICES ASSUME NEW x \in bss(i) PROVE x \in Memory
        OBVIOUS
      <3>1. x \in Int /\ p[i].paddr + p[i].filesz <= x /\ x <= p[i].paddr + p[i].memsz - 1
        BY <2>1
      <3>2. x \in 0 .. Top - 1
        BY <2>1, <3>1
      <3> QED
        BY <3>2 DEF Memory
    <2>3. h[i] = 0
      OBVIOUS
    <2>4. \A x : x \notin p[i].paddr .. p[i].paddr + h[i] - 1
      BY <2>1, <2>3
    <2> QED
      BY <1>1, <2>2, <2>4
  <1>3. ASSUME NEW x \in Memory,
               \A i \in Loads(img) : x \notin p[i].paddr .. p[i].paddr + p[i].memsz - 1
        PROVE  m[x] = Stale
    <2>1. \A i \in Loads(img) : x \notin bss(i)
      <3> SUFFICES ASSUME NEW i \in Loads(img) PROVE x \notin bss(i)
        OBVIOUS
      <3>1. p[i].paddr \in Nat /\ p[i].filesz \in Nat /\ p[i].memsz \in Nat
        BY ImageFacts
      <3> QED
        BY <1>3, <3>1
    <2> QED
      BY <1>1, <2>1
  <1>4. DOMAIN m = Memory
    BY <1>1
  <1> HIDE DEF bss
  <1> QED
    BY <1>2, <1>3, <1>4 DEF Placed, bss

(* c more bytes of segment s.                                              *)
LEMMA CopyPlaced ==
  ASSUME NEW img \in Images, Fits(img), NEW m, NEW h, Placed(img, m, h),
         NEW s \in Loads(img), NEW c \in Nat, h[s] \in Nat, h[s] + c <= img.phdr[s].filesz,
         NEW cur, cur = img.phdr[s].paddr + h[s], NEW d, d = img.phdr[s].off + h[s],
         NEW n, n = [x \in DOMAIN m |->
                       IF x \in cur .. cur + c - 1 THEN d + (x - cur) ELSE m[x]],
         NEW g, \A i \in Loads(img) : /\ g[i] \in Nat /\ g[i] <= img.phdr[i].filesz
                                      /\ i = s => g[i] <= h[s] + c
                                      /\ i # s => h[i] \in Nat /\ g[i] <= h[i]
  PROVE  Placed(img, n, g)
  <1> DEFINE p == img.phdr
             seg(i) == p[i].paddr .. p[i].paddr + p[i].memsz - 1
  <1>1. \A i \in Loads(img) :
          /\ p[i].off \in Nat /\ p[i].filesz \in Nat /\ p[i].memsz \in Nat /\ p[i].paddr \in Nat
          /\ p[i].filesz <= p[i].memsz /\ p[i].paddr + p[i].memsz <= Top
    BY ImageFacts, FitsFacts
  <1>2. DOMAIN m = Memory /\ Top \in Nat
    BY ElfAssumption DEF Placed
  <1>3. \A x \in Memory : n[x] = IF x \in cur .. cur + c - 1 THEN d + (x - cur) ELSE m[x]
    BY <1>2
  <1>4. \A i \in Loads(img) : \A x \in seg(i) : x \in Memory
    <2> SUFFICES ASSUME NEW i \in Loads(img), NEW x \in seg(i) PROVE x \in Memory
      OBVIOUS
    <2>1. p[i].memsz \in Nat /\ p[i].paddr \in Nat /\ p[i].paddr + p[i].memsz <= Top
      BY <1>1
    <2> QED
      BY <1>2, <2>1 DEF Memory
  <1>5. \A x \in cur .. cur + c - 1 : x \in seg(s) /\ x < p[s].paddr + p[s].filesz
    BY <1>1
  <1>6. \A i \in Loads(img) : i # s => \A x \in seg(i) : x \notin cur .. cur + c - 1
    <2> SUFFICES ASSUME NEW i \in Loads(img), i # s, NEW x \in seg(i), x \in seg(s)
                 PROVE  FALSE
      BY <1>5
    <2>1. p[i].paddr + p[i].memsz <= p[s].paddr \/ p[s].paddr + p[s].memsz <= p[i].paddr
      BY MemoryApart
    <2> QED
      BY <1>1, <2>1
  <1>7. ASSUME NEW i \in Loads(img), NEW x \in p[i].paddr .. p[i].paddr + g[i] - 1
        PROVE  n[x] = p[i].off + (x - p[i].paddr)
    <2>1. x \in seg(i) /\ x \in Memory
      BY <1>1, <1>4
    <2>2. CASE i # s
      <3>1. x \in p[i].paddr .. p[i].paddr + h[i] - 1
        BY <1>1, <2>2
      <3>2. m[x] = p[i].off + (x - p[i].paddr)
        BY <3>1 DEF Placed
      <3> QED
        BY <1>3, <1>6, <2>1, <2>2, <3>2
    <2>3. CASE i = s /\ x \in cur .. cur + c - 1
      <3>1. n[x] = d + (x - cur)
        BY <1>3, <2>1, <2>3
      <3>2. x \in Int /\ p[s].off \in Nat /\ p[s].paddr \in Nat
        BY <1>1, <2>1
      <3> QED
        BY <2>3, <3>1, <3>2
    <2>4. CASE i = s /\ x \notin cur .. cur + c - 1
      <3>1. g[s] \in Nat /\ g[s] <= h[s] + c
        OBVIOUS
      <3>2. x \in p[s].paddr .. p[s].paddr + h[s] - 1
        BY <1>1, <2>4, <3>1
      <3>3. m[x] = p[s].off + (x - p[s].paddr)
        BY <3>2 DEF Placed
      <3> QED
        BY <1>3, <2>1, <2>4, <3>3
    <2> QED
      BY <2>2, <2>3, <2>4
  <1>8. ASSUME NEW i \in Loads(img), NEW x \in p[i].paddr + p[i].filesz .. p[i].paddr + p[i].memsz - 1
        PROVE  n[x] = Zero
    <2>1. x \in seg(i) /\ x \in Memory /\ m[x] = Zero
      <3>1. x \in seg(i)
        BY <1>1
      <3>2. m[x] = Zero
        BY DEF Placed
      <3> QED
        BY <1>4, <3>1, <3>2
    <2>2. x \notin cur .. cur + c - 1
      <3>1. CASE i # s
        BY <1>6, <2>1, <3>1
      <3>2. CASE i = s
        BY <1>1, <1>5, <3>2
      <3> QED
        BY <3>1, <3>2
    <2> QED
      BY <1>3, <2>1, <2>2
  <1>9. ASSUME NEW x \in Memory, \A i \in Loads(img) : x \notin seg(i)
        PROVE  n[x] = Stale
    <2>1. m[x] = Stale
      BY <1>9 DEF Placed
    <2> QED
      BY <1>3, <1>5, <1>9, <2>1
  <1>10. DOMAIN n = Memory
    BY <1>2
  <1> QED
    BY <1>7, <1>8, <1>9, <1>10 DEF Placed

(* What is placed of a segment is never more than there is of it.          *)
LEMMA HaveFacts ==
  ASSUME NEW img \in Images, NEW e, NEW pos, e.seg = NoSeg \/ InSegment(img, e, pos)
  PROVE  \A i \in Loads(img) :
           Have(img, e)[i] \in Nat /\ Have(img, e)[i] <= img.phdr[i].filesz
  <1> SUFFICES ASSUME NEW i \in Loads(img)
               PROVE  Have(img, e)[i] \in Nat /\ Have(img, e)[i] <= img.phdr[i].filesz
    OBVIOUS
  <1>1. img.phdr[i].filesz \in Nat
    BY ImageFacts
  <1>2. CASE e.seg = NoSeg
    BY <1>1, <1>2 DEF Have
  <1>3. CASE InSegment(img, e, pos)
    BY <1>1, <1>3 DEF Have, InSegment
  <1> QED
    BY <1>2, <1>3

(* A turn of the loop that is not spent in the skip.                       *)
LEMMA TurnFacts ==
  ASSUME image \in Images, NEW E, InBlock(image, ld, E), ~InSkip
  PROVE  /\ Offset \in Nat /\ Offset < ld.len /\ Cplen \in Nat /\ Cplen <= ld.toread
         /\ Offset + Cplen <= ld.len /\ Offset + Cplen \in Nat
         /\ Cplen < ld.toread => Offset + Cplen = ld.len
         /\ ld.seg = NoSeg => Cplen = 0 /\ Offset = 0
  <1>1. ld.len \in Nat /\ ld.offset \in Nat /\ ld.offset < ld.len
    BY DEF InBlock
  <1>2. CASE ld.seg = NoSeg
    <2>1. ld.skip = 0 /\ ld.toread = 0 /\ ld.offset = 0
      BY <1>2 DEF InBlock, InSegment, Loads, NoSeg
    <2> QED
      BY <1>1, <1>2, <2>1 DEF Offset, Cplen
  <1>3. CASE InSegment(image, ld, ld.loc + ld.offset)
    <2>1. ld.seg \in Loads(image) /\ ld.toread \in Nat /\ ld.skip \in Nat
      <3>1. ld.seg \in Loads(image) /\ ld.toread \in 1 .. image.phdr[ld.seg].filesz /\ ld.skip \in Nat
        BY <1>3 DEF InSegment
      <3> QED
        BY <3>1
    <2>2. ld.seg # NoSeg
      BY <2>1, ImageFacts
    <2>3. ld.skip < ld.len - ld.offset
      BY <1>1, <2>1, <2>2 DEF InSkip
    <2> QED
      BY <1>1, <2>1, <2>2, <2>3 DEF Offset, Cplen
  <1> QED
    BY <1>2, <1>3 DEF InBlock

(* The copy of a turn puts the next bytes of the segment behind the last.  *)
LEMMA CopiedPlaced ==
  ASSUME image \in Images, Fits(image), NEW E, InBlock(image, ld, E), ~InSkip,
         Placed(image, mem, Have(image, ld)),
         NEW g, \A i \in Loads(image) :
                  /\ g[i] \in Nat /\ g[i] <= image.phdr[i].filesz
                  /\ i = ld.seg => g[i] <= (image.phdr[i].filesz - ld.toread) + Cplen
                  /\ i # ld.seg => g[i] <= Have(image, ld)[i]
  PROVE  Placed(image, Copied, g)
  <1> DEFINE p == image.phdr
             h == Have(image, ld)
             s == ld.seg
  <1>1. Cplen \in Nat /\ Cplen <= ld.toread /\ (s = NoSeg => Cplen = 0)
    BY TurnFacts
  <1>2. \A i \in Loads(image) : h[i] \in Nat /\ h[i] <= p[i].filesz
    BY HaveFacts DEF InBlock
  <1>3. CASE s = NoSeg
    <2>1. ld.curaddr = 0
      BY <1>3 DEF InBlock, InSegment, Loads, NoSeg
    <2>2. \A x : x \notin ld.curaddr .. ld.curaddr + Cplen - 1
      BY <1>1, <1>3, <2>1
    <2>3. DOMAIN mem = Memory
      BY DEF Placed
    <2>4. Copied = [x \in Memory |-> mem[x]]
      BY <2>2, <2>3 DEF Copied
    <2>5. \A i \in Loads(image) : g[i] \in Nat /\ g[i] <= h[i]
      BY <1>3, ImageFacts
    <2>6. ASSUME NEW i \in Loads(image), NEW x \in p[i].paddr .. p[i].paddr + g[i] - 1
          PROVE  FALSE
      <3>1. h[i] = 0
        BY <1>3 DEF Have
      <3>2. g[i] = 0
        BY <2>5, <3>1
      <3>3. p[i].paddr \in Nat
        BY ImageFacts
      <3> QED
        BY <2>6, <3>2, <3>3
    <2>7. ASSUME NEW i \in Loads(image), NEW x \in p[i].paddr + p[i].filesz .. p[i].paddr + p[i].memsz - 1
          PROVE  Copied[x] = Zero
      <3>1. /\ p[i].paddr \in Nat /\ p[i].memsz \in Nat /\ p[i].filesz \in Nat
            /\ p[i].paddr + p[i].memsz <= Top /\ Top \in Nat
        BY ImageFacts, FitsFacts, ElfAssumption
      <3>2. x \in 0 .. Top - 1
        BY <3>1
      <3>3. mem[x] = Zero
        BY DEF Placed
      <3> QED
        BY <2>4, <3>2, <3>3 DEF Memory
    <2>8. ASSUME NEW x \in Memory,
                 \A i \in Loads(image) : x \notin p[i].paddr .. p[i].paddr + p[i].memsz - 1
          PROVE  Copied[x] = Stale
      BY <2>4, <2>8 DEF Placed
    <2>9. DOMAIN Copied = Memory
      BY <2>4
    <2> QED
      BY <2>6, <2>7, <2>8, <2>9 DEF Placed
  <1>4. CASE InSegment(image, ld, ld.loc + ld.offset)
    <2>1. /\ s \in Loads(image) /\ ld.toread \in 1 .. p[s].filesz /\ ld.skip \in Nat
          /\ ld.curaddr = p[s].paddr + (p[s].filesz - ld.toread)
          /\ ld.loc + ld.offset + ld.skip = p[s].off + (p[s].filesz - ld.toread)
      BY <1>4 DEF InSegment
    <2>2. p[s].filesz \in Nat /\ p[s].off \in Nat /\ s # NoSeg
      BY <2>1, ImageFacts
    <2>3. h[s] = p[s].filesz - ld.toread
      BY <2>1, <2>2 DEF Have
    <2>4. h[s] \in Nat /\ h[s] + Cplen <= p[s].filesz
      BY <1>1, <2>1, <2>2, <2>3
    <2>5. ld.data = ld.loc /\ ld.loc \in Nat /\ ld.offset \in Nat
      BY DEF InBlock
    <2> DEFINE d == ld.data + Offset
    <2>6. d = p[s].off + h[s]
      BY <2>1, <2>2, <2>3, <2>5 DEF Offset
    <2>7. ld.curaddr = p[s].paddr + h[s]
      BY <2>1, <2>3
    <2>8. Copied = [x \in DOMAIN mem |->
                      IF x \in ld.curaddr .. ld.curaddr + Cplen - 1
                        THEN d + (x - ld.curaddr) ELSE mem[x]]
      BY DEF Copied
    <2>9. \A i \in Loads(image) : /\ g[i] \in Nat /\ g[i] <= p[i].filesz
                                  /\ i = s => g[i] <= h[s] + Cplen
                                  /\ i # s => h[i] \in Nat /\ g[i] <= h[i]
      BY <1>2, <2>3
    <2> HIDE DEF d, h, s
    <2>10. s \in Loads(image) /\ Cplen \in Nat /\ Placed(image, mem, h)
      BY <1>1, <2>1 DEF h
    <2> QED
      BY <2>4, <2>6, <2>7, <2>8, <2>9, <2>10, CopyPlaced
  <1> QED
    BY <1>3, <1>4 DEF InBlock

(* The segment is finished: those before it in the file were done before.  *)
LEMMA DoneFacts ==
  ASSUME image \in Images, NEW E, InBlock(image, ld, E), ~InSkip, Cplen = ld.toread,
         NEW i \in Loads(image), i # ld.seg, image.phdr[i].filesz # 0,
         image.phdr[i].off < ld.loc + (Offset + Cplen)
  PROVE  Have(image, ld)[i] = image.phdr[i].filesz
  <1> DEFINE p == image.phdr
             s == ld.seg
  <1>1. p[i].off \in Nat /\ p[i].filesz \in Nat
    BY ImageFacts
  <1>2. CASE s = NoSeg
    <2>1. ld.loc = 0 /\ Offset = 0 /\ Cplen = 0
      BY <1>2, TurnFacts DEF InBlock, InSegment, Loads, NoSeg
    <2> QED
      BY <1>1, <2>1
  <1>3. CASE InSegment(image, ld, ld.loc + ld.offset)
    <2>1. /\ s \in Loads(image) /\ p[s].filesz # 0
          /\ ld.toread \in 1 .. p[s].filesz /\ ld.skip \in Nat
          /\ ld.loc + ld.offset + ld.skip = p[s].off + (p[s].filesz - ld.toread)
      BY <1>3 DEF InSegment
    <2>2. p[s].filesz \in Nat /\ p[s].off \in Nat /\ s # NoSeg
      BY <2>1, ImageFacts
    <2>3. ld.loc \in Nat /\ ld.offset \in Nat
      BY DEF InBlock
    <2>4. ld.loc + (Offset + Cplen) = p[s].off + p[s].filesz
      BY <2>1, <2>2, <2>3 DEF Offset
    <2>5. p[i].off + p[i].filesz <= p[s].off \/ p[s].off + p[s].filesz <= p[i].off
      BY <2>1, FileApart
    <2>6. p[i].off < p[s].off
      BY <1>1, <2>2, <2>4, <2>5
    <2> QED
      BY <2>2, <2>6 DEF Have
  <1> QED
    BY <1>2, <1>3 DEF InBlock

(* The next one in the file: what was placed is what Have says again.      *)
LEMMA NextPlaced ==
  ASSUME image \in Images, Fits(image), NEW E, InBlock(image, ld, E), ~InSkip,
         Cplen = ld.toread, Placed(image, mem, Have(image, ld)),
         NEW pos, pos = ld.loc + (Offset + Cplen), NEW s \in NextSegments(image, pos),
         NEW e, e.seg = s, e.toread = image.phdr[s].filesz
  PROVE  Placed(image, Copied, Have(image, e))
  <1> DEFINE p == image.phdr
             g == Have(image, e)
  <1>1. s \in Loads(image) /\ s # NoSeg
    BY ImageFacts DEF NextSegments, Ahead
  <1>2. pos \in Nat
    BY TurnFacts DEF InBlock
  <1>3. ASSUME NEW i \in Loads(image)
        PROVE  /\ g[i] \in Nat /\ g[i] <= p[i].filesz
               /\ i = ld.seg => g[i] <= (p[i].filesz - ld.toread) + Cplen
               /\ i # ld.seg => g[i] <= Have(image, ld)[i]
    <2>1. p[i].filesz \in Nat /\ p[i].off \in Nat /\ p[s].filesz \in Nat /\ p[s].off \in Nat
      BY <1>1, ImageFacts
    <2>2. Have(image, ld)[i] \in Nat
      BY HaveFacts DEF InBlock
    <2>3. g[i] = IF i = s THEN 0 ELSE IF p[i].off < p[s].off THEN p[i].filesz ELSE 0
      BY <1>1, <2>1 DEF Have
    <2>4. i = ld.seg => (p[i].filesz - ld.toread) + Cplen = p[i].filesz
      BY <2>1, TurnFacts
    <2>5. ASSUME i # ld.seg, p[i].filesz # 0, p[i].off < p[s].off
          PROVE  Have(image, ld)[i] = p[i].filesz
      <3>1. i \notin Ahead(image, pos)
        <4> SUFFICES ASSUME i \in Ahead(image, pos) PROVE FALSE
          OBVIOUS
        <4>1. p[s].off <= p[i].off
          BY <2>1 DEF NextSegments
        <4> QED
          BY <2>1, <2>5, <4>1
      <3>2. p[i].off < pos
        BY <1>2, <2>1, <2>5, <3>1 DEF Ahead
      <3> QED
        BY <2>5, <3>2, DoneFacts
    <2> HIDE DEF g, p
    <2> QED
      BY <2>1, <2>2, <2>3, <2>4, <2>5
  <1> HIDE DEF g
  <1>4. Placed(image, Copied, g)
    BY <1>3, CopiedPlaced
  <1> QED
    BY <1>4 DEF g

(* None is left: every segment is in memory.                               *)
LEMMA LastPlaced ==
  ASSUME image \in Images, Fits(image), NEW E, InBlock(image, ld, E), ~InSkip,
         Cplen = ld.toread, Placed(image, mem, Have(image, ld)),
         Ahead(image, ld.loc + (Offset + Cplen)) = {},
         NEW g, \A i \in Loads(image) : g[i] = image.phdr[i].filesz
  PROVE  Placed(image, Copied, g)
  <1> DEFINE p == image.phdr
             pos == ld.loc + (Offset + Cplen)
  <1>1. pos \in Nat
    BY TurnFacts DEF InBlock
  <1>2. ASSUME NEW i \in Loads(image)
        PROVE  /\ g[i] \in Nat /\ g[i] <= p[i].filesz
               /\ i = ld.seg => g[i] <= (p[i].filesz - ld.toread) + Cplen
               /\ i # ld.seg => g[i] <= Have(image, ld)[i]
    <2>1. p[i].filesz \in Nat /\ p[i].off \in Nat
      BY ImageFacts
    <2>2. Have(image, ld)[i] \in Nat
      BY HaveFacts DEF InBlock
    <2>3. i = ld.seg => (p[i].filesz - ld.toread) + Cplen = p[i].filesz
      BY <2>1, TurnFacts
    <2>4. ASSUME i # ld.seg, p[i].filesz # 0
          PROVE  Have(image, ld)[i] = p[i].filesz
      <3>1. p[i].off < pos
        BY <1>1, <2>1, <2>4 DEF Ahead
      <3> QED
        BY <2>4, <3>1, DoneFacts
    <2> HIDE DEF p
    <2>5. g[i] = p[i].filesz
      BY DEF p
    <2> QED
      BY <2>1, <2>2, <2>3, <2>4, <2>5
  <1> QED
    BY <1>2, CopiedPlaced

(* xstart32() moves the ramdisk, which overwrites no segment.              *)
LEMMA StartedWhole ==
  ASSUME NEW img \in Images, Fits(img), NEW h, \A i \in Loads(img) : h[i] = img.phdr[i].filesz,
         NEW m, Placed(img, m, h), NEW n, n = xstart32(img, m)
  PROVE  Whole(img, n)
  <1> DEFINE p == img.phdr
             file(i) == p[i].paddr .. p[i].paddr + p[i].filesz - 1
             bss(i) == p[i].paddr + p[i].filesz .. p[i].paddr + p[i].memsz - 1
             rd == IF HasRamdisk(img)
                     THEN InitrdStart .. InitrdStart + p[S_RAMDISK].filesz - 1 ELSE {}
  <1>1. \A i \in Loads(img) :
          /\ p[i].off \in Nat /\ p[i].filesz \in Nat /\ p[i].memsz \in Nat /\ p[i].paddr \in Nat
          /\ p[i].filesz <= p[i].memsz /\ p[i].paddr + p[i].memsz <= Top
    BY ImageFacts, FitsFacts
  <1>2. InitrdStart \in Nat /\ Top \in Nat /\ DOMAIN m = Memory
    BY ElfAssumption DEF Placed
  <1>3. ASSUME HasRamdisk(img)
        PROVE  /\ S_RAMDISK \in Loads(img)
               /\ \A i \in Loads(img) : \/ InitrdStart + p[S_RAMDISK].filesz <= p[i].paddr
                                        \/ p[i].paddr + p[i].memsz <= InitrdStart
    BY <1>3, ImagesAssumption DEF ImageSound
  <1>4. \A x \in Memory : x \notin rd => n[x] = m[x]
    BY <1>2 DEF xstart32
  <1>5. \A x \in Memory : x \in rd => n[x] = m[p[S_RAMDISK].paddr + (x - InitrdStart)]
    BY <1>2 DEF xstart32
  <1>6. ASSUME NEW i \in Loads(img), NEW x \in Memory, x \in rd
        PROVE  x \notin file(i) /\ x \notin bss(i)
    <2>1. HasRamdisk(img) /\ x \in InitrdStart .. InitrdStart + p[S_RAMDISK].filesz - 1
      BY <1>6
    <2>2. p[S_RAMDISK].filesz \in Nat
      BY <1>1, <1>3, <2>1
    <2>3. \/ InitrdStart + p[S_RAMDISK].filesz <= p[i].paddr
          \/ p[i].paddr + p[i].memsz <= InitrdStart
      BY <1>3, <2>1
    <2> QED
      BY <1>1, <1>2, <2>1, <2>2, <2>3
  <1>7. ASSUME NEW i \in Loads(img), NEW x \in Memory, x \in file(i)
        PROVE  n[x] = p[i].off + (x - p[i].paddr)
    <2>1. n[x] = m[x]
      BY <1>4, <1>6, <1>7
    <2>2. x \in p[i].paddr .. p[i].paddr + h[i] - 1
      BY <1>7
    <2>3. m[x] = p[i].off + (x - p[i].paddr)
      BY <2>2 DEF Placed
    <2> QED
      BY <2>1, <2>3
  <1>8. ASSUME NEW i \in Loads(img), NEW x \in Memory, x \in bss(i)
        PROVE  n[x] = Zero
    <2>1. n[x] = m[x]
      BY <1>4, <1>6, <1>8
    <2>2. m[x] = Zero
      BY <1>8 DEF Placed
    <2> QED
      BY <2>1, <2>2
  <1>9. ASSUME NEW x \in Memory, x \in rd
        PROVE  n[x] = p[S_RAMDISK].off + (x - InitrdStart)
    <2> DEFINE s == S_RAMDISK
               y == p[s].paddr + (x - InitrdStart)
    <2>1. HasRamdisk(img) /\ x \in InitrdStart .. InitrdStart + p[s].filesz - 1
      BY <1>9
    <2>2. s \in Loads(img) /\ p[s].filesz \in Nat /\ p[s].paddr \in Nat /\ p[s].off \in Nat
      BY <1>1, <1>3, <2>1
    <2>3. y \in p[s].paddr .. p[s].paddr + h[s] - 1 /\ y - p[s].paddr = x - InitrdStart
      <3>1. h[s] = p[s].filesz
        BY <2>2
      <3> QED
        BY <1>2, <2>1, <2>2, <3>1
    <2>4. m[y] = p[s].off + (y - p[s].paddr)
      BY <2>2, <2>3 DEF Placed
    <2>5. n[x] = m[y]
      BY <1>5, <1>9
    <2> QED
      BY <2>3, <2>4, <2>5
  <1>10. ASSUME NEW x \in Memory, x \notin rd, \A i \in Loads(img) : x \notin file(i) \cup bss(i)
         PROVE  n[x] = Stale
    <2>1. ASSUME NEW i \in Loads(img), x \in p[i].paddr .. p[i].paddr + p[i].memsz - 1
          PROVE  FALSE
      <3>1. x \notin file(i) /\ x \notin bss(i)
        BY <1>10
      <3> QED
        BY <1>1, <2>1, <3>1
    <2>2. m[x] = Stale
      BY <2>1 DEF Placed
    <2> QED
      BY <1>4, <1>10, <2>2
  <1> HIDE DEF file, bss, rd
  <1>11. ASSUME NEW x \in Memory, x \notin rd \cup UNION {file(i) \cup bss(i) : i \in Loads(img)}
         PROVE  n[x] = Stale
    BY <1>10, <1>11
  <1>12. \A x \in Memory :
           /\ \A i \in Loads(img) :
                /\ x \in file(i) => n[x] = p[i].off + (x - p[i].paddr)
                /\ x \in bss(i) => n[x] = Zero
           /\ x \in rd => n[x] = p[S_RAMDISK].off + (x - InitrdStart)
           /\ x \notin rd \cup UNION {file(i) \cup bss(i) : i \in Loads(img)} => n[x] = Stale
    BY <1>7, <1>8, <1>9, <1>11
  <1> QED
    BY <1>12 DEF Whole, file, bss, rd

(* The loop is left at the end E of a block, within a segment.             *)
LEMMA AdvanceFacts ==
  ASSUME NEW img \in Images, NEW E \in Nat, NEW e, DOMAIN e = DOMAIN Fresh,
         e.loc \in Nat, e.len \in Nat, e.loc + e.len = E, InSegment(img, e, E),
         NEW f, f = Advance(e)
  PROVE  Between(img, f, E) /\ Have(img, f) = Have(img, e)
  <1> DEFINE k == e.skip \div Sector
             b == e.skip % Sector
  <1>1. /\ DOMAIN f = DOMAIN Fresh /\ f.seg = e.seg /\ f.loc = e.loc + e.len + k * Sector
        /\ f.skip = b /\ f.toread = e.toread /\ f.curaddr = e.curaddr
        /\ f.skip_sectors = k /\ f.skip_bytes = 0 /\ f.offset = 0
    BY DEF Advance, Fresh
  <1>2. e.skip \in Nat
    BY DEF InSegment
  <1>3. e.skip = k * Sector + b /\ k \in Nat /\ b \in 0 .. Sector - 1
    BY <1>2, SectorFacts
  <1>4. Sector \in Nat /\ Sector > 0
    BY ElfAssumption
  <1> HIDE DEF k, b
  <1>5. k * Sector \in Nat
    BY <1>3, <1>4, NatProduct
  <1>6. f.loc + f.skip = E + e.skip
    BY <1>1, <1>3, <1>4, <1>5
  <1>7. InSegment(img, f, f.loc)
    <2>1. f.skip \in Nat
      BY <1>1, <1>3, <1>4
    <2> QED
      BY <1>1, <1>6, <2>1 DEF InSegment
  <1>8. f.loc = E + (f.skip_sectors * Sector + f.skip_bytes)
    BY <1>1, <1>3, <1>4, <1>5
  <1>9. 0 \in 0 .. Sector - 1
    BY <1>4
  <1>10. Between(img, f, E)
    BY <1>1, <1>3, <1>7, <1>8, <1>9 DEF Between
  <1>11. Have(img, f) = Have(img, e)
    BY <1>1 DEF Have
  <1> QED
    BY <1>10, <1>11

(* A block that ends in a segment is not the last of the file.             *)
LEMMA NotTheEnd ==
  ASSUME FilesFit, image \in Images, tf.size \in Nat, tf.n \in Nat, tf.n > 0, tf.len \in Nat,
         BlockOK("kernel", (tf.n - 1) * tf.size, tf.len, tf.size),
         NEW e, InSegment(image, e, AtEnd(tf.n))
  PROVE  ~Eof /\ AtEnd(tf.n) = tf.n * tf.size
  <1> DEFINE p == image.phdr
             s == e.seg
             pos == (tf.n - 1) * tf.size
  <1>1. pos \in 0 .. image.size
        /\ tf.len = IF image.size - pos < tf.size THEN image.size - pos ELSE tf.size
    BY DEF BlockOK, FileSize
  <1>2. s \in Loads(image) /\ e.toread \in 1 .. p[s].filesz /\ e.skip \in Nat
        /\ pos + tf.len + e.skip = p[s].off + (p[s].filesz - e.toread)
    BY DEF InSegment, AtEnd
  <1>3. /\ p[s].off \in Nat /\ p[s].filesz \in Nat /\ p[s].off + p[s].filesz <= image.size
        /\ image.size \in Nat
    BY <1>2, ImageFacts
  <1>4. tf.n * tf.size = pos + tf.size
    BY OneBlockMore
  <1> HIDE DEF pos
  <1>5. ~Eof
    <2> SUFFICES ASSUME tf.len < tf.size PROVE FALSE
      BY DEF Eof
    <2>1. tf.len = image.size - pos
      BY <1>1
    <2> QED
      BY <1>1, <1>2, <1>3, <2>1
  <1>6. tf.len = tf.size
    BY <1>1, <1>3, <1>5 DEF Eof
  <1> QED
    BY <1>4, <1>5, <1>6 DEF AtEnd, pos

(* A block that ends within a segment is not the last: the loader waits.   *)
LEMMA LeaveKeeps ==
  ASSUME FilesFit, image \in Images, tf.size \in Nat, tf.n \in Nat, tf.n > 0, tf.len \in Nat,
         BlockOK("kernel", (tf.n - 1) * tf.size, tf.len, tf.size),
         NEW e, DOMAIN e = DOMAIN Fresh, e.loc \in Nat, e.len \in Nat,
         e.loc + e.len = AtEnd(tf.n), InSegment(image, e, AtEnd(tf.n)),
         NEW m, Placed(image, m, Have(image, e)), Leave(e, m)
  PROVE  /\ pc' = "tftp" /\ mem' = m /\ nic' = nic
         /\ Between(image, ld', tf.n * tf.size) /\ Placed(image, mem', Have(image, ld'))
  <1>1. ~Eof /\ AtEnd(tf.n) = tf.n * tf.size
    BY NotTheEnd
  <1>2. pc' = "tftp" /\ mem' = m /\ nic' = nic /\ ld' = Advance(e)
    BY <1>1 DEF Leave
  <1>3. AtEnd(tf.n) \in Nat
    <2>1. e.loc + e.len \in Nat
      OBVIOUS
    <2> QED
      BY <2>1
  <1>4. Between(image, ld', AtEnd(tf.n)) /\ Have(image, ld') = Have(image, e)
    BY <1>2, <1>3, AdvanceFacts
  <1> QED
    BY <1>1, <1>2, <1>4

(* One turn of the loop of elf32_download().                               *)
LEMMA TurnKeeps ==
  ASSUME FilesFit, OrderInv, RightFile, LengthInv, LoadInv, elf32_download
  PROVE  LoadInv'
  <1>1. /\ pc = "download" /\ (SkipOn \/ CopyPart \/ SegmentDone)
        /\ tf' = tf /\ image' = image
    BY DEF elf32_download
  <1>2. tf.file = "kernel" /\ image \in Images
    BY <1>1 DEF RightFile
  <1>3. tf.n > 0 /\ BlockOK("kernel", (tf.n - 1) * tf.size, tf.len, tf.size)
    BY <1>1 DEF LengthInv
  <1>4. tf.size \in Nat /\ tf.n \in Nat
    BY FitFacts DEF OrderInv, TransferTypes
  <1>5. tf.len \in Nat
    <2>1. image.size \in Nat
      BY <1>2, ImageFacts
    <2>2. tf.n - 1 \in Nat
      BY <1>3, <1>4
    <2>3. (tf.n - 1) * tf.size \in Nat
      BY <1>4, <2>2, NatProduct
    <2> QED
      BY <1>3, <1>4, <2>1, <2>3 DEF BlockOK, FileSize
  <1> DEFINE E == AtEnd(tf.n)
  <1>6. InBlock(image, ld, E) /\ Fits(image) /\ Placed(image, mem, Have(image, ld))
    BY <1>1 DEF LoadInv
  <1>7. /\ DOMAIN ld = DOMAIN Fresh
        /\ ld.loc \in Nat /\ ld.data = ld.loc /\ ld.len \in Nat /\ ld.loc + ld.len = E
        /\ ld.offset \in Nat /\ ld.offset < ld.len
    BY <1>6 DEF InBlock
  <1>8. ASSUME pc' = "tftp", Between(image, ld', tf.n * tf.size),
               Placed(image, mem', Have(image, ld'))
        PROVE  LoadInv'
    BY <1>1, <1>2, <1>3, <1>4, <1>6, <1>8 DEF LoadInv, KernelWhole
  <1>9. CASE SkipOn
    <2> DEFINE e == [ld EXCEPT !.skip = @ - (ld.len - ld.offset)]
    <2>1. InSkip /\ Leave(e, mem)
      BY <1>9 DEF SkipOn
    <2>2. ld.seg # NoSeg /\ ld.skip >= ld.len - ld.offset
      BY <2>1 DEF InSkip
    <2>3. InSegment(image, ld, ld.loc + ld.offset)
      BY <1>6, <2>2 DEF InBlock
    <2>4. /\ DOMAIN e = DOMAIN Fresh /\ e.seg = ld.seg /\ e.toread = ld.toread
          /\ e.curaddr = ld.curaddr /\ e.loc = ld.loc /\ e.len = ld.len
          /\ e.skip = ld.skip - (ld.len - ld.offset)
      BY <1>7 DEF Fresh
    <2> HIDE DEF e
    <2>5. e.skip \in Nat /\ E + e.skip = ld.loc + ld.offset + ld.skip
      <3>1. ld.skip \in Nat
        BY <2>3 DEF InSegment
      <3> QED
        BY <1>7, <2>2, <2>4, <3>1
    <2>6. InSegment(image, e, E)
      BY <2>3, <2>4, <2>5 DEF InSegment
    <2>7. Have(image, e) = Have(image, ld)
      BY <2>4 DEF Have
    <2>8. pc' = "tftp" /\ Between(image, ld', tf.n * tf.size)
          /\ Placed(image, mem', Have(image, ld'))
      BY <1>2, <1>3, <1>4, <1>5, <1>6, <1>7, <2>1, <2>4, <2>6, <2>7, LeaveKeeps
    <2> QED
      BY <1>8, <2>8
  <1>10. CASE CopyPart
    <2> DEFINE e == [ld EXCEPT !.skip = 0, !.curaddr = @ + Cplen, !.toread = @ - Cplen]
    <2>1. ~InSkip /\ Cplen < ld.toread /\ Leave(e, Copied)
      BY <1>10 DEF CopyPart
    <2>2. /\ Offset \in Nat /\ Cplen \in Nat /\ Offset + Cplen = ld.len
      BY <1>2, <1>6, <2>1, TurnFacts
    <2>3. InSegment(image, ld, ld.loc + ld.offset)
      <3>1. ~(ld.toread = 0)
        BY <2>1, <2>2
      <3> QED
        BY <1>6, <3>1 DEF InBlock
    <2>4. /\ DOMAIN e = DOMAIN Fresh /\ e.seg = ld.seg /\ e.toread = ld.toread - Cplen
          /\ e.curaddr = ld.curaddr + Cplen /\ e.loc = ld.loc /\ e.len = ld.len /\ e.skip = 0
      BY <1>7 DEF Fresh
    <2> HIDE DEF e
    <2> DEFINE p == image.phdr
               s == ld.seg
    <2>5. /\ s \in Loads(image) /\ p[s].filesz # 0
          /\ ld.toread \in 1 .. p[s].filesz /\ ld.skip \in Nat
          /\ ld.curaddr = p[s].paddr + (p[s].filesz - ld.toread)
          /\ ld.loc + ld.offset + ld.skip = p[s].off + (p[s].filesz - ld.toread)
      BY <2>3 DEF InSegment
    <2>6. p[s].filesz \in Nat /\ p[s].off \in Nat /\ p[s].paddr \in Nat /\ s # NoSeg
      BY <1>2, <2>5, ImageFacts
    <2>7. InSegment(image, e, E)
      <3>1. e.toread \in 1 .. p[s].filesz
        BY <2>1, <2>2, <2>4, <2>5, <2>6
      <3>2. e.curaddr = p[s].paddr + (p[s].filesz - e.toread)
        BY <2>2, <2>4, <2>5, <2>6
      <3>3. E + e.skip = p[s].off + (p[s].filesz - e.toread)
        BY <1>7, <2>2, <2>4, <2>5, <2>6 DEF Offset
      <3> QED
        BY <2>4, <2>5, <3>1, <3>2, <3>3 DEF InSegment
    <2>8. Placed(image, Copied, Have(image, e))
      <3>1. ASSUME NEW i \in Loads(image)
            PROVE  /\ Have(image, e)[i] \in Nat /\ Have(image, e)[i] <= p[i].filesz
                   /\ i = s => Have(image, e)[i] <= (p[i].filesz - ld.toread) + Cplen
                   /\ i # s => Have(image, e)[i] <= Have(image, ld)[i]
        <4>1. Have(image, e)[i] \in Nat /\ Have(image, e)[i] <= p[i].filesz
          BY <1>2, <2>7, HaveFacts
        <4>2. CASE i = s
          <5>1. Have(image, e)[i] = p[i].filesz - (ld.toread - Cplen)
            BY <2>4, <2>6, <4>2 DEF Have
          <5> QED
            BY <2>2, <2>5, <2>6, <4>1, <4>2, <5>1
        <4>3. CASE i # s
          <5>1. Have(image, e)[i] = Have(image, ld)[i]
            BY <2>4, <4>3 DEF Have
          <5> QED
            BY <4>1, <4>3, <5>1
        <4> QED
          BY <4>2, <4>3, <4>1
      <3> DEFINE g == Have(image, e)
      <3> HIDE DEF g
      <3>2. Placed(image, Copied, g)
        BY <1>2, <1>6, <2>1, <3>1, CopiedPlaced DEF g
      <3> QED
        BY <3>2 DEF g
    <2>9. pc' = "tftp" /\ Between(image, ld', tf.n * tf.size)
          /\ Placed(image, mem', Have(image, ld'))
      BY <1>2, <1>3, <1>4, <1>5, <1>7, <2>1, <2>4, <2>7, <2>8, LeaveKeeps
    <2> QED
      BY <1>8, <2>9
  <1>11. CASE SegmentDone
    <2> DEFINE offset == Offset + Cplen
               pos == ld.loc + offset
    <2>1. ~InSkip /\ Cplen = ld.toread
      BY <1>11 DEF SegmentDone
    <2>2. offset \in Nat /\ offset <= ld.len
      BY <1>2, <1>6, <2>1, TurnFacts
    <2>3. CASE Ahead(image, pos) = {} /\ Start(Copied)
      <3> DEFINE g == [i \in Loads(image) |-> image.phdr[i].filesz]
      <3>1. \A i \in Loads(image) : g[i] = image.phdr[i].filesz
        OBVIOUS
      <3> HIDE DEF g
      <3>2. Placed(image, Copied, g)
        BY <1>2, <1>6, <2>1, <2>3, <3>1, LastPlaced
      <3>3. pc' = "started" /\ mem' = xstart32(image, Copied)
        BY <2>3 DEF Start
      <3>4. Whole(image, mem')
        BY <1>2, <1>6, <3>1, <3>2, <3>3, StartedWhole
      <3> QED
        BY <1>1, <1>2, <3>3, <3>4 DEF LoadInv, KernelWhole
    <2>4. ASSUME NEW s \in NextSegments(image, pos), NEW e,
                 e = [ld EXCEPT !.seg = s, !.curaddr = image.phdr[s].paddr,
                                !.skip = image.phdr[s].off - pos,
                                !.toread = image.phdr[s].filesz, !.offset = offset]
          PROVE  /\ DOMAIN e = DOMAIN Fresh /\ e.loc = ld.loc /\ e.len = ld.len
                 /\ e.data = ld.data /\ e.offset = offset
                 /\ InSegment(image, e, pos) /\ Placed(image, Copied, Have(image, e))
      <3> DEFINE p == image.phdr
      <3>1. s \in Loads(image) /\ p[s].filesz # 0 /\ p[s].off >= pos
        BY DEF NextSegments, Ahead
      <3>2. p[s].filesz \in Nat /\ p[s].off \in Nat /\ p[s].paddr \in Nat
        BY <1>2, <3>1, ImageFacts
      <3>3. /\ DOMAIN e = DOMAIN Fresh /\ e.seg = s /\ e.toread = p[s].filesz
            /\ e.curaddr = p[s].paddr /\ e.loc = ld.loc /\ e.len = ld.len
            /\ e.skip = p[s].off - pos /\ e.data = ld.data /\ e.offset = offset
        BY <1>7, <2>4 DEF Fresh
      <3>4. pos \in Nat
        BY <1>7, <2>2
      <3>5. InSegment(image, e, pos)
        <4> HIDE DEF pos, p
        <4>1. e.skip \in Nat /\ pos + e.skip = p[s].off + (p[s].filesz - e.toread)
          BY <3>1, <3>2, <3>3, <3>4
        <4>2. e.toread \in 1 .. p[s].filesz /\ e.curaddr = p[s].paddr + (p[s].filesz - e.toread)
          BY <3>1, <3>2, <3>3
        <4> QED
          BY <3>1, <3>3, <4>1, <4>2 DEF InSegment, p
      <3>6. Placed(image, Copied, Have(image, e))
        BY <1>2, <1>6, <2>1, <3>3, NextPlaced
      <3> QED
        BY <3>3, <3>5, <3>6
    <2>5. ASSUME NEW s \in NextSegments(image, pos), NEW e,
                 e = [ld EXCEPT !.seg = s, !.curaddr = image.phdr[s].paddr,
                                !.skip = image.phdr[s].off - pos,
                                !.toread = image.phdr[s].filesz, !.offset = offset],
                 offset < ld.len, ld' = e, mem' = Copied, pc' = pc
          PROVE  LoadInv'
      <3>1. /\ DOMAIN e = DOMAIN Fresh /\ e.loc = ld.loc /\ e.len = ld.len
            /\ e.data = ld.data /\ e.offset = offset
            /\ InSegment(image, e, ld.loc + offset) /\ Placed(image, Copied, Have(image, e))
        BY <2>4, <2>5
      <3> HIDE DEF offset
      <3>2. InBlock(image, e, E)
        BY <1>7, <2>2, <2>5, <3>1 DEF InBlock
      <3> QED
        BY <1>1, <1>2, <1>6, <2>5, <3>1, <3>2 DEF LoadInv, KernelWhole, AtEnd
    <2>6. ASSUME NEW s \in NextSegments(image, pos), NEW e,
                 e = [ld EXCEPT !.seg = s, !.curaddr = image.phdr[s].paddr,
                                !.skip = image.phdr[s].off - pos,
                                !.toread = image.phdr[s].filesz, !.offset = offset],
                 ~(offset < ld.len), Leave(e, Copied)
          PROVE  LoadInv'
      <3>1. /\ DOMAIN e = DOMAIN Fresh /\ e.loc = ld.loc /\ e.len = ld.len
            /\ InSegment(image, e, ld.loc + offset) /\ Placed(image, Copied, Have(image, e))
        BY <2>4, <2>6
      <3>2. offset = ld.len
        BY <1>7, <2>2, <2>6
      <3>3. InSegment(image, e, E)
        BY <1>7, <3>1, <3>2
      <3>4. pc' = "tftp" /\ Between(image, ld', tf.n * tf.size)
            /\ Placed(image, mem', Have(image, ld'))
        BY <1>2, <1>3, <1>4, <1>5, <1>7, <2>6, <3>1, <3>3, LeaveKeeps
      <3> QED
        BY <1>8, <3>4
    <2>7. \/ Ahead(image, pos) = {} /\ Start(Copied)
          \/ \E s \in NextSegments(image, pos) : \E e :
               /\ e = [ld EXCEPT !.seg = s, !.curaddr = image.phdr[s].paddr,
                                 !.skip = image.phdr[s].off - pos,
                                 !.toread = image.phdr[s].filesz, !.offset = offset]
               /\ \/ offset < ld.len /\ ld' = e /\ mem' = Copied /\ pc' = pc
                  \/ ~(offset < ld.len) /\ Leave(e, Copied)
      BY <1>11 DEF SegmentDone
    <2> HIDE DEF offset, pos
    <2> QED
      BY <2>3, <2>5, <2>6, <2>7
  <1> QED
    BY <1>1, <1>9, <1>10, <1>11

(* load_block() takes the next block of the kernel.                        *)
LEMMA DataLoads ==
  ASSUME FilesFit, OrderInv, RightFile, LengthInv, LoadInv, Data
  PROVE  LengthInv' /\ LoadInv'
  <1>1. /\ pc = "data" /\ sess' = sess /\ image' = image /\ nic' = nic
        /\ pc' \in {"tftp", "tftp_end", "download"}
    BY DEF Data, KernelBlock
  <1>2. /\ tf.size \in Nat /\ tf.size > 0 /\ tf.n \in Nat /\ tf.file \in Files
        /\ tf.prev = tf.n /\ DOMAIN tf = DOMAIN NoTransfer
    BY FitFacts DEF OrderInv, TransferTypes
  <1>3. ASSUME pc' = "download" => /\ tf'.n > 0
                                   /\ BlockOK("kernel", (tf'.n - 1) * tf'.size, tf'.len, tf'.size)
        PROVE  LengthInv'
    <2>1. (\A i \in DOMAIN sess : sess[i].n > 0 =>
             (sess[i].n - 1) * sess[i].size <= FileSize(sess[i].file))'
      BY <1>1 DEF LengthInv, FileSize
    <2>2. (\A i \in Slots : LET f == nic.ring[i]
                            IN  f.t = "data" => BlockOK(f.file, f.pos, f.len, sess[f.sport].size))'
      BY <1>1 DEF LengthInv, BlockOK, FileSize
    <2>3. pc' = "download" => BlockOK("kernel", (tf.n - 1) * tf.size, tf.len, tf.size)'
      BY <1>1, <1>3 DEF BlockOK, FileSize
    <2> QED
      BY <1>1, <1>3, <2>1, <2>2, <2>3 DEF LengthInv
  <1>4. CASE ~NewBlock
    <2>1. UNCHANGED <<tf, ld, mem>> /\ pc' = "tftp"
      BY <1>4 DEF Data
    <2> QED
      BY <1>1, <1>3, <2>1 DEF LoadInv, KernelWhole
  <1>5. CASE NewBlock
    <2>1. NextIsBlock
      BY <1>1, <1>5, NewIsNext
    <2>2. /\ packet.pos = tf.n * tf.size /\ tf.block = tf.n + 1 /\ tf.block # tf.prev
      BY <1>2, <2>1 DEF NextIsBlock
    <2>3. BlockOK(tf.file, tf.n * tf.size, tf.len, tf.size)
      BY <1>1, <2>2 DEF LengthInv
    <2>4. tf' = [tf EXCEPT !.prev = tf.block, !.retry = 0, !.n = @ + 1]
      BY <1>5 DEF Data
    <2>5. tf'.file = tf.file /\ tf'.size = tf.size /\ tf'.len = tf.len /\ tf'.n = tf.n + 1
      BY <1>2, <2>4 DEF NoTransfer
    <2>6. tf'.n > 0 /\ tf'.n - 1 = tf.n
      BY <1>2, <2>5
    <2>7. CASE tf.file # "kernel"
      <3>1. ld' = ld /\ mem' = mem /\ pc' \in {"tftp_end", "tftp"}
        BY <1>5, <2>7 DEF Data
      <3>2. mem = [x \in Memory |-> Stale]
        BY <2>7 DEF LoadInv
      <3> QED
        BY <1>3, <2>5, <2>7, <3>1, <3>2 DEF LoadInv, KernelWhole
    <2>8. CASE tf.file = "kernel"
      <3>1. KernelBlock
        BY <1>5, <2>8 DEF Data
      <3>2. image \in Images /\ image.size \in Nat
        BY <2>8, ImageFacts DEF RightFile
      <3> DEFINE at == tf.n * tf.size
      <3>3. at \in 0 .. image.size
            /\ tf.len = IF image.size - at < tf.size THEN image.size - at ELSE tf.size
        BY <2>3, <2>8 DEF BlockOK, FileSize
      <3>4. tf.len \in Nat /\ at \in Nat
        BY <1>2, <3>2, <3>3
      <3>5. LengthInv'
        BY <1>3, <2>3, <2>5, <2>6, <2>8
      <3>6. ASSUME pc' \in {"tftp", "download"},
                   Fits(image), Placed(image, mem', Have(image, ld')),
                   pc' = "tftp" => Between(image, ld', (tf.n + 1) * tf.size),
                   pc' = "download" => InBlock(image, ld', at + tf.len)
            PROVE  LoadInv'
        <4>1. AtEnd(tf.n)' = at + tf.len
          BY <2>5, <2>6 DEF AtEnd
        <4> QED
          BY <1>1, <2>5, <2>6, <2>8, <3>6, <4>1 DEF LoadInv, KernelWhole
      <3>7. ASSUME pc' = "tftp_end"
            PROVE  LoadInv'
        BY <2>5, <2>8, <3>7 DEF LoadInv, KernelWhole
      <3>8. Fresh.skip_sectors = 0 /\ Fresh.skip_bytes = 0 /\ 0 \in Nat /\ 0 \in 0 .. Sector - 1
            /\ Fresh.skip_sectors * Sector + Fresh.skip_bytes = 0
        <4>1. Sector \in Nat /\ Sector > 0
          BY ElfAssumption
        <4>2. Fresh.skip_sectors = 0 /\ Fresh.skip_bytes = 0
          BY DEF Fresh
        <4> QED
          BY <4>1, <4>2
      <3> HIDE DEF at
      <3>9. CASE tf.n = 0
        <4>1. mem = [x \in Memory |-> Stale]
          BY <1>1, <2>8, <3>9 DEF LoadInv
        <4>2. at = 0
          BY <1>2, <3>9 DEF at
        <4>3. CASE ~elf32_probe(image, tf.len)
          BY <3>1, <3>5, <3>7, <3>9, <4>3 DEF KernelBlock
        <4>4. CASE elf32_probe(image, tf.len) /\ SkipsWhole(Fresh, tf.len)
          <5>1. tf.len = 0
            BY <3>4, <3>8, <4>4, SkipsWholeFacts
          <5>2. Eof
            BY <1>2, <5>1 DEF Eof
          <5>3. pc' = "tftp_end"
            BY <3>1, <3>9, <4>4, <5>2 DEF KernelBlock
          <5> QED
            BY <3>5, <3>7, <5>3
        <4>5. CASE elf32_probe(image, tf.len) /\ ~SkipsWhole(Fresh, tf.len)
          <5> DEFINE skip == Fresh.skip_sectors * Sector + Fresh.skip_bytes
          <5>1. /\ mem' = Cleared(image, tf.len, mem) /\ pc' = "download"
                /\ ld' = [Fresh EXCEPT !.data = packet.pos + skip, !.len = tf.len - skip]
            BY <3>1, <3>9, <4>5 DEF KernelBlock
          <5>2. tf.len > 0
            BY <3>4, <3>8, <4>5, SkipsWholeFacts
          <5>3. packet.pos + skip = 0 /\ tf.len - skip = tf.len
            BY <2>2, <3>4, <3>8, <4>2 DEF at
          <5>4. /\ DOMAIN ld' = DOMAIN Fresh /\ ld'.seg = NoSeg /\ ld'.loc = 0 /\ ld'.data = 0
                /\ ld'.len = tf.len /\ ld'.offset = 0 /\ ld'.skip = 0 /\ ld'.toread = 0
                /\ ld'.curaddr = 0
            BY <5>1, <5>3 DEF Fresh
          <5>5. InBlock(image, ld', at + tf.len)
            <6>1. /\ ld'.loc \in Nat /\ ld'.len \in Nat /\ ld'.loc + ld'.len = at + tf.len
                  /\ ld'.offset \in 0 .. ld'.len - 1
              BY <3>4, <4>2, <5>2, <5>4
            <6> QED
              BY <5>4, <6>1 DEF InBlock
          <5>6. Fits(image) /\ HeadersIn(image, tf.len)
            BY <4>5 DEF elf32_probe, Fits
          <5> DEFINE h == Have(image, ld')
          <5>7. \A i \in Loads(image) : h[i] = 0
            BY <5>4 DEF Have
          <5> HIDE DEF h
          <5>8. Placed(image, mem', h)
            BY <3>2, <3>4, <4>1, <5>1, <5>6, <5>7, ClearedPlaced
          <5> QED
            BY <3>5, <3>6, <5>1, <5>5, <5>6, <5>8 DEF h
        <4> QED
          BY <4>3, <4>4, <4>5
      <3>10. CASE tf.n > 0
        <4>1. Between(image, ld, at) /\ Fits(image) /\ Placed(image, mem, Have(image, ld))
          BY <1>1, <2>8, <3>10 DEF LoadInv, at
        <4> DEFINE skip == ld.skip_sectors * Sector + ld.skip_bytes
        <4>2. /\ DOMAIN ld = DOMAIN Fresh /\ InSegment(image, ld, ld.loc) /\ ld.offset = 0
              /\ ld.skip_sectors \in Nat /\ ld.skip_bytes \in 0 .. Sector - 1
              /\ ld.loc = at + skip
          BY <4>1 DEF Between
        <4>3. skip \in Nat
          <5>1. Sector \in Nat /\ ld.skip_bytes \in Nat
            BY <4>2, ElfAssumption
          <5>2. ld.skip_sectors * Sector \in Nat
            BY <4>2, <5>1, NatProduct
          <5> QED
            BY <5>1, <5>2
        <4>4. SkipsWhole(ld, tf.len) <=> skip >= tf.len
          BY <3>4, <4>2, SkipsWholeFacts
        <4>5. mem' = mem /\ ~(tf.n = 0)
          BY <1>2, <3>1, <3>10 DEF KernelBlock
        <4>6. CASE SkipsWhole(ld, tf.len)
          <5>1. ld' = Borrow(ld, tf.len) /\ pc' = IF Eof THEN "tftp_end" ELSE "tftp"
            BY <3>1, <4>5, <4>6 DEF KernelBlock
          <5>2. CASE ~Eof
            <6>1. tf.len = tf.size
              BY <1>2, <3>2, <3>3, <3>4, <5>2 DEF Eof
            <6>2. /\ DOMAIN ld' = DOMAIN Fresh /\ ld'.seg = ld.seg /\ ld'.loc = ld.loc
                  /\ ld'.skip = ld.skip /\ ld'.toread = ld.toread /\ ld'.curaddr = ld.curaddr
                  /\ ld'.offset = ld.offset
                  /\ ld'.skip_sectors \in Nat /\ ld'.skip_bytes \in 0 .. Sector - 1
                  /\ ld'.skip_sectors * Sector + ld'.skip_bytes = skip - tf.len
              BY <3>4, <4>2, <4>6, <5>1, BorrowFacts
            <6> HIDE DEF skip
            <6>3. (tf.n + 1) * tf.size = at + tf.size
              BY <1>2, SMT DEF at
            <6>4. ld'.loc = (tf.n + 1) * tf.size + (ld'.skip_sectors * Sector + ld'.skip_bytes)
              BY <3>4, <4>2, <4>3, <6>1, <6>2, <6>3
            <6>5. InSegment(image, ld', ld'.loc)
              BY <4>2, <6>2 DEF InSegment
            <6>6. Between(image, ld', (tf.n + 1) * tf.size)
              BY <4>2, <6>2, <6>4, <6>5 DEF Between
            <6>7. Have(image, ld') = Have(image, ld)
              BY <6>2 DEF Have
            <6> QED
              BY <3>5, <3>6, <4>1, <4>5, <5>1, <5>2, <6>6, <6>7
          <5> QED
            BY <3>5, <3>7, <5>1, <5>2
        <4>7. CASE ~SkipsWhole(ld, tf.len)
          <5>1. /\ pc' = "download"
                /\ ld' = [ld EXCEPT !.data = packet.pos + skip, !.len = tf.len - skip]
            BY <3>1, <4>5, <4>7 DEF KernelBlock
          <5>2. packet.pos + skip = ld.loc
            BY <2>2, <4>2 DEF at
          <5> HIDE DEF skip
          <5>3. /\ DOMAIN ld' = DOMAIN Fresh /\ ld'.seg = ld.seg /\ ld'.loc = ld.loc
                /\ ld'.skip = ld.skip /\ ld'.toread = ld.toread /\ ld'.curaddr = ld.curaddr
                /\ ld'.offset = 0 /\ ld'.data = ld.loc /\ ld'.len = tf.len - skip
            BY <4>2, <5>1, <5>2 DEF Fresh
          <5>4. /\ ld'.loc \in Nat /\ ld'.len \in Nat /\ ld'.loc + ld'.len = at + tf.len
                /\ ld'.offset \in 0 .. ld'.len - 1 /\ ld'.loc + ld'.offset = ld.loc
            BY <3>4, <4>2, <4>3, <4>4, <4>7, <5>3
          <5>5. InSegment(image, ld', ld'.loc + ld'.offset)
            BY <4>2, <5>3, <5>4 DEF InSegment
          <5>6. InBlock(image, ld', at + tf.len)
            BY <5>3, <5>4, <5>5 DEF InBlock
          <5>7. Have(image, ld') = Have(image, ld)
            BY <5>3 DEF Have
          <5> QED
            BY <3>5, <3>6, <4>1, <4>5, <5>1, <5>6, <5>7
        <4> QED
          BY <4>6, <4>7
      <3> QED
        BY <1>2, <3>9, <3>10
    <2> QED
      BY <2>7, <2>8
  <1> QED
    BY <1>4, <1>5

-----------------------------------------------------------------------------
(* The steps that leave the loader alone.                                  *)
LEMMA SameLoader ==
  ASSUME LoadInv, image' = image, ld' = ld, mem' = mem, pc' # "download",
         pc' # "started" \/ pc = "started",
         tf'.file # "kernel" => tf.file # "kernel",
         tf'.file = "kernel" /\ pc' \in {"rrq", "arp", "tftp", "data"} /\ tf'.n = 0 =>
           tf.file # "kernel" \/ (pc \in {"rrq", "arp", "tftp", "data"} /\ tf.n = 0),
         tf'.file = "kernel" /\ pc' \in {"tftp", "data"} /\ tf'.n > 0 =>
           /\ tf.file = "kernel" /\ pc \in {"tftp", "data"}
           /\ tf'.n = tf.n /\ tf'.size = tf.size
  PROVE  LoadInv'
  <1>1. (tf'.file # "kernel" \/ (pc' \in {"rrq", "arp", "tftp", "data"} /\ tf'.n = 0)) =>
          mem' = [x \in Memory |-> Stale]
    BY DEF LoadInv
  <1>2. pc' \in {"tftp", "data"} /\ tf'.file = "kernel" /\ tf'.n > 0 =>
          /\ Between(image', ld', tf'.n * tf'.size)
          /\ Fits(image') /\ Placed(image', mem', Have(image', ld'))
    BY DEF LoadInv
  <1>3. KernelWhole'
    BY DEF LoadInv, KernelWhole
  <1> QED
    BY <1>1, <1>2, <1>3 DEF LoadInv

(* A step that makes no new frame and hands on no block.                   *)
LEMMA SameLengths ==
  ASSUME LengthInv, sess' = sess, image' = image,
         \A i \in Slots : nic'.ring[i] = Avail \/ nic'.ring[i] = nic.ring[i],
         pc' \notin {"data", "download"}
  PROVE  LengthInv'
  <1>1. (\A i \in DOMAIN sess : sess[i].n > 0 =>
           (sess[i].n - 1) * sess[i].size <= FileSize(sess[i].file))'
    BY DEF LengthInv, FileSize
  <1>2. (\A i \in Slots : LET f == nic.ring[i]
                          IN  f.t = "data" => BlockOK(f.file, f.pos, f.len, sess[f.sport].size))'
    <2>1. Avail.t # "data"
      BY DEF Avail
    <2>2. \A i \in Slots : nic'.ring[i].t = "data" => nic'.ring[i] = nic.ring[i]
      BY <2>1
    <2> QED
      BY <2>2 DEF LengthInv, BlockOK, FileSize
  <1> QED
    BY <1>1, <1>2 DEF LengthInv

(* The driver leaves the ring empty.                                       *)
LEMMA PollEmpties ==
  ASSUME BootpInv, Poll
  PROVE  \A i \in Slots : nic'.ring[i] = Avail
  BY DEF Poll, AfterPoll, AllAvail, BootpInv, TypeOK, NicOK

(* The steps before the kernel is asked for.                               *)
LEMMA BeforeLoads ==
  ASSUME BootpInv, OrderInv, RightFile, LengthInv, LoadInv,
         Probe \/ Drain \/ Discover \/ Request \/ BootpTimeout \/ AwaitBootp \/ Replied
  PROVE  RightFile' /\ LengthInv' /\ LoadInv'
  <1>1. /\ sess' = sess /\ image' = image /\ ld' = ld /\ mem' = mem
        /\ pc' \in {"failed", "discover", "rrq", "bootp", "restart", "request", "replied", "load"}
    BY DEF Probe, Drain, Discover, Request, BootpTimeout, AwaitBootp, Replied, net, client, load,
       decode_rfc1533
  <1>2. pc \in Looking \cup {"replied"} \/ (pc = "rrq" /\ pc' = "rrq" /\ tf' = tf)
    BY DEF Probe, Drain, Discover, Request, BootpTimeout, AwaitBootp, Replied, client, Looking
  <1>3. DOMAIN tf = DOMAIN NoTransfer
    BY DEF OrderInv, TransferTypes
  <1>4. tf' = tf \/ (tf' = [tf EXCEPT !.file = "ext"] /\ pc = "bootp")
    BY DEF Probe, Drain, Discover, Request, BootpTimeout, AwaitBootp, Replied, client,
       decode_rfc1533
  <1>5. tf.file = "kernel" => pc = "rrq" /\ pc' = "rrq" /\ tf' = tf
    BY <1>2 DEF RightFile, Looking
  <1>6. tf'.n = tf.n /\ (tf'.file = "kernel" <=> tf.file = "kernel")
    BY <1>3, <1>4, <1>5 DEF NoTransfer
  <1>7. \A i \in Slots : nic'.ring[i] = Avail \/ nic'.ring[i] = nic.ring[i]
    <2>1. CASE Poll
      BY <2>1, PollEmpties
    <2>2. CASE nic' = nic
      BY <2>2
    <2>3. CASE Probe
      BY <2>3 DEF Probe, forcedeth_reset, AllAvail
    <2> QED
      BY <2>1, <2>2, <2>3 DEF Drain, Discover, Request, BootpTimeout, AwaitBootp, Replied, net
  <1>8. \A m \in wire' : m \in wire \/ m.t # "rrq"
    <2>1. wire' = wire \/ Send(bp.ip)
      BY DEF Probe, Drain, Discover, Request, BootpTimeout, AwaitBootp, Replied, net
    <2>2. bp.ip.t \in {"discover", "request"}
      BY DEF BootpInv, TypeOK, BpOK
    <2> QED
      BY <2>1, <2>2 DEF Send
  <1>9. RightFile'
    BY <1>1, <1>5, <1>6, <1>8 DEF RightFile
  <1>10. LengthInv'
    BY <1>1, <1>7, SameLengths
  <1>11. LoadInv'
    BY <1>1, <1>5, <1>6, SameLoader
  <1> QED
    BY <1>9, <1>10, <1>11

(* The kernel is chosen; a transfer is over.                               *)
LEMMA AroundLoads ==
  ASSUME BootpInv, OrderInv, RightFile, LengthInv, LoadInv, LoadKernel \/ TftpEnd
  PROVE  RightFile' /\ LengthInv' /\ LoadInv'
  <1>1. DOMAIN tf = DOMAIN NoTransfer /\ tf.file \in Files /\ tf.n = Len(got)
    BY DEF OrderInv, TransferTypes
  <1>2. CASE LoadKernel
    <2>1. /\ pc = "load" /\ pc' = "rrq" /\ image' \in Images /\ sess' = sess /\ nic' = nic
          /\ wire' = wire /\ ld' = ld /\ mem' = mem /\ tf' = [tf EXCEPT !.file = "kernel"]
      BY <1>2 DEF LoadKernel, net
    <2>2. tf.file # "kernel"
      BY <2>1 DEF RightFile
    <2>3. tf'.file = "kernel" /\ tf'.n = tf.n
      BY <1>1, <2>1 DEF NoTransfer
    <2>4. \A i \in DOMAIN sess : sess[i].file = "ext"
      BY <2>2 DEF RightFile, OrderInv, SessionsOK, SessOK, Files
    <2>5. RightFile'
      BY <2>1, <2>3 DEF RightFile
    <2>6. (\A i \in DOMAIN sess : sess[i].n > 0 =>
             (sess[i].n - 1) * sess[i].size <= FileSize(sess[i].file))'
      BY <2>1, <2>4 DEF LengthInv, FileSize
    <2>7. \A i \in Slots : nic.ring[i].t = "data" => nic.ring[i].file = "ext"
      BY <2>4 DEF OrderInv, FrameIn
    <2>8. (\A i \in Slots : LET f == nic.ring[i]
                            IN  f.t = "data" => BlockOK(f.file, f.pos, f.len, sess[f.sport].size))'
      BY <2>1, <2>7 DEF LengthInv, BlockOK, FileSize
    <2>9. LengthInv'
      BY <2>1, <2>6, <2>8 DEF LengthInv
    <2>10. LoadInv'
      <3>1. mem = [x \in Memory |-> Stale]
        BY <2>2 DEF LoadInv
      <3> QED
        BY <2>1, <3>1 DEF LoadInv, KernelWhole
    <2> QED
      BY <2>5, <2>9, <2>10
  <1>3. CASE TftpEnd
    <2>1. /\ pc = "tftp_end" /\ pc' = (IF tf.file = "ext" THEN "replied" ELSE "restart")
          /\ sess' = sess /\ nic' = nic /\ wire' = wire /\ image' = image /\ ld' = ld /\ mem' = mem
          /\ tf' = [NoTransfer EXCEPT !.port = tf.port, !.file = tf.file]
      BY <1>3 DEF TftpEnd, net
    <2>2. tf'.file = tf.file
      BY <2>1 DEF NoTransfer
    <2>3. RightFile'
      BY <1>1, <2>1, <2>2 DEF RightFile, Files
    <2>4. LengthInv'
      BY <2>1, SameLengths
    <2>5. LoadInv'
      BY <2>1, <2>2, SameLoader
    <2> QED
      BY <2>3, <2>4, <2>5
  <1> QED
    BY <1>2, <1>3

(* A message that goes out asks for no other file than its transfer's.     *)
LEMMA SentIsNot ==
  ASSUME NEW m, NEW ok, NEW fail, Transmit(m, ok, fail), NEW F, m.t = "rrq" => m.file = F,
         DOMAIN m = {"t", "file", "cport", "from", "to"}
  PROVE  /\ \A x \in wire' : x \in wire \/ (x.t = "rrq" => x.file = F)
         /\ pc' \in {ok, "arp"}
  <1> DEFINE e == Entry(arp["server"].ip)
             x == [m EXCEPT !.to = arp[e].node]
             y == [t |-> "arp", ip |-> arp[e].ip]
  <1>1. Send(x) \/ Send(y)
    BY DEF Transmit
  <1>2. x.t = "rrq" => x.file = F
    OBVIOUS
  <1>3. y.t # "rrq"
    OBVIOUS
  <1>4. pc' \in {ok, "arp"}
    BY DEF Transmit
  <1> HIDE DEF x, y
  <1>5. \A z \in wire' : z \in wire \/ z = x \/ z = y
    BY <1>1 DEF Send
  <1> QED
    BY <1>2, <1>3, <1>4, <1>5

(* tftp() asks for the file, and asks again.                               *)
LEMMA AskLoads ==
  ASSUME BootpInv, OrderInv, RightFile, LengthInv, LoadInv, TftpStart \/ TftpTimeout
  PROVE  RightFile' /\ LengthInv' /\ LoadInv'
  <1>1. /\ sess' = sess /\ nic' = nic /\ image' = image /\ ld' = ld /\ mem' = mem /\ got' = got
        /\ pc \in {"rrq", "tftp"} /\ (pc = "rrq" <=> ~(pc = "tftp"))
    BY DEF TftpStart, TftpTimeout, load
  <1>2. DOMAIN tf = DOMAIN NoTransfer /\ tf.n = Len(got) /\ tf.prev = tf.n
    BY DEF OrderInv, TransferTypes
  <1>3. ASSUME pc' \in {"tftp", "arp", "tftp_end"}, tf'.file = tf.file,
               \A x \in wire' : x \in wire \/ (x.t = "rrq" => x.file = tf.file),
               pc' # "tftp_end" => tf'.n = tf.n,
               pc' # "tftp_end" /\ tf.n > 0 => tf'.size = tf.size /\ pc = "tftp"
        PROVE  RightFile' /\ LengthInv' /\ LoadInv'
    <2>1. RightFile'
      BY <1>1, <1>3 DEF RightFile
    <2>2. LengthInv'
      BY <1>1, <1>3, SameLengths
    <2>3. LoadInv'
      BY <1>1, <1>3, SameLoader
    <2> QED
      BY <2>1, <2>2, <2>3
  <1>4. CASE TftpStart
    <2> DEFINE m == rrq(NextPort(tf.port))
    <2>1. /\ pc = "rrq" /\ Transmit(m, "tftp", "tftp_end")
          /\ tf' = [NoTransfer EXCEPT !.port = NextPort(tf.port), !.file = tf.file]
      BY <1>4 DEF TftpStart
    <2>2. m.file = tf.file /\ DOMAIN m = {"t", "file", "cport", "from", "to"}
      BY DEF rrq
    <2> HIDE DEF m
    <2>3. /\ \A x \in wire' : x \in wire \/ (x.t = "rrq" => x.file = tf.file)
          /\ pc' \in {"tftp", "arp"}
      BY <2>1, <2>2, SentIsNot
    <2>4. tf'.file = tf.file /\ tf'.n = 0
      BY <2>1 DEF NoTransfer
    <2>5. tf.n = 0
      BY <1>2, <2>1, EmptyFacts DEF OrderInv, GotOK
    <2> QED
      BY <1>3, <2>3, <2>4, <2>5
  <1>5. CASE TftpTimeout /\ tf.block = 0 /\ tf.retry < MAX_TFTP_RETRIES
    <2> DEFINE m == [rrq(NextPort(tf.port)) EXCEPT !.t = tf.tp]
    <2>1. /\ pc = "tftp" /\ Transmit(m, "tftp", "tftp_end")
          /\ tf' = [tf EXCEPT !.retry = @ + 1, !.port = NextPort(@)]
      BY <1>5 DEF TftpTimeout
    <2>2. m.file = tf.file /\ DOMAIN m = {"t", "file", "cport", "from", "to"}
      BY DEF rrq
    <2> HIDE DEF m
    <2>3. /\ \A x \in wire' : x \in wire \/ (x.t = "rrq" => x.file = tf.file)
          /\ pc' \in {"tftp", "arp"}
      BY <2>1, <2>2, SentIsNot
    <2>4. tf'.file = tf.file /\ tf'.n = tf.n /\ tf'.size = tf.size
      BY <1>2, <2>1 DEF NoTransfer
    <2> QED
      BY <1>3, <2>1, <2>3, <2>4
  <1>6. CASE TftpTimeout /\ ~(tf.block = 0 /\ tf.retry < MAX_TFTP_RETRIES)
    <2>1. pc' = "tftp_end" /\ tf' = tf /\ wire' = wire
      BY <1>6 DEF TftpTimeout
    <2> QED
      BY <1>3, <2>1
  <1> QED
    BY <1>4, <1>5, <1>6

(* The server's node is known, or stays unknown.                           *)
LEMMA ResolvedLoads ==
  ASSUME BootpInv, OrderInv, RightFile, LengthInv, LoadInv, AwaitArp \/ ArpTimeout
  PROVE  RightFile' /\ LengthInv' /\ LoadInv'
  <1>1. /\ pc = "arp" /\ sess' = sess /\ image' = image /\ tf' = tf /\ ld' = ld /\ mem' = mem
    BY DEF AwaitArp, ArpTimeout, load
  <1>2. tf.n = 0
    BY <1>1, EmptyFacts DEF OrderInv, TransferTypes, GotOK
  <1>3. /\ pend.ok = "tftp" /\ pend.fail = "tftp_end"
        /\ "t" \in DOMAIN pend.m /\ "file" \in DOMAIN pend.m
        /\ pend.m.t = "rrq" /\ pend.m.file = tf.file
    BY <1>1 DEF OrderInv, ArpInv
  <1>4. pc' \in {"arp", "tftp", "tftp_end"}
    BY <1>1, <1>3 DEF AwaitArp, ArpTimeout
  <1>5. \A i \in Slots : nic'.ring[i] = Avail \/ nic'.ring[i] = nic.ring[i]
    BY PollEmpties DEF AwaitArp, ArpTimeout
  <1>6. \A x \in wire' : x \in wire \/ (x.t = "rrq" => x.file = tf.file)
    <2> DEFINE x == [pend.m EXCEPT !.to = Polled.node]
               y == [t |-> "arp", ip |-> arp[pend.entry].ip]
    <2>1. wire' = wire \/ Send(x) \/ Send(y)
      BY DEF AwaitArp, ArpTimeout
    <2>2. x.file = tf.file /\ y.t # "rrq"
      BY <1>3
    <2> HIDE DEF x, y
    <2>3. \A z \in wire' : z \in wire \/ z = x \/ z = y
      BY <2>1 DEF Send
    <2> QED
      BY <2>2, <2>3
  <1>7. RightFile'
    BY <1>1, <1>4, <1>6 DEF RightFile
  <1>8. LengthInv'
    BY <1>1, <1>4, <1>5, SameLengths
  <1>9. LoadInv'
    BY <1>1, <1>2, <1>4, SameLoader
  <1> QED
    BY <1>7, <1>8, <1>9

(* A frame for this transfer: what it says of its length is true.          *)
LEMMA AwaitLoads ==
  ASSUME FilesFit, BootpInv, OrderInv, RightFile, LengthInv, LoadInv, AwaitTftp
  PROVE  RightFile' /\ LengthInv' /\ LoadInv'
  <1> DEFINE f == Polled
             n == InOrder(IF f.t = "oack" THEN 0 ELSE f.n)
             i == f.sport
  <1>1. /\ pc = "tftp" /\ Poll /\ packet' = f /\ sess' = sess /\ image' = image
        /\ ld' = ld /\ mem' = mem
    BY DEF AwaitTftp, Poll, load
  <1>2. /\ Current /\ tf.prev = tf.n /\ arp[Entry(arp["server"].ip)].node # None
        /\ DOMAIN tf = DOMAIN NoTransfer /\ FrameIn(f, sess)
    BY <1>1, PollIn DEF OrderInv, InTransfer, TransferTypes, ArpInv
  <1>3. f = nic.ring[0] /\ 0 \in Slots
    BY SlotsFacts DEF Polled
  <1>4. \A k \in Slots : nic'.ring[k] = Avail
    BY <1>1, PollEmpties
  <1>5. ASSUME pc' \in {"tftp", "tftp_end", "data"}, tf'.file = tf.file, tf'.n = tf.n,
               \A x \in wire' : x \in wire \/ x.t # "rrq",
               tf'.size = tf.size \/ tf.n = 0,
               pc' = "data" /\ tf'.block # tf'.prev =>
                 BlockOK(tf'.file, packet'.pos, tf'.len, tf'.size)
        PROVE  RightFile' /\ LengthInv' /\ LoadInv'
    <2>1. RightFile'
      BY <1>1, <1>5 DEF RightFile
    <2>2. (\A j \in DOMAIN sess : sess[j].n > 0 =>
             (sess[j].n - 1) * sess[j].size <= FileSize(sess[j].file))'
      BY <1>1 DEF LengthInv, FileSize
    <2>3. \A k \in Slots : nic'.ring[k].t # "data"
      BY <1>4 DEF Avail
    <2>4. (pc = "data" /\ tf.block # tf.prev => BlockOK(tf.file, packet.pos, tf.len, tf.size))'
      BY <1>1, <1>5 DEF BlockOK, FileSize
    <2>5. LengthInv'
      BY <1>5, <2>2, <2>3, <2>4 DEF LengthInv
    <2>6. tf'.n > 0 => tf'.size = tf.size
      BY <1>5
    <2>7. LoadInv'
      BY <1>1, <1>5, <2>6, SameLoader
    <2> QED
      BY <2>1, <2>5, <2>7
  <1>6. CASE UNCHANGED <<tf, wire, pend>> /\ pc' \in {"tftp", "tftp_end"}
    BY <1>5, <1>6
  <1>7. CASE /\ Transmit([ack(8, f) EXCEPT !.t = "refuse"], "tftp_end", "tftp_end")
             /\ UNCHANGED tf
    <2> DEFINE x == [[ack(8, f) EXCEPT !.t = "refuse"] EXCEPT !.to = arp[Entry(arp["server"].ip)].node]
    <2>1. Send(x) /\ pc' = "tftp_end"
      BY <1>2, <1>7, TransmitKnown
    <2>2. x.t = "refuse"
      BY DEF ack
    <2> HIDE DEF x
    <2>3. \A z \in wire' : z \in wire \/ z.t # "rrq"
      BY <2>1, <2>2 DEF Send
    <2> QED
      BY <1>5, <1>7, <2>1, <2>3
  <1>8. CASE /\ ForUs(f) /\ f.t # "error"
             /\ f.t = "oack" => tf.prev = 0
             /\ f.t = "data" => ~(f.len > tf.size)
             /\ tf' = IF f.t = "oack" THEN [tf EXCEPT !.block = n, !.tp = "ack69", !.size = f.size]
                                      ELSE [tf EXCEPT !.block = n, !.tp = "ack69", !.len = f.len]
             /\ Transmit(ack(n, f), "data", "data")
    <2> DEFINE x == [ack(n, f) EXCEPT !.to = arp[Entry(arp["server"].ip)].node]
    <2>1. Send(x) /\ pc' = "data"
      BY <1>2, <1>8, TransmitKnown
    <2>2. x.t = "ack"
      BY DEF ack
    <2> HIDE DEF x
    <2>3. \A z \in wire' : z \in wire \/ z.t # "rrq"
      BY <2>1, <2>2 DEF Send
    <2>4. /\ tf'.file = tf.file /\ tf'.n = tf.n /\ tf'.prev = tf.prev /\ tf'.block = n
          /\ f.t # "oack" => tf'.size = tf.size /\ tf'.len = f.len
      BY <1>2, <1>8 DEF NoTransfer
    <2>5. CASE f.t = "oack"
      <3>1. tf.n = 0 /\ n = 0
        BY <1>2, <1>8, <2>5 DEF InOrder
      <3> QED
        BY <1>2, <1>5, <2>1, <2>3, <2>4, <3>1
    <2>6. CASE f.t # "oack"
      <3>1. f.t = "data" /\ f.cport = tf.port
        BY <1>8, <2>6 DEF ForUs
      <3>2. i \in DOMAIN sess /\ sess[i].cport = tf.port /\ f.file = sess[i].file
            /\ f.n \in 1 .. sess[i].n
        BY <1>2, <3>1 DEF FrameIn
      <3>3. sess[i].n > 0
        <4>1. sess[i].n \in Nat
          BY <3>2 DEF OrderInv, SessionsOK, SessOK
        <4> QED
          BY <3>2, <4>1
      <3>4. sess[i].size = tf.size /\ sess[i].file = tf.file
        BY <1>2, <3>2, <3>3 DEF Current
      <3>5. BlockOK(f.file, f.pos, f.len, sess[i].size)
        BY <1>3, <3>1 DEF LengthInv
      <3>6. BlockOK(tf'.file, packet'.pos, tf'.len, tf'.size)
        BY <1>1, <2>4, <2>6, <3>2, <3>4, <3>5
      <3> HIDE DEF f, n
      <3> QED
        BY <1>5, <2>1, <2>3, <2>4, <2>6, <3>6
    <2> QED
      BY <2>5, <2>6
  <1> HIDE DEF f, n
  <1>9. \/ UNCHANGED <<tf, wire, pend>> /\ pc' \in {"tftp", "tftp_end"}
        \/ /\ Transmit([ack(8, f) EXCEPT !.t = "refuse"], "tftp_end", "tftp_end")
           /\ UNCHANGED tf
        \/ /\ ForUs(f) /\ f.t # "error"
           /\ f.t = "oack" => tf.prev = 0
           /\ f.t = "data" => ~(f.len > tf.size)
           /\ tf' = IF f.t = "oack" THEN [tf EXCEPT !.block = n, !.tp = "ack69", !.size = f.size]
                                    ELSE [tf EXCEPT !.block = n, !.tp = "ack69", !.len = f.len]
           /\ Transmit(ack(n, f), "data", "data")
    BY <1>1 DEF AwaitTftp, f, n
  <1> QED
    BY <1>6, <1>7, <1>8, <1>9

(* A frame that a server makes says how long its block is.                 *)
LEMMA FrameLength ==
  ASSUME FilesFit, image \in Images \cup {NoImage}, NEW ss, NEW i \in DOMAIN ss, SessOK(ss[i]),
         ss[i].n > 0 => (ss[i].n - 1) * ss[i].size <= FileSize(ss[i].file),
         NEW f, f = Frame(i, ss[i]), f.t = "data"
  PROVE  BlockOK(f.file, f.pos, f.len, ss[f.sport].size)
  <1> DEFINE s == ss[i]
             at == (s.n - 1) * s.size
  <1>1. s.size \in Nat /\ s.n \in Nat /\ FileSize(s.file) \in Nat
    BY FitFacts DEF SessOK, FileSize
  <1>2. s.n # 0
    <2>1. s.n = 0 => Frame(i, s).t = "oack"
      BY DEF Frame
    <2> QED
      BY <2>1
  <1>3. /\ f.sport = i /\ f.file = s.file /\ f.pos = at
        /\ f.len = IF FileSize(s.file) - at < s.size THEN FileSize(s.file) - at ELSE s.size
    BY <1>2 DEF Frame
  <1>4. at \in 0 .. FileSize(s.file)
    <2>1. s.n - 1 \in Nat
      BY <1>1, <1>2
    <2>2. at \in Nat
      BY <1>1, <2>1, NatProduct
    <2>3. at <= FileSize(s.file)
      BY <1>1, <1>2
    <2> QED
      BY <1>1, <2>2, <2>3
  <1> HIDE DEF at
  <1> QED
    BY <1>3, <1>4 DEF BlockOK

(* The servers go on: the transfers ss take the place of sess.             *)
LEMMA ServersLoad ==
  ASSUME FilesFit, OrderInv, RightFile, LengthInv, LoadInv, Unchanged, Grows(sess, sess'),
         \A m \in wire' : m \in wire,
         \A i \in DOMAIN sess' : sess'[i].n > 0 =>
           (sess'[i].n - 1) * sess'[i].size <= FileSize(sess'[i].file),
         tf.file # "kernel" => \A i \in DOMAIN sess' : sess'[i].file # "kernel",
         \A k \in Slots : \/ nic'.ring[k] = nic.ring[k]
                          \/ nic'.ring[k].t # "data"
                          \/ \E i \in DOMAIN sess' :
                               SessOK(sess'[i]) /\ nic'.ring[k] = Frame(i, sess'[i])
  PROVE  RightFile' /\ LengthInv' /\ LoadInv'
  <1>1. /\ pc' = pc /\ tf' = tf /\ image' = image /\ ld' = ld /\ mem' = mem /\ packet' = packet
    BY DEF Unchanged, client, load
  <1>2. RightFile'
    BY <1>1 DEF RightFile
  <1>3. (\A i \in DOMAIN sess : sess[i].n > 0 =>
           (sess[i].n - 1) * sess[i].size <= FileSize(sess[i].file))'
    BY <1>1 DEF FileSize
  <1>4. ASSUME NEW k \in Slots, nic'.ring[k].t = "data"
        PROVE  BlockOK(nic'.ring[k].file, nic'.ring[k].pos, nic'.ring[k].len,
                       sess'[nic'.ring[k].sport].size)
    <2> DEFINE f == nic'.ring[k]
    <2>1. CASE f = nic.ring[k]
      <3>1. BlockOK(f.file, f.pos, f.len, sess[f.sport].size)
        BY <1>4, <2>1 DEF LengthInv
      <3>2. sess'[f.sport].size = sess[f.sport].size
        BY <1>4, <2>1 DEF OrderInv, FrameIn, Grows
      <3> QED
        BY <3>1, <3>2
    <2>2. CASE \E i \in DOMAIN sess' : SessOK(sess'[i]) /\ f = Frame(i, sess'[i])
      <3>1. PICK i \in DOMAIN sess' : SessOK(sess'[i]) /\ f = Frame(i, sess'[i])
        BY <2>2
      <3>2. sess'[i].n > 0 => (sess'[i].n - 1) * sess'[i].size <= FileSize(sess'[i].file)
        OBVIOUS
      <3>3. image \in Images \cup {NoImage}
        BY DEF OrderInv, TransferTypes
      <3> QED
        BY <1>4, <3>1, <3>2, <3>3, FrameLength
    <2> QED
      BY <1>4, <2>1, <2>2
  <1>5. (\A i \in Slots : LET f == nic.ring[i]
                          IN  f.t = "data" => BlockOK(f.file, f.pos, f.len, sess[f.sport].size))'
    BY <1>1, <1>4 DEF BlockOK, FileSize
  <1>6. /\ (pc = "data" /\ tf.block # tf.prev => BlockOK(tf.file, packet.pos, tf.len, tf.size))'
        /\ (pc = "download" =>
              tf.n > 0 /\ BlockOK("kernel", (tf.n - 1) * tf.size, tf.len, tf.size))'
    BY <1>1 DEF LengthInv, BlockOK, FileSize
  <1>7. LengthInv'
    BY <1>3, <1>5, <1>6 DEF LengthInv
  <1>8. LoadInv'
    BY <1>1 DEF LoadInv, KernelWhole, AtEnd
  <1> QED
    BY <1>2, <1>7, <1>8

(* The steps of the network and the servers.                               *)
LEMMA WorldLoads ==
  ASSUME FilesFit, BootpInv, OrderInv, OrderInv', RightFile, LengthInv, LoadInv, World
  PROVE  RightFile' /\ LengthInv' /\ LoadInv'
  <1>1. Unchanged
    BY DEF World, Unchanged
  <1>2. \A f, k : nic' = Received(nic, f) /\ k \in Slots =>
          nic'.ring[k] = nic.ring[k] \/ nic'.ring[k] = f
    BY DEF BootpInv, TypeOK, NicOK, Received
  <1>3. IsSeq(sess) /\ \A i \in DOMAIN sess : SessOK(sess[i]) /\ sess[i].n \in Nat
    BY DEF OrderInv, SessionsOK, SessOK
  <1>4. \A i \in DOMAIN sess' : SessOK(sess'[i])
    BY DEF OrderInv, SessionsOK
  <1>5. Grows(sess, sess)
    BY GrowsFacts DEF OrderInv
  <1>6. \A i \in DOMAIN sess : sess[i].n > 0 =>
          (sess[i].n - 1) * sess[i].size <= FileSize(sess[i].file)
    BY DEF LengthInv
  <1>7. tf.file # "kernel" => \A i \in DOMAIN sess : sess[i].file # "kernel"
    BY DEF RightFile
  <1>8. CASE Resend
    <2>1. PICK i \in DOMAIN sess : nic' = Received(nic, Frame(i, sess[i]))
      BY <1>8 DEF Resend
    <2>2. sess' = sess /\ wire' = wire
      BY <1>8 DEF Resend
    <2> QED
      BY <1>1, <1>2, <1>3, <1>5, <1>6, <1>7, <2>1, <2>2, ServersLoad
  <1>9. ASSUME NEW m \in wire, ArpAnswer(m) \/ DhcpAnswer(m) \/ TftpRefuse(m)
        PROVE  RightFile' /\ LengthInv' /\ LoadInv'
    <2>1. sess' = sess /\ \A x \in wire' : x \in wire
      BY <1>9 DEF ArpAnswer, DhcpAnswer, TftpRefuse, Take
    <2>2. \E f : nic' = Received(nic, f) /\ f.t # "data"
      <3>1. CASE ArpAnswer(m)
        BY <3>1 DEF ArpAnswer
      <3>2. CASE DhcpAnswer(m)
        <4>1. PICK c : nic' = Received(nic, [t |-> "bootp", c |-> c])
          BY <3>2 DEF DhcpAnswer
        <4>2. [t |-> "bootp", c |-> c].t # "data"
          OBVIOUS
        <4> QED
          BY <4>1, <4>2
      <3>3. CASE TftpRefuse(m)
        BY <3>3 DEF TftpRefuse
      <3> QED
        BY <1>9, <3>1, <3>2, <3>3
    <2>3. \A k \in Slots : nic'.ring[k] = nic.ring[k] \/ nic'.ring[k].t # "data"
      BY <1>2, <2>2
    <2> QED
      BY <1>1, <1>5, <1>6, <1>7, <2>1, <2>3, ServersLoad
  <1>10. ASSUME NEW m \in wire, TftpAccept(m)
         PROVE  RightFile' /\ LengthInv' /\ LoadInv'
    <2>1. PICK size \in OackSizes \cup {DefSize}, oack \in BOOLEAN :
            sess' = Append(sess, [file |-> m.file, cport |-> m.cport, from |-> m.from,
                                  size |-> size, n |-> IF oack THEN 0 ELSE 1])
      BY <1>10 DEF TftpAccept
    <2>2. /\ m.t = "rrq" /\ Take(m) /\ nic' = Received(nic, Frame(Len(sess'), sess'[Len(sess')]))
      BY <1>10 DEF TftpAccept
    <2> DEFINE s == [file |-> m.file, cport |-> m.cport, from |-> m.from,
                     size |-> size, n |-> IF oack THEN 0 ELSE 1]
    <2>3. s.file = m.file /\ s.size = size /\ s.n \in {0, 1}
      OBVIOUS
    <2> HIDE DEF s
    <2>4. /\ Len(sess') = Len(sess) + 1 /\ Len(sess) \in Nat /\ IsSeq(sess')
          /\ \A i \in 1 .. Len(sess) : sess'[i] = sess[i]
          /\ sess'[Len(sess) + 1] = s
      BY <1>3, <2>1, AppendFacts DEF IsSeq, s
    <2>5. DOMAIN sess = 1 .. Len(sess) /\ DOMAIN sess' = 1 .. Len(sess')
      BY <1>3, <2>4, DomFacts
    <2>6. \A i \in DOMAIN sess' : (i \in DOMAIN sess /\ sess'[i] = sess[i]) \/ sess'[i] = s
      BY <2>4, <2>5
    <2>7. Grows(sess, sess')
      BY <1>3, <2>4, <2>5 DEF Grows
    <2>8. \A x \in wire' : x \in wire
      BY <2>2 DEF Take
    <2>9. m.file \in Files /\ (tf.file # "kernel" => m.file # "kernel")
      BY <2>2 DEF OrderInv, MessageIn, RightFile
    <2>10. s.n > 0 => (s.n - 1) * s.size <= FileSize(s.file)
      <3>1. size \in Nat /\ FileSize(m.file) \in Nat
        BY <2>9, FitFacts DEF OrderInv, TransferTypes, FileSize, Sizes
      <3>2. (1 - 1) * size = 0
        BY <3>1
      <3> QED
        BY <2>3, <3>1, <3>2
    <2>11. \A i \in DOMAIN sess' : sess'[i].n > 0 =>
             (sess'[i].n - 1) * sess'[i].size <= FileSize(sess'[i].file)
      BY <1>6, <2>6, <2>10
    <2>12. tf.file # "kernel" => \A i \in DOMAIN sess' : sess'[i].file # "kernel"
      BY <1>7, <2>3, <2>6, <2>9
    <2>13. Len(sess') \in DOMAIN sess'
      BY <2>4, <2>5
    <2>14. \A k \in Slots : nic'.ring[k] = nic.ring[k]
                            \/ nic'.ring[k] = Frame(Len(sess'), sess'[Len(sess')])
      BY <1>2, <2>2
    <2> QED
      BY <1>1, <1>4, <2>7, <2>8, <2>11, <2>12, <2>13, <2>14, ServersLoad
  <1>11. ASSUME NEW m \in wire, TftpNext(m)
         PROVE  RightFile' /\ LengthInv' /\ LoadInv'
    <2> DEFINE k == m.sport
               s == sess[k]
               t == [s EXCEPT !.n = @ + 1]
    <2>1. m.t = "ack" /\ Take(m) /\ \A x \in wire' : x \in wire
      BY <1>11 DEF TftpNext, Take
    <2>2. k \in DOMAIN sess /\ SessOK(s)
      BY <1>3, <2>1 DEF OrderInv, MessageIn
    <2>3. CASE UNCHANGED <<sess, nic>>
      BY <1>1, <1>5, <1>6, <1>7, <2>1, <2>3, ServersLoad
    <2>4. CASE /\ s.n * s.size <= FileSize(s.file)
               /\ sess' = [sess EXCEPT ![k] = t] /\ nic' = Received(nic, Frame(k, t))
      <3>1. t.file = s.file /\ t.size = s.size /\ t.n = s.n + 1 /\ s.n \in Nat /\ t.cport = s.cport
        BY <2>2 DEF SessOK
      <3> HIDE DEF t
      <3>2. DOMAIN sess' = DOMAIN sess /\ sess'[k] = t
            /\ \A i \in DOMAIN sess : i # k => sess'[i] = sess[i]
        BY <1>3, <2>2, <2>4, UpdateFacts
      <3>3. Grows(sess, sess')
        BY <1>3, <3>1, <3>2 DEF Grows
      <3>4. (t.n - 1) * t.size <= FileSize(t.file)
        <4>1. t.n - 1 = s.n
          BY <3>1
        <4> QED
          BY <2>4, <3>1, <4>1
      <3>5. \A i \in DOMAIN sess' : sess'[i].n > 0 =>
              (sess'[i].n - 1) * sess'[i].size <= FileSize(sess'[i].file)
        BY <1>6, <3>2, <3>4
      <3>6. tf.file # "kernel" => \A i \in DOMAIN sess' : sess'[i].file # "kernel"
        BY <1>7, <2>2, <3>1, <3>2
      <3>7. \A j \in Slots : nic'.ring[j] = nic.ring[j] \/ nic'.ring[j] = Frame(k, sess'[k])
        BY <1>2, <2>4, <3>2
      <3>8. k \in DOMAIN sess' /\ SessOK(sess'[k])
        BY <1>4, <2>2, <3>2
      <3> QED
        BY <1>1, <2>1, <3>3, <3>5, <3>6, <3>7, <3>8, ServersLoad
    <2> HIDE DEF k, s, t
    <2> QED
      BY <1>11, <2>3, <2>4 DEF TftpNext, k, s, t
  <1> QED
    BY <1>1, <1>8, <1>9, <1>10, <1>11 DEF World

(* A block is handed on in the transfer it belongs to.                     *)
LEMMA DataFile ==
  ASSUME OrderInv, RightFile, Data
  PROVE  RightFile'
  <1>1. /\ sess' = sess /\ wire' = wire /\ image' = image
        /\ pc' \in {"tftp", "tftp_end", "download"}
        /\ pc' = "download" => tf.file = "kernel"
    BY DEF Data, KernelBlock
  <1>2. tf'.file = tf.file
    BY DEF Data, OrderInv, TransferTypes, NoTransfer
  <1>3. pc = "data"
    BY DEF Data
  <1> QED
    BY <1>1, <1>2, <1>3 DEF RightFile

(* A turn changes nothing but the loader and what it places.               *)
LEMMA TurnLoads ==
  ASSUME FilesFit, BootpInv, OrderInv, RightFile, LengthInv, LoadInv, elf32_download
  PROVE  RightFile' /\ LengthInv' /\ LoadInv'
  <1>1. /\ pc = "download" /\ sess' = sess /\ wire' = wire /\ image' = image /\ tf' = tf
        /\ nic' = nic \/ nic' = Disabled(nic)
        /\ pc' \in {"download", "tftp", "started"}
    BY DEF elf32_download, SkipOn, CopyPart, SegmentDone, Leave, Start
  <1>2. tf.file = "kernel"
    BY <1>1 DEF RightFile
  <1>3. RightFile'
    BY <1>1, <1>2 DEF RightFile
  <1>4. LengthInv'
    <2>1. nic'.ring = nic.ring
      BY <1>1 DEF Disabled, BootpInv, TypeOK, NicOK
    <2>2. (\A i \in DOMAIN sess : sess[i].n > 0 =>
             (sess[i].n - 1) * sess[i].size <= FileSize(sess[i].file))'
      BY <1>1 DEF LengthInv, FileSize
    <2>3. (\A i \in Slots : LET f == nic.ring[i]
                            IN  f.t = "data" => BlockOK(f.file, f.pos, f.len, sess[f.sport].size))'
      BY <1>1, <2>1 DEF LengthInv, BlockOK, FileSize
    <2>4. (pc = "download" =>
             tf.n > 0 /\ BlockOK("kernel", (tf.n - 1) * tf.size, tf.len, tf.size))'
      BY <1>1 DEF LengthInv, BlockOK, FileSize
    <2> QED
      BY <1>1, <2>2, <2>3, <2>4 DEF LengthInv
  <1> QED
    BY <1>3, <1>4, TurnKeeps

(* At first nothing is asked for.                                          *)
LEMMA InitKernel == Init => KernelInv
  <1> SUFFICES ASSUME Init PROVE KernelInv
    OBVIOUS
  <1>1. /\ pc = "probe" /\ sess = << >> /\ wire = {} /\ tf.file = "ext"
        /\ mem = [x \in Memory |-> Stale] /\ \A i \in Slots : nic.ring[i] = Avail
    BY DEF Init, NoTransfer, AllAvail
  <1>2. RightFile
    BY <1>1 DEF RightFile
  <1>3. LengthInv
    BY <1>1 DEF LengthInv, Avail
  <1>4. LoadInv
    BY <1>1 DEF LoadInv, KernelWhole
  <1> QED
    BY <1>2, <1>3, <1>4 DEF KernelInv

(* Each step keeps the count right.                                        *)
LEMMA NextKernel ==
  FilesFit /\ BootpInv /\ OrderInv /\ OrderInv' /\ KernelInv /\ [Next]_vars => KernelInv'
  <1> SUFFICES ASSUME FilesFit, BootpInv, OrderInv, OrderInv', RightFile, LengthInv, LoadInv,
                      [Next]_vars
               PROVE  RightFile' /\ LengthInv' /\ LoadInv'
    BY DEF KernelInv
  <1>1. CASE UNCHANGED vars
    <2>1. sess' = sess /\ nic' = nic /\ wire' = wire /\ Unchanged
      BY <1>1 DEF vars, net, Unchanged
    <2>2. Grows(sess, sess')
      BY <2>1, GrowsFacts DEF OrderInv, SessionsOK, SessOK
    <2>3. \A i \in DOMAIN sess' : sess'[i].n > 0 =>
            (sess'[i].n - 1) * sess'[i].size <= FileSize(sess'[i].file)
      BY <2>1 DEF LengthInv
    <2>4. tf.file # "kernel" => \A i \in DOMAIN sess' : sess'[i].file # "kernel"
      BY <2>1 DEF RightFile
    <2> QED
      BY <2>1, <2>2, <2>3, <2>4, ServersLoad
  <1>2. CASE Data
    BY <1>2, DataFile, DataLoads
  <1>3. CASE elf32_download
    BY <1>3, TurnLoads
  <1>4. CASE Waiting /\ ~elf32_download
    BY <1>4, BeforeLoads, AroundLoads, AskLoads, ResolvedLoads, AwaitLoads DEF Waiting
  <1>5. CASE World
    BY <1>5, WorldLoads
  <1> QED
    BY <1>1, <1>2, <1>3, <1>4, <1>5 DEF Next

(* When Etherboot enters the kernel, every segment of the file is in       *)
(* memory as the file has it, the bss is clear, the ramdisk is where Linux *)
(* is told it is and nothing else was written, in whatever blocks the file *)
(* came, if no file has as many blocks as there are numbers (load_block,   *)
(* elf32_download, xstart32).                                              *)
THEOREM KernelAlwaysWhole ==
  ASSUME FilesFit
  PROVE  Spec => []KernelWhole
  <1>1. KernelInv => KernelWhole
    BY DEF KernelInv, LoadInv
  <1> QED
    BY <1>1, InitBootp, NextBootp, InitOrder, NextOrder, InitKernel, NextKernel, PTL DEF Spec
=============================================================================
