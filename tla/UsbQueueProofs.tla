---------------------------- MODULE UsbQueueProofs ----------------------------
(***************************************************************************)
(* Proof that no USB request is freed while the host controller driver     *)
(* still has it, and that none in progress is lost, for every number of    *)
(* devices, polls and TDs and whatever the controller does meanwhile.      *)
(*                                                                         *)
(* Neither is inductive.  QueueIInv says of each request that is in        *)
(* progress (Busy) how its TDs divide: those before hwHeadP are in one of  *)
(* the done lists, the others are still the controller's; which TD halted  *)
(* its endpoint, and where it stands; that an endpoint skipped without     *)
(* being unlinked has a TD in a done list, so that somebody will unskip    *)
(* it; and that of a request that is unlinked somebody waits, who has      *)
(* polls left (WaitInv).  It speaks of a controller that is alive and of   *)
(* runs in which no TD was freed under the controller (Ok); the periodic   *)
(* tree stays outside of it.                                               *)
(***************************************************************************)
EXTENDS UsbQueue, SequenceTheorems, FiniteSetTheorems, TLAPS

TdNumbers == 1 .. 3
Tds == Urb \X TdNumbers
Statuses == {"none", "prog", "ok", "err", "enoent", "shutdown"}
UrbType == [status : Statuses, hcpriv : BOOLEAN, del : BOOLEAN, cnt : Nat, spliced : BOOLEAN,
            done : BOOLEAN, bound : BOOLEAN, freed : BOOLEAN]
EdType == [state : {"none", "IDLE", "OPER", "UNLINK"}, skip : BOOLEAN, halt : BOOLEAN,
           dequeue : BOOLEAN, list : SUBSET TdNumbers, head : 1 .. 4, tds : SUBSET TdNumbers,
           bad : 0 .. 3, cc : {"ok", "err", "stall"}]

(* The driver's data; of the tree nothing is needed.                       *)
Data(s) ==
  s \in [urb : [Urb -> UrbType], ed : [Urb -> EdType],
         dev : [Urb -> {"none", "here", "halted", "gone"}], tree : {s.tree}, rm : Seq(Urb),
         tick : SUBSET Urb, ctl : BOOLEAN, cle : BOOLEAN, disabled : BOOLEAN, stale : BOOLEAN]

HcType == [q : Seq(Tds), head : Seq(Tds), wdh : BOOLEAN, ue : BOOLEAN]
IrqType == [pc : {"off", "done", "unlinks"}, in : Seq(Tds), list : Seq(Tds),
            wait : SUBSET Urb, wdh : BOOLEAN]
MainType == [pc : {"idle", "msg", "unlink", "kill", "disable"}, u : Urb \cup {None},
             n : Nat, frame : BOOLEAN]

TypeInv ==
  /\ Data(o) /\ hc \in HcType /\ irq \in IrqType /\ main \in MainType
  /\ main.pc = "idle" <=> main.u = None
  /\ main.pc = "msg" => main.u = Ctl
  /\ main.pc \in {"kill", "disable"} => main.u \in IntUrb
  /\ irq.pc # "off" => main.pc # "kill" /\ (Counts => main.n > 0)

Ok == ~o.stale /\ ~o.disabled

(* The TDs of u in a done queue.                                           *)
At(q, u) == {i \in TdNumbers : <<u, i>> \in ToSet(q)}
NoTwice(q) == \A i, j \in DOMAIN q : q[i] = q[j] => i = j
InIrq(u) == At(irq.in, u) \cup At(irq.list, u)
InHc(u) == At(hc.head, u) \cup At(hc.q, u)
Retired(u) == InIrq(u) \cup InHc(u)

QueueInv ==
  /\ NoTwice(hc.q) /\ NoTwice(hc.head) /\ NoTwice(irq.in) /\ NoTwice(irq.list)
  /\ irq.pc # "done" => irq.in = <<>> /\ irq.list = <<>>
  /\ irq.pc # "unlinks" => irq.wait = {}
  /\ irq.pc = "unlinks" => o.tick \subseteq irq.wait
  /\ hc.head # <<>> => hc.wdh /\ ~irq.wdh
  /\ irq.wdh => hc.wdh
  /\ \A u \in Urb : /\ At(irq.in, u) \cap At(irq.list, u) = {}
                    /\ \A i \in InIrq(u), j \in InHc(u) : i < j
                    /\ \A i \in At(hc.head, u), j \in At(hc.q, u) : i < j

Busy(u) ==
  LET e == o.ed[u] IN
  /\ e.list # {} /\ e.list \subseteq 1 .. Length(u) /\ e.head \in 1 .. Length(u) + 1
  /\ o.urb[u].cnt + Cardinality(e.list) = Length(u)
  /\ Retired(u) = {i \in e.list : i < e.head} /\ e.head .. Length(u) \subseteq e.list
  /\ e.state \in {"OPER", "UNLINK"}
  /\ e.halt => e.bad \in e.list /\ e.head = e.bad + 1 /\ e.bad \notin At(irq.list, u)
  /\ e.bad \in e.list /\ ~e.halt => e.list \subseteq InIrq(u) /\ e.bad \in At(irq.list, u)
  /\ o.urb[u].status = "err" => e.list \subseteq At(irq.list, u)
  /\ o.urb[u].status \in {"prog", "err", "enoent", "shutdown"}
  /\ o.urb[u].del <=> o.urb[u].status \in {"enoent", "shutdown"}
  /\ e.state = "UNLINK" /\ ~o.urb[u].del => e.head = 1
  /\ e.tds \cap e.list \subseteq At(irq.list, u)
  /\ e.state = "OPER" /\ e.skip => Retired(u) # {}

Free(u) ==
  /\ o.ed[u].list = {} /\ Retired(u) = {} /\ ~o.ed[u].halt /\ ~o.urb[u].del
  /\ o.ed[u].state # "OPER"

UrbOk(u) == IF o.urb[u].hcpriv THEN Busy(u) ELSE Free(u)
UrbInv == \A u \in Urb : UrbOk(u)

EdOk(u) ==
  LET e == o.ed[u] IN
  /\ e.state = "UNLINK" <=> u \in ToSet(o.rm)
  /\ e.dequeue <=> e.state = "UNLINK"
  /\ e.state = "UNLINK" => e.skip
  /\ e.state \in {"none", "IDLE"} => ~e.skip
  /\ o.urb[u].del => e.state = "UNLINK"
  /\ u \in o.tick => e.state = "UNLINK" /\ main.pc \in {"unlink", "disable"} /\ main.u = u
  /\ u \in o.tick /\ o.urb[u].hcpriv => o.urb[u].del

EdInv ==
  /\ NoTwice(o.rm)
  /\ \A u \in Urb : EdOk(u)
  /\ o.ctl <=> o.ed[Ctl].state = "OPER"
  /\ o.ctl /\ ~o.cle => o.rm # <<>> \/ irq.pc # "off"

MainInv ==
  /\ o.dev[Ctl] = "here"
  /\ o.urb[Ctl].hcpriv => main.pc \in {"msg", "unlink"} /\ main.u = Ctl
  /\ \A u \in IntUrb :
       /\ o.dev[u] = "none" => ~o.urb[u].hcpriv /\ o.ed[u].state = "none"
       /\ o.dev[u] = "gone" <=> main.pc \in {"unlink", "kill", "disable"} /\ main.u = u
  /\ \A u \in Urb :
       /\ o.urb[u].freed => ~o.urb[u].hcpriv
       /\ o.urb[u].del => main.pc \in {"unlink", "disable"} /\ main.u = u
  /\ main.pc = "msg" => (o.urb[Ctl].done <=> ~o.urb[Ctl].hcpriv)
  /\ main.pc = "unlink" => LET b == o.urb[main.u] IN
       /\ b.done <=> ~b.hcpriv
       /\ b.hcpriv => b.del /\ b.spliced /\ b.status = "enoent"
  /\ main.pc = "disable" /\ o.urb[main.u].hcpriv => o.urb[main.u].del

WaitInv ==
  main.pc = "unlink" =>
    /\ main.n <= Polls
    /\ ~o.urb[main.u].done => main.n \in {Polls - 1, Polls}
    /\ main.n = Polls => irq.pc # "off" \/ ~o.urb[main.u].done
    /\ main.n # Polls => main.u \notin irq.wait
    /\ main.n # Polls /\ main.u \in o.tick => ~main.frame /\ irq.pc = "off"

QueueIInv == TypeInv /\ (Ok => QueueInv /\ UrbInv /\ EdInv /\ MainInv /\ WaitInv)
-----------------------------------------------------------------------------
(* The members of a sequence that grows or shrinks by one.                 *)

LEMMA NoMembers == ToSet(<<>>) = {} /\ NoTwice(<<>>)
  <1>1. \A i \in DOMAIN <<>> : FALSE
    OBVIOUS
  <1>2. NoTwice(<<>>)
    BY <1>1 DEF NoTwice
  <1>3. ToSet(<<>>) = {}
    BY <1>1 DEF ToSet
  <1> QED
    BY <1>2, <1>3

LEMMA Appended ==
  ASSUME NEW T, NEW q \in Seq(T), NEW e \in T
  PROVE  /\ Append(q, e) \in Seq(T)
         /\ ToSet(Append(q, e)) = ToSet(q) \cup {e}
         /\ NoTwice(q) /\ e \notin ToSet(q) => NoTwice(Append(q, e))
  <1> DEFINE r == Append(q, e)
             n == Len(q)
  <1>1. /\ r \in Seq(T) /\ Len(r) = n + 1 /\ r[n + 1] = e /\ n \in Nat
        /\ \A i \in 1 .. n : r[i] = q[i]
    BY AppendProperties
  <1>2. DOMAIN q = 1 .. n /\ DOMAIN r = 1 .. n + 1
    BY <1>1
  <1> HIDE DEF r, n
  <1>3. ToSet(r) = ToSet(q) \cup {e}
    <2>1. ToSet(r) \subseteq ToSet(q) \cup {e}
      <3>1. ASSUME NEW i \in 1 .. n + 1 PROVE r[i] \in ToSet(q) \cup {e}
        BY <1>1, <1>2 DEF ToSet
      <3> QED
        BY <1>2, <3>1 DEF ToSet
    <2>2. ToSet(q) \cup {e} \subseteq ToSet(r)
      BY <1>1, <1>2 DEF ToSet
    <2> QED
      BY <2>1, <2>2
  <1>4. ASSUME NoTwice(q), e \notin ToSet(q), NEW i \in 1 .. n + 1, NEW j \in 1 .. n + 1, r[i] = r[j]
        PROVE  i = j
    <2>1. \A k \in 1 .. n : q[k] # e
      BY <1>2, <1>4 DEF ToSet
    <2> QED
      BY <1>1, <1>2, <1>4, <2>1 DEF NoTwice
  <1> QED
    BY <1>1, <1>2, <1>3, <1>4 DEF NoTwice, r

LEMMA Consed ==
  ASSUME NEW T, NEW q \in Seq(T), NEW e \in T
  PROVE  /\ <<e>> \o q \in Seq(T)
         /\ ToSet(<<e>> \o q) = ToSet(q) \cup {e}
         /\ NoTwice(q) /\ e \notin ToSet(q) => NoTwice(<<e>> \o q)
  <1> DEFINE r == <<e>> \o q
             n == Len(q)
  <1>1. /\ r \in Seq(T) /\ Len(r) = n + 1 /\ r[1] = e /\ n \in Nat
        /\ \A i \in 2 .. n + 1 : r[i] = q[i - 1]
    <2>1. <<e>> \in Seq(T) /\ Len(<<e>>) = 1 /\ <<e>>[1] = e /\ n \in Nat
      OBVIOUS
    <2>2. /\ r \in Seq(T) /\ Len(r) = 1 + n
          /\ \A i \in 1 .. 1 + n : r[i] = IF i <= 1 THEN <<e>>[i] ELSE q[i - 1]
      BY <2>1, ConcatProperties
    <2> HIDE DEF r, n
    <2> QED
      BY <2>1, <2>2
  <1>2. DOMAIN q = 1 .. n /\ DOMAIN r = 1 .. n + 1
    BY <1>1
  <1> HIDE DEF r, n
  <1>3. ToSet(r) = ToSet(q) \cup {e}
    <2>1. ToSet(r) \subseteq ToSet(q) \cup {e}
      <3>1. ASSUME NEW i \in 1 .. n + 1 PROVE r[i] \in ToSet(q) \cup {e}
        <4>1. CASE i = 1
          BY <1>1, <4>1
        <4>2. CASE i # 1
          <5>1. i \in 2 .. n + 1 /\ i - 1 \in 1 .. n
            BY <1>1, <4>2
          <5> QED
            BY <1>1, <1>2, <5>1 DEF ToSet
        <4> QED
          BY <4>1, <4>2
      <3> QED
        BY <1>2, <3>1 DEF ToSet
    <2>2. ASSUME NEW i \in 1 .. n PROVE q[i] \in ToSet(r)
      <3>1. i + 1 \in 2 .. n + 1 /\ (i + 1) - 1 = i /\ i + 1 \in DOMAIN r
        BY <1>1, <1>2
      <3>2. r[i + 1] = q[i]
        BY <1>1, <3>1
      <3> QED
        BY <3>1, <3>2 DEF ToSet
    <2>3. e \in ToSet(r)
      BY <1>1, <1>2 DEF ToSet
    <2> QED
      BY <1>2, <2>1, <2>2, <2>3 DEF ToSet
  <1>4. ASSUME NoTwice(q), e \notin ToSet(q), NEW i \in 1 .. n + 1, NEW j \in 1 .. n + 1, r[i] = r[j]
        PROVE  i = j
    <2>1. \A k \in 1 .. n : q[k] # e
      BY <1>2, <1>4 DEF ToSet
    <2>2. \A k \in 2 .. n + 1 : r[k] = q[k - 1] /\ k - 1 \in 1 .. n
      BY <1>1
    <2>3. \A k, l \in 1 .. n : q[k] = q[l] => k = l
      BY <1>2, <1>4 DEF NoTwice
    <2>4. i = 1 <=> j = 1
      <3>1. \A k \in 2 .. n + 1 : r[k] # e
        BY <2>1, <2>2
      <3>2. \A k \in 1 .. n + 1 : k = 1 \/ k \in 2 .. n + 1
        BY <1>1
      <3> QED
        BY <1>1, <1>4, <3>1, <3>2
    <2>5. i # 1 => i - 1 = j - 1
      <3>1. i # 1 => i \in 2 .. n + 1 /\ j \in 2 .. n + 1
        BY <1>1, <2>4
      <3> QED
        BY <1>4, <2>2, <2>3, <3>1
    <2> QED
      BY <1>1, <2>4, <2>5
  <1> QED
    BY <1>1, <1>2, <1>3, <1>4 DEF NoTwice, r

LEMMA Beheaded ==
  ASSUME NEW T, NEW q \in Seq(T), q # <<>>
  PROVE  /\ Head(q) \in T /\ Tail(q) \in Seq(T)
         /\ ToSet(q) = ToSet(Tail(q)) \cup {Head(q)}
         /\ NoTwice(q) => NoTwice(Tail(q)) /\ Head(q) \notin ToSet(Tail(q))
  <1> DEFINE r == Tail(q)
             n == Len(q)
  <1>1. /\ r \in Seq(T) /\ Len(r) = n - 1 /\ Head(q) = q[1] /\ q[1] \in T /\ n \in Nat \ {0}
        /\ \A i \in 1 .. n - 1 : r[i] = q[i + 1]
    BY HeadTailProperties
  <1>2. DOMAIN q = 1 .. n /\ DOMAIN r = 1 .. n - 1
    BY <1>1
  <1> HIDE DEF r, n
  <1>3. ToSet(q) = ToSet(r) \cup {Head(q)}
    <2>1. ASSUME NEW i \in 1 .. n PROVE q[i] \in ToSet(r) \cup {Head(q)}
      <3>1. CASE i = 1
        BY <1>1, <3>1
      <3>2. CASE i # 1
        <4>1. i - 1 \in 1 .. n - 1 /\ (i - 1) + 1 = i
          BY <1>1, <3>2
        <4> QED
          BY <1>1, <1>2, <4>1 DEF ToSet
      <3> QED
        BY <3>1, <3>2
    <2>2. ASSUME NEW i \in 1 .. n - 1 PROVE r[i] \in ToSet(q)
      <3>1. i + 1 \in 1 .. n /\ r[i] = q[i + 1]
        BY <1>1
      <3> QED
        BY <1>2, <3>1 DEF ToSet
    <2>3. Head(q) \in ToSet(q)
      BY <1>1, <1>2 DEF ToSet
    <2> QED
      BY <1>2, <2>1, <2>2, <2>3 DEF ToSet
  <1>4. ASSUME NoTwice(q)
        PROVE  NoTwice(r) /\ Head(q) \notin ToSet(r)
    <2>1. \A k, l \in 1 .. n : q[k] = q[l] => k = l
      BY <1>2, <1>4 DEF NoTwice
    <2>2. \A k \in 1 .. n - 1 : r[k] = q[k + 1] /\ k + 1 \in 1 .. n /\ k + 1 # 1 /\ 1 \in 1 .. n
      BY <1>1
    <2>3. \A k \in 1 .. n - 1 : r[k] # q[1]
      BY <2>1, <2>2
    <2>4. \A k, l \in 1 .. n - 1 : r[k] = r[l] => k + 1 = l + 1
      BY <2>1, <2>2
    <2>5. \A k, l \in 1 .. n - 1 : r[k] = r[l] => k = l
      BY <1>1, <2>4
    <2> QED
      BY <1>1, <1>2, <2>3, <2>5 DEF NoTwice, ToSet
  <1> QED
    BY <1>1, <1>3, <1>4 DEF r

LEMMA Curtailed ==
  ASSUME NEW T, NEW q \in Seq(T), q # <<>>
  PROVE  /\ Last(q) \in T /\ Front(q) \in Seq(T)
         /\ ToSet(q) = ToSet(Front(q)) \cup {Last(q)}
         /\ NoTwice(q) => NoTwice(Front(q)) /\ Last(q) \notin ToSet(Front(q))
  <1> DEFINE r == Front(q)
             n == Len(q)
  <1>1. n \in Nat \ {0} /\ DOMAIN q = 1 .. n /\ q \in [1 .. n -> T] /\ Last(q) = q[n] /\ q[n] \in T
    BY DEF Last
  <1>2. r = SubSeq(q, 1, n - 1)
    BY DEF Front
  <1> HIDE DEF r, n
  <1>3. r \in Seq(T) /\ Len(r) = n - 1 /\ \A i \in 1 .. n - 1 : r[i] = q[i]
    <2>1. 1 \in Int /\ n - 1 \in Int /\ \A i \in 1 .. n - 1 : q[i] \in T
      BY <1>1
    <2>2. /\ SubSeq(q, 1, n - 1) \in Seq(T)
          /\ Len(SubSeq(q, 1, n - 1)) = IF 1 <= n - 1 THEN (n - 1) - 1 + 1 ELSE 0
          /\ \A i \in 1 .. (n - 1) - 1 + 1 : SubSeq(q, 1, n - 1)[i] = q[1 + i - 1]
      BY <2>1, SubSeqProperties
    <2>3. (n - 1) - 1 + 1 = n - 1 /\ \A i \in 1 .. n - 1 : 1 + i - 1 = i
      BY <1>1
    <2> QED
      BY <1>1, <1>2, <2>2, <2>3
  <1>4. DOMAIN r = 1 .. n - 1
    BY <1>1, <1>3
  <1>5. ToSet(q) = ToSet(r) \cup {Last(q)}
    <2>1. ASSUME NEW i \in 1 .. n PROVE q[i] \in ToSet(r) \cup {Last(q)}
      <3>1. CASE i = n
        BY <1>1, <3>1
      <3>2. CASE i # n
        <4>1. i \in 1 .. n - 1
          BY <1>1, <3>2
        <4> QED
          BY <1>3, <1>4, <4>1 DEF ToSet
      <3> QED
        BY <3>1, <3>2
    <2>2. ASSUME NEW i \in 1 .. n - 1 PROVE r[i] \in ToSet(q)
      BY <1>1, <1>3 DEF ToSet
    <2>3. Last(q) \in ToSet(q)
      BY <1>1 DEF ToSet
    <2> QED
      BY <1>1, <1>4, <2>1, <2>2, <2>3 DEF ToSet
  <1>6. ASSUME NoTwice(q)
        PROVE  NoTwice(r) /\ Last(q) \notin ToSet(r)
    <2>1. \A k, l \in 1 .. n : q[k] = q[l] => k = l
      BY <1>1, <1>6 DEF NoTwice
    <2>2. \A k \in 1 .. n - 1 : r[k] = q[k] /\ k \in 1 .. n /\ k # n /\ n \in 1 .. n
      BY <1>1, <1>3
    <2> QED
      BY <1>1, <1>4, <2>1, <2>2 DEF NoTwice, ToSet
  <1> QED
    BY <1>1, <1>3, <1>5, <1>6 DEF r

(* finish_unlinks() takes an endpoint off the list of those to unlink.     *)
LEMMA Taken ==
  ASSUME NEW T, NEW rm \in Seq(T), NEW u \in ToSet(rm)
  PROVE  /\ TakenOff(rm, u) \in Seq(T)
         /\ NoTwice(rm) => /\ ToSet(TakenOff(rm, u)) = ToSet(rm) \ {u}
                           /\ NoTwice(TakenOff(rm, u))
  <1> DEFINE i == CHOOSE k \in DOMAIN rm : rm[k] = u
             n == Len(rm)
             s == TakenOff(rm, u)
             x == SubSeq(rm, 1, i - 1)
             y == SubSeq(rm, i + 1, n)
  <1>1. i \in DOMAIN rm /\ rm[i] = u
    BY DEF ToSet
  <1>2. n \in Nat /\ DOMAIN rm = 1 .. n /\ i \in 1 .. n /\ rm \in [1 .. n -> T]
    BY <1>1
  <1>3. s = x \o y
    BY DEF TakenOff, RemoveAt
  <1>4. x \in Seq(T) /\ Len(x) = i - 1 /\ \A j \in 1 .. i - 1 : x[j] = rm[j]
    <2> HIDE DEF i, n, s
    <2>1. 1 \in Int /\ i - 1 \in Int /\ \A j \in 1 .. i - 1 : rm[j] \in T
      BY <1>2
    <2>2. /\ x \in Seq(T) /\ Len(x) = IF 1 <= i - 1 THEN (i - 1) - 1 + 1 ELSE 0
          /\ \A j \in 1 .. (i - 1) - 1 + 1 : x[j] = rm[1 + j - 1]
      BY <2>1, SubSeqProperties
    <2>3. (i - 1) - 1 + 1 = i - 1 /\ \A j \in 1 .. i - 1 : 1 + j - 1 = j
      BY <1>2
    <2> QED
      BY <1>2, <2>2, <2>3
  <1>5. y \in Seq(T) /\ Len(y) = n - i /\ \A j \in 1 .. n - i : y[j] = rm[i + j]
    <2> HIDE DEF i, n, s
    <2>1. i + 1 \in Int /\ n \in Int /\ \A j \in i + 1 .. n : rm[j] \in T
      BY <1>2
    <2>2. /\ y \in Seq(T) /\ Len(y) = IF i + 1 <= n THEN n - (i + 1) + 1 ELSE 0
          /\ \A j \in 1 .. n - (i + 1) + 1 : y[j] = rm[(i + 1) + j - 1]
      BY <2>1, SubSeqProperties
    <2>3. n - (i + 1) + 1 = n - i /\ \A j \in 1 .. n - i : (i + 1) + j - 1 = i + j
      BY <1>2
    <2> QED
      BY <1>2, <2>2, <2>3
  <1> HIDE DEF i, n, s, x, y
  <1>6. /\ s \in Seq(T) /\ Len(s) = n - 1
        /\ \A j \in 1 .. n - 1 : s[j] = rm[IF j < i THEN j ELSE j + 1]
    <2>1. /\ s \in Seq(T) /\ Len(s) = Len(x) + Len(y)
          /\ \A j \in 1 .. Len(x) + Len(y) : s[j] = IF j <= Len(x) THEN x[j] ELSE y[j - Len(x)]
      BY <1>3, <1>4, <1>5, ConcatProperties
    <2>2. Len(x) + Len(y) = n - 1
      BY <1>2, <1>4, <1>5
    <2>3. ASSUME NEW j \in 1 .. n - 1 PROVE s[j] = rm[IF j < i THEN j ELSE j + 1]
      <3>1. CASE j < i
        <4>1. j <= i - 1 /\ j \in 1 .. i - 1
          BY <1>2, <3>1
        <4> QED
          BY <1>4, <2>1, <2>2, <3>1, <4>1
      <3>2. CASE ~(j < i)
        <4>1. j - (i - 1) \in 1 .. n - i /\ i + (j - (i - 1)) = j + 1 /\ ~(j <= i - 1)
          BY <1>2, <3>2
        <4>2. s[j] = y[j - (i - 1)]
          BY <1>4, <2>1, <2>2, <4>1
        <4> QED
          BY <1>5, <3>2, <4>1, <4>2
      <3> QED
        BY <3>1, <3>2
    <2> QED
      BY <2>1, <2>2, <2>3
  <1>7. DOMAIN s = 1 .. n - 1
    BY <1>2, <1>6
  <1>8. ASSUME NoTwice(rm)
        PROVE  ToSet(s) = ToSet(rm) \ {u} /\ NoTwice(s)
    <2>1. \A a, b \in 1 .. n : rm[a] = rm[b] => a = b
      BY <1>2, <1>8 DEF NoTwice
    <2>2. NoTwice(s)
      <3>1. \A a \in 1 .. n - 1 : (IF a < i THEN a ELSE a + 1) \in 1 .. n
        BY <1>2
      <3>2. \A a, b \in 1 .. n - 1 :
              (IF a < i THEN a ELSE a + 1) = (IF b < i THEN b ELSE b + 1) => a = b
        BY <1>2
      <3> QED
        BY <1>6, <2>1, <1>7, <3>1, <3>2 DEF NoTwice
    <2>3. ToSet(s) \subseteq ToSet(rm) \ {u}
      <3>1. ASSUME NEW a \in 1 .. n - 1 PROVE s[a] # u /\ s[a] \in ToSet(rm)
        <4> DEFINE b == IF a < i THEN a ELSE a + 1
        <4>1. b \in 1 .. n /\ b # i /\ i \in 1 .. n
          BY <1>2
        <4>2. s[a] = rm[b]
          BY <1>6
        <4> HIDE DEF b
        <4> QED
          BY <1>1, <1>2, <2>1, <4>1, <4>2 DEF ToSet
      <3> QED
        BY <1>7, <3>1 DEF ToSet
    <2>4. ToSet(rm) \ {u} \subseteq ToSet(s)
      <3>1. ASSUME NEW a \in 1 .. n, rm[a] # u PROVE rm[a] \in ToSet(s)
        <4>1. a # i
          BY <1>1, <3>1
        <4>2. CASE a < i
          BY <1>2, <1>6, <1>7, <4>2 DEF ToSet
        <4>3. CASE a > i
          <5>1. a - 1 \in 1 .. n - 1 /\ ~(a - 1 < i) /\ (a - 1) + 1 = a
            BY <1>2, <4>3
          <5> QED
            BY <1>6, <1>7, <5>1 DEF ToSet
        <4> QED
          BY <1>2, <4>1, <4>2, <4>3
      <3> QED
        BY <1>2, <3>1 DEF ToSet
    <2> QED
      BY <2>2, <2>3, <2>4
  <1> QED
    BY <1>6, <1>8 DEF s

(* The done queues are sequences of TDs; those of a URB in them.           *)
LEMMA InTds ==
  ASSUME NEW q \in Seq(Tds)
  PROVE  /\ \A td \in ToSet(q) : td \in Tds /\ td = <<td[1], td[2]>>
         /\ \A td \in Tds : td = <<td[1], td[2]>> /\ td[1] \in Urb /\ td[2] \in TdNumbers
         /\ \A u \in Urb : At(q, u) \subseteq TdNumbers
         /\ \A u \in Urb, i \in TdNumbers : i \in At(q, u) <=> <<u, i>> \in ToSet(q)
  <1>1. \A i \in DOMAIN q : q[i] \in Tds
    OBVIOUS
  <1> QED
    BY <1>1 DEF ToSet, Tds, At

LEMMA NoneAt == \A u \in Urb : At(<<>>, u) = {}
  BY NoMembers DEF At

LEMMA MoreAt ==
  ASSUME NEW q, NEW r, NEW u \in Urb, NEW i \in TdNumbers, ToSet(r) = ToSet(q) \cup {<<u, i>>}
  PROVE  /\ At(r, u) = At(q, u) \cup {i}
         /\ \A v \in Urb \ {u} : At(r, v) = At(q, v)
         /\ <<u, i>> \in ToSet(q) <=> i \in At(q, u)
  BY DEF At

-----------------------------------------------------------------------------
(* What the driver's functions do to its data.                             *)

LEMMA PollsNat == Polls \in Nat /\ Polls >= 2
  BY UrbAssumption

LEMMA Lengths == \A u \in Urb : Length(u) \in TdNumbers /\ 1 .. Length(u) \subseteq TdNumbers
  BY UrbAssumption DEF Length, TdNumbers

LEMMA IntIsUrb == IntUrb \subseteq Urb /\ Ctl \in Urb /\ Ctl \notin IntUrb /\ Urb \ IntUrb = {Ctl} /\ None \notin Urb
  BY UrbAssumption DEF Urb

LEMMA Finite ==
  ASSUME NEW S \in SUBSET TdNumbers
  PROVE  IsFiniteSet(S) /\ Cardinality(S) \in Nat /\ (Cardinality(S) = 0 <=> S = {})
  <1>1. IsFiniteSet(TdNumbers)
    <2>1. 1 \in Int /\ 3 \in Int
      OBVIOUS
    <2> QED
      BY <2>1, FS_Interval, Zenon DEF TdNumbers
  <1>2. IsFiniteSet(S)
    BY <1>1, FS_Subset
  <1> QED
    BY <1>2, FS_CardinalityType, FS_EmptySet, Zenon

\* What an operation on u leaves alone.
Around(s, t, u) ==
  /\ Data(t) /\ t.disabled = s.disabled
  /\ \A v \in Urb \ {u} : t.urb[v] = s.urb[v] /\ t.ed[v] = s.ed[v] /\ t.dev[v] = s.dev[v]

\* One that does not unlink.
Keeps(s, t, u) == Around(s, t, u) /\ t.rm = s.rm /\ t.tick = s.tick /\ t.stale = s.stale /\ t.dev = s.dev

LEMMA FreshEdType == FreshEd \in EdType /\ [FreshEd EXCEPT !.state = "IDLE"] \in EdType
  <1>1. {} \in SUBSET TdNumbers /\ 1 \in 1 .. 4 /\ 0 \in 0 .. 3
    OBVIOUS
  <1>2. FreshEd \in EdType
    BY <1>1 DEF FreshEd, EdType
  <1> QED
    BY <1>2 DEF EdType

\* An endpoint of the driver's data changes, and with it the schedules.
WithEd(s, u, e, tree, ctl, cle) ==
  [s EXCEPT !.ed = [s.ed EXCEPT ![u] = e], !.tree = tree, !.ctl = ctl, !.cle = cle]
EdChanged(s, t, u, e, ctl, cle) ==
  Keeps(s, t, u) /\ t.urb = s.urb /\ t.ed[u] = e /\ t.ctl = ctl /\ t.cle = cle

LEMMA EdChanges ==
  ASSUME NEW s, Data(s), NEW u \in Urb, NEW e \in EdType, NEW tree, NEW ctl \in BOOLEAN, NEW cle \in BOOLEAN
  PROVE  EdChanged(s, WithEd(s, u, e, tree, ctl, cle), u, e, ctl, cle)
  <1> DEFINE t == WithEd(s, u, e, tree, ctl, cle)
             ed == [s.ed EXCEPT ![u] = e]
  <1>1. ed \in [Urb -> EdType] /\ ed[u] = e /\ \A v \in Urb \ {u} : ed[v] = s.ed[v]
    BY DEF Data
  <1>2. t = [s EXCEPT !.ed = ed, !.tree = tree, !.ctl = ctl, !.cle = cle]
    BY DEF WithEd
  <1> HIDE DEF ed, t
  <1>3. /\ Data(t) /\ t.ed = ed /\ t.urb = s.urb /\ t.dev = s.dev /\ t.rm = s.rm /\ t.tick = s.tick
        /\ t.stale = s.stale /\ t.disabled = s.disabled /\ t.ctl = ctl /\ t.cle = cle
    BY <1>1, <1>2 DEF Data
  <1> QED
    BY <1>1, <1>3 DEF Keeps, Around, EdChanged, t

Schedules(s, t, u) ==
  /\ Keeps(s, t, u) /\ t.urb = s.urb
  /\ t.ed[u] = [s.ed[u] EXCEPT !.state = "OPER"]
  /\ t.ctl <=> s.ctl \/ u = Ctl
  /\ t.cle <=> s.cle \/ (u = Ctl /\ ~s.ctl /\ s.rm = <<>>)

LEMMA EdSchedule ==
  ASSUME NEW s, Data(s), NEW u \in Urb
  PROVE  Schedules(s, ed_schedule(s, u), u)
  <1> DEFINE t == ed_schedule(s, u)
             e == [s.ed[u] EXCEPT !.state = "OPER"]
             cle == s.cle \/ (~s.ctl /\ s.rm = <<>>)
             tree == periodic_link(Placed(s.tree, u), u)
  <1>1. e \in EdType
    <2>1. s.ed[u] \in EdType
      BY DEF Data
    <2> QED
      BY <2>1 DEF EdType
  <1>2. CASE u = Ctl
    <2>1. t = WithEd(s, u, e, s.tree, TRUE, cle)
      BY <1>2 DEF ed_schedule, Data, WithEd
    <2>2. cle \in BOOLEAN /\ TRUE \in BOOLEAN
      OBVIOUS
    <2>3. cle <=> s.cle \/ (u = Ctl /\ ~s.ctl /\ s.rm = <<>>)
      BY <1>2
    <2> HIDE DEF e, t, cle
    <2>4. EdChanged(s, t, u, e, TRUE, cle)
      BY <1>1, <2>1, <2>2, EdChanges
    <2>5. Keeps(s, t, u) /\ t.urb = s.urb /\ t.ed[u] = e /\ t.ctl /\ (t.cle <=> cle)
      BY <2>4 DEF EdChanged
    <2> QED
      BY <1>2, <2>3, <2>5 DEF Schedules, e, t
  <1>3. CASE u # Ctl
    <2>1. t = WithEd(s, u, e, tree, s.ctl, s.cle)
      BY <1>3 DEF ed_schedule, Data, WithEd
    <2>2. s.ctl \in BOOLEAN /\ s.cle \in BOOLEAN
      BY DEF Data
    <2> HIDE DEF e, t, tree
    <2>3. EdChanged(s, t, u, e, s.ctl, s.cle)
      BY <1>1, <2>1, <2>2, EdChanges
    <2> QED
      BY <1>3, <2>3 DEF Schedules, EdChanged, e, t
  <1> QED
    BY <1>2, <1>3

TakesOff(s, t, u) ==
  /\ Keeps(s, t, u) /\ t.urb = s.urb
  /\ t.ed[u] = [s.ed[u] EXCEPT !.skip = TRUE]
  /\ t.ctl <=> s.ctl /\ u # Ctl
  /\ u # Ctl => t.cle = s.cle

LEMMA DeschedulesIt ==
  ASSUME NEW s, Data(s), NEW u \in Urb
  PROVE  TakesOff(s, Descheduled(s, u), u)
  <1> DEFINE t == Descheduled(s, u)
             e == [s.ed[u] EXCEPT !.skip = TRUE]
             tree == periodic_unlink(s.tree, u)
  <1>1. e \in EdType
    <2>1. s.ed[u] \in EdType
      BY DEF Data
    <2> QED
      BY <2>1 DEF EdType
  <1>2. CASE u = Ctl
    <2>1. t = WithEd(s, u, e, s.tree, FALSE, FALSE)
      BY <1>2 DEF Descheduled, Data, WithEd
    <2> HIDE DEF e, t
    <2>2. FALSE \in BOOLEAN
      OBVIOUS
    <2>3. EdChanged(s, t, u, e, FALSE, FALSE)
      BY <1>1, <2>1, <2>2, EdChanges
    <2> QED
      BY <1>2, <2>3 DEF TakesOff, EdChanged, e, t
  <1>3. CASE u # Ctl
    <2>1. t = WithEd(s, u, e, tree, s.ctl, s.cle)
      BY <1>3 DEF Descheduled, Data, WithEd
    <2>2. s.ctl \in BOOLEAN /\ s.cle \in BOOLEAN
      BY DEF Data
    <2> HIDE DEF e, t, tree
    <2>3. EdChanged(s, t, u, e, s.ctl, s.cle)
      BY <1>1, <2>1, <2>2, EdChanges
    <2> QED
      BY <1>3, <2>3 DEF TakesOff, EdChanged, e, t
  <1> QED
    BY <1>2, <1>3

Empties(s, t, u) ==
  /\ Keeps(s, t, u) /\ t.urb = s.urb
  /\ t.ed[u] = [FreshEd EXCEPT !.state = "IDLE"]
  /\ t.ctl = s.ctl /\ t.cle = s.cle

LEMMA EmptiesIt ==
  ASSUME NEW s, Data(s), NEW u \in Urb
  PROVE  Empties(s, Emptied(s, u), u)
  <1> DEFINE t == Emptied(s, u)
             e == [FreshEd EXCEPT !.state = "IDLE"]
             tree == Unplaced(s.tree, u)
  <1>1. e \in EdType
    BY FreshEdType
  <1>2. t = WithEd(s, u, e, tree, s.ctl, s.cle)
    BY DEF Emptied, Data, WithEd
  <1>3. s.ctl \in BOOLEAN /\ s.cle \in BOOLEAN
    BY DEF Data
  <1> HIDE DEF e, t, tree
  <1>4. EdChanged(s, t, u, e, s.ctl, s.cle)
    BY <1>1, <1>2, <1>3, EdChanges
  <1> QED
    BY <1>4 DEF Empties, EdChanged, e, t

Deschedules(s, t, u) ==
  /\ Keeps(s, t, u) /\ t.urb = s.urb
  /\ t.ed[u] = IF s.ed[u].state = "OPER" THEN [FreshEd EXCEPT !.state = "IDLE"]
               ELSE [s.ed[u] EXCEPT !.skip = TRUE]
  /\ t.ctl <=> s.ctl /\ u # Ctl
  /\ u # Ctl => t.cle = s.cle

LEMMA EdDeschedule ==
  ASSUME NEW s, Data(s), NEW u \in Urb
  PROVE  Deschedules(s, ed_deschedule(s, u), u)
  <1> DEFINE d == Descheduled(s, u)
             t == ed_deschedule(s, u)
  <1>1. TakesOff(s, d, u) /\ Data(d)
    BY DeschedulesIt DEF TakesOff, Keeps, Around
  <1>2. t = IF s.ed[u].state = "OPER" THEN Emptied(d, u) ELSE d
    BY DEF ed_deschedule
  <1> HIDE DEF d, t
  <1>3. CASE s.ed[u].state = "OPER"
    <2>1. Empties(d, t, u)
      BY <1>1, <1>2, <1>3, EmptiesIt
    <2> QED
      BY <1>1, <1>3, <2>1 DEF Empties, TakesOff, Deschedules, Keeps, Around, t
  <1>4. CASE s.ed[u].state # "OPER"
    BY <1>1, <1>2, <1>4 DEF TakesOff, Deschedules, t
  <1> QED
    BY <1>3, <1>4

\* A request and its endpoint change.
WithUrb(s, u, b, e) == [s EXCEPT !.urb = [s.urb EXCEPT ![u] = b], !.ed = [s.ed EXCEPT ![u] = e]]
UrbChanged(s, t, u, b, e) ==
  Keeps(s, t, u) /\ t.urb[u] = b /\ t.ed[u] = e /\ t.ctl = s.ctl /\ t.cle = s.cle

LEMMA UrbChanges ==
  ASSUME NEW s, Data(s), NEW u \in Urb, NEW b \in UrbType, NEW e \in EdType
  PROVE  UrbChanged(s, WithUrb(s, u, b, e), u, b, e)
  <1> DEFINE t == WithUrb(s, u, b, e)
             urb == [s.urb EXCEPT ![u] = b]
             ed == [s.ed EXCEPT ![u] = e]
  <1>1. /\ urb \in [Urb -> UrbType] /\ urb[u] = b /\ \A v \in Urb \ {u} : urb[v] = s.urb[v]
        /\ ed \in [Urb -> EdType] /\ ed[u] = e /\ \A v \in Urb \ {u} : ed[v] = s.ed[v]
    BY DEF Data
  <1>2. t = [s EXCEPT !.urb = urb, !.ed = ed]
    BY DEF WithUrb
  <1> HIDE DEF urb, ed, t
  <1>3. /\ Data(t) /\ t.ed = ed /\ t.urb = urb /\ t.dev = s.dev /\ t.rm = s.rm /\ t.tick = s.tick
        /\ t.stale = s.stale /\ t.disabled = s.disabled /\ t.ctl = s.ctl /\ t.cle = s.cle
    BY <1>1, <1>2 DEF Data
  <1> QED
    BY <1>1, <1>3 DEF Keeps, Around, UrbChanged, t

AddsTds(s, t, u) ==
  /\ Keeps(s, t, u) /\ t.ctl = s.ctl /\ t.cle = s.cle
  /\ t.urb[u] = [s.urb[u] EXCEPT !.hcpriv = TRUE, !.cnt = 0, !.del = FALSE]
  /\ t.ed[u] = [s.ed[u] EXCEPT !.list = 1 .. Length(u), !.head = 1, !.tds = {},
                               !.bad = 0, !.cc = "ok"]

LEMMA TdSubmit ==
  ASSUME NEW s, Data(s), NEW u \in Urb
  PROVE  AddsTds(s, td_submit_urb(s, u), u)
  <1> DEFINE t == td_submit_urb(s, u)
             b == [s.urb[u] EXCEPT !.hcpriv = TRUE, !.cnt = 0, !.del = FALSE]
             L == 1 .. Length(u)
             f == [s.ed[u] EXCEPT !.list = L, !.head = 1]
             e == [f EXCEPT !.tds = {}, !.bad = 0, !.cc = "ok"]
  <1>1. s.urb[u] \in UrbType /\ s.ed[u] \in EdType
    BY DEF Data
  <1>2. b \in UrbType
    BY <1>1 DEF UrbType
  <1>3. t = WithUrb(s, u, b, e)
    BY DEF td_submit_urb, Data, WithUrb
  <1>4. L \in SUBSET TdNumbers /\ {} \in SUBSET TdNumbers
    BY Lengths
  <1> HIDE DEF b, L
  <1>5. e \in EdType
    <2> DEFINE g == [s.ed[u] EXCEPT !.list = L]
               h == [f EXCEPT !.tds = {}]
               k == [h EXCEPT !.bad = 0]
    <2>1. g \in EdType
      BY <1>1, <1>4 DEF EdType
    <2>2. f = [g EXCEPT !.head = 1]
      OBVIOUS
    <2> HIDE DEF g, f
    <2>3. f \in EdType
      BY <2>1, <2>2 DEF EdType
    <2>4. h \in EdType
      BY <1>4, <2>3 DEF EdType
    <2>5. e = [k EXCEPT !.cc = "ok"]
      OBVIOUS
    <2> HIDE DEF h, e
    <2>6. k \in EdType
      BY <2>4 DEF EdType
    <2> HIDE DEF k
    <2> QED
      BY <2>5, <2>6 DEF EdType
  <1> HIDE DEF e, t
  <1>6. UrbChanged(s, t, u, b, e)
    BY <1>2, <1>3, <1>5, UrbChanges
  <1> QED
    BY <1>6 DEF AddsTds, UrbChanged, b, e, f, L, t

\* A submitted request.
Submits(s, t, u) ==
  /\ Keeps(s, t, u)
  /\ t.urb[u].hcpriv /\ t.urb[u].status = "prog" /\ t.urb[u].cnt = 0 /\ ~t.urb[u].del
  /\ t.urb[u].bound = s.urb[u].bound /\ t.urb[u].freed = s.urb[u].freed
  /\ t.urb[u].spliced = s.urb[u].spliced /\ t.urb[u].done = s.urb[u].done
  /\ t.ed[u].list = 1 .. Length(u) /\ t.ed[u].head = 1 /\ t.ed[u].tds = {}
  /\ t.ed[u].bad = 0 /\ t.ed[u].cc = "ok"
  /\ t.ed[u].state = IF s.ed[u].state \in {"none", "IDLE"} THEN "OPER" ELSE s.ed[u].state
  /\ t.ed[u].halt => s.ed[u].halt
  /\ s.ed[u].state # "none" => t.ed[u].skip = s.ed[u].skip /\ t.ed[u].dequeue = s.ed[u].dequeue
  /\ s.ed[u].state = "none" => ~t.ed[u].skip /\ ~t.ed[u].dequeue
  /\ t.ctl <=> s.ctl \/ (u = Ctl /\ s.ed[u].state \in {"none", "IDLE"})
  /\ t.cle <=> s.cle \/ (u = Ctl /\ s.ed[u].state \in {"none", "IDLE"} /\ ~s.ctl /\ s.rm = <<>>)

Gets(s, t, u) ==
  /\ Keeps(s, t, u) /\ t.urb = s.urb /\ t.ctl = s.ctl /\ t.cle = s.cle
  /\ t.ed[u] = IF s.ed[u].state = "none" THEN [FreshEd EXCEPT !.state = "IDLE"] ELSE s.ed[u]

LEMMA EdGet ==
  ASSUME NEW s, Data(s), NEW u \in Urb
  PROVE  Gets(s, ed_get(s, u), u)
  <1> DEFINE t == ed_get(s, u)
  <1>1. CASE s.ed[u].state = "none"
    <2> DEFINE e == [FreshEd EXCEPT !.state = "IDLE"]
    <2>1. e \in EdType
      BY FreshEdType
    <2>2. t = WithEd(s, u, e, s.tree, s.ctl, s.cle)
      <3> HIDE DEF e
      <3>1. t = [s EXCEPT !.ed = [s.ed EXCEPT ![u] = e]]
        BY <1>1 DEF ed_get, e
      <3> HIDE DEF t
      <3> QED
        BY <3>1 DEF Data, WithEd
    <2>3. s.ctl \in BOOLEAN /\ s.cle \in BOOLEAN
      BY DEF Data
    <2> HIDE DEF e, t
    <2>4. EdChanged(s, t, u, e, s.ctl, s.cle)
      BY <2>1, <2>2, <2>3, EdChanges
    <2> QED
      BY <1>1, <2>4 DEF Gets, EdChanged, e, t
  <1>2. CASE s.ed[u].state # "none"
    BY <1>2 DEF ed_get, Gets, Keeps, Around
  <1> QED
    BY <1>1, <1>2

LEMMA Enqueue ==
  ASSUME NEW s, Data(s), NEW u \in Urb, s.urb[u].status = "prog"
  PROVE  Submits(s, ohci_urb_enqueue(s, u), u)
  <1> DEFINE g == ed_get(s, u)
             c == IF g.ed[u].state = "IDLE" THEN ed_schedule(g, u) ELSE g
             t == td_submit_urb(c, u)
  <1>1. Gets(s, g, u) /\ Data(g)
    BY EdGet DEF Gets, Keeps, Around
  <1>2. t = ohci_urb_enqueue(s, u)
    BY DEF ohci_urb_enqueue
  <1> HIDE DEF g
  <1>3. /\ Keeps(s, c, u) /\ Data(c) /\ c.urb = s.urb
        /\ c.ed[u] = IF g.ed[u].state = "IDLE" THEN [g.ed[u] EXCEPT !.state = "OPER"] ELSE g.ed[u]
        /\ c.ctl <=> s.ctl \/ (u = Ctl /\ g.ed[u].state = "IDLE")
        /\ c.cle <=> s.cle \/ (u = Ctl /\ g.ed[u].state = "IDLE" /\ ~s.ctl /\ s.rm = <<>>)
    <2>1. CASE g.ed[u].state = "IDLE"
      <3>1. Schedules(g, c, u)
        BY <1>1, <2>1, EdSchedule
      <3> HIDE DEF c
      <3> QED
        BY <1>1, <2>1, <3>1 DEF Schedules, Gets, Keeps, Around
    <2>2. CASE g.ed[u].state # "IDLE"
      <3>1. c = g
        BY <2>2
      <3> HIDE DEF c
      <3> QED
        BY <1>1, <2>2, <3>1 DEF Gets
    <2> QED
      BY <2>1, <2>2
  <1> HIDE DEF c
  <1>4. AddsTds(c, t, u)
    BY <1>3, TdSubmit
  <1> HIDE DEF t
  <1>5. Keeps(s, t, u)
    BY <1>3, <1>4 DEF AddsTds, Keeps, Around
  <1>6. s.urb[u] \in UrbType /\ s.ed[u] \in EdType /\ g.ed[u] \in EdType /\ c.ed[u] \in EdType
    BY <1>1, <1>3 DEF Data
  <1>7. /\ t.urb[u].hcpriv /\ t.urb[u].status = "prog" /\ t.urb[u].cnt = 0 /\ ~t.urb[u].del
        /\ t.urb[u].bound = s.urb[u].bound /\ t.urb[u].freed = s.urb[u].freed
        /\ t.urb[u].spliced = s.urb[u].spliced /\ t.urb[u].done = s.urb[u].done
    BY <1>3, <1>4, <1>6 DEF AddsTds, UrbType
  <1>8. /\ g.ed[u].state = IF s.ed[u].state = "none" THEN "IDLE" ELSE s.ed[u].state
        /\ s.ed[u].state # "none" => g.ed[u] = s.ed[u]
        /\ s.ed[u].state = "none" => ~g.ed[u].skip /\ ~g.ed[u].halt /\ ~g.ed[u].dequeue
    BY <1>1, <1>6 DEF Gets, FreshEd, EdType
  <1>9. /\ c.ed[u].state = IF g.ed[u].state = "IDLE" THEN "OPER" ELSE g.ed[u].state
        /\ c.ed[u].skip = g.ed[u].skip /\ c.ed[u].halt = g.ed[u].halt /\ c.ed[u].dequeue = g.ed[u].dequeue
    BY <1>3, <1>6 DEF EdType
  <1>10. /\ t.ed[u].list = 1 .. Length(u) /\ t.ed[u].head = 1 /\ t.ed[u].tds = {}
         /\ t.ed[u].bad = 0 /\ t.ed[u].cc = "ok" /\ t.ed[u].state = c.ed[u].state
         /\ t.ed[u].skip = c.ed[u].skip /\ t.ed[u].halt = c.ed[u].halt /\ t.ed[u].dequeue = c.ed[u].dequeue
    BY <1>4, <1>6 DEF AddsTds, EdType
  <1>11. g.ed[u].state = "IDLE" <=> s.ed[u].state \in {"none", "IDLE"}
    BY <1>8
  <1>12. t.ctl = c.ctl /\ t.cle = c.cle
    BY <1>4 DEF AddsTds
  <1>13. Submits(s, t, u)
    BY <1>3, <1>5, <1>7, <1>8, <1>9, <1>10, <1>11, <1>12 DEF Submits
  <1> QED
    BY <1>2, <1>13

\* Only the request itself changes, in what its owner sees.
Rewrites(s, t, u) ==
  /\ Keeps(s, t, u) /\ t.ed = s.ed /\ t.ctl = s.ctl /\ t.cle = s.cle

LEMMA RewritesIt ==
  ASSUME NEW s, Data(s), NEW u \in Urb, NEW b \in UrbType
  PROVE  /\ Rewrites(s, [s EXCEPT !.urb[u] = b], u) /\ Data([s EXCEPT !.urb[u] = b])
         /\ [s EXCEPT !.urb[u] = b].urb[u] = b
  <1> DEFINE t == [s EXCEPT !.urb[u] = b]
             urb == [s.urb EXCEPT ![u] = b]
  <1>1. urb \in [Urb -> UrbType] /\ urb[u] = b /\ \A v \in Urb \ {u} : urb[v] = s.urb[v]
    BY DEF Data
  <1>2. t = [s EXCEPT !.urb = urb]
    OBVIOUS
  <1> HIDE DEF urb, t
  <1>3. /\ Data(t) /\ t.ed = s.ed /\ t.urb = urb /\ t.dev = s.dev /\ t.rm = s.rm /\ t.tick = s.tick
        /\ t.stale = s.stale /\ t.disabled = s.disabled /\ t.ctl = s.ctl /\ t.cle = s.cle
    BY <1>1, <1>2 DEF Data
  <1>4. Rewrites(s, t, u) /\ t.urb[u] = b
    BY <1>1, <1>3 DEF Rewrites, Keeps, Around
  <1> QED
    BY <1>3, <1>4 DEF t

\* A request usb_submit_urb() refuses.
Refuses(s, t, u) ==
  /\ Rewrites(s, t, u)
  /\ t.urb[u].hcpriv = s.urb[u].hcpriv /\ t.urb[u].cnt = s.urb[u].cnt /\ t.urb[u].del = s.urb[u].del
  /\ t.urb[u].bound = s.urb[u].bound /\ t.urb[u].freed = s.urb[u].freed
  /\ t.urb[u].spliced = s.urb[u].spliced /\ t.urb[u].done = s.urb[u].done

LEMMA SubmitUrb ==
  ASSUME NEW s, Data(s), NEW u \in Urb
  PROVE  IF Accepts(s, u) THEN Submits(s, usb_submit_urb(s, u), u) ELSE Refuses(s, usb_submit_urb(s, u), u)
  <1> DEFINE b == [s.urb[u] EXCEPT !.status = "prog"]
             p == [s EXCEPT !.urb[u] = b]
             t == usb_submit_urb(s, u)
  <1>1. s.urb[u] \in UrbType
    BY DEF Data
  <1>2. b \in UrbType
    BY <1>1 DEF UrbType, Statuses
  <1>3. p = [s EXCEPT !.urb[u].status = "prog"]
    OBVIOUS
  <1>4. /\ b.hcpriv = s.urb[u].hcpriv /\ b.cnt = s.urb[u].cnt /\ b.del = s.urb[u].del /\ b.status = "prog"
        /\ b.bound = s.urb[u].bound /\ b.freed = s.urb[u].freed
        /\ b.spliced = s.urb[u].spliced /\ b.done = s.urb[u].done
    BY <1>1 DEF UrbType
  <1>5. /\ Accepts(s, u) => t = ohci_urb_enqueue(p, u)
        /\ ~Accepts(s, u) => t \in {p, s}
    BY <1>3 DEF usb_submit_urb
  <1> HIDE DEF b, t
  <1>6. Rewrites(s, p, u) /\ Data(p) /\ p.urb[u] = b
    BY <1>2, RewritesIt
  <1> HIDE DEF p
  <1>7. CASE Accepts(s, u)
    <2>1. Submits(p, t, u)
      BY <1>4, <1>5, <1>6, <1>7, Enqueue
    <2>2. Keeps(s, t, u)
      BY <1>6, <2>1 DEF Submits, Rewrites, Keeps, Around
    <2>3. p.ed = s.ed /\ p.ctl = s.ctl /\ p.cle = s.cle /\ p.rm = s.rm
      BY <1>6 DEF Rewrites, Keeps
    <2>4. Submits(s, t, u)
      BY <1>4, <1>6, <2>1, <2>2, <2>3 DEF Submits
    <2> QED
      BY <1>7, <2>4 DEF t
  <1>8. CASE ~Accepts(s, u)
    <2>1. CASE t = p
      <3>1. Refuses(s, t, u)
        BY <1>4, <1>6, <2>1 DEF Refuses
      <3> QED
        BY <1>8, <3>1 DEF t
    <2>2. CASE t = s
      <3>1. Refuses(s, t, u)
        BY <2>2 DEF Refuses, Rewrites, Keeps, Around
      <3> QED
        BY <1>8, <3>1 DEF t
    <2> QED
      BY <1>5, <1>8, <2>1, <2>2
  <1> QED
    BY <1>7, <1>8

\* A request that was returned, and perhaps submitted again.
Finishes(s, t, u) ==
  /\ Keeps(s, t, u)
  /\ t.urb[u].bound = s.urb[u].bound /\ t.urb[u].freed = s.urb[u].freed /\ ~t.urb[u].spliced
  /\ t.urb[u].done <=> s.urb[u].done \/ s.urb[u].spliced \/ u = Ctl
  /\ ~t.urb[u].del /\ t.urb[u].cnt = 0
  /\ IF t.urb[u].hcpriv
     THEN /\ u # Ctl /\ s.dev[u] = "here" /\ ~s.disabled /\ t.urb[u].status = "prog"
          /\ t.ed[u].list = 1 .. Length(u) /\ t.ed[u].head = 1 /\ t.ed[u].tds = {}
          /\ t.ed[u].bad = 0 /\ t.ed[u].cc = "ok"
          /\ t.ed[u].state = IF s.ed[u].state \in {"none", "IDLE"} THEN "OPER" ELSE s.ed[u].state
          /\ t.ed[u].halt => s.ed[u].halt
          /\ s.ed[u].state # "none" => t.ed[u].skip = s.ed[u].skip /\ t.ed[u].dequeue = s.ed[u].dequeue
          /\ t.ctl = s.ctl /\ t.cle = s.cle
     ELSE /\ t.urb[u].status = "none"
          /\ t.ed[u] = s.ed[u] /\ t.ctl = s.ctl /\ t.cle = s.cle

LEMMA FinishUrb ==
  ASSUME NEW s, Data(s), NEW u \in Urb
  PROVE  Finishes(s, finish_urb(s, u), u)
  <1> DEFINE b == s.urb[u]
             b1 == [b EXCEPT !.hcpriv = FALSE, !.cnt = 0, !.del = FALSE,
                             !.status = IF b.status = "prog" THEN "ok" ELSE b.status]
             s1 == [s EXCEPT !.urb[u] = b1]
             b2 == [b1 EXCEPT !.spliced = FALSE]
             s2 == [s1 EXCEPT !.urb[u] = b2]
             c == complete(s2, u)
             b3 == [c.urb[u] EXCEPT !.done = c.urb[u].done \/ s1.urb[u].spliced,
                                    !.status = IF c.urb[u].hcpriv THEN c.urb[u].status ELSE "none"]
             t == [c EXCEPT !.urb[u] = b3]
  <1>1. b \in UrbType
    BY DEF Data
  <1>2. /\ b1 \in UrbType /\ ~b1.hcpriv /\ b1.cnt = 0 /\ ~b1.del /\ b1.spliced = b.spliced
        /\ b1.done = b.done /\ b1.bound = b.bound /\ b1.freed = b.freed
    <2> DEFINE x == IF b.status = "prog" THEN "ok" ELSE b.status
               b0 == [b EXCEPT !.hcpriv = FALSE, !.cnt = 0, !.del = FALSE]
    <2>1. x \in Statuses
      BY <1>1 DEF UrbType, Statuses
    <2>2. b1 = [b0 EXCEPT !.status = x]
      OBVIOUS
    <2>3. /\ b0 \in UrbType /\ ~b0.hcpriv /\ b0.cnt = 0 /\ ~b0.del /\ b0.spliced = b.spliced
          /\ b0.done = b.done /\ b0.bound = b.bound /\ b0.freed = b.freed
      BY <1>1 DEF UrbType
    <2> HIDE DEF x, b0, b1, b
    <2> QED
      BY <2>1, <2>2, <2>3 DEF UrbType
  <1>3. finish_urb(s, u) = usb_hcd_giveback_urb(s1, u)
    BY DEF finish_urb
  <1>4. s1.urb[u] = b1 /\ Rewrites(s, s1, u) /\ Data(s1)
    <2> HIDE DEF b1
    <2> QED
      BY <1>2, RewritesIt
  <1>5. s2 = [s1 EXCEPT !.urb[u].spliced = FALSE]
    <2> HIDE DEF s1, b1
    <2> QED
      BY <1>4
  <1>6. t = usb_hcd_giveback_urb(s1, u)
    <2> HIDE DEF s1, b1, b2, s2
    <2> QED
      BY <1>5 DEF usb_hcd_giveback_urb
  <1> HIDE DEF b1, s1
  <1>7. /\ b2 \in UrbType /\ ~b2.hcpriv /\ b2.cnt = 0 /\ ~b2.del /\ ~b2.spliced
        /\ b2.done = b.done /\ b2.bound = b.bound /\ b2.freed = b.freed
    <2> HIDE DEF b
    <2> QED
      BY <1>2 DEF UrbType
  <1> HIDE DEF b2
  <1>8. s2.urb[u] = b2 /\ Rewrites(s1, s2, u) /\ Data(s2)
    BY <1>4, <1>7, RewritesIt
  <1> HIDE DEF s2
  <1>9. Rewrites(s, s2, u)
    BY <1>4, <1>8 DEF Rewrites, Keeps, Around
  \* What the completion function does.
  <1>10. \/ Refuses(s2, c, u) /\ ~c.urb[u].hcpriv /\ u # Ctl
         \/ u = Ctl /\ Rewrites(s2, c, u) /\ c.urb[u] = [b2 EXCEPT !.done = TRUE]
         \/ u # Ctl /\ Accepts(s2, u) /\ Submits(s2, c, u)
    <2>1. CASE u = Ctl
      <3> DEFINE d == [b2 EXCEPT !.done = TRUE]
      <3>1. d \in UrbType
        BY <1>7 DEF UrbType
      <3>2. c = [s2 EXCEPT !.urb[u] = d]
        BY <1>8, <2>1 DEF complete
      <3> HIDE DEF c, d
      <3>3. Rewrites(s2, c, u) /\ c.urb[u] = d
        BY <1>8, <3>1, <3>2, RewritesIt
      <3> QED
        BY <2>1, <3>3 DEF d
    <2>2. CASE u # Ctl
      <3>1. c \in {s2, usb_submit_urb(s2, u)}
        BY <2>2 DEF complete
      <3>2. CASE c = s2
        <4>1. Refuses(s2, c, u) /\ ~c.urb[u].hcpriv
          BY <1>7, <1>8, <3>2 DEF Refuses, Rewrites, Keeps, Around
        <4> QED
          BY <2>2, <4>1
      <3>3. CASE c = usb_submit_urb(s2, u)
        <4>1. IF Accepts(s2, u) THEN Submits(s2, c, u) ELSE Refuses(s2, c, u)
          BY <1>8, <3>3, SubmitUrb
        <4>2. Refuses(s2, c, u) => ~c.urb[u].hcpriv
          BY <1>7, <1>8 DEF Refuses
        <4> QED
          BY <2>2, <4>1, <4>2
      <3> QED
        BY <3>1, <3>2, <3>3
    <2> QED
      BY <2>1, <2>2
  <1> HIDE DEF c
  <1>11. Keeps(s, c, u) /\ Data(c)
    BY <1>9, <1>10 DEF Refuses, Rewrites, Submits, Keeps, Around
  <1>12. c.urb[u] \in UrbType
    BY <1>11 DEF Data
  <1>13. s1.urb[u].spliced = b.spliced /\ b.spliced \in BOOLEAN
    BY <1>1, <1>2, <1>4 DEF UrbType
  <1>14. /\ b3 \in UrbType /\ b3.hcpriv = c.urb[u].hcpriv /\ b3.cnt = c.urb[u].cnt /\ b3.del = c.urb[u].del
         /\ b3.bound = c.urb[u].bound /\ b3.freed = c.urb[u].freed /\ b3.spliced = c.urb[u].spliced
         /\ b3.done <=> c.urb[u].done \/ b.spliced
         /\ b3.status = IF c.urb[u].hcpriv THEN c.urb[u].status ELSE "none"
    <2> DEFINE x == IF c.urb[u].hcpriv THEN c.urb[u].status ELSE "none"
               y == c.urb[u].done \/ s1.urb[u].spliced
               w == c.urb[u]
    <2>1. x \in Statuses /\ y \in BOOLEAN /\ (y <=> w.done \/ b.spliced)
      BY <1>12, <1>13 DEF UrbType, Statuses
    <2>2. b3 = [w EXCEPT !.done = y, !.status = x]
      OBVIOUS
    <2>3. w \in UrbType
      BY <1>12
    <2> HIDE DEF x, y, b3, w, b
    <2>4. /\ b3 \in UrbType /\ b3.hcpriv = w.hcpriv /\ b3.cnt = w.cnt /\ b3.del = w.del
          /\ b3.bound = w.bound /\ b3.freed = w.freed /\ b3.spliced = w.spliced
          /\ b3.done = y /\ b3.status = x
      BY <2>1, <2>2, <2>3 DEF UrbType
    <2> QED
      BY <2>1, <2>4 DEF x, w
  <1> HIDE DEF b3
  <1>15. t.urb[u] = b3 /\ Rewrites(c, t, u) /\ Data(t)
    BY <1>11, <1>14, RewritesIt
  <1> HIDE DEF t
  <1>16. Keeps(s, t, u)
    BY <1>11, <1>15 DEF Rewrites, Keeps, Around
  <1>17. t.ed = c.ed /\ t.ctl = c.ctl /\ t.cle = c.cle
    BY <1>15 DEF Rewrites
  <1>18. s2.ed = s.ed /\ s2.ctl = s.ctl /\ s2.cle = s.cle /\ s2.dev = s.dev /\ s2.disabled = s.disabled
    BY <1>9 DEF Rewrites, Keeps, Around
  <1>19. CASE Refuses(s2, c, u) /\ ~c.urb[u].hcpriv /\ u # Ctl
    <2>1. /\ c.urb[u].cnt = 0 /\ ~c.urb[u].del /\ c.urb[u].bound = b.bound /\ c.urb[u].freed = b.freed
          /\ ~c.urb[u].spliced /\ c.urb[u].done = b.done
          /\ c.ed = s.ed /\ c.ctl = s.ctl /\ c.cle = s.cle
      BY <1>7, <1>8, <1>18, <1>19 DEF Refuses, Rewrites
    <2>2. Finishes(s, t, u)
      BY <1>14, <1>15, <1>16, <1>17, <1>19, <2>1 DEF Finishes
    <2> QED
      BY <1>3, <1>6, <2>2
  <1>20. CASE u = Ctl /\ Rewrites(s2, c, u) /\ c.urb[u] = [b2 EXCEPT !.done = TRUE]
    <2>1. /\ c.urb[u].cnt = 0 /\ ~c.urb[u].del /\ c.urb[u].bound = b.bound /\ c.urb[u].freed = b.freed
          /\ ~c.urb[u].spliced /\ c.urb[u].done /\ ~c.urb[u].hcpriv
      BY <1>7, <1>20 DEF UrbType
    <2>2. c.ed = s.ed /\ c.ctl = s.ctl /\ c.cle = s.cle
      BY <1>18, <1>20 DEF Rewrites
    <2>3. Finishes(s, t, u)
      BY <1>14, <1>15, <1>16, <1>17, <1>20, <2>1, <2>2 DEF Finishes
    <2> QED
      BY <1>3, <1>6, <2>3
  <1>21. CASE u # Ctl /\ Accepts(s2, u) /\ Submits(s2, c, u)
    <2>1. s2.dev[u] = "here" /\ ~s2.disabled
      BY <1>21 DEF Accepts
    <2>2. /\ c.urb[u].hcpriv /\ c.urb[u].status = "prog" /\ c.urb[u].cnt = 0 /\ ~c.urb[u].del
          /\ c.urb[u].bound = b.bound /\ c.urb[u].freed = b.freed
          /\ ~c.urb[u].spliced /\ c.urb[u].done = b.done
      BY <1>7, <1>8, <1>21 DEF Submits
    <2>3. (c.ctl <=> s.ctl) /\ (c.cle <=> s.cle)
      BY <1>18, <1>21 DEF Submits
    <2>4. c.ctl = s.ctl /\ c.cle = s.cle
      BY <1>11, <2>3 DEF Data
    <2>5. /\ t.ed[u].list = 1 .. Length(u) /\ t.ed[u].head = 1 /\ t.ed[u].tds = {}
          /\ t.ed[u].bad = 0 /\ t.ed[u].cc = "ok"
          /\ t.ed[u].state = IF s.ed[u].state \in {"none", "IDLE"} THEN "OPER" ELSE s.ed[u].state
          /\ t.ed[u].halt => s.ed[u].halt
          /\ s.ed[u].state # "none" => t.ed[u].skip = s.ed[u].skip /\ t.ed[u].dequeue = s.ed[u].dequeue
      BY <1>17, <1>18, <1>21 DEF Submits
    <2>6. /\ t.urb[u].hcpriv /\ t.urb[u].status = "prog" /\ t.urb[u].cnt = 0 /\ ~t.urb[u].del
          /\ t.urb[u].bound = b.bound /\ t.urb[u].freed = b.freed
          /\ ~t.urb[u].spliced /\ (t.urb[u].done <=> b.done \/ b.spliced)
      BY <1>14, <1>15, <2>2
    <2>7. Finishes(s, t, u)
      BY <1>16, <1>17, <1>18, <1>21, <2>1, <2>4, <2>5, <2>6 DEF Finishes
    <2> QED
      BY <1>3, <1>6, <2>7
  <1> QED
    BY <1>10, <1>19, <1>20, <1>21

\* What an operation that does not unlink leaves alone, the device aside.
Stays(s, t, u) == Around(s, t, u) /\ t.rm = s.rm /\ t.tick = s.tick /\ t.stale = s.stale

TakesTds(s, t, u, S) ==
  /\ Stays(s, t, u) /\ t.ctl = s.ctl /\ t.cle = s.cle
  /\ t.ed[u] = [s.ed[u] EXCEPT !.list = s.ed[u].list \ S]
  /\ t.dev[u] = s.dev[u] \/ (u # Ctl /\ s.dev[u] = "here" /\ t.dev[u] = "halted")
  /\ t.urb[u].cnt = s.urb[u].cnt + Cardinality(S)
  /\ t.urb[u].status = IF s.ed[u].bad \in S /\ s.urb[u].status = "prog" THEN "err" ELSE s.urb[u].status
  /\ t.urb[u].hcpriv = s.urb[u].hcpriv /\ t.urb[u].del = s.urb[u].del
  /\ t.urb[u].bound = s.urb[u].bound /\ t.urb[u].freed = s.urb[u].freed
  /\ t.urb[u].spliced = s.urb[u].spliced /\ t.urb[u].done = s.urb[u].done

LEMMA TdDone ==
  ASSUME NEW s, Data(s), NEW u \in Urb, NEW S \in SUBSET TdNumbers
  PROVE  TakesTds(s, td_done(s, u, S), u, S)
  <1> DEFINE b == s.urb[u]
             e == s.ed[u]
             l == e.list \ S
             c == b.cnt + Cardinality(S)
             x == IF b.status = "prog" THEN "err" ELSE b.status
             y == IF e.cc = "stall" /\ u # Ctl /\ s.dev[u] = "here" THEN "halted" ELSE s.dev[u]
             b1 == [b EXCEPT !.cnt = c]
             e1 == [e EXCEPT !.list = l]
             b2 == [b1 EXCEPT !.status = x]
             t1 == [s EXCEPT !.ed[u].list = e.list \ S, !.urb[u].cnt = c]
             t == td_done(s, u, S)
  <1>1. b \in UrbType /\ e \in EdType /\ s.dev[u] \in {"none", "here", "halted", "gone"}
    BY DEF Data
  <1>2. c \in Nat /\ l \in SUBSET TdNumbers /\ x \in Statuses
    <2>1. b.cnt \in Nat /\ e.list \in SUBSET TdNumbers /\ b.status \in Statuses
      BY <1>1 DEF UrbType, EdType
    <2> HIDE DEF b, e
    <2> QED
      BY <2>1, Finite DEF Statuses
  <1>3. t = IF e.bad \notin S THEN t1
            ELSE [t1 EXCEPT !.urb[u].status = IF t1.urb[u].status = "prog" THEN "err" ELSE t1.urb[u].status,
                            !.dev[u] = y]
    <2> HIDE DEF e, b
    <2>1. t1.dev[u] = s.dev[u]
      BY DEF Data
    <2> HIDE DEF t1
    <2>2. t = IF s.ed[u].bad \notin S THEN t1
              ELSE [t1 EXCEPT !.urb[u].status = IF t1.urb[u].status = "prog" THEN "err" ELSE t1.urb[u].status,
                              !.dev[u] = IF s.ed[u].cc = "stall" /\ u # Ctl /\ t1.dev[u] = "here"
                                         THEN "halted" ELSE t1.dev[u]]
      BY DEF td_done, t1, b, e
    <2> QED
      BY <2>1, <2>2 DEF e
  <1>4. t1 = [s EXCEPT !.urb = [s.urb EXCEPT ![u] = b1], !.ed = [s.ed EXCEPT ![u] = e1]]
    <2> HIDE DEF c, l
    <2> QED
      BY DEF Data, l
  <1> HIDE DEF c, l, x
  <1>5. /\ b1 \in UrbType /\ b1.cnt = c /\ b1.status = b.status /\ b1.hcpriv = b.hcpriv /\ b1.del = b.del
        /\ b1.bound = b.bound /\ b1.freed = b.freed /\ b1.spliced = b.spliced /\ b1.done = b.done
    <2> HIDE DEF b
    <2> QED
      BY <1>1, <1>2 DEF UrbType
  <1>6. e1 \in EdType
    <2> HIDE DEF e
    <2> QED
      BY <1>1, <1>2 DEF EdType
  <1> HIDE DEF b1, e1, t1
  <1>7. t1 = WithUrb(s, u, b1, e1)
    BY <1>4 DEF WithUrb
  <1>8. UrbChanged(s, t1, u, b1, e1)
    BY <1>5, <1>6, <1>7, UrbChanges
  <1>9. /\ b2 \in UrbType /\ b2.cnt = c /\ b2.status = x /\ b2.hcpriv = b.hcpriv /\ b2.del = b.del
        /\ b2.bound = b.bound /\ b2.freed = b.freed /\ b2.spliced = b.spliced /\ b2.done = b.done
    <2> HIDE DEF b
    <2> QED
      BY <1>2, <1>5 DEF UrbType
  <1>10. e1 = [s.ed[u] EXCEPT !.list = s.ed[u].list \ S] /\ c = s.urb[u].cnt + Cardinality(S)
    BY DEF e1, l, c
  <1>11. CASE e.bad \notin S
    <2>1. t = t1
      BY <1>3, <1>11
    <2> HIDE DEF t
    <2>2. TakesTds(s, t, u, S)
      BY <1>5, <1>8, <1>10, <1>11, <2>1 DEF TakesTds, UrbChanged, Stays, Keeps
    <2> QED
      BY <2>2 DEF t
  <1>12. CASE e.bad \in S
    <2> DEFINE urb == [t1.urb EXCEPT ![u] = b2]
               dev == [t1.dev EXCEPT ![u] = y]
    <2>1. t1.urb[u] = b1 /\ t1.ed[u] = e1 /\ Data(t1) /\ t1.dev = s.dev /\ t1.ctl = s.ctl /\ t1.cle = s.cle
      BY <1>8 DEF UrbChanged, Keeps, Around
    <2>2. t = [t1 EXCEPT !.urb = urb, !.dev = dev]
      <3>1. (IF t1.urb[u].status = "prog" THEN "err" ELSE t1.urb[u].status) = x
        BY <1>5, <2>1 DEF x
      <3>2. t = [t1 EXCEPT !.urb[u].status = x, !.dev[u] = y]
        BY <1>3, <1>12, <3>1
      <3> HIDE DEF y, t
      <3> QED
        BY <2>1, <3>2 DEF Data, b2
    <2>3. y \in {"none", "here", "halted", "gone"} /\ (y = s.dev[u] \/ (u # Ctl /\ s.dev[u] = "here" /\ y = "halted"))
      BY <1>1
    <2> HIDE DEF y, b2, t
    <2>4. /\ urb \in [Urb -> UrbType] /\ urb[u] = b2 /\ \A v \in Urb \ {u} : urb[v] = t1.urb[v]
          /\ dev \in [Urb -> {"none", "here", "halted", "gone"}] /\ dev[u] = y
          /\ \A v \in Urb \ {u} : dev[v] = t1.dev[v]
      BY <1>9, <2>1, <2>3 DEF Data
    <2> HIDE DEF urb, dev
    <2>5. /\ Data(t) /\ t.ed = t1.ed /\ t.urb = urb /\ t.dev = dev /\ t.rm = t1.rm /\ t.tick = t1.tick
          /\ t.stale = t1.stale /\ t.disabled = t1.disabled /\ t.ctl = t1.ctl /\ t.cle = t1.cle
      BY <2>1, <2>2, <2>4 DEF Data
    <2>6. Stays(s, t, u)
      BY <1>8, <2>4, <2>5 DEF Stays, UrbChanged, Keeps, Around
    <2>7. TakesTds(s, t, u, S)
      BY <1>9, <1>10, <1>12, <2>1, <2>3, <2>4, <2>5, <2>6 DEF TakesTds, x
    <2> QED
      BY <2>7 DEF t
  <1> QED
    BY <1>11, <1>12

Unlinking(s, t, u) ==
  /\ Around(s, t, u) /\ t.dev = s.dev /\ t.stale = s.stale /\ t.urb = s.urb
  /\ t.ed[u] = [s.ed[u] EXCEPT !.dequeue = TRUE, !.state = "UNLINK", !.skip = TRUE]
  /\ t.rm = <<u>> \o s.rm /\ t.tick = s.tick \cup {u}
  /\ t.ctl <=> s.ctl /\ u # Ctl
  /\ u # Ctl => t.cle = s.cle

LEMMA StartUnlink ==
  ASSUME NEW s, Data(s), NEW u \in Urb
  PROVE  Unlinking(s, start_urb_unlink(s, u), u)
  <1> DEFINE e == s.ed[u]
             e1 == [e EXCEPT !.dequeue = TRUE, !.state = "UNLINK"]
             p == [s EXCEPT !.ed[u] = [s.ed[u] EXCEPT !.dequeue = TRUE, !.state = "UNLINK"]]
             d == ed_deschedule(p, u)
             t == start_urb_unlink(s, u)
             rm == <<u>> \o d.rm
             tick == d.tick \cup {u}
  <1>1. e \in EdType /\ s.ctl \in BOOLEAN /\ s.cle \in BOOLEAN
    BY DEF Data
  <1>2. e1 \in EdType /\ e1.state = "UNLINK"
    <2> HIDE DEF e
    <2> QED
      BY <1>1 DEF EdType
  <1>3. p = WithEd(s, u, e1, s.tree, s.ctl, s.cle)
    <2>1. p = [s EXCEPT !.ed = [s.ed EXCEPT ![u] = e1]]
      OBVIOUS
    <2> HIDE DEF p, e1
    <2> QED
      BY <2>1 DEF WithEd, Data
  <1> HIDE DEF e1, p
  <1>4. EdChanged(s, p, u, e1, s.ctl, s.cle)
    BY <1>1, <1>2, <1>3, EdChanges
  <1>5. Data(p) /\ p.ed[u] = e1
    BY <1>4 DEF EdChanged, Keeps, Around
  <1>6. Deschedules(p, d, u)
    BY <1>5, EdDeschedule
  <1>7. t = [d EXCEPT !.rm = rm, !.tick = tick]
    BY DEF start_urb_unlink, p
  <1> HIDE DEF d, t
  <1>8. /\ Keeps(s, d, u) /\ d.urb = s.urb /\ d.ed[u] = [e1 EXCEPT !.skip = TRUE]
        /\ d.ctl <=> s.ctl /\ u # Ctl
        /\ u # Ctl => d.cle = s.cle
    BY <1>2, <1>4, <1>6 DEF Deschedules, EdChanged, Keeps, Around
  <1>9. rm \in Seq(Urb) /\ tick \in SUBSET Urb /\ Data(d)
    BY <1>8 DEF Keeps, Around, Data
  <1>10. rm = <<u>> \o s.rm /\ tick = s.tick \cup {u}
    BY <1>8 DEF Keeps
  <1> HIDE DEF rm, tick
  <1>11. /\ Data(t) /\ t.ed = d.ed /\ t.urb = d.urb /\ t.dev = d.dev /\ t.rm = rm /\ t.tick = tick
         /\ t.stale = d.stale /\ t.disabled = d.disabled /\ t.ctl = d.ctl /\ t.cle = d.cle
    BY <1>7, <1>9 DEF Data
  <1>12. t.ed[u] = [s.ed[u] EXCEPT !.dequeue = TRUE, !.state = "UNLINK", !.skip = TRUE]
    BY <1>8, <1>11 DEF e1
  <1> QED
    BY <1>8, <1>10, <1>11, <1>12 DEF Unlinking, Keeps, Around, t

\* ohci_urb_dequeue() of a controller that is alive.
Sheds(s, t, u) ==
  /\ Around(s, t, u) /\ t.dev = s.dev /\ t.stale = s.stale
  /\ IF s.ed[u].state = "OPER"
     THEN /\ t.ed[u] = [s.ed[u] EXCEPT !.dequeue = TRUE, !.state = "UNLINK", !.skip = TRUE]
          /\ t.rm = <<u>> \o s.rm /\ t.tick = s.tick \cup {u}
          /\ t.ctl <=> s.ctl /\ u # Ctl
          /\ u # Ctl => t.cle = s.cle
     ELSE /\ t.ed[u] = s.ed[u] /\ t.rm = s.rm /\ t.tick = s.tick /\ t.ctl = s.ctl /\ t.cle = s.cle
Dequeues(s, t, u) == Sheds(s, t, u) /\ t.urb[u] = [s.urb[u] EXCEPT !.del = TRUE]

LEMMA Dequeue ==
  ASSUME NEW s, Data(s), NEW u \in Urb
  PROVE  IF s.disabled THEN Finishes(s, ohci_urb_dequeue(s, u), u) ELSE Dequeues(s, ohci_urb_dequeue(s, u), u)
  <1> DEFINE t == ohci_urb_dequeue(s, u)
  <1>1. CASE s.disabled
    BY <1>1, FinishUrb DEF ohci_urb_dequeue
  <1>2. CASE ~s.disabled
    <2> DEFINE b == [s.urb[u] EXCEPT !.del = TRUE]
               p == [s EXCEPT !.urb[u] = b]
    <2>1. b \in UrbType
      <3>1. s.urb[u] \in UrbType
        BY DEF Data
      <3> QED
        BY <3>1 DEF UrbType
    <2>2. t = IF s.ed[u].state = "OPER" THEN start_urb_unlink(p, u) ELSE p
      BY <1>2 DEF ohci_urb_dequeue
    <2> HIDE DEF b, t
    <2>3. Rewrites(s, p, u) /\ Data(p) /\ p.urb[u] = b
      BY <2>1, RewritesIt
    <2> HIDE DEF p
    <2>4. /\ Around(s, p, u) /\ p.dev = s.dev /\ p.stale = s.stale /\ p.rm = s.rm /\ p.tick = s.tick
          /\ p.ed = s.ed /\ p.ctl = s.ctl /\ p.cle = s.cle
      BY <2>3 DEF Rewrites, Keeps
    <2>5. CASE s.ed[u].state = "OPER"
      <3>1. Unlinking(p, t, u)
        BY <2>2, <2>3, <2>5, StartUnlink
      <3>2. Around(s, t, u)
        BY <2>4, <3>1 DEF Unlinking, Around
      <3>3. Dequeues(s, t, u)
        BY <2>3, <2>4, <2>5, <3>1, <3>2 DEF Unlinking, Sheds, Dequeues, b
      <3> QED
        BY <1>2, <3>3 DEF t
    <2>6. CASE s.ed[u].state # "OPER"
      <3>1. Dequeues(s, t, u)
        BY <2>2, <2>3, <2>4, <2>6 DEF Sheds, Dequeues, b
      <3> QED
        BY <1>2, <3>1 DEF t
    <2> QED
      BY <2>5, <2>6
  <1> QED
    BY <1>1, <1>2

Frees(s, t, u) ==
  /\ Rewrites(s, t, u)
  /\ t.urb[u] = IF s.urb[u].hcpriv THEN [s.urb[u] EXCEPT !.freed = TRUE, !.bound = FALSE]
                ELSE [FreshUrb EXCEPT !.freed = TRUE]

LEMMA FreshUrbType == FreshUrb \in UrbType /\ [FreshUrb EXCEPT !.freed = TRUE] \in UrbType
  BY DEF FreshUrb, UrbType, Statuses

LEMMA FreeUrb ==
  ASSUME NEW s, Data(s), NEW u \in Urb
  PROVE  Frees(s, usb_free_urb(s, u), u)
  <1> DEFINE b == IF s.urb[u].hcpriv THEN [s.urb[u] EXCEPT !.freed = TRUE, !.bound = FALSE]
                  ELSE [FreshUrb EXCEPT !.freed = TRUE]
             t == usb_free_urb(s, u)
  <1>1. b \in UrbType
    <2>1. s.urb[u] \in UrbType
      BY DEF Data
    <2>2. [s.urb[u] EXCEPT !.freed = TRUE, !.bound = FALSE] \in UrbType
      BY <2>1 DEF UrbType
    <2> QED
      BY <2>2, FreshUrbType
  <1>2. t = [s EXCEPT !.urb[u] = b]
    BY DEF usb_free_urb
  <1> HIDE DEF b, t
  <1>3. Rewrites(s, t, u) /\ t.urb[u] = b
    BY <1>1, <1>2, RewritesIt
  <1> QED
    BY <1>3 DEF Frees, b, t

-----------------------------------------------------------------------------
(* What the interrupt handler does to it.                                  *)

LEMMA Ends ==
  ASSUME NEW S \in SUBSET TdNumbers, S # {}
  PROVE  /\ FirstTd(S) \in S /\ \A i \in S : FirstTd(S) <= i
         /\ LastTd(S) \in S /\ \A i \in S : i <= LastTd(S)
  <1>1. \A i \in S : i = 1 \/ i = 2 \/ i = 3
    BY DEF TdNumbers
  <1>2. \E i \in S : \A j \in S : i <= j
    <2>1. CASE 1 \in S
      BY <1>1, <2>1
    <2>2. CASE 1 \notin S /\ 2 \in S
      BY <1>1, <2>2
    <2>3. CASE 1 \notin S /\ 2 \notin S
      BY <1>1, <2>3
    <2> QED
      BY <2>1, <2>2, <2>3
  <1>3. \E i \in S : \A j \in S : j <= i
    <2>1. CASE 3 \in S
      BY <1>1, <2>1
    <2>2. CASE 3 \notin S /\ 2 \in S
      BY <1>1, <2>2
    <2>3. CASE 3 \notin S /\ 2 \notin S
      BY <1>1, <2>3
    <2> QED
      BY <2>1, <2>2, <2>3
  <1> QED
    BY <1>2, <1>3 DEF FirstTd, LastTd

Unskips(s, t, u) ==
  /\ Keeps(s, t, u) /\ t.urb = s.urb /\ t.ctl = s.ctl /\ t.cle = s.cle
  /\ t.ed[u] = IF ~s.ed[u].dequeue /\ FirstTd(s.ed[u].list) \notin s.ed[u].tds
               THEN [s.ed[u] EXCEPT !.skip = FALSE] ELSE s.ed[u]

LEMMA UnskipsIt ==
  ASSUME NEW s, Data(s), NEW u \in Urb
  PROVE  Unskips(s, Unskip(s, u), u)
  <1> DEFINE t == Unskip(s, u)
             e == [s.ed[u] EXCEPT !.skip = FALSE]
  <1>1. CASE ~s.ed[u].dequeue /\ FirstTd(s.ed[u].list) \notin s.ed[u].tds
    <2>1. e \in EdType /\ s.ctl \in BOOLEAN /\ s.cle \in BOOLEAN
      <3>1. s.ed[u] \in EdType /\ s.ctl \in BOOLEAN /\ s.cle \in BOOLEAN
        BY DEF Data
      <3> QED
        BY <3>1 DEF EdType
    <2>2. t = [s EXCEPT !.ed = [s.ed EXCEPT ![u] = e]]
      BY <1>1 DEF Unskip
    <2> HIDE DEF t, e
    <2>3. t = WithEd(s, u, e, s.tree, s.ctl, s.cle)
      BY <2>2 DEF WithEd, Data
    <2>4. EdChanged(s, t, u, e, s.ctl, s.cle)
      BY <2>1, <2>3, EdChanges
    <2> QED
      BY <1>1, <2>4 DEF EdChanged, Unskips, e, t
  <1>2. CASE ~(~s.ed[u].dequeue /\ FirstTd(s.ed[u].list) \notin s.ed[u].tds)
    BY <1>2 DEF Unskip, Unskips, Keeps, Around
  <1> QED
    BY <1>1, <1>2

\* One TD of u is done.
DoneOne(s, t, u, i) ==
  LET L == s.ed[u].list \ {i}
      b == t.urb[u]
      e == t.ed[u]
  IN
  /\ b.bound = s.urb[u].bound /\ b.freed = s.urb[u].freed
  /\ L # {} =>
       /\ t.ctl = s.ctl /\ t.cle = s.cle
       /\ t.dev[u] = s.dev[u] \/ (u # Ctl /\ s.dev[u] = "here" /\ t.dev[u] = "halted")
       /\ b.cnt = s.urb[u].cnt + 1
       /\ b.status = IF s.ed[u].bad = i /\ s.urb[u].status = "prog" THEN "err" ELSE s.urb[u].status
       /\ b.hcpriv = s.urb[u].hcpriv /\ b.del = s.urb[u].del
       /\ b.spliced = s.urb[u].spliced /\ b.done = s.urb[u].done
       /\ e.list = L /\ e.state = s.ed[u].state /\ e.halt = s.ed[u].halt /\ e.dequeue = s.ed[u].dequeue
       /\ e.head = s.ed[u].head /\ e.tds = s.ed[u].tds /\ e.bad = s.ed[u].bad
       /\ e.skip <=> s.ed[u].skip /\ (s.ed[u].dequeue \/ FirstTd(L) \in s.ed[u].tds)
  /\ L = {} =>
       /\ ~b.spliced /\ ~b.del /\ b.cnt = 0
       /\ b.done <=> s.urb[u].done \/ s.urb[u].spliced \/ u = Ctl
       /\ t.dev[u] = s.dev[u] \/ (u # Ctl /\ s.dev[u] = "here" /\ t.dev[u] = "halted")
       /\ b.hcpriv =>
            /\ u # Ctl /\ s.dev[u] = "here" /\ t.dev[u] = "here" /\ ~s.disabled /\ b.status = "prog"
            /\ e.list = 1 .. Length(u) /\ e.head = 1 /\ e.tds = {} /\ e.bad = 0
            /\ e.state = s.ed[u].state /\ e.dequeue = s.ed[u].dequeue
            /\ e.halt => s.ed[u].halt
            /\ e.skip <=> s.ed[u].skip /\ s.ed[u].dequeue
            /\ t.ctl = s.ctl /\ t.cle = s.cle
       /\ ~b.hcpriv =>
            /\ b.status = "none"
            /\ s.ed[u].state = "OPER" => e = [FreshEd EXCEPT !.state = "IDLE"]
            /\ s.ed[u].state = "UNLINK" => /\ e.list = {} /\ e.state = "UNLINK" /\ e.skip
                                           /\ e.dequeue = s.ed[u].dequeue /\ e.halt = s.ed[u].halt
            /\ t.ctl <=> s.ctl /\ u # Ctl
            /\ u # Ctl => t.cle = s.cle

LEMMA DoneStep ==
  ASSUME NEW s, Data(s), NEW u \in Urb, NEW i \in TdNumbers
  PROVE  /\ Stays(s, dl_done_list(s, <<u, i>>), u)
         /\ /\ i \in s.ed[u].list /\ s.urb[u].cnt + Cardinality(s.ed[u].list) = Length(u)
            /\ s.ed[u].state \in {"OPER", "UNLINK"}
            => DoneOne(s, dl_done_list(s, <<u, i>>), u, i)
  <1> DEFINE t == td_done(s, u, {i})
             f == IF Finished(t, u) THEN finish_urb(t, u) ELSE t
             r == IF f.ed[u].list = {} THEN ed_deschedule(f, u) ELSE Unskip(f, u)
  <1>1. r = dl_done_list(s, <<u, i>>)
    BY DEF dl_done_list
  <1>2. TakesTds(s, t, u, {i}) /\ Data(t)
    <2>1. {i} \in SUBSET TdNumbers
      OBVIOUS
    <2>2. TakesTds(s, t, u, {i})
      BY <2>1, TdDone
    <2> HIDE DEF t
    <2> QED
      BY <2>2 DEF TakesTds, Stays, Around
  <1>3. Cardinality({i}) = 1
    BY FS_Singleton
  <1> HIDE DEF t
  <1>4. IF Finished(t, u) THEN Finishes(t, f, u) ELSE f = t
    BY <1>2, FinishUrb
  <1> HIDE DEF f
  <1>5. Stays(s, f, u) /\ Data(f)
    BY <1>2, <1>4 DEF TakesTds, Finishes, Stays, Keeps, Around
  <1>6. IF f.ed[u].list = {} THEN Deschedules(f, r, u) ELSE Unskips(f, r, u)
    BY <1>5, EdDeschedule, UnskipsIt
  <1> HIDE DEF r
  <1>7. Stays(s, r, u) /\ Data(r) /\ r.urb = f.urb /\ r.dev = f.dev
    BY <1>5, <1>6 DEF Deschedules, Unskips, Stays, Keeps, Around
  <1>8. ASSUME i \in s.ed[u].list, s.urb[u].cnt + Cardinality(s.ed[u].list) = Length(u),
               s.ed[u].state \in {"OPER", "UNLINK"}
        PROVE  DoneOne(s, r, u, i)
    <2> DEFINE L == s.ed[u].list \ {i}
    <2>1. s.ed[u] \in EdType /\ s.urb[u] \in UrbType /\ s.ed[u].list \in SUBSET TdNumbers /\ s.urb[u].cnt \in Nat
      <3>1. s.ed[u] \in EdType /\ s.urb[u] \in UrbType
        BY DEF Data
      <3> QED
        BY <3>1 DEF EdType, UrbType
    <2>2. Length(u) \in Nat
      BY Lengths DEF TdNumbers
    <2>3. IsFiniteSet(s.ed[u].list) /\ Cardinality(s.ed[u].list) \in Nat
      BY <2>1, Finite
    <2>4. Cardinality(L) = Cardinality(s.ed[u].list) - 1
      BY <1>8, <2>3, FS_RemoveElement
    <2>5. L \in SUBSET TdNumbers /\ Cardinality(L) \in Nat /\ (Cardinality(L) = 0 <=> L = {})
      BY <2>1, Finite
    <2>6. t.urb[u].cnt = s.urb[u].cnt + 1
      BY <1>2, <1>3 DEF TakesTds
    <2>7. Finished(t, u) <=> L = {}
      BY <1>8, <2>1, <2>2, <2>3, <2>4, <2>5, <2>6 DEF Finished
    <2>8. /\ t.ed[u].list = L /\ t.ed[u].state = s.ed[u].state /\ t.ed[u].halt = s.ed[u].halt
          /\ t.ed[u].dequeue = s.ed[u].dequeue /\ t.ed[u].head = s.ed[u].head /\ t.ed[u].tds = s.ed[u].tds
          /\ t.ed[u].bad = s.ed[u].bad /\ t.ed[u].skip = s.ed[u].skip
      <3> HIDE DEF L
      <3>1. t.ed[u] = [s.ed[u] EXCEPT !.list = L]
        BY <1>2 DEF TakesTds, L
      <3> QED
        BY <2>1, <3>1 DEF EdType
    <2> HIDE DEF L
    <2>9. CASE L # {}
      <3>1. f = t
        BY <1>4, <2>7, <2>9
      <3>2. Unskips(t, r, u)
        BY <1>6, <2>8, <2>9, <3>1
      <3>3. r.ed[u] = IF ~t.ed[u].dequeue /\ FirstTd(L) \notin t.ed[u].tds
                      THEN [t.ed[u] EXCEPT !.skip = FALSE] ELSE t.ed[u]
        BY <2>8, <3>2 DEF Unskips
      <3>4. t.ed[u] \in EdType
        BY <1>2 DEF Data
      <3>5. /\ r.ed[u].list = L /\ r.ed[u].state = s.ed[u].state /\ r.ed[u].halt = s.ed[u].halt
            /\ r.ed[u].dequeue = s.ed[u].dequeue /\ r.ed[u].head = s.ed[u].head /\ r.ed[u].tds = s.ed[u].tds
            /\ r.ed[u].bad = s.ed[u].bad
            /\ r.ed[u].skip <=> s.ed[u].skip /\ (s.ed[u].dequeue \/ FirstTd(L) \in s.ed[u].tds)
        BY <2>8, <3>3, <3>4 DEF EdType
      <3>6. /\ r.ctl = s.ctl /\ r.cle = s.cle
            /\ r.dev[u] = s.dev[u] \/ (u # Ctl /\ s.dev[u] = "here" /\ r.dev[u] = "halted")
        BY <1>2, <1>7, <3>1, <3>2 DEF Unskips, TakesTds
      <3>7. /\ r.urb[u].bound = s.urb[u].bound /\ r.urb[u].freed = s.urb[u].freed
            /\ r.urb[u].cnt = s.urb[u].cnt + 1
            /\ r.urb[u].status = IF s.ed[u].bad = i /\ s.urb[u].status = "prog" THEN "err" ELSE s.urb[u].status
            /\ r.urb[u].hcpriv = s.urb[u].hcpriv /\ r.urb[u].del = s.urb[u].del
            /\ r.urb[u].spliced = s.urb[u].spliced /\ r.urb[u].done = s.urb[u].done
        BY <1>2, <1>7, <2>6, <3>1 DEF TakesTds
      <3> QED
        BY <2>9, <3>5, <3>6, <3>7 DEF DoneOne, L
    <2>10. CASE L = {}
      <3>1. Finishes(t, f, u)
        BY <1>4, <2>7, <2>10
      <3>2. /\ r.urb[u].bound = s.urb[u].bound /\ r.urb[u].freed = s.urb[u].freed
            /\ ~r.urb[u].spliced /\ ~r.urb[u].del /\ r.urb[u].cnt = 0
            /\ r.urb[u].done <=> s.urb[u].done \/ s.urb[u].spliced \/ u = Ctl
        BY <1>2, <1>7, <3>1 DEF Finishes, TakesTds
      <3>3. /\ r.dev[u] = t.dev[u]
            /\ r.dev[u] = s.dev[u] \/ (u # Ctl /\ s.dev[u] = "here" /\ r.dev[u] = "halted")
        BY <1>2, <1>7, <3>1 DEF Finishes, TakesTds, Keeps
      <3>4. ASSUME r.urb[u].hcpriv
            PROVE  /\ u # Ctl /\ s.dev[u] = "here" /\ r.dev[u] = "here" /\ ~s.disabled /\ r.urb[u].status = "prog"
                   /\ r.ed[u].list = 1 .. Length(u) /\ r.ed[u].head = 1 /\ r.ed[u].tds = {} /\ r.ed[u].bad = 0
                   /\ r.ed[u].state = s.ed[u].state /\ r.ed[u].dequeue = s.ed[u].dequeue
                   /\ r.ed[u].halt => s.ed[u].halt
                   /\ r.ed[u].skip <=> s.ed[u].skip /\ s.ed[u].dequeue
                   /\ r.ctl = s.ctl /\ r.cle = s.cle
        <4>1. /\ u # Ctl /\ t.dev[u] = "here" /\ ~t.disabled /\ f.urb[u].status = "prog"
              /\ f.ed[u].list = 1 .. Length(u) /\ f.ed[u].head = 1 /\ f.ed[u].tds = {} /\ f.ed[u].bad = 0
              /\ f.ed[u].state = s.ed[u].state
              /\ f.ed[u].halt => t.ed[u].halt
              /\ f.ed[u].skip = t.ed[u].skip /\ f.ed[u].dequeue = t.ed[u].dequeue
              /\ f.ctl = t.ctl /\ f.cle = t.cle
          BY <1>7, <1>8, <2>8, <3>1, <3>4 DEF Finishes
        <4>2. f.ed[u].list # {}
          <5>1. Length(u) \in 1 .. 3
            BY Lengths DEF TdNumbers
          <5>2. 1 \in 1 .. Length(u)
            BY <5>1
          <5> QED
            BY <4>1, <5>2
        <4>3. Unskips(f, r, u)
          BY <1>6, <4>2
        <4>4. 1 .. Length(u) \in SUBSET TdNumbers /\ FirstTd(f.ed[u].list) \notin f.ed[u].tds
          BY <4>1, Lengths
        <4>5. f.ed[u] \in EdType
          BY <1>5 DEF Data
        <4>6. r.ed[u] = IF ~f.ed[u].dequeue THEN [f.ed[u] EXCEPT !.skip = FALSE] ELSE f.ed[u]
          BY <4>3, <4>4 DEF Unskips
        <4>7. /\ r.ed[u].list = f.ed[u].list /\ r.ed[u].head = f.ed[u].head /\ r.ed[u].tds = f.ed[u].tds
              /\ r.ed[u].bad = f.ed[u].bad /\ r.ed[u].state = f.ed[u].state /\ r.ed[u].dequeue = f.ed[u].dequeue
              /\ r.ed[u].halt = f.ed[u].halt
              /\ r.ed[u].skip <=> f.ed[u].skip /\ f.ed[u].dequeue
          BY <4>5, <4>6 DEF EdType
        <4>8. r.ctl = s.ctl /\ r.cle = s.cle
          BY <1>2, <4>1, <4>3 DEF Unskips, TakesTds
        <4>9. s.dev[u] = "here" /\ r.dev[u] = "here" /\ ~s.disabled
          BY <1>2, <3>3, <4>1 DEF TakesTds, Stays, Around
        <4> QED
          BY <1>7, <2>8, <4>1, <4>7, <4>8, <4>9
      <3>5. ASSUME ~r.urb[u].hcpriv
            PROVE  /\ r.urb[u].status = "none"
                   /\ s.ed[u].state = "OPER" => r.ed[u] = [FreshEd EXCEPT !.state = "IDLE"]
                   /\ s.ed[u].state = "UNLINK" => /\ r.ed[u].list = {} /\ r.ed[u].state = "UNLINK" /\ r.ed[u].skip
                                                  /\ r.ed[u].dequeue = s.ed[u].dequeue /\ r.ed[u].halt = s.ed[u].halt
                   /\ r.ctl <=> s.ctl /\ u # Ctl
                   /\ u # Ctl => r.cle = s.cle
        <4>1. /\ f.urb[u].status = "none" /\ f.ed[u] = t.ed[u] /\ f.ctl = t.ctl /\ f.cle = t.cle
          BY <1>7, <3>1, <3>5 DEF Finishes
        <4>2. Deschedules(f, r, u)
          BY <1>6, <2>8, <2>10, <4>1
        <4>3. r.ed[u] = IF t.ed[u].state = "OPER" THEN [FreshEd EXCEPT !.state = "IDLE"]
                        ELSE [t.ed[u] EXCEPT !.skip = TRUE]
          BY <4>1, <4>2 DEF Deschedules
        <4>4. t.ed[u] \in EdType
          BY <1>2 DEF Data
        <4>5. s.ed[u].state = "UNLINK" => /\ r.ed[u].list = {} /\ r.ed[u].state = "UNLINK" /\ r.ed[u].skip
                                          /\ r.ed[u].dequeue = s.ed[u].dequeue /\ r.ed[u].halt = s.ed[u].halt
          BY <2>8, <2>10, <4>3, <4>4 DEF EdType
        <4>6. /\ r.ctl <=> s.ctl /\ u # Ctl
              /\ u # Ctl => r.cle = s.cle
          BY <1>2, <4>1, <4>2 DEF Deschedules, TakesTds
        <4> QED
          BY <1>7, <2>8, <4>1, <4>3, <4>5, <4>6
      <3> QED
        BY <2>10, <3>2, <3>3, <3>4, <3>5 DEF DoneOne, L
    <2> QED
      BY <2>9, <2>10
  <1> QED
    BY <1>1, <1>7, <1>8

\* An endpoint becomes idle again with a request that goes on.
GoesOn(s, t, u) ==
  /\ Keeps(s, t, u) /\ t.urb = s.urb /\ t.ctl = s.ctl /\ t.cle = s.cle
  /\ t.ed[u] = [s.ed[u] EXCEPT !.state = "IDLE", !.skip = FALSE, !.dequeue = FALSE, !.halt = FALSE]

LEMMA ResumesIt ==
  ASSUME NEW s, Data(s), NEW u \in Urb
  PROVE  GoesOn(s, Resumed(s, u), u)
  <1> DEFINE t == Resumed(s, u)
             e == [s.ed[u] EXCEPT !.state = "IDLE", !.skip = FALSE, !.dequeue = FALSE, !.halt = FALSE]
  <1>1. e \in EdType /\ s.ctl \in BOOLEAN /\ s.cle \in BOOLEAN
    <2>1. s.ed[u] \in EdType /\ s.ctl \in BOOLEAN /\ s.cle \in BOOLEAN
      BY DEF Data
    <2> QED
      BY <2>1 DEF EdType
  <1>2. t = [s EXCEPT !.ed = [s.ed EXCEPT ![u] = e]]
    BY DEF Resumed
  <1> HIDE DEF t, e
  <1>3. t = WithEd(s, u, e, s.tree, s.ctl, s.cle)
    BY <1>2 DEF WithEd, Data
  <1>4. EdChanged(s, t, u, e, s.ctl, s.cle)
    BY <1>1, <1>3, EdChanges
  <1> QED
    BY <1>4 DEF EdChanged, GoesOn, e, t

\* A request taken off its endpoint and returned.
Known(q, u) == \E k \in 1 .. Len(q) : q[k][1] = u
Drops(s, t, u, q) ==
  /\ Around(s, t, u) /\ t.rm = s.rm /\ t.tick = s.tick
  /\ t.stale <=> s.stale \/ Known(q, u)
Dropped(s, t, u) ==
  /\ ~t.urb[u].hcpriv /\ ~t.urb[u].spliced /\ ~t.urb[u].del
  /\ t.urb[u].done <=> s.urb[u].done \/ s.urb[u].spliced \/ u = Ctl
  /\ t.urb[u].bound = s.urb[u].bound /\ t.urb[u].freed = s.urb[u].freed
  /\ t.ed[u].list = {} /\ t.dev[u] = s.dev[u] /\ t.ctl = s.ctl /\ t.cle = s.cle

LEMMA UnlinkedIt ==
  ASSUME NEW s, Data(s), NEW u \in Urb, NEW q
  PROVE  /\ Drops(s, Unlinked(s, u, q), u, q)
         /\ s.urb[u].cnt + Cardinality(s.ed[u].list) = Length(u) /\ (u = Ctl \/ s.dev[u] # "here")
            => Dropped(s, Unlinked(s, u, q), u)
  <1> DEFINE all == td_done(s, u, s.ed[u].list)
             f == IF Finished(all, u) THEN finish_urb(all, u) ELSE all
             x == f.stale \/ Known(q, u)
             t == [f EXCEPT !.stale = x]
  <1>1. s.ed[u] \in EdType /\ s.ed[u].list \in SUBSET TdNumbers
    BY DEF Data, EdType
  <1>2. t = Unlinked(s, u, q)
    BY DEF Unlinked, Known
  <1>3. TakesTds(s, all, u, s.ed[u].list)
    BY <1>1, TdDone
  <1> HIDE DEF all
  <1>4. Data(all) /\ Stays(s, all, u)
    BY <1>3 DEF TakesTds, Stays, Around
  <1>5. IF Finished(all, u) THEN Finishes(all, f, u) ELSE f = all
    BY <1>4, FinishUrb
  <1> HIDE DEF f
  <1>6. Stays(s, f, u) /\ Data(f)
    BY <1>4, <1>5 DEF Finishes, Stays, Keeps, Around
  <1>7. x \in BOOLEAN
    BY DEF Known
  <1>8. x <=> s.stale \/ Known(q, u)
    BY <1>6 DEF Stays
  <1> HIDE DEF x, t
  <1>9. t = [f EXCEPT !.stale = x]
    BY DEF t
  <1>10. /\ Data(t) /\ t.ed = f.ed /\ t.urb = f.urb /\ t.dev = f.dev /\ t.rm = f.rm /\ t.tick = f.tick
         /\ t.disabled = f.disabled /\ t.ctl = f.ctl /\ t.cle = f.cle /\ t.stale = x
    BY <1>6, <1>7, <1>9 DEF Data
  <1>11. Drops(s, t, u, q)
    BY <1>6, <1>8, <1>10 DEF Stays, Around, Drops
  <1>12. ASSUME s.urb[u].cnt + Cardinality(s.ed[u].list) = Length(u), u = Ctl \/ s.dev[u] # "here"
         PROVE  Dropped(s, t, u)
    <2>1. Finished(all, u)
      BY <1>3, <1>12 DEF TakesTds, Finished
    <2>2. Finishes(all, f, u)
      BY <1>5, <2>1
    <2>3. all.dev[u] = s.dev[u] /\ ~f.urb[u].hcpriv
      BY <1>3, <1>12, <2>2 DEF TakesTds, Finishes
    <2>4. all.ed[u].list = {}
      <3> DEFINE l == s.ed[u].list \ s.ed[u].list
      <3>1. all.ed[u] = [s.ed[u] EXCEPT !.list = l] /\ l = {}
        BY <1>3 DEF TakesTds
      <3> HIDE DEF l
      <3> QED
        BY <1>1, <3>1 DEF EdType
    <2>5. /\ f.ed[u] = all.ed[u] /\ f.ctl = s.ctl /\ f.cle = s.cle /\ f.dev[u] = s.dev[u]
          /\ ~f.urb[u].spliced /\ ~f.urb[u].del
      BY <1>3, <2>2, <2>3 DEF TakesTds, Finishes, Keeps
    <2>6. /\ f.urb[u].done <=> s.urb[u].done \/ s.urb[u].spliced \/ u = Ctl
          /\ f.urb[u].bound = s.urb[u].bound /\ f.urb[u].freed = s.urb[u].freed
      BY <1>3, <2>2 DEF TakesTds, Finishes
    <2> QED
      BY <1>10, <2>3, <2>4, <2>5, <2>6 DEF Dropped
  <1> QED
    BY <1>2, <1>11, <1>12

\* One endpoint of finish_unlinks().
Unhooked(s, t, u, q) ==
  /\ t.dev = s.dev
  /\ t.urb[u].bound = s.urb[u].bound /\ t.urb[u].freed = s.urb[u].freed
  /\ s.urb[u].del =>
       /\ ~t.urb[u].hcpriv /\ ~t.urb[u].spliced /\ ~t.urb[u].del
       /\ t.urb[u].done <=> s.urb[u].done \/ s.urb[u].spliced \/ u = Ctl
       /\ t.ed[u] = [FreshEd EXCEPT !.state = "IDLE"] /\ t.ctl = s.ctl /\ t.cle = s.cle
       /\ t.stale <=> s.stale \/ Known(q, u)
  /\ ~s.urb[u].del =>
       /\ t.urb = s.urb /\ t.stale = s.stale
       /\ s.ed[u].list = {} => t.ed[u] = [FreshEd EXCEPT !.state = "IDLE"] /\ t.ctl = s.ctl /\ t.cle = s.cle
       /\ s.ed[u].list # {} =>
            /\ t.ed[u] = [s.ed[u] EXCEPT !.state = "OPER", !.skip = FALSE, !.dequeue = FALSE, !.halt = FALSE]
            /\ t.ctl <=> s.ctl \/ u = Ctl
            /\ t.cle <=> s.cle \/ (u = Ctl /\ ~s.ctl /\ t.rm = <<>>)

LEMMA FinishUnlinks ==
  ASSUME NEW s, Data(s), NEW u \in ToSet(s.rm), NEW q
  PROVE  /\ Around(s, finish_unlinks(s, u, q), u)
         /\ finish_unlinks(s, u, q).rm = TakenOff(s.rm, u) /\ finish_unlinks(s, u, q).tick = s.tick
         /\ /\ ~s.disabled
            /\ s.urb[u].del => /\ s.urb[u].cnt + Cardinality(s.ed[u].list) = Length(u)
                               /\ u = Ctl \/ s.dev[u] # "here"
            => Unhooked(s, finish_unlinks(s, u, q), u, q)
  <1> DEFINE rm == TakenOff(s.rm, u)
             cut == [s EXCEPT !.rm = rm]
             fin == IF s.urb[u].del THEN Unlinked(cut, u, q) ELSE cut
             res == Resumed(fin, u)
             t == IF fin.ed[u].list = {} THEN Emptied(fin, u)
                  ELSE IF s.disabled THEN res ELSE ed_schedule(res, u)
  <1>1. t = finish_unlinks(s, u, q)
    BY DEF finish_unlinks
  <1>2. u \in Urb /\ rm \in Seq(Urb)
    <2>1. s.rm \in Seq(Urb)
      BY DEF Data
    <2>2. u \in Urb
      BY <2>1 DEF ToSet
    <2> QED
      BY <2>1, <2>2, Taken
  <1> HIDE DEF rm
  <1>3. /\ Data(cut) /\ cut.ed = s.ed /\ cut.urb = s.urb /\ cut.dev = s.dev /\ cut.rm = rm /\ cut.tick = s.tick
        /\ cut.disabled = s.disabled /\ cut.ctl = s.ctl /\ cut.cle = s.cle /\ cut.stale = s.stale
    BY <1>2 DEF Data
  <1> HIDE DEF cut
  <1>4. IF s.urb[u].del THEN Drops(cut, fin, u, q) ELSE fin = cut
    BY <1>2, <1>3, UnlinkedIt
  <1>5. s.urb[u].del /\ s.urb[u].cnt + Cardinality(s.ed[u].list) = Length(u) /\ (u = Ctl \/ s.dev[u] # "here")
        => Dropped(cut, fin, u)
    <2>1. s.urb[u].del => fin = Unlinked(cut, u, q)
      OBVIOUS
    <2> HIDE DEF fin
    <2> QED
      BY <1>2, <1>3, <2>1, UnlinkedIt
  <1> HIDE DEF fin
  <1>6. Around(s, fin, u) /\ Data(fin) /\ fin.rm = rm /\ fin.tick = s.tick
    BY <1>3, <1>4 DEF Drops, Around
  <1>7. GoesOn(fin, res, u)
    BY <1>2, <1>6, ResumesIt
  <1> HIDE DEF res
  <1>8. Data(res)
    BY <1>7 DEF GoesOn, Keeps, Around
  <1>9. IF fin.ed[u].list = {} THEN Empties(fin, t, u)
        ELSE IF s.disabled THEN t = res ELSE Schedules(res, t, u)
    BY <1>2, <1>6, <1>8, EmptiesIt, EdSchedule
  <1> HIDE DEF t
  <1>10. Keeps(fin, t, u) /\ t.urb = fin.urb
    BY <1>7, <1>9 DEF Empties, Schedules, GoesOn, Keeps, Around
  <1>11. Around(s, t, u) /\ t.rm = rm /\ t.tick = s.tick
    BY <1>6, <1>10 DEF Keeps, Around
  <1>12. ASSUME ~s.disabled,
                s.urb[u].del => /\ s.urb[u].cnt + Cardinality(s.ed[u].list) = Length(u)
                                /\ u = Ctl \/ s.dev[u] # "here"
         PROVE  Unhooked(s, t, u, q)
    <2>1. CASE s.urb[u].del
      <3>1. Drops(cut, fin, u, q) /\ Dropped(cut, fin, u)
        BY <1>4, <1>5, <1>12, <2>1
      <3>2. Empties(fin, t, u)
        BY <1>9, <3>1 DEF Dropped
      <3>3. t.dev = s.dev
        <4>1. t.dev = fin.dev /\ fin.dev[u] = s.dev[u] /\ \A v \in Urb \ {u} : fin.dev[v] = s.dev[v]
          BY <1>3, <1>6, <1>10, <3>1 DEF Keeps, Dropped, Around
        <4>2. Data(fin)
          BY <1>6
        <4>3. DOMAIN fin.dev = Urb /\ DOMAIN s.dev = Urb /\ \A v \in Urb : fin.dev[v] = s.dev[v]
          BY <4>1, <4>2 DEF Data
        <4>4. fin.dev \in [Urb -> {"none", "here", "halted", "gone"}] /\ s.dev \in [Urb -> {"none", "here", "halted", "gone"}]
          BY <4>2 DEF Data
        <4>5. fin.dev = s.dev
          BY <4>3, <4>4
        <4> QED
          BY <4>1, <4>5
      <3>4. t.stale = fin.stale /\ t.ctl = fin.ctl /\ t.cle = fin.cle /\ t.ed[u] = [FreshEd EXCEPT !.state = "IDLE"]
        BY <3>2 DEF Empties, Keeps
      <3> QED
        BY <1>3, <1>10, <2>1, <3>1, <3>3, <3>4 DEF Drops, Dropped, Unhooked
    <2>2. CASE ~s.urb[u].del
      <3>1. fin = cut
        BY <1>4, <2>2
      <3>2. t.urb = s.urb /\ t.dev = s.dev /\ t.stale = s.stale
        BY <1>3, <1>10, <3>1 DEF Keeps
      <3>3. CASE s.ed[u].list = {}
        BY <1>3, <1>9, <2>2, <3>1, <3>2, <3>3 DEF Empties, Unhooked
      <3>4. CASE s.ed[u].list # {}
        <4>1. Schedules(res, t, u)
          BY <1>3, <1>9, <1>12, <3>1, <3>4
        <4>2. /\ t.ed[u] = [res.ed[u] EXCEPT !.state = "OPER"]
              /\ t.ctl <=> s.ctl \/ u = Ctl
              /\ t.cle <=> s.cle \/ (u = Ctl /\ ~s.ctl /\ rm = <<>>)
          BY <1>3, <1>7, <3>1, <4>1 DEF Schedules, GoesOn, Keeps
        <4>3. res.ed[u] = [s.ed[u] EXCEPT !.state = "IDLE", !.skip = FALSE, !.dequeue = FALSE, !.halt = FALSE]
          BY <1>3, <1>7, <3>1 DEF GoesOn
        <4>4. t.ed[u] = [s.ed[u] EXCEPT !.state = "OPER", !.skip = FALSE, !.dequeue = FALSE, !.halt = FALSE]
          <5>1. s.ed[u] \in EdType
            BY <1>2 DEF Data
          <5> QED
            BY <4>2, <4>3, <5>1 DEF EdType
        <4> QED
          BY <1>11, <2>2, <3>2, <3>4, <4>2, <4>4 DEF Unhooked
      <3> QED
        BY <3>3, <3>4
    <2> QED
      BY <2>1, <2>2
  <1> QED
    BY <1>1, <1>11, <1>12 DEF rm

LEMMA Joined ==
  ASSUME NEW T, NEW q \in Seq(T), NEW r \in Seq(T)
  PROVE  /\ q \o r \in Seq(T)
         /\ ToSet(q \o r) = ToSet(q) \cup ToSet(r)
         /\ NoTwice(q) /\ NoTwice(r) /\ ToSet(q) \cap ToSet(r) = {} => NoTwice(q \o r)
  <1> DEFINE c == q \o r
             m == Len(q)
             n == Len(r)
  <1>1. /\ c \in Seq(T) /\ Len(c) = m + n /\ m \in Nat /\ n \in Nat
        /\ \A i \in 1 .. m + n : c[i] = IF i <= m THEN q[i] ELSE r[i - m]
    BY ConcatProperties
  <1>2. DOMAIN q = 1 .. m /\ DOMAIN r = 1 .. n /\ DOMAIN c = 1 .. m + n
    BY <1>1
  <1> HIDE DEF c, m, n
  <1>3. \A i \in 1 .. m : i \in 1 .. m + n /\ c[i] = q[i]
    BY <1>1
  <1>4. \A i \in 1 .. n : i + m \in 1 .. m + n /\ c[i + m] = r[i]
    BY <1>1
  <1>5. \A i \in 1 .. m + n : (i \in 1 .. m /\ c[i] = q[i]) \/ (i - m \in 1 .. n /\ c[i] = r[i - m])
    BY <1>1
  <1>6. ToSet(c) = ToSet(q) \cup ToSet(r)
    <2>1. ToSet(c) \subseteq ToSet(q) \cup ToSet(r)
      BY <1>2, <1>5 DEF ToSet
    <2>2. ToSet(q) \subseteq ToSet(c)
      BY <1>2, <1>3 DEF ToSet
    <2>3. ToSet(r) \subseteq ToSet(c)
      BY <1>2, <1>4 DEF ToSet
    <2> QED
      BY <2>1, <2>2, <2>3
  <1>7. ASSUME NoTwice(q), NoTwice(r), ToSet(q) \cap ToSet(r) = {},
               NEW i \in 1 .. m + n, NEW j \in 1 .. m + n, c[i] = c[j]
        PROVE  i = j
    <2>1. \A a \in 1 .. m, b \in 1 .. n : q[a] # r[b]
      BY <1>2, <1>7 DEF ToSet
    <2>2. \A a, b \in 1 .. m : q[a] = q[b] => a = b
      BY <1>2, <1>7 DEF NoTwice
    <2>3. \A a, b \in 1 .. n : r[a] = r[b] => a = b
      BY <1>2, <1>7 DEF NoTwice
    <2>4. CASE i \in 1 .. m /\ c[i] = q[i]
      BY <1>5, <1>7, <2>1, <2>2, <2>4
    <2>5. CASE i - m \in 1 .. n /\ c[i] = r[i - m]
      <3>1. j - m \in 1 .. n /\ c[j] = r[j - m]
        BY <1>5, <1>7, <2>1, <2>5
      <3>2. i - m = j - m
        BY <1>7, <2>3, <2>5, <3>1
      <3> QED
        BY <1>1, <3>2
    <2> QED
      BY <1>5, <2>4, <2>5
  <1> QED
    BY <1>1, <1>2, <1>6, <1>7 DEF NoTwice, c

\* The TDs behind one that halted its endpoint.
LEMMA BehindIt ==
  ASSUME NEW s, NEW u \in Urb, NEW i \in TdNumbers, s.ed[u].list \in SUBSET TdNumbers
  PROVE  LET b == Behind(s, <<u, i>>)
             S == {j \in s.ed[u].list : j > i}
         IN  b \in Seq(Tds) /\ ToSet(b) = {<<u, j>> : j \in S} /\ NoTwice(b)
  <1> DEFINE b == Behind(s, <<u, i>>)
             S == {j \in s.ed[u].list : j > i}
             m == LastTd(S)
             k == LastTd(S \ {m})
  <1>1. LaterTds(s, <<u, i>>) = S
    BY DEF LaterTds
  <1>2. \A j \in S : j = 2 \/ j = 3
    BY DEF TdNumbers
  <1>3. b = IF S = {} THEN <<>>
            ELSE IF Cardinality(S) = 1 THEN <<<<u, m>>>> ELSE <<<<u, m>>, <<u, k>>>>
    BY <1>1 DEF Behind
  <1>4. S \in SUBSET TdNumbers /\ S \ {m} \in SUBSET TdNumbers
    OBVIOUS
  <1> HIDE DEF S, k, m
  <1>5. CASE S = {}
    <2>1. b = <<>>
      BY <1>3, <1>5
    <2> HIDE DEF b
    <2>2. b \in Seq(Tds) /\ ToSet(b) = {<<u, j>> : j \in S} /\ NoTwice(b)
      BY <1>5, <2>1, NoMembers
    <2> QED
      BY <2>2 DEF b, S
  <1>6. CASE S # {} /\ Cardinality(S) = 1
    <2>1. m \in S
      BY <1>4, <1>6, Ends DEF m
    <2>2. \A j \in S : j = m
      <3>1. Cardinality(S \ {m}) = 0
        <4>1. IsFiniteSet(S)
          BY <1>4, Finite
        <4>2. Cardinality(S \ {m}) = Cardinality(S) - 1
          BY <2>1, <4>1, FS_RemoveElement
        <4> QED
          BY <1>6, <4>2
      <3>2. S \ {m} = {}
        BY <1>4, <3>1, Finite
      <3> QED
        BY <3>2
    <2>3. b = <<<<u, m>>>>
      BY <1>3, <1>6
    <2> HIDE DEF b
    <2>4. <<u, m>> \in Tds
      BY <1>4, <2>1 DEF Tds
    <2>5. b \in Seq(Tds) /\ DOMAIN b = {1} /\ b[1] = <<u, m>>
      BY <2>3, <2>4
    <2>6. ToSet(b) = {<<u, m>>} /\ NoTwice(b)
      BY <2>5 DEF ToSet, NoTwice
    <2>7. {<<u, j>> : j \in S} = {<<u, m>>}
      BY <2>1, <2>2
    <2> QED
      BY <2>5, <2>6, <2>7 DEF b, S
  <1>7. CASE S # {} /\ Cardinality(S) # 1
    <2>1. m \in S /\ \A j \in S : j <= m
      BY <1>4, <1>7, Ends DEF m
    <2>2. S \ {m} # {}
      <3>1. ASSUME S = {m} PROVE FALSE
        BY <1>7, <3>1, FS_Singleton
      <3> QED
        BY <2>1, <3>1
    <2>3. k \in S \ {m}
      BY <1>4, <2>2, Ends DEF k
    <2>4. m = 3 /\ k = 2
      BY <1>2, <2>1, <2>3
    <2>5. b = <<<<u, m>>, <<u, k>>>>
      BY <1>3, <1>7
    <2> HIDE DEF b
    <2>6. <<u, m>> \in Tds /\ <<u, k>> \in Tds /\ <<u, m>> # <<u, k>>
      BY <1>4, <2>1, <2>3 DEF Tds
    <2>7. b \in Seq(Tds) /\ DOMAIN b = {1, 2} /\ b[1] = <<u, m>> /\ b[2] = <<u, k>>
      BY <2>5, <2>6
    <2>8. ToSet(b) = {<<u, m>>, <<u, k>>} /\ NoTwice(b)
      BY <2>6, <2>7 DEF ToSet, NoTwice
    <2>9. {<<u, j>> : j \in S} = {<<u, m>>, <<u, k>>}
      BY <1>2, <2>1, <2>3, <2>4
    <2> QED
      BY <2>7, <2>8, <2>9 DEF b, S
  <1> QED
    BY <1>5, <1>6, <1>7

\* One round of dl_reverse_done_list().
Later(s, u, i) == IF Halts(s, <<u, i>>) THEN {j \in s.ed[u].list : j > i} ELSE {}
Turns(s, t, u, i) ==
  /\ Keeps(s, t, u) /\ t.urb = s.urb /\ t.ctl = s.ctl /\ t.cle = s.cle
  /\ LET e == t.ed[u] IN
     /\ e.state = s.ed[u].state /\ e.dequeue = s.ed[u].dequeue /\ e.list = s.ed[u].list
     /\ e.bad = s.ed[u].bad /\ e.tds = s.ed[u].tds \cup ({i} \cup Later(s, u, i))
     /\ Halts(s, <<u, i>>) => e.skip /\ ~e.halt /\ e.head = Length(u) + 1
     /\ ~Halts(s, <<u, i>>) => e.skip = s.ed[u].skip /\ e.halt = s.ed[u].halt /\ e.head = s.ed[u].head

LEMMA ReverseStep ==
  ASSUME NEW s, Data(s), NEW u \in Urb, NEW i \in TdNumbers
  PROVE  Turns(s, dl_reverse_done_list(s, <<u, i>>), u, i)
  <1> DEFINE td == <<u, i>>
             t == dl_reverse_done_list(s, td)
             e == s.ed[u]
             S == {j \in e.list : j > i}
             e1 == [e EXCEPT !.tds = e.tds \cup {i}]
             m == Marked(s, td)
             f == [e1 EXCEPT !.skip = TRUE]
             g == [f EXCEPT !.halt = FALSE]
             h == [g EXCEPT !.head = Length(u) + 1]
             e2 == [h EXCEPT !.tds = e1.tds \cup S]
  <1>1. e \in EdType /\ s.ctl \in BOOLEAN /\ s.cle \in BOOLEAN
    BY DEF Data
  <1>2. e1 \in EdType /\ e1.list = e.list
    <2>1. e.tds \cup {i} \in SUBSET TdNumbers
      BY <1>1 DEF EdType
    <2> HIDE DEF e
    <2> QED
      BY <1>1, <2>1 DEF EdType
  <1>3. m = WithEd(s, u, e1, s.tree, s.ctl, s.cle)
    <2>1. m = [s EXCEPT !.ed = [s.ed EXCEPT ![u] = e1]]
      BY DEF Marked
    <2> HIDE DEF m, e1
    <2> QED
      BY <2>1 DEF WithEd, Data
  <1>4. /\ e1.state = e.state /\ e1.dequeue = e.dequeue /\ e1.bad = e.bad /\ e1.skip = e.skip
        /\ e1.halt = e.halt /\ e1.head = e.head /\ e1.tds = e.tds \cup {i}
    <2> HIDE DEF e
    <2> QED
      BY <1>1 DEF EdType
  <1>5. Halts(s, td) <=> e.bad = i /\ e.halt
    BY DEF Halts
  <1> HIDE DEF e1, m
  <1>6. EdChanged(s, m, u, e1, s.ctl, s.cle)
    BY <1>1, <1>2, <1>3, EdChanges
  <1>7. Data(m) /\ m.ed[u] = e1
    BY <1>6 DEF EdChanged, Keeps, Around
  <1>8. CASE ~Halts(s, td)
    <2>1. t = m
      BY <1>8 DEF dl_reverse_done_list, m
    <2> HIDE DEF t
    <2>2. Later(s, u, i) = {}
      BY <1>8 DEF Later
    <2> HIDE DEF e
    <2>3. Turns(s, t, u, i)
      BY <1>2, <1>4, <1>6, <1>8, <2>1, <2>2 DEF EdChanged, Turns, e
    <2> QED
      BY <2>3 DEF t
  <1>9. CASE Halts(s, td)
    <2>1. t = [m EXCEPT !.ed = [m.ed EXCEPT ![u] = [m.ed[u] EXCEPT !.skip = TRUE, !.halt = FALSE,
                 !.head = Length(u) + 1, !.tds = m.ed[u].tds \cup LaterTds(m, td)]]]
      BY <1>9 DEF dl_reverse_done_list, ed_halted, m
    <2>2. LaterTds(m, td) = S
      BY <1>2, <1>7 DEF LaterTds
    <2>3. S \in SUBSET TdNumbers /\ Length(u) + 1 \in 1 .. 4 /\ Later(s, u, i) = S
      <3>1. e.list \in SUBSET TdNumbers
        BY <1>1 DEF EdType
      <3>2. Length(u) \in 1 .. 3
        BY Lengths DEF TdNumbers
      <3> QED
        BY <1>9, <3>1, <3>2 DEF Later
    <2> HIDE DEF S, e
    <2>4. t = [m EXCEPT !.ed = [m.ed EXCEPT ![u] = e2]]
      <3>1. e2 = [e1 EXCEPT !.skip = TRUE, !.halt = FALSE, !.head = Length(u) + 1, !.tds = e1.tds \cup S]
        BY <1>2 DEF EdType
      <3> HIDE DEF e2, t
      <3> QED
        BY <1>7, <2>1, <2>2, <3>1
    <2>5. f \in EdType /\ f.skip /\ f.state = e.state /\ f.dequeue = e.dequeue /\ f.bad = e.bad /\ f.list = e.list
      BY <1>2, <1>4 DEF EdType
    <2> HIDE DEF f
    <2>6. /\ g \in EdType /\ g.skip /\ g.state = e.state /\ g.dequeue = e.dequeue /\ g.bad = e.bad /\ g.list = e.list
          /\ ~g.halt
      BY <2>5 DEF EdType
    <2> HIDE DEF g
    <2>7. /\ h \in EdType /\ h.skip /\ h.state = e.state /\ h.dequeue = e.dequeue /\ h.bad = e.bad /\ h.list = e.list
          /\ ~h.halt /\ h.head = Length(u) + 1
      BY <2>3, <2>6 DEF EdType
    <2> HIDE DEF h
    <2>8. e1.tds \cup S \in SUBSET TdNumbers
      BY <1>2, <2>3 DEF EdType
    <2>9. /\ e2 \in EdType /\ e2.skip /\ e2.state = e.state /\ e2.dequeue = e.dequeue /\ e2.bad = e.bad
          /\ e2.list = e.list /\ ~e2.halt /\ e2.head = Length(u) + 1 /\ e2.tds = e1.tds \cup S
      BY <2>7, <2>8 DEF EdType
    <2> HIDE DEF e2, t
    <2>10. t = WithEd(m, u, e2, m.tree, m.ctl, m.cle) /\ m.ctl \in BOOLEAN /\ m.cle \in BOOLEAN
      BY <1>7, <2>4 DEF WithEd, Data
    <2>11. EdChanged(m, t, u, e2, m.ctl, m.cle)
      BY <1>7, <2>9, <2>10, EdChanges
    <2>12. Keeps(s, t, u) /\ t.urb = s.urb /\ t.ctl = s.ctl /\ t.cle = s.cle /\ t.ed[u] = e2
      BY <1>6, <2>11 DEF EdChanged, Keeps, Around
    <2>13. e2.tds = e.tds \cup ({i} \cup Later(s, u, i))
      BY <1>4, <2>3, <2>9
    <2>14. Turns(s, t, u, i)
      BY <1>9, <2>9, <2>12, <2>13 DEF Turns, e
    <2> QED
      BY <2>14 DEF t
  <1> QED
    BY <1>8, <1>9

LEMMA ReversedList ==
  ASSUME NEW s, Data(s), NEW u \in Urb, NEW i \in TdNumbers, NEW list \in Seq(Tds)
  PROVE  LET r == Reversed(s, <<u, i>>, list) IN
         /\ r \in Seq(Tds)
         /\ At(r, u) = At(list, u) \cup ({i} \cup Later(s, u, i))
         /\ \A v \in Urb \ {u} : At(r, v) = At(list, v)
         /\ NoTwice(list) /\ ({i} \cup Later(s, u, i)) \cap At(list, u) = {} => NoTwice(r)
  <1> DEFINE td == <<u, i>>
             S == Later(s, u, i)
             b == IF Halts(s, td) THEN Behind(s, td) ELSE <<>>
             c == b \o list
             r == Reversed(s, td, list)
  <1>1. s.ed[u].list \in SUBSET TdNumbers /\ td \in Tds
    <2>1. s.ed[u] \in EdType
      BY DEF Data
    <2> QED
      BY <2>1 DEF EdType, Tds
  <1>2. b \in Seq(Tds) /\ ToSet(b) = {<<u, j>> : j \in S} /\ NoTwice(b)
    <2>1. CASE Halts(s, td)
      BY <1>1, <2>1, BehindIt DEF Later
    <2>2. CASE ~Halts(s, td)
      <3>1. b = <<>> /\ S = {}
        BY <2>2 DEF Later
      <3> HIDE DEF b, S
      <3> QED
        BY <3>1, NoMembers
    <2> QED
      BY <2>1, <2>2
  <1>3. r = <<td>> \o c
    BY DEF Reversed
  <1>4. S \in SUBSET TdNumbers /\ i \notin S
    <2>1. i \notin {j \in s.ed[u].list : j > i}
      BY DEF TdNumbers
    <2>2. S \subseteq {j \in s.ed[u].list : j > i}
      BY DEF Later
    <2> QED
      BY <1>1, <2>1, <2>2
  <1> HIDE DEF b, r, S
  <1>5. /\ c \in Seq(Tds) /\ ToSet(c) = ToSet(b) \cup ToSet(list)
        /\ NoTwice(list) /\ ToSet(b) \cap ToSet(list) = {} => NoTwice(c)
    BY <1>2, Joined
  <1> HIDE DEF c
  <1>6. /\ r \in Seq(Tds) /\ ToSet(r) = ToSet(c) \cup {td}
        /\ NoTwice(c) /\ td \notin ToSet(c) => NoTwice(r)
    <2> HIDE DEF td
    <2> QED
      BY <1>1, <1>3, <1>5, Consed
  <1>7. ToSet(r) = ToSet(list) \cup ({<<u, j>> : j \in S} \cup {<<u, i>>})
    BY <1>2, <1>5, <1>6
  <1>8. At(r, u) = At(list, u) \cup ({i} \cup S)
    BY <1>4, <1>7 DEF At
  <1>9. \A v \in Urb \ {u} : At(r, v) = At(list, v)
    BY <1>7 DEF At
  <1>10. ASSUME NoTwice(list), ({i} \cup S) \cap At(list, u) = {} PROVE NoTwice(r)
    <2>1. \A j \in {i} \cup S : <<u, j>> \notin ToSet(list)
      BY <1>4, <1>10 DEF At
    <2>2. ToSet(b) \cap ToSet(list) = {}
      BY <1>2, <2>1
    <2>3. td \notin ToSet(c)
      BY <1>2, <1>4, <1>5, <2>1
    <2> QED
      BY <1>5, <1>6, <1>10, <2>2, <2>3
  <1> QED
    BY <1>6, <1>8, <1>9, <1>10 DEF r, S

-----------------------------------------------------------------------------
(* What the code that ends requests does to it.                            *)

\* hcd_unlink_urb() of a controller that is alive.
UnlinksUrb(s, t, u) ==
  /\ Sheds(s, t, u)
  /\ LET b == t.urb[u] IN
     /\ b.hcpriv = s.urb[u].hcpriv /\ b.del /\ b.cnt = s.urb[u].cnt /\ b.spliced /\ ~b.done
     /\ b.status = "enoent" /\ b.bound = s.urb[u].bound /\ b.freed = s.urb[u].freed

LEMMA UnlinkUrb ==
  ASSUME NEW s, Data(s), NEW u \in Urb
  PROVE  /\ Around(s, hcd_unlink_urb(s, u), u)
         /\ ~s.disabled => UnlinksUrb(s, hcd_unlink_urb(s, u), u)
  <1> DEFINE b == [s.urb[u] EXCEPT !.spliced = TRUE, !.status = "enoent", !.done = FALSE]
             p == [s EXCEPT !.urb[u] = b]
             t == hcd_unlink_urb(s, u)
  <1>1. s.urb[u] \in UrbType
    BY DEF Data
  <1>2. /\ b \in UrbType /\ b.spliced /\ b.status = "enoent" /\ ~b.done /\ b.hcpriv = s.urb[u].hcpriv
        /\ b.cnt = s.urb[u].cnt /\ b.bound = s.urb[u].bound /\ b.freed = s.urb[u].freed
    BY <1>1 DEF UrbType, Statuses
  <1>3. t = ohci_urb_dequeue(p, u)
    BY DEF hcd_unlink_urb
  <1> HIDE DEF b, t
  <1>4. Rewrites(s, p, u) /\ Data(p) /\ p.urb[u] = b
    BY <1>2, RewritesIt
  <1> HIDE DEF p
  <1>5. IF p.disabled THEN Finishes(p, t, u) ELSE Dequeues(p, t, u)
    BY <1>3, <1>4, Dequeue
  <1>6. Around(p, t, u)
    BY <1>5 DEF Finishes, Keeps, Dequeues, Sheds
  <1>7. Around(s, t, u)
    BY <1>4, <1>6 DEF Rewrites, Keeps, Around
  <1>8. ASSUME ~s.disabled PROVE UnlinksUrb(s, t, u)
    <2>1. Dequeues(p, t, u)
      BY <1>4, <1>5, <1>8 DEF Rewrites, Keeps, Around
    <2>2. Sheds(s, t, u)
      BY <1>4, <1>7, <2>1 DEF Rewrites, Keeps, Dequeues, Sheds
    <2>3. t.urb[u] = [b EXCEPT !.del = TRUE]
      BY <1>4, <2>1 DEF Dequeues
    <2> QED
      BY <1>2, <2>2, <2>3 DEF UnlinksUrb, UrbType
  <1> QED
    BY <1>7, <1>8 DEF t

\* hcd_endpoint_disable() of a controller that is alive.
ShutsDown(s, t, u) ==
  /\ Sheds(s, t, u)
  /\ LET b == t.urb[u] IN
     /\ b.hcpriv = s.urb[u].hcpriv /\ b.del /\ b.cnt = s.urb[u].cnt /\ b.spliced = s.urb[u].spliced
     /\ b.done = s.urb[u].done /\ b.status = "shutdown" /\ b.bound = s.urb[u].bound
     /\ b.freed = s.urb[u].freed

LEMMA EndpointDisable ==
  ASSUME NEW s, Data(s), NEW u \in Urb
  PROVE  /\ Around(s, hcd_endpoint_disable(s, u), u)
         /\ ~s.disabled => IF Unlinks(s, u) THEN ShutsDown(s, hcd_endpoint_disable(s, u), u)
                           ELSE hcd_endpoint_disable(s, u) = s
  <1> DEFINE b == [s.urb[u] EXCEPT !.status = "shutdown"]
             p == [s EXCEPT !.urb[u] = b]
             t == hcd_endpoint_disable(s, u)
  <1>1. CASE ~Unlinks(s, u)
    BY <1>1 DEF hcd_endpoint_disable, Around
  <1>2. CASE Unlinks(s, u)
    <2>1. s.urb[u] \in UrbType
      BY DEF Data
    <2>2. /\ b \in UrbType /\ b.spliced = s.urb[u].spliced /\ b.status = "shutdown" /\ b.done = s.urb[u].done
          /\ b.hcpriv = s.urb[u].hcpriv /\ b.cnt = s.urb[u].cnt /\ b.bound = s.urb[u].bound
          /\ b.freed = s.urb[u].freed
      BY <2>1 DEF UrbType, Statuses
    <2>3. t = ohci_urb_dequeue(p, u)
      BY <1>2 DEF hcd_endpoint_disable
    <2> HIDE DEF b, t
    <2>4. Rewrites(s, p, u) /\ Data(p) /\ p.urb[u] = b
      BY <2>2, RewritesIt
    <2> HIDE DEF p
    <2>5. IF p.disabled THEN Finishes(p, t, u) ELSE Dequeues(p, t, u)
      BY <2>3, <2>4, Dequeue
    <2>6. Around(p, t, u)
      BY <2>5 DEF Finishes, Keeps, Dequeues, Sheds
    <2>7. Around(s, t, u)
      BY <2>4, <2>6 DEF Rewrites, Keeps, Around
    <2>8. ASSUME ~s.disabled PROVE ShutsDown(s, t, u)
      <3>1. Dequeues(p, t, u)
        BY <2>4, <2>5, <2>8 DEF Rewrites, Keeps, Around
      <3>2. Sheds(s, t, u)
        BY <2>4, <2>7, <3>1 DEF Rewrites, Keeps, Dequeues, Sheds
      <3>3. t.urb[u] = [b EXCEPT !.del = TRUE]
        BY <2>4, <3>1 DEF Dequeues
      <3> QED
        BY <2>2, <3>2, <3>3 DEF ShutsDown, UrbType
    <2> QED
      BY <1>2, <2>7, <2>8 DEF t
  <1> QED
    BY <1>1, <1>2

\* The endpoint of a device that left is freed.
Forgets(s, t, u) ==
  /\ Data(t) /\ t.disabled = s.disabled /\ t.urb = s.urb /\ t.rm = s.rm /\ t.tick = s.tick
  /\ t.stale = s.stale /\ t.ctl = s.ctl /\ t.cle = s.cle /\ t.ed[u] = FreshEd /\ t.dev[u] = "none"
  /\ \A v \in Urb \ {u} : t.ed[v] = s.ed[v] /\ t.dev[v] = s.dev[v]

LEMMA ForgetsIt ==
  ASSUME NEW s, Data(s), NEW u \in Urb
  PROVE  Forgets(s, ohci_endpoint_disable(s, u), u)
  <1> DEFINE ed == [s.ed EXCEPT ![u] = FreshEd]
             dev == [s.dev EXCEPT ![u] = "none"]
             tree == Unplaced(s.tree, u)
             t == ohci_endpoint_disable(s, u)
  <1>1. /\ ed \in [Urb -> EdType] /\ ed[u] = FreshEd /\ \A v \in Urb \ {u} : ed[v] = s.ed[v]
        /\ dev \in [Urb -> {"none", "here", "halted", "gone"}] /\ dev[u] = "none"
        /\ \A v \in Urb \ {u} : dev[v] = s.dev[v]
    <2>1. FreshEd \in EdType
      BY FreshEdType
    <2> QED
      BY <2>1 DEF Data
  <1>2. t = [s EXCEPT !.ed = ed, !.tree = tree, !.dev = dev]
    BY DEF ohci_endpoint_disable
  <1> HIDE DEF ed, dev, tree, t
  <1>3. /\ Data(t) /\ t.ed = ed /\ t.urb = s.urb /\ t.dev = dev /\ t.rm = s.rm /\ t.tick = s.tick
        /\ t.stale = s.stale /\ t.disabled = s.disabled /\ t.ctl = s.ctl /\ t.cle = s.cle
    BY <1>1, <1>2 DEF Data
  <1> QED
    BY <1>1, <1>3 DEF Forgets, t

\* A device comes, goes.
Moves(s, t, u) ==
  /\ Data(t) /\ t.disabled = s.disabled /\ t.urb = s.urb /\ t.ed = s.ed /\ t.rm = s.rm /\ t.tick = s.tick
  /\ t.stale = s.stale /\ t.ctl = s.ctl /\ t.cle = s.cle
  /\ \A v \in Urb \ {u} : t.dev[v] = s.dev[v]

LEMMA DevMoves ==
  ASSUME NEW s, Data(s), NEW u \in Urb, NEW d \in {"none", "here", "halted", "gone"}
  PROVE  Moves(s, Dev(s, u, d), u) /\ Dev(s, u, d).dev[u] = d
  <1> DEFINE dev == [s.dev EXCEPT ![u] = d]
             t == Dev(s, u, d)
  <1>1. /\ dev \in [Urb -> {"none", "here", "halted", "gone"}] /\ dev[u] = d
        /\ \A v \in Urb \ {u} : dev[v] = s.dev[v]
    BY DEF Data
  <1>2. t = [s EXCEPT !.dev = dev]
    BY DEF Dev
  <1> HIDE DEF dev, t
  <1>3. /\ Data(t) /\ t.ed = s.ed /\ t.urb = s.urb /\ t.dev = dev /\ t.rm = s.rm /\ t.tick = s.tick
        /\ t.stale = s.stale /\ t.disabled = s.disabled /\ t.ctl = s.ctl /\ t.cle = s.cle
    BY <1>1, <1>2 DEF Data
  <1> QED
    BY <1>1, <1>3 DEF Moves, t

-----------------------------------------------------------------------------
(* What a step leaves alone stays as it should be.                         *)

LEMMA UrbStays ==
  ASSUME NEW v \in Urb, UrbOk(v), o'.urb[v] = o.urb[v], o'.ed[v] = o.ed[v],
         At(irq'.list, v) = At(irq.list, v), InIrq(v)' = InIrq(v), Retired(v)' = Retired(v)
  PROVE  UrbOk(v)'
  BY DEF UrbOk, Busy, Free

LEMMA EdStays ==
  ASSUME NEW v \in Urb, EdOk(v), o'.urb[v] = o.urb[v], o'.ed[v] = o.ed[v],
         v \in ToSet(o'.rm) <=> v \in ToSet(o.rm),
         v \in o'.tick => v \in o.tick /\ main'.pc \in {"unlink", "disable"} /\ main'.u = v
  PROVE  EdOk(v)'
  BY DEF EdOk

LEMMA QueuesStay ==
  ASSUME UNCHANGED <<hc, irq>>
  PROVE  /\ \A v \in Urb : /\ InIrq(v)' = InIrq(v) /\ InHc(v)' = InHc(v) /\ Retired(v)' = Retired(v)
                           /\ At(irq'.list, v) = At(irq.list, v)
         /\ QueueInv /\ (irq.pc = "off" \/ o'.tick \subseteq o.tick) => QueueInv'
  <1>1. \A v \in Urb : /\ InIrq(v)' = InIrq(v) /\ InHc(v)' = InHc(v) /\ Retired(v)' = Retired(v)
                       /\ At(irq'.list, v) = At(irq.list, v)
    BY DEF InIrq, InHc, Retired
  <1>2. ASSUME QueueInv, irq.pc = "off" \/ o'.tick \subseteq o.tick PROVE QueueInv'
    BY <1>1, <1>2 DEF QueueInv
  <1> QED
    BY <1>1, <1>2

LEMMA MainUrb ==
  ASSUME TypeInv
  PROVE  main.pc # "idle" => main.u \in Urb
  BY DEF TypeInv, MainType

\* Between two calls of the handler a request is in progress or on its way out.
LEMMA AtOff ==
  ASSUME QueueInv, UrbInv, irq.pc = "off", NEW u \in Urb
  PROVE  /\ At(irq.list, u) = {} /\ InIrq(u) = {}
         /\ o.urb[u].hcpriv => o.urb[u].status = "prog" \/ o.urb[u].del
  <1>1. irq.in = <<>> /\ irq.list = <<>>
    BY DEF QueueInv
  <1>2. At(irq.list, u) = {} /\ InIrq(u) = {}
    BY <1>1, NoneAt DEF InIrq
  <1>3. o.urb[u].hcpriv => Busy(u)
    BY DEF UrbInv, UrbOk
  <1> QED
    BY <1>2, <1>3 DEF Busy

-----------------------------------------------------------------------------
(* The steps of the handler.                                               *)

LEMMA PolledIt ==
  ASSUME main \in MainType, Counts => main.n > 0
  PROVE  /\ Polled \in MainType /\ Polled.pc = main.pc /\ Polled.u = main.u
         /\ Polled.n = (IF Counts THEN main.n - 1 ELSE main.n) /\ Polled.frame = (main.pc = "idle")
  <1> DEFINE n == IF Counts THEN main.n - 1 ELSE main.n
             f == main.pc = "idle"
             m == [main EXCEPT !.n = n]
             p == [m EXCEPT !.frame = f]
  <1>1. Polled = p
    BY DEF Polled
  <1>2. main.n \in Nat
    BY DEF MainType
  <1>3. n \in Nat
    BY <1>2
  <1>4. f \in BOOLEAN
    OBVIOUS
  <1> HIDE DEF n, f
  <1>5. m \in MainType /\ m.pc = main.pc /\ m.u = main.u /\ m.n = n
    BY <1>3 DEF MainType
  <1> HIDE DEF m
  <1>6. p \in MainType /\ p.pc = main.pc /\ p.u = main.u /\ p.n = n /\ p.frame = f
    BY <1>4, <1>5 DEF MainType
  <1> HIDE DEF p
  <1> QED
    BY <1>1, <1>6 DEF n, f

LEMMA PollNothingStep ==
  ASSUME QueueIInv, PollNothing
  PROVE  QueueIInv'
  <1>1. /\ irq.pc = "off" /\ Counts /\ main.n > 0 /\ o' = o /\ hc' = hc /\ irq' = irq /\ main' = Polled
        /\ main.pc = "unlink" => ~o.urb[main.u].done
        /\ o.disabled \/ o.rm = <<>>
    BY DEF PollNothing, Polling, Waiting, Counts, Interrupt
  <1>2. main' \in MainType /\ main'.pc = main.pc /\ main'.u = main.u
    BY <1>1, PolledIt DEF QueueIInv, TypeInv
  <1>3. TypeInv'
    BY <1>1, <1>2 DEF QueueIInv, TypeInv, Counts
  <1>4. ASSUME Ok' PROVE QueueInv' /\ UrbInv' /\ EdInv' /\ MainInv' /\ WaitInv'
    <2>1. Ok /\ QueueInv /\ UrbInv /\ EdInv /\ MainInv /\ WaitInv
      BY <1>1, <1>4 DEF Ok, QueueIInv
    <2>2. main.pc # "unlink"
      <3>1. ASSUME main.pc = "unlink" PROVE FALSE
        <4>1. main.u \in Urb
          BY <3>1, MainUrb DEF QueueIInv
        <4>2. o.urb[main.u].del
          BY <1>1, <2>1, <3>1 DEF MainInv
        <4>3. main.u \in ToSet(o.rm) /\ o.rm = <<>>
          BY <1>1, <2>1, <4>1, <4>2 DEF EdInv, EdOk, Ok
        <4> QED
          BY <4>3, NoMembers
      <3> QED
        BY <3>1
    <2>3. QueueInv' /\ \A v \in Urb : /\ InIrq(v)' = InIrq(v) /\ Retired(v)' = Retired(v)
                                      /\ At(irq'.list, v) = At(irq.list, v)
      BY <1>1, <2>1, QueuesStay
    <2>4. UrbInv'
      BY <1>1, <2>1, <2>3, UrbStays DEF UrbInv
    <2>5. EdInv'
      BY <1>1, <1>2, <2>1 DEF EdInv, EdOk
    <2>6. MainInv' /\ WaitInv'
      BY <1>1, <1>2, <2>1, <2>2 DEF MainInv, WaitInv
    <2> QED
      BY <2>3, <2>4, <2>5, <2>6
  <1> QED
    BY <1>3, <1>4 DEF QueueIInv

LEMMA HcErrorStep ==
  ASSUME QueueIInv, HcError
  PROVE  QueueIInv'
  <1>1. UNCHANGED <<o, irq, main>> /\ hc' = [hc EXCEPT !.ue = TRUE]
    BY DEF HcError
  <1>2. /\ hc'.q = hc.q /\ hc'.head = hc.head /\ hc'.wdh = hc.wdh
        /\ hc' \in HcType
    BY <1>1 DEF QueueIInv, TypeInv, HcType
  <1>3. TypeInv'
    BY <1>1, <1>2 DEF QueueIInv, TypeInv, Counts
  <1>4. ASSUME Ok' PROVE QueueInv' /\ UrbInv' /\ EdInv' /\ MainInv' /\ WaitInv'
    <2>1. Ok /\ QueueInv /\ UrbInv /\ EdInv /\ MainInv /\ WaitInv
      BY <1>1, <1>4 DEF Ok, QueueIInv
    <2>2. \A v \in Urb : /\ InIrq(v)' = InIrq(v) /\ InHc(v)' = InHc(v) /\ Retired(v)' = Retired(v)
                         /\ At(irq'.list, v) = At(irq.list, v)
      BY <1>1, <1>2 DEF InIrq, InHc, Retired
    <2>3. QueueInv'
      BY <1>1, <1>2, <2>1, <2>2 DEF QueueInv
    <2>4. UrbInv'
      BY <1>1, <2>1, <2>2, UrbStays DEF UrbInv
    <2>5. EdInv' /\ MainInv' /\ WaitInv'
      BY <1>1, <2>1 DEF EdInv, EdOk, MainInv, WaitInv
    <2> QED
      BY <2>3, <2>4, <2>5
  <1> QED
    BY <1>3, <1>4 DEF QueueIInv

LEMMA HcFrameStep ==
  ASSUME QueueIInv, HcFrame
  PROVE  QueueIInv'
  <1> DEFINE wb == [hc EXCEPT !.head = hc.q, !.q = <<>>, !.wdh = TRUE]
  <1>1. /\ o' = [o EXCEPT !.tick = {}] /\ main' = [main EXCEPT !.frame = TRUE] /\ irq' = irq
        /\ hc' = hc \/ (hc' = wb /\ ~hc.wdh)
    BY DEF HcFrame
  <1>2. /\ Data(o') /\ o'.urb = o.urb /\ o'.ed = o.ed /\ o'.dev = o.dev /\ o'.rm = o.rm /\ o'.tick = {}
        /\ o'.disabled = o.disabled /\ o'.stale = o.stale /\ o'.ctl = o.ctl /\ o'.cle = o.cle
    BY <1>1 DEF QueueIInv, TypeInv, Data
  <1>3. main' \in MainType /\ main'.pc = main.pc /\ main'.u = main.u /\ main'.n = main.n
    BY <1>1 DEF QueueIInv, TypeInv, MainType
  <1>4. wb \in HcType /\ wb.head = hc.q /\ wb.q = <<>> /\ wb.wdh
    <2>1. hc \in HcType /\ <<>> \in Seq(Tds)
      BY DEF QueueIInv, TypeInv
    <2> QED
      BY <2>1 DEF HcType
  <1> HIDE DEF wb
  <1>5. TypeInv'
    BY <1>1, <1>2, <1>3, <1>4 DEF QueueIInv, TypeInv, Counts
  <1>6. ASSUME Ok' PROVE QueueInv' /\ UrbInv' /\ EdInv' /\ MainInv' /\ WaitInv'
    <2>1. Ok /\ QueueInv /\ UrbInv /\ EdInv /\ MainInv /\ WaitInv
      BY <1>2, <1>6 DEF Ok, QueueIInv
    <2>2. CASE hc' = hc
      <3>1. /\ \A v \in Urb : /\ InIrq(v)' = InIrq(v) /\ InHc(v)' = InHc(v) /\ Retired(v)' = Retired(v)
                              /\ At(irq'.list, v) = At(irq.list, v)
            /\ QueueInv'
        BY <1>1, <1>2, <2>1, <2>2, QueuesStay
      <3>2. UrbInv'
        BY <1>2, <2>1, <3>1, UrbStays DEF UrbInv
      <3> QED
        BY <1>1, <1>2, <1>3, <2>1, <3>1, <3>2 DEF EdInv, EdOk, MainInv, WaitInv
    <2>3. CASE hc' = wb /\ ~hc.wdh
      <3>1. hc.head = <<>> /\ ~irq.wdh /\ hc'.head = hc.q /\ hc'.q = <<>> /\ hc'.wdh
        BY <1>4, <2>1, <2>3 DEF QueueInv
      <3>2. \A v \in Urb : /\ InIrq(v)' = InIrq(v) /\ InHc(v)' = InHc(v) /\ Retired(v)' = Retired(v)
                           /\ At(irq'.list, v) = At(irq.list, v) /\ At(hc'.q, v) = {}
        BY <1>1, <3>1, NoneAt DEF InIrq, InHc, Retired
      <3>3. QueueInv'
        BY <1>1, <1>2, <2>1, <3>1, <3>2, NoMembers DEF QueueInv
      <3>4. UrbInv'
        BY <1>2, <2>1, <3>2, UrbStays DEF UrbInv
      <3> QED
        BY <1>1, <1>2, <1>3, <2>1, <3>3, <3>4 DEF EdInv, EdOk, MainInv, WaitInv
    <2> QED
      BY <1>1, <2>2, <2>3
  <1> QED
    BY <1>5, <1>6 DEF QueueIInv

LEMMA IdleIt == Idle \in IrqType /\ Idle.pc = "off" /\ Idle.in = <<>> /\ Idle.list = <<>> /\ Idle.wait = {} /\ ~Idle.wdh
  BY DEF Idle, IrqType

LEMMA IrqEnterStep ==
  ASSUME QueueIInv, ~o.stale, IrqEnter
  PROVE  QueueIInv'
  <1> DEFINE d == o.disabled \/ hc.ue
             i == [Idle EXCEPT !.pc = "done", !.in = hc.head, !.wdh = hc.wdh]
             h == [hc EXCEPT !.head = <<>>, !.ue = FALSE, !.q = IF hc.ue THEN <<>> ELSE hc.q]
  <1>1. /\ irq.pc = "off" /\ main.frame /\ Waiting /\ o' = [o EXCEPT !.disabled = d] /\ irq' = i /\ hc' = h
        /\ main' = main
    BY DEF IrqEnter, Polling
  <1>2. Data(o) /\ hc \in HcType /\ irq \in IrqType
    BY DEF QueueIInv, TypeInv
  <1>3. d \in BOOLEAN
    BY <1>2 DEF HcType, Data
  <1>4. /\ i \in IrqType /\ i.pc = "done" /\ i.in = hc.head /\ i.list = <<>> /\ i.wait = {} /\ i.wdh = hc.wdh
    BY <1>2, IdleIt DEF HcType, IrqType
  <1>5. /\ h \in HcType /\ h.head = <<>> /\ ~h.ue /\ h.wdh = hc.wdh /\ h.q = IF hc.ue THEN <<>> ELSE hc.q
    <2> DEFINE q == IF hc.ue THEN <<>> ELSE hc.q
    <2>1. <<>> \in Seq(Tds) /\ hc.q \in Seq(Tds)
      BY <1>2 DEF HcType
    <2>2. q \in Seq(Tds)
      BY <2>1
    <2> HIDE DEF q
    <2>3. h = [hc EXCEPT !.head = <<>>, !.ue = FALSE, !.q = q]
      BY DEF q
    <2> HIDE DEF h
    <2>4. h \in HcType /\ h.head = <<>> /\ ~h.ue /\ h.wdh = hc.wdh /\ h.q = q
      BY <1>2, <2>1, <2>2, <2>3 DEF HcType
    <2> QED
      BY <2>4 DEF q
  <1> HIDE DEF d, i, h
  <1>6. /\ Data(o') /\ o'.urb = o.urb /\ o'.ed = o.ed /\ o'.dev = o.dev /\ o'.rm = o.rm /\ o'.tick = o.tick
        /\ o'.disabled = d /\ o'.stale = o.stale /\ o'.ctl = o.ctl /\ o'.cle = o.cle
    BY <1>1, <1>2, <1>3 DEF Data
  <1>7. main.pc # "kill" /\ (Counts => main.n > 0)
    BY <1>1 DEF Waiting, Counts
  <1>8. TypeInv'
    BY <1>1, <1>4, <1>5, <1>6, <1>7 DEF QueueIInv, TypeInv, Counts
  <1>9. ASSUME Ok' PROVE QueueInv' /\ UrbInv' /\ EdInv' /\ MainInv' /\ WaitInv'
    <2>1. Ok /\ QueueInv /\ UrbInv /\ EdInv /\ MainInv /\ WaitInv /\ ~hc.ue
      BY <1>6, <1>9 DEF Ok, QueueIInv, d
    <2>2. /\ irq'.pc = "done" /\ irq'.in = hc.head /\ irq'.list = <<>> /\ irq'.wait = {} /\ irq'.wdh = hc.wdh
          /\ hc'.head = <<>> /\ hc'.q = hc.q /\ hc'.wdh = hc.wdh
      BY <1>1, <1>4, <1>5, <2>1
    <2>3. irq.in = <<>> /\ irq.list = <<>> /\ irq.wait = {}
      BY <1>1, <2>1 DEF QueueInv
    <2>4. \A v \in Urb : /\ InIrq(v)' = At(hc.head, v) /\ InHc(v)' = At(hc.q, v) /\ Retired(v)' = Retired(v)
                         /\ At(irq'.list, v) = {} /\ At(irq.list, v) = {} /\ InIrq(v) = {} /\ At(irq'.in, v) = At(hc.head, v)
      BY <2>2, <2>3, NoneAt DEF InIrq, InHc, Retired
    <2>5. QueueInv'
      BY <2>1, <2>2, <2>3, <2>4, NoMembers, NoneAt DEF QueueInv
    <2>6. ASSUME NEW v \in Urb PROVE UrbOk(v)'
      <3>1. UrbOk(v)
        BY <2>1 DEF UrbInv
      <3> QED
        BY <1>6, <2>4, <3>1 DEF UrbOk, Busy, Free
    <2>7. EdInv'
      BY <1>1, <1>6, <2>1, <2>2 DEF EdInv, EdOk
    <2>8. MainInv' /\ WaitInv'
      BY <1>1, <1>6, <2>1, <2>2 DEF MainInv, WaitInv
    <2> QED
      BY <2>5, <2>6, <2>7, <2>8 DEF UrbInv
  <1> QED
    BY <1>8, <1>9 DEF QueueIInv

LEMMA IrqUnlinksStep ==
  ASSUME QueueIInv, ~o.stale, IrqUnlinks
  PROVE  QueueIInv'
  <1> DEFINE w == IF o.disabled THEN {} ELSE o.tick
  <1>1. /\ irq.pc = "done" /\ irq.in = <<>> /\ irq.list = <<>> /\ irq' = [irq EXCEPT !.pc = "unlinks", !.wait = w]
        /\ o' = o /\ hc' = hc /\ main' = main
    BY DEF IrqUnlinks
  <1>2. w \in SUBSET Urb
    BY DEF QueueIInv, TypeInv, Data
  <1>3. o.disabled \/ w = o.tick
    OBVIOUS
  <1> HIDE DEF w
  <1>4. /\ irq' \in IrqType /\ irq'.pc = "unlinks" /\ irq'.in = irq.in /\ irq'.list = irq.list /\ irq'.wait = w
        /\ irq'.wdh = irq.wdh
    BY <1>1, <1>2 DEF QueueIInv, TypeInv, IrqType
  <1>5. TypeInv'
    BY <1>1, <1>4 DEF QueueIInv, TypeInv, Counts
  <1>6. ASSUME Ok' PROVE QueueInv' /\ UrbInv' /\ EdInv' /\ MainInv' /\ WaitInv'
    <2>1. Ok /\ QueueInv /\ UrbInv /\ EdInv /\ MainInv /\ WaitInv /\ w = o.tick
      BY <1>1, <1>3, <1>6 DEF Ok, QueueIInv
    <2>2. \A v \in Urb : /\ InIrq(v)' = InIrq(v) /\ InHc(v)' = InHc(v) /\ Retired(v)' = Retired(v)
                         /\ At(irq'.list, v) = At(irq.list, v) /\ At(irq'.in, v) = At(irq.in, v)
      BY <1>1, <1>4 DEF InIrq, InHc, Retired
    <2>3. QueueInv'
      BY <1>1, <1>4, <2>1, <2>2 DEF QueueInv
    <2>4. UrbInv'
      BY <1>1, <2>1, <2>2, UrbStays DEF UrbInv
    <2>5. EdInv' /\ MainInv' /\ WaitInv'
      BY <1>1, <1>4, <2>1 DEF EdInv, EdOk, MainInv, WaitInv
    <2> QED
      BY <2>3, <2>4, <2>5
  <1> QED
    BY <1>5, <1>6 DEF QueueIInv

LEMMA IrqEndStep ==
  ASSUME QueueIInv, ~o.stale, IrqEnd
  PROVE  QueueIInv'
  <1> DEFINE urb == [u \in Urb |-> IF o.urb[u].hcpriv /\ o.urb[u].status = "prog"
                                   THEN [o.urb[u] EXCEPT !.status = "shutdown"] ELSE o.urb[u]]
             cle == o.cle \/ (o.ctl /\ o.rm = <<>> /\ ~o.disabled)
             wdh == hc.wdh /\ ~irq.wdh
  <1>1. /\ irq.pc = "unlinks" /\ ToSet(o.rm) \subseteq irq.wait
        /\ o' = IF o.disabled THEN [o EXCEPT !.urb = urb] ELSE [o EXCEPT !.cle = cle]
        /\ hc' = [hc EXCEPT !.wdh = wdh] /\ irq' = Idle /\ main' = Polled
    BY DEF IrqEnd, Reenable
  <1>2. Data(o) /\ hc \in HcType /\ irq \in IrqType /\ main \in MainType /\ (Counts => main.n > 0)
    BY <1>1 DEF QueueIInv, TypeInv
  <1>3. main' \in MainType /\ main'.pc = main.pc /\ main'.u = main.u /\ main'.frame = (main.pc = "idle")
        /\ main'.n = IF Counts THEN main.n - 1 ELSE main.n
    BY <1>1, <1>2, PolledIt
  <1>4. hc' \in HcType /\ hc'.q = hc.q /\ hc'.head = hc.head /\ (hc'.wdh <=> wdh)
    BY <1>1, <1>2 DEF HcType
  <1>5. urb \in [Urb -> UrbType]
    <2>1. ASSUME NEW u \in Urb PROVE urb[u] \in UrbType
      <3>1. o.urb[u] \in UrbType
        BY <1>2 DEF Data
      <3>2. [o.urb[u] EXCEPT !.status = "shutdown"] \in UrbType
        BY <3>1 DEF UrbType, Statuses
      <3> QED
        BY <3>1, <3>2
    <2> QED
      BY <2>1
  <1>6. cle \in BOOLEAN
    BY <1>2 DEF Data
  <1> HIDE DEF urb
  <1>7. Data(o') /\ o'.disabled = o.disabled
    <2>1. CASE o.disabled
      <3>1. o' = [o EXCEPT !.urb = urb]
        BY <1>1, <2>1
      <3> QED
        BY <1>2, <1>5, <3>1 DEF Data
    <2>2. CASE ~o.disabled
      <3>1. o' = [o EXCEPT !.cle = cle]
        BY <1>1, <2>2
      <3> QED
        BY <1>2, <1>6, <3>1 DEF Data
    <2> QED
      BY <2>1, <2>2
  <1>8. TypeInv'
    BY <1>1, <1>3, <1>4, <1>7, IdleIt DEF QueueIInv, TypeInv
  <1>9. ASSUME Ok' PROVE QueueInv' /\ UrbInv' /\ EdInv' /\ MainInv' /\ WaitInv'
    <2>1. Ok /\ QueueInv /\ UrbInv /\ EdInv /\ MainInv /\ WaitInv
      BY <1>7, <1>9 DEF Ok, QueueIInv
    <2>2. /\ o'.urb = o.urb /\ o'.ed = o.ed /\ o'.dev = o.dev /\ o'.rm = o.rm /\ o'.tick = o.tick
          /\ o'.stale = o.stale /\ o'.ctl = o.ctl /\ o'.cle = cle
      BY <1>1, <1>2, <1>6, <2>1 DEF Data, Ok
    <2>3. irq.in = <<>> /\ irq.list = <<>>
      BY <1>1, <2>1 DEF QueueInv
    <2>4. \A v \in Urb : /\ InIrq(v)' = InIrq(v) /\ InHc(v)' = InHc(v) /\ Retired(v)' = Retired(v)
                         /\ At(irq'.list, v) = At(irq.list, v) /\ At(irq'.in, v) = At(irq.in, v)
      BY <1>1, <1>4, <2>3, IdleIt DEF InIrq, InHc, Retired
    <2>5. QueueInv'
      BY <1>1, <1>4, <2>1, <2>3, <2>4, IdleIt DEF QueueInv
    <2>6. UrbInv'
      BY <2>1, <2>2, <2>4, UrbStays DEF UrbInv
    <2>7. EdInv'
      BY <1>3, <2>1, <2>2, NoMembers DEF EdInv, EdOk, Ok
    <2>8. MainInv'
      BY <1>3, <2>1, <2>2 DEF MainInv
    <2>9. ASSUME main.pc = "unlink" PROVE WaitInv'
      <3>1. Counts /\ main'.n = main.n - 1 /\ main.n \in Nat /\ main.u \in Urb /\ Polls \in Nat
        <4>1. Counts /\ main.u \in Urb
          BY <2>9, MainUrb DEF Counts, QueueIInv
        <4>2. main.n \in Nat
          BY <1>2 DEF MainType
        <4> QED
          BY <1>3, <4>1, <4>2, PollsNat
      <3>2. ~o.urb[main.u].done => main.n = Polls
        <4>1. ASSUME ~o.urb[main.u].done, main.n # Polls PROVE FALSE
          <5>1. o.urb[main.u].del
            BY <2>1, <2>9, <4>1 DEF MainInv
          <5>2. main.u \in irq.wait
            BY <1>1, <2>1, <3>1, <5>1 DEF EdInv, EdOk
          <5> QED
            BY <2>1, <2>9, <4>1, <5>2 DEF WaitInv
        <4> QED
          BY <4>1
      <3>3. main.n <= Polls
        BY <2>1, <2>9 DEF WaitInv
      <3>4. ~main'.frame /\ main'.u = main.u /\ o'.urb = o.urb
        BY <1>3, <2>2, <2>9
      <3>5. irq'.pc = "off" /\ irq'.wait = {}
        BY <1>1, IdleIt
      <3>6. main'.n <= Polls /\ main'.n # Polls /\ (~o.urb[main.u].done => main'.n = Polls - 1)
        BY <3>1, <3>2, <3>3
      <3> QED
        BY <3>4, <3>5, <3>6 DEF WaitInv
    <2>10. WaitInv'
      BY <1>3, <2>9 DEF WaitInv
    <2> QED
      BY <2>5, <2>6, <2>7, <2>8, <2>10
  <1> QED
    BY <1>8, <1>9 DEF QueueIInv

-----------------------------------------------------------------------------
(* The steps of the code that starts and ends requests.                    *)

LEMMA UnlinkReturnsStep ==
  ASSUME QueueIInv, ~o.stale, UnlinkReturns
  PROVE  QueueIInv'
  <1> DEFINE u == main.u
             pc == IF main.u = Ctl THEN "idle" ELSE "kill"
             mu == IF main.u = Ctl THEN None ELSE main.u
  <1>1. /\ main.pc = "unlink" /\ irq.pc = "off" /\ main.frame /\ (o.urb[u].done \/ main.n = 0)
        /\ o' = usb_free_urb(o, u) /\ UNCHANGED <<hc, irq>> /\ hc' = hc /\ irq' = irq
        /\ main' = [main EXCEPT !.pc = pc, !.n = 0, !.frame = TRUE, !.u = mu]
    BY DEF UnlinkReturns
  <1>2. Data(o) /\ main \in MainType /\ u \in Urb
    BY <1>1, MainUrb DEF QueueIInv, TypeInv
  <1>3. Frees(o, o', u)
    BY <1>1, <1>2, FreeUrb
  <1>4. main' \in MainType /\ main'.pc = pc /\ main'.u = mu
    <2>1. pc \in {"idle", "kill"} /\ mu \in Urb \cup {None}
      BY <1>2
    <2> HIDE DEF pc, mu
    <2> QED
      BY <1>1, <1>2, <2>1 DEF MainType
  <1>5. (u = Ctl /\ pc = "idle" /\ mu = None) \/ (u \in IntUrb /\ pc = "kill" /\ mu = u /\ u # None)
    BY <1>2, IntIsUrb
  <1> HIDE DEF pc, mu, u
  <1>6. Data(o') /\ o'.disabled = o.disabled
    BY <1>3 DEF Frees, Rewrites, Keeps, Around
  <1>7. TypeInv'
    BY <1>1, <1>4, <1>5, <1>6 DEF QueueIInv, TypeInv
  <1>8. ASSUME Ok' PROVE QueueInv' /\ UrbInv' /\ EdInv' /\ MainInv' /\ WaitInv'
    <2>1. /\ o'.ed = o.ed /\ o'.dev = o.dev /\ o'.rm = o.rm /\ o'.tick = o.tick /\ o'.stale = o.stale
          /\ o'.ctl = o.ctl /\ o'.cle = o.cle /\ \A v \in Urb \ {u} : o'.urb[v] = o.urb[v]
      BY <1>3 DEF Frees, Rewrites, Keeps, Around
    <2>2. Ok /\ QueueInv /\ UrbInv /\ EdInv /\ MainInv /\ WaitInv
      BY <1>6, <1>8, <2>1 DEF Ok, QueueIInv
    <2>3. o.urb[u].done
      BY <1>1, <2>2, UrbAssumption DEF WaitInv, u
    <2>4. ~o.urb[u].hcpriv
      BY <1>1, <2>2, <2>3 DEF MainInv, u
    <2>5. o'.urb[u] = [FreshUrb EXCEPT !.freed = TRUE]
      BY <1>3, <2>4 DEF Frees
    <2>6. o'.urb[u].freed /\ ~o'.urb[u].hcpriv /\ ~o'.urb[u].del
      BY <2>5 DEF FreshUrb
    <2>7. o.tick = {}
      <3>1. ASSUME NEW v \in o.tick PROVE FALSE
        <4>1. v \in Urb
          BY <1>2 DEF Data
        <4>2. v = u
          BY <1>1, <2>2, <4>1 DEF EdInv, EdOk, u
        <4>3. main.n # Polls
          BY <1>1, <2>2, <2>3 DEF WaitInv, u
        <4> QED
          BY <1>1, <2>2, <4>2, <4>3 DEF WaitInv, u
      <3> QED
        BY <3>1
    <2>8. QueueInv' /\ \A v \in Urb : /\ InIrq(v)' = InIrq(v) /\ Retired(v)' = Retired(v)
                                      /\ At(irq'.list, v) = At(irq.list, v)
      BY <1>1, <2>1, <2>2, QueuesStay
    <2>9. ASSUME NEW v \in Urb PROVE UrbOk(v)'
      <3>1. CASE v = u
        BY <1>2, <2>1, <2>2, <2>4, <2>6, <2>8, <3>1 DEF UrbInv, UrbOk, Free
      <3>2. CASE v # u
        BY <2>1, <2>2, <2>8, <3>2, UrbStays DEF UrbInv
      <3> QED
        BY <3>1, <3>2
    <2>10. ASSUME NEW v \in Urb PROVE EdOk(v)'
      BY <1>1, <2>1, <2>2, <2>6, <2>7 DEF EdInv, EdOk
    <2>11. EdInv'
      BY <1>1, <2>1, <2>2, <2>10 DEF EdInv
    <2>12. ASSUME NEW v \in Urb
           PROVE  (o'.urb[v].freed => ~o'.urb[v].hcpriv) /\ ~o'.urb[v].del
      BY <1>1, <2>1, <2>2, <2>6 DEF MainInv, u
    <2>13. o'.dev[Ctl] = "here" /\ ~o'.urb[Ctl].hcpriv
      BY <1>1, <2>1, <2>2, <2>6, IntIsUrb DEF MainInv, u
    <2>14. ASSUME NEW v \in IntUrb
           PROVE  /\ o'.dev[v] = "none" => ~o'.urb[v].hcpriv /\ o'.ed[v].state = "none"
                  /\ o'.dev[v] = "gone" <=> main'.pc \in {"unlink", "kill", "disable"} /\ main'.u = v
      <3>1. v \in Urb /\ v # Ctl
        BY IntIsUrb
      <3>2. o.dev[v] = "gone" <=> u = v
        BY <1>1, <2>2 DEF MainInv, u
      <3> QED
        BY <1>4, <1>5, <2>1, <2>2, <2>6, <3>1, <3>2 DEF MainInv
    <2>15. MainInv'
      BY <1>4, <1>5, <2>12, <2>13, <2>14 DEF MainInv
    <2>16. WaitInv'
      BY <1>4, <1>5 DEF WaitInv
    <2> QED
      BY <2>8, <2>9, <2>11, <2>15, <2>16 DEF UrbInv
  <1> QED
    BY <1>7, <1>8 DEF QueueIInv

\* A request of a controller that is alive is unlinked or shut down.
LEMMA ShedStep ==
  ASSUME QueueInv, UrbInv, EdInv, irq.pc = "off", UNCHANGED <<hc, irq>>, NEW u \in Urb, Data(o), NEW s,
         s.urb = o.urb, s.ed = o.ed, s.rm = o.rm, s.tick = o.tick, s.ctl = o.ctl, s.cle = o.cle, Sheds(s, o', u),
         o.urb[u].hcpriv, o'.urb[u].hcpriv, o'.urb[u].del, o'.urb[u].status \in {"enoent", "shutdown"},
         o'.urb[u].cnt = o.urb[u].cnt, o.tick = {},
         main'.pc \in {"unlink", "disable"}, main'.u = u
  PROVE  QueueInv' /\ UrbInv' /\ EdInv'
  <1>1. /\ QueueInv'
        /\ \A v \in Urb : /\ InIrq(v)' = InIrq(v) /\ Retired(v)' = Retired(v)
                          /\ At(irq'.list, v) = At(irq.list, v)
    BY QueuesStay
  <1>2. /\ \A v \in Urb \ {u} : o'.urb[v] = o.urb[v] /\ o'.ed[v] = o.ed[v]
        /\ o.ed[u].state # "OPER" => o'.ed[u] = o.ed[u]
    BY DEF Sheds, Around
  <1>3. Busy(u) /\ o.ed[u] \in EdType /\ EdOk(u) /\ o.rm \in Seq(Urb)
    BY DEF UrbInv, UrbOk, EdInv, Data
  <1>4. At(irq.list, u) = {}
    BY AtOff
  <1>5. ASSUME o.ed[u].state = "OPER"
        PROVE  /\ o'.rm = <<u>> \o o.rm /\ o'.tick = {u}
               /\ o'.ed[u].dequeue /\ o'.ed[u].state = "UNLINK" /\ o'.ed[u].skip /\ o'.ed[u].halt = o.ed[u].halt
               /\ o'.ed[u].list = o.ed[u].list /\ o'.ed[u].head = o.ed[u].head /\ o'.ed[u].tds = o.ed[u].tds
               /\ o'.ed[u].bad = o.ed[u].bad
               /\ o'.ctl <=> o.ctl /\ u # Ctl
               /\ u # Ctl => o'.cle = o.cle
    <2>1. /\ o'.ed[u] = [o.ed[u] EXCEPT !.dequeue = TRUE, !.state = "UNLINK", !.skip = TRUE]
          /\ o'.rm = <<u>> \o o.rm /\ o'.tick = o.tick \cup {u}
          /\ o'.ctl <=> o.ctl /\ u # Ctl
          /\ u # Ctl => o'.cle = o.cle
      BY <1>5 DEF Sheds
    <2>2. /\ o'.ed[u].dequeue /\ o'.ed[u].state = "UNLINK" /\ o'.ed[u].skip /\ o'.ed[u].halt = o.ed[u].halt
          /\ o'.ed[u].list = o.ed[u].list /\ o'.ed[u].head = o.ed[u].head /\ o'.ed[u].tds = o.ed[u].tds
          /\ o'.ed[u].bad = o.ed[u].bad
      BY <1>3, <2>1 DEF EdType
    <2> QED
      BY <2>1, <2>2
  <1>6. UrbOk(u)'
    <2>1. CASE o.ed[u].state = "OPER"
      BY <1>1, <1>3, <1>4, <1>5, <2>1 DEF UrbOk, Busy
    <2>2. CASE o.ed[u].state # "OPER"
      BY <1>1, <1>2, <1>3, <1>4, <2>2 DEF UrbOk, Busy
    <2> QED
      BY <2>1, <2>2
  <1>7. UrbInv'
    BY <1>1, <1>2, <1>6, UrbStays DEF UrbInv
  <1>8. CASE o.ed[u].state = "OPER"
    <2>1. u \notin ToSet(o.rm) /\ NoTwice(o.rm)
      BY <1>3, <1>8 DEF EdOk, EdInv
    <2>2. ToSet(o'.rm) = ToSet(o.rm) \cup {u} /\ NoTwice(o'.rm)
      <3>1. ToSet(<<u>> \o o.rm) = ToSet(o.rm) \cup {u} /\ NoTwice(<<u>> \o o.rm)
        BY <1>3, <2>1, Consed
      <3> QED
        BY <1>5, <1>8, <3>1
    <2>3. EdOk(u)'
      BY <1>5, <1>8, <2>2 DEF EdOk
    <2>4. ASSUME NEW v \in Urb \ {u} PROVE EdOk(v)'
      <3>1. v \notin o'.tick /\ (v \in ToSet(o'.rm) <=> v \in ToSet(o.rm))
        BY <1>5, <1>8, <2>2
      <3>2. EdOk(v)
        BY DEF EdInv
      <3> QED
        BY <1>2, <3>1, <3>2, EdStays
    <2>5. o'.rm # <<>>
      BY <2>2, NoMembers
    <2>6. o'.ctl <=> o'.ed[Ctl].state = "OPER"
      BY <1>2, <1>5, <1>8, IntIsUrb DEF EdInv
    <2> QED
      BY <1>1, <1>7, <2>2, <2>3, <2>4, <2>5, <2>6 DEF EdInv
  <1>9. CASE o.ed[u].state # "OPER"
    <2>1. o'.rm = o.rm /\ o'.tick = {} /\ o'.ctl = o.ctl /\ o'.cle = o.cle
      BY <1>9 DEF Sheds
    <2>2. o.ed[u].state = "UNLINK"
      BY <1>3, <1>9 DEF Busy
    <2>3. EdOk(u)'
      BY <1>2, <1>3, <1>9, <2>1, <2>2 DEF EdOk
    <2>4. ASSUME NEW v \in Urb \ {u} PROVE EdOk(v)'
      BY <1>2, <2>1, EdStays DEF EdInv
    <2>5. o'.ctl <=> o'.ed[Ctl].state = "OPER"
      BY <1>2, <1>9, <2>1, IntIsUrb DEF EdInv
    <2> QED
      BY <1>1, <1>7, <2>1, <2>3, <2>4, <2>5 DEF EdInv
  <1> QED
    BY <1>8, <1>9

LEMMA DisableEndpointStep ==
  ASSUME QueueIInv, ~o.stale, DisableEndpoint
  PROVE  QueueIInv'
  <1> DEFINE u == main.u
  <1>1. /\ main.pc = "kill" /\ irq.pc = "off" /\ o' = hcd_endpoint_disable(o, u) /\ hc' = hc /\ irq' = irq
        /\ main' = [main EXCEPT !.pc = "disable"]
    BY DEF DisableEndpoint
  <1>2. Data(o) /\ main \in MainType /\ u \in IntUrb /\ u \in Urb /\ u # None
    BY <1>1, IntIsUrb DEF QueueIInv, TypeInv
  <1>3. Around(o, o', u)
    BY <1>1, <1>2, EndpointDisable
  <1>4. ~o.disabled => IF Unlinks(o, u) THEN ShutsDown(o, o', u) ELSE o' = o
    BY <1>1, <1>2, EndpointDisable
  <1>5. main' \in MainType /\ main'.pc = "disable" /\ main'.u = u
    BY <1>1, <1>2 DEF MainType
  <1> HIDE DEF u
  <1>6. TypeInv'
    BY <1>1, <1>2, <1>3, <1>5 DEF QueueIInv, TypeInv, Around
  <1>7. ASSUME Ok' PROVE QueueInv' /\ UrbInv' /\ EdInv' /\ MainInv' /\ WaitInv'
    <2>1. ~o.stale /\ ~o.disabled
      BY <1>3, <1>7 DEF Around, Ok
    <2>2. Ok /\ QueueInv /\ UrbInv /\ EdInv /\ MainInv /\ WaitInv
      BY <2>1 DEF Ok, QueueIInv
    <2>3. o.tick = {}
      BY <1>1, <1>2, <2>2 DEF EdInv, EdOk, Data
    <2>4. WaitInv'
      BY <1>5 DEF WaitInv
    <2>5. o.dev[u] = "gone" /\ ~o.urb[u].del /\ u # Ctl
      BY <1>1, <1>2, <2>2, IntIsUrb DEF MainInv, u
    <2>6. CASE ~Unlinks(o, u)
      <3>1. o' = o
        BY <1>4, <2>1, <2>6
      <3>2. QueueInv' /\ \A v \in Urb : /\ InIrq(v)' = InIrq(v) /\ Retired(v)' = Retired(v)
                                        /\ At(irq'.list, v) = At(irq.list, v)
        BY <1>1, <2>2, <3>1, QueuesStay
      <3>3. UrbInv'
        BY <2>2, <3>1, <3>2, UrbStays DEF UrbInv
      <3>4. EdInv'
        BY <1>1, <2>2, <2>3, <3>1 DEF EdInv, EdOk
      <3>5. ~o.urb[u].hcpriv
        BY <1>1, <1>2, <2>2, <2>5, <2>6, AtOff DEF Unlinks
      <3>6. MainInv'
        BY <1>1, <1>5, <2>2, <3>1, <3>5 DEF MainInv, u
      <3> QED
        BY <2>4, <3>2, <3>3, <3>4, <3>6
    <2>7. CASE Unlinks(o, u)
      <3>1. ShutsDown(o, o', u) /\ o.urb[u].hcpriv
        BY <1>4, <2>1, <2>7 DEF Unlinks
      <3>2. /\ Sheds(o, o', u) /\ o'.urb[u].hcpriv /\ o'.urb[u].del /\ o'.urb[u].status = "shutdown"
            /\ o'.urb[u].cnt = o.urb[u].cnt /\ o'.urb[u].freed = o.urb[u].freed
        BY <3>1 DEF ShutsDown
      <3>3. QueueInv' /\ UrbInv' /\ EdInv'
        BY <1>1, <1>2, <1>5, <2>2, <2>3, <3>1, <3>2, ShedStep
      <3>4. o'.dev = o.dev /\ \A v \in Urb \ {u} : o'.urb[v] = o.urb[v] /\ o'.ed[v] = o.ed[v]
        BY <3>2 DEF Sheds, Around
      <3>5. /\ o'.dev[Ctl] = "here" /\ ~o'.urb[Ctl].hcpriv
        BY <1>1, <2>2, <2>5, <3>4, IntIsUrb DEF MainInv
      <3>6. \A v \in IntUrb :
              /\ o'.dev[v] = "none" => ~o'.urb[v].hcpriv /\ o'.ed[v].state = "none"
              /\ o'.dev[v] = "gone" <=> main'.pc \in {"unlink", "kill", "disable"} /\ main'.u = v
        BY <1>1, <1>5, <2>2, <2>5, <3>4, IntIsUrb DEF MainInv, u
      <3>7. \A v \in Urb :
              /\ o'.urb[v].freed => ~o'.urb[v].hcpriv
              /\ o'.urb[v].del => main'.pc \in {"unlink", "disable"} /\ main'.u = v
        BY <1>1, <1>5, <2>2, <3>1, <3>2, <3>4 DEF MainInv
      <3>8. MainInv'
        BY <1>5, <3>2, <3>5, <3>6, <3>7 DEF MainInv
      <3> QED
        BY <2>4, <3>3, <3>8
    <2> QED
      BY <2>6, <2>7
  <1> QED
    BY <1>6, <1>7 DEF QueueIInv

LEMMA EndpointDisabledStep ==
  ASSUME QueueIInv, ~o.stale, EndpointDisabled
  PROVE  QueueIInv'
  <1> DEFINE u == main.u
  <1>1. /\ main.pc = "disable" /\ irq.pc = "off" /\ (o.disabled \/ o.ed[u].state # "UNLINK")
        /\ o' = ohci_endpoint_disable(o, u) /\ hc' = hc /\ irq' = irq
        /\ main' = [pc |-> "idle", u |-> None, n |-> 0, frame |-> TRUE]
    BY DEF EndpointDisabled
  <1>2. Data(o) /\ u \in IntUrb /\ u \in Urb /\ u # Ctl
    BY <1>1, IntIsUrb DEF QueueIInv, TypeInv
  <1>3. Forgets(o, o', u)
    BY <1>1, <1>2, ForgetsIt
  <1>4. main' \in MainType /\ main'.pc = "idle" /\ main'.u = None
    BY <1>1 DEF MainType
  <1> HIDE DEF u
  <1>5. TypeInv'
    BY <1>1, <1>3, <1>4 DEF QueueIInv, TypeInv, Forgets
  <1>6. ASSUME Ok' PROVE QueueInv' /\ UrbInv' /\ EdInv' /\ MainInv' /\ WaitInv'
    <2>1. Ok /\ QueueInv /\ UrbInv /\ EdInv /\ MainInv /\ WaitInv
      BY <1>3, <1>6 DEF Ok, QueueIInv, Forgets
    <2>2. /\ o'.urb = o.urb /\ o'.rm = o.rm /\ o'.tick = o.tick /\ o'.ctl = o.ctl /\ o'.cle = o.cle
          /\ o'.ed[u] = FreshEd /\ o'.dev[u] = "none"
          /\ \A v \in Urb \ {u} : o'.ed[v] = o.ed[v] /\ o'.dev[v] = o.dev[v]
      BY <1>3 DEF Forgets
    <2>3. o.ed[u].state # "UNLINK"
      BY <1>1, <2>1 DEF Ok
    <2>4. /\ o'.ed[u].state = "none" /\ ~o'.ed[u].skip /\ ~o'.ed[u].halt /\ ~o'.ed[u].dequeue
          /\ o'.ed[u].list = {}
      BY <2>2 DEF FreshEd
    <2>5. ~o.urb[u].del /\ u \notin ToSet(o.rm)
      BY <1>2, <2>1, <2>3 DEF EdInv, EdOk
    <2>6. ~o.urb[u].hcpriv
      BY <1>1, <2>1, <2>5 DEF MainInv, u
    <2>7. o.tick = {}
      <3>1. ASSUME NEW v \in o.tick PROVE FALSE
        <4>1. v \in Urb
          BY <1>2 DEF Data
        <4> QED
          BY <1>1, <2>1, <2>3, <4>1 DEF EdInv, EdOk, u
      <3> QED
        BY <3>1
    <2>8. QueueInv' /\ \A v \in Urb : /\ InIrq(v)' = InIrq(v) /\ Retired(v)' = Retired(v)
                                      /\ At(irq'.list, v) = At(irq.list, v)
      BY <1>1, <2>1, <2>2, QueuesStay
    <2>9. ASSUME NEW v \in Urb PROVE UrbOk(v)'
      <3>1. CASE v = u
        BY <1>2, <2>1, <2>2, <2>4, <2>6, <2>8, <3>1 DEF UrbInv, UrbOk, Free
      <3>2. CASE v # u
        BY <2>1, <2>2, <2>8, <3>2, UrbStays DEF UrbInv
      <3> QED
        BY <3>1, <3>2
    <2>10. ASSUME NEW v \in Urb PROVE EdOk(v)'
      <3>1. CASE v = u
        BY <2>2, <2>4, <2>5, <2>7, <3>1 DEF EdOk
      <3>2. CASE v # u
        BY <2>1, <2>2, <2>7, <3>2, EdStays DEF EdInv
      <3> QED
        BY <3>1, <3>2
    <2>11. EdInv'
      BY <1>1, <1>2, <2>1, <2>2, <2>10, IntIsUrb DEF EdInv
    <2>12. \A v \in Urb : (o'.urb[v].freed => ~o'.urb[v].hcpriv) /\ ~o'.urb[v].del
      BY <1>1, <2>1, <2>2, <2>5 DEF MainInv, u
    <2>13. o'.dev[Ctl] = "here" /\ ~o'.urb[Ctl].hcpriv
      BY <1>1, <1>2, <2>1, <2>2, IntIsUrb DEF MainInv
    <2>14. \A v \in IntUrb :
             /\ o'.dev[v] = "none" => ~o'.urb[v].hcpriv /\ o'.ed[v].state = "none"
             /\ o'.dev[v] # "gone"
      <3>1. \A v \in IntUrb : o.dev[v] = "gone" <=> u = v
        BY <1>1, <2>1 DEF MainInv, u
      <3> QED
        BY <2>1, <2>2, <2>4, <2>6, <3>1, IntIsUrb DEF MainInv
    <2>15. MainInv' /\ WaitInv'
      BY <1>4, <2>12, <2>13, <2>14 DEF MainInv, WaitInv
    <2> QED
      BY <2>8, <2>9, <2>11, <2>15 DEF UrbInv
  <1> QED
    BY <1>5, <1>6 DEF QueueIInv

\* A request that was returned is freed.
LEMMA FreedStep ==
  ASSUME QueueInv, UrbInv, EdInv, irq.pc = "off", UNCHANGED <<hc, irq>>, NEW u \in Urb,
         ~o.urb[u].hcpriv, ~o'.urb[u].hcpriv, ~o'.urb[u].del, o.tick = {},
         o'.ed = o.ed, o'.rm = o.rm, o'.tick = o.tick, o'.ctl = o.ctl, o'.cle = o.cle,
         \A v \in Urb \ {u} : o'.urb[v] = o.urb[v]
  PROVE  QueueInv' /\ UrbInv' /\ EdInv'
  <1>1. /\ QueueInv'
        /\ \A v \in Urb : /\ InIrq(v)' = InIrq(v) /\ Retired(v)' = Retired(v)
                          /\ At(irq'.list, v) = At(irq.list, v)
    BY QueuesStay
  <1>2. ASSUME NEW v \in Urb PROVE UrbOk(v)'
    <2>1. CASE v = u
      BY <1>1, <2>1 DEF UrbInv, UrbOk, Free
    <2>2. CASE v # u
      BY <1>1, <2>2, UrbStays DEF UrbInv
    <2> QED
      BY <2>1, <2>2
  <1>3. ASSUME NEW v \in Urb PROVE EdOk(v)'
    <2>1. CASE v = u
      BY <2>1 DEF EdInv, EdOk
    <2>2. CASE v # u
      BY <2>2, EdStays DEF EdInv
    <2> QED
      BY <2>1, <2>2
  <1>4. EdInv'
    BY <1>3 DEF EdInv
  <1> QED
    BY <1>1, <1>2, <1>4 DEF UrbInv

\* A request is submitted while the handler does not run.
LEMMA SubmittedStep ==
  ASSUME QueueInv, UrbInv, EdInv, irq.pc = "off", UNCHANGED <<hc, irq>>, NEW u \in Urb, Data(o),
         ~o.urb[u].hcpriv, o.tick = {}, NEW s,
         s.ed = o.ed, s.rm = o.rm, s.tick = o.tick, s.ctl = o.ctl, s.cle = o.cle,
         \A v \in Urb \ {u} : s.urb[v] = o.urb[v],
         Submits(s, o', u)
  PROVE  QueueInv' /\ UrbInv' /\ EdInv'
  <1>1. /\ QueueInv'
        /\ \A v \in Urb : /\ InIrq(v)' = InIrq(v) /\ Retired(v)' = Retired(v)
                          /\ At(irq'.list, v) = At(irq.list, v)
    BY QueuesStay
  <1>2. /\ \A v \in Urb \ {u} : o'.urb[v] = o.urb[v] /\ o'.ed[v] = o.ed[v]
        /\ o'.rm = o.rm /\ o'.tick = {}
    BY DEF Submits, Keeps, Around
  <1>3. /\ o'.urb[u].hcpriv /\ o'.urb[u].status = "prog" /\ o'.urb[u].cnt = 0 /\ ~o'.urb[u].del
        /\ o'.ed[u].list = 1 .. Length(u) /\ o'.ed[u].head = 1 /\ o'.ed[u].tds = {}
        /\ o'.ed[u].bad = 0
        /\ o'.ed[u].state = IF o.ed[u].state \in {"none", "IDLE"} THEN "OPER" ELSE o.ed[u].state
        /\ o'.ed[u].halt => o.ed[u].halt
        /\ o.ed[u].state # "none" => o'.ed[u].skip = o.ed[u].skip /\ o'.ed[u].dequeue = o.ed[u].dequeue
        /\ o.ed[u].state = "none" => ~o'.ed[u].skip /\ ~o'.ed[u].dequeue
        /\ o'.ctl <=> o.ctl \/ (u = Ctl /\ o.ed[u].state \in {"none", "IDLE"})
        /\ o'.cle <=> o.cle \/ (u = Ctl /\ o.ed[u].state \in {"none", "IDLE"} /\ ~o.ctl /\ o.rm = <<>>)
    BY DEF Submits
  <1>4. Free(u) /\ EdOk(u) /\ o.ed[u] \in EdType
    BY DEF UrbInv, UrbOk, EdInv, Data
  <1>5. o.ed[u].state \in {"none", "IDLE", "UNLINK"} /\ (o.ed[u].state # "UNLINK" => ~o.ed[u].skip)
    BY <1>4 DEF Free, EdOk, EdType
  <1>6. Length(u) \in 1 .. 3 /\ Cardinality(1 .. Length(u)) = Length(u)
    <2>1. Length(u) \in 1 .. 3
      BY Lengths DEF TdNumbers
    <2>2. Length(u) \in Int /\ 1 \in Int
      BY <2>1
    <2>3. Cardinality(1 .. Length(u)) = IF 1 > Length(u) THEN 0 ELSE Length(u) - 1 + 1
      BY <2>2, FS_Interval
    <2> QED
      BY <2>1, <2>3
  <1>7. At(irq.list, u) = {} /\ InIrq(u) = {}
    BY AtOff
  <1>8. Busy(u)'
    <2>1. 1 \in 1 .. Length(u) /\ 0 \notin 1 .. Length(u) /\ 1 \in 1 .. Length(u) + 1
          /\ 0 + Length(u) = Length(u) /\ {i \in 1 .. Length(u) : i < 1} = {}
      BY <1>6
    <2>2. Retired(u)' = {} /\ At(irq'.list, u) = {} /\ ~o'.ed[u].halt
      BY <1>1, <1>3, <1>4, <1>7 DEF Free
    <2>3. o'.ed[u].state = "OPER" => ~o'.ed[u].skip
      BY <1>3, <1>5
    <2>4. o'.ed[u].state \in {"OPER", "UNLINK"}
      BY <1>3, <1>5
    <2> QED
      BY <1>3, <1>6, <2>1, <2>2, <2>3, <2>4 DEF Busy
  <1>9. UrbInv'
    <2>1. UrbOk(u)'
      BY <1>3, <1>8 DEF UrbOk
    <2>2. ASSUME NEW v \in Urb \ {u} PROVE UrbOk(v)'
      BY <1>1, <1>2, UrbStays DEF UrbInv
    <2> QED
      BY <2>1, <2>2 DEF UrbInv
  <1>10. ASSUME NEW v \in Urb PROVE EdOk(v)'
    <2>1. CASE v = u
      BY <1>2, <1>3, <1>4, <1>5, <2>1 DEF EdOk
    <2>2. CASE v # u
      BY <1>2, <2>2, EdStays DEF EdInv
    <2> QED
      BY <2>1, <2>2
  <1>11. o'.ctl <=> o'.ed[Ctl].state = "OPER"
    <2>1. CASE u = Ctl
      BY <1>3, <1>5, <2>1 DEF EdInv
    <2>2. CASE u # Ctl
      BY <1>2, <1>3, <2>2, IntIsUrb DEF EdInv
    <2> QED
      BY <2>1, <2>2
  <1>12. o'.ctl /\ ~o'.cle => o'.rm # <<>>
    BY <1>2, <1>3 DEF EdInv
  <1>13. EdInv'
    BY <1>2, <1>10, <1>11, <1>12 DEF EdInv
  <1> QED
    BY <1>1, <1>9, <1>13

\* Nothing is being unlinked unless somebody waits for it.
LEMMA NothingGoes ==
  ASSUME QueueIInv, Ok, main.pc \in {"idle", "msg", "kill"}
  PROVE  /\ QueueInv /\ UrbInv /\ EdInv /\ MainInv /\ WaitInv
         /\ o.tick = {} /\ \A u \in Urb : ~o.urb[u].del
         /\ main.pc \in {"idle", "msg"} => \A u \in IntUrb : o.dev[u] # "gone"
         /\ main.pc # "msg" => ~o.urb[Ctl].hcpriv
  <1>1. QueueInv /\ UrbInv /\ EdInv /\ MainInv /\ WaitInv
    BY DEF QueueIInv
  <1>2. ASSUME NEW v \in o.tick PROVE FALSE
    <2>1. v \in Urb
      BY DEF QueueIInv, TypeInv, Data
    <2> QED
      BY <1>1, <2>1 DEF EdInv, EdOk
  <1> QED
    BY <1>1, <1>2 DEF MainInv

LEMMA MsgReturnsStep ==
  ASSUME QueueIInv, ~o.stale, MsgReturns
  PROVE  QueueIInv'
  <1> DEFINE unl == ~o.urb[Ctl].done /\ o.urb[Ctl].status = "prog" /\ Unlinks(o, Ctl)
  <1>1. /\ main.pc = "msg" /\ irq.pc = "off" /\ (o.urb[Ctl].done \/ main.n = 0) /\ hc' = hc /\ irq' = irq
        /\ IF unl
           THEN /\ o' = hcd_unlink_urb(o, Ctl)
                /\ main' = [pc |-> "unlink", u |-> Ctl, n |-> Polls, frame |-> TRUE]
           ELSE /\ o' = usb_free_urb(o, Ctl)
                /\ main' = [pc |-> "idle", u |-> None, n |-> 0, frame |-> TRUE]
    BY DEF MsgReturns, UnlinkThen
  <1>2. Data(o) /\ Ctl \in Urb /\ Ctl # None
    BY IntIsUrb DEF QueueIInv, TypeInv
  <1>3. CASE unl
    <2>1. /\ o' = hcd_unlink_urb(o, Ctl) /\ o.urb[Ctl].hcpriv
          /\ main' = [pc |-> "unlink", u |-> Ctl, n |-> Polls, frame |-> TRUE]
      BY <1>1, <1>3 DEF Unlinks
    <2>2. Around(o, o', Ctl) /\ (~o.disabled => UnlinksUrb(o, o', Ctl))
      BY <1>2, <2>1, UnlinkUrb
    <2>3. main' \in MainType /\ main'.pc = "unlink" /\ main'.u = Ctl /\ main'.n = Polls
      BY <1>2, <2>1, PollsNat DEF MainType
    <2>4. TypeInv'
      BY <1>1, <1>2, <2>2, <2>3 DEF QueueIInv, TypeInv, Around
    <2>5. ASSUME Ok' PROVE QueueInv' /\ UrbInv' /\ EdInv' /\ MainInv' /\ WaitInv'
      <3>1. Ok /\ UnlinksUrb(o, o', Ctl)
        BY <2>2, <2>5 DEF Ok, Around
      <3>2. /\ QueueInv /\ UrbInv /\ EdInv /\ MainInv
            /\ o.tick = {} /\ \A u \in Urb : ~o.urb[u].del
            /\ \A u \in IntUrb : o.dev[u] # "gone"
        BY <1>1, <3>1, NothingGoes
      <3>3. /\ Sheds(o, o', Ctl) /\ o'.urb[Ctl].hcpriv /\ o'.urb[Ctl].del /\ o'.urb[Ctl].status = "enoent"
            /\ o'.urb[Ctl].cnt = o.urb[Ctl].cnt /\ o'.urb[Ctl].freed = o.urb[Ctl].freed
            /\ o'.urb[Ctl].spliced /\ ~o'.urb[Ctl].done
        BY <2>1, <3>1 DEF UnlinksUrb
      <3>4. QueueInv' /\ UrbInv' /\ EdInv'
        BY <1>1, <1>2, <2>1, <2>3, <3>2, <3>3, ShedStep
      <3>5. o'.dev = o.dev /\ \A v \in Urb \ {Ctl} : o'.urb[v] = o.urb[v] /\ o'.ed[v] = o.ed[v]
        BY <3>3 DEF Sheds, Around
      <3>6. \A v \in IntUrb :
              /\ o'.dev[v] = "none" => ~o'.urb[v].hcpriv /\ o'.ed[v].state = "none"
              /\ o'.dev[v] # "gone" /\ v # Ctl
        BY <3>2, <3>5, IntIsUrb DEF MainInv
      <3>7. \A v \in Urb :
              /\ o'.urb[v].freed => ~o'.urb[v].hcpriv
              /\ o'.urb[v].del => v = Ctl
        BY <2>1, <3>2, <3>3, <3>5 DEF MainInv
      <3>8. MainInv'
        BY <2>3, <3>2, <3>3, <3>5, <3>6, <3>7 DEF MainInv
      <3>9. WaitInv'
        BY <2>3, <3>3, PollsNat DEF WaitInv
      <3> QED
        BY <3>4, <3>8, <3>9
    <2> QED
      BY <2>4, <2>5 DEF QueueIInv
  <1>4. CASE ~unl
    <2>1. o' = usb_free_urb(o, Ctl) /\ main' = [pc |-> "idle", u |-> None, n |-> 0, frame |-> TRUE]
      BY <1>1, <1>4
    <2>2. Frees(o, o', Ctl)
      BY <1>2, <2>1, FreeUrb
    <2>3. main' \in MainType /\ main'.pc = "idle" /\ main'.u = None
      BY <2>1 DEF MainType
    <2>4. /\ Data(o') /\ o'.disabled = o.disabled /\ o'.stale = o.stale /\ o'.ed = o.ed /\ o'.dev = o.dev
          /\ o'.rm = o.rm /\ o'.tick = o.tick /\ o'.ctl = o.ctl /\ o'.cle = o.cle
          /\ \A v \in Urb \ {Ctl} : o'.urb[v] = o.urb[v]
      BY <2>2 DEF Frees, Rewrites, Keeps, Around
    <2>5. TypeInv'
      BY <1>1, <2>3, <2>4 DEF QueueIInv, TypeInv
    <2>6. ASSUME Ok' PROVE QueueInv' /\ UrbInv' /\ EdInv' /\ MainInv' /\ WaitInv'
      <3>1. Ok
        BY <2>4, <2>6 DEF Ok
      <3>2. /\ QueueInv /\ UrbInv /\ EdInv /\ MainInv
            /\ o.tick = {} /\ \A u \in Urb : ~o.urb[u].del
            /\ \A u \in IntUrb : o.dev[u] # "gone"
        BY <1>1, <3>1, NothingGoes
      <3>3. ~o.urb[Ctl].hcpriv
        <4>1. ASSUME o.urb[Ctl].hcpriv PROVE FALSE
          <5>1. o.urb[Ctl].status = "prog"
            BY <1>1, <1>2, <3>2, <4>1, AtOff
          <5>2. ~o.urb[Ctl].done
            BY <1>1, <3>2, <4>1 DEF MainInv
          <5> QED
            BY <1>4, <4>1, <5>1, <5>2 DEF Unlinks
        <4> QED
          BY <4>1
      <3>4. ~o'.urb[Ctl].hcpriv /\ ~o'.urb[Ctl].del
        <4>1. o'.urb[Ctl] = [FreshUrb EXCEPT !.freed = TRUE]
          BY <2>2, <3>3 DEF Frees
        <4> QED
          BY <4>1 DEF FreshUrb
      <3>5. QueueInv' /\ UrbInv' /\ EdInv'
        BY <1>1, <1>2, <2>4, <3>2, <3>3, <3>4, FreedStep
      <3>6. \A v \in Urb : (o'.urb[v].freed => ~o'.urb[v].hcpriv) /\ ~o'.urb[v].del
        BY <2>4, <3>2, <3>4 DEF MainInv
      <3>7. \A v \in IntUrb :
              /\ o'.dev[v] = "none" => ~o'.urb[v].hcpriv /\ o'.ed[v].state = "none"
              /\ o'.dev[v] # "gone"
        BY <2>4, <3>2, IntIsUrb DEF MainInv
      <3>8. MainInv' /\ WaitInv'
        BY <2>3, <2>4, <3>2, <3>4, <3>6, <3>7 DEF MainInv, WaitInv
      <3> QED
        BY <3>5, <3>8
    <2> QED
      BY <2>5, <2>6 DEF QueueIInv
  <1> QED
    BY <1>3, <1>4

LEMMA ControlMsgStep ==
  ASSUME QueueIInv, ~o.stale, ControlMsg
  PROVE  QueueIInv'
  <1> DEFINE p == [o EXCEPT !.urb[Ctl] = FreshUrb]
             s == usb_submit_urb(p, Ctl)
             f == usb_free_urb(s, Ctl)
  <1>1. /\ main.pc = "idle" /\ irq.pc = "off" /\ hc' = hc /\ irq' = irq
        /\ o' = IF s.urb[Ctl].hcpriv THEN s ELSE f
        /\ main' = IF s.urb[Ctl].hcpriv THEN [pc |-> "msg", u |-> Ctl, n |-> Polls, frame |-> TRUE] ELSE main
    BY DEF ControlMsg, AtRest
  <1>2. Data(o) /\ Ctl \in Urb /\ Ctl # None
    BY IntIsUrb DEF QueueIInv, TypeInv
  <1>3. Rewrites(o, p, Ctl) /\ Data(p) /\ p.urb[Ctl] = FreshUrb
    BY <1>2, FreshUrbType, RewritesIt
  <1> HIDE DEF p
  <1>4. IF Accepts(p, Ctl) THEN Submits(p, s, Ctl) ELSE Refuses(p, s, Ctl)
    BY <1>2, <1>3, SubmitUrb
  <1> HIDE DEF s
  <1>5. Data(s) /\ s.disabled = o.disabled
    BY <1>3, <1>4 DEF Submits, Refuses, Rewrites, Keeps, Around
  <1>6. Frees(s, f, Ctl)
    BY <1>2, <1>5, FreeUrb
  <1> HIDE DEF f
  <1>7. Data(o') /\ o'.disabled = o.disabled
    BY <1>1, <1>5, <1>6 DEF Frees, Rewrites, Keeps, Around
  <1>8. /\ main' \in MainType
        /\ s.urb[Ctl].hcpriv => main'.pc = "msg" /\ main'.u = Ctl
        /\ ~s.urb[Ctl].hcpriv => main' = main
    BY <1>1, <1>2, PollsNat DEF QueueIInv, TypeInv, MainType
  <1>9. TypeInv'
    BY <1>1, <1>2, <1>7, <1>8 DEF QueueIInv, TypeInv
  <1>10. ASSUME Ok' PROVE QueueInv' /\ UrbInv' /\ EdInv' /\ MainInv' /\ WaitInv'
    <2>1. Ok
      BY <1>7, <1>10 DEF Ok
    <2>2. /\ QueueInv /\ UrbInv /\ EdInv /\ MainInv
          /\ o.tick = {} /\ \A u \in Urb : ~o.urb[u].del
          /\ \A u \in IntUrb : o.dev[u] # "gone" /\ ~o.urb[Ctl].hcpriv
          /\ ~o.urb[Ctl].hcpriv
      BY <1>1, <2>1, NothingGoes
    <2>3. /\ p.ed = o.ed /\ p.rm = o.rm /\ p.tick = o.tick /\ p.ctl = o.ctl /\ p.cle = o.cle /\ p.dev = o.dev
          /\ p.disabled = o.disabled /\ \A v \in Urb \ {Ctl} : p.urb[v] = o.urb[v]
      BY <1>3 DEF Rewrites, Keeps, Around
    <2>4. Accepts(p, Ctl)
      BY <1>3, <2>1, <2>2, <2>3 DEF Accepts, MainInv, Ok, FreshUrb
    <2>5. Submits(p, s, Ctl) /\ s.urb[Ctl].hcpriv
      BY <1>4, <2>4 DEF Submits
    <2>6. Submits(p, o', Ctl)
      BY <1>1, <2>5
    <2>7. QueueInv' /\ UrbInv' /\ EdInv'
      BY <1>1, <1>2, <2>2, <2>3, <2>6, SubmittedStep
    <2>8. /\ o'.urb[Ctl].hcpriv /\ ~o'.urb[Ctl].del /\ ~o'.urb[Ctl].freed /\ ~o'.urb[Ctl].done
          /\ o'.dev = o.dev /\ \A v \in Urb \ {Ctl} : o'.urb[v] = o.urb[v] /\ o'.ed[v] = o.ed[v]
      BY <1>3, <2>3, <2>6 DEF Submits, Keeps, Around, FreshUrb
    <2>9. \A v \in Urb : (o'.urb[v].freed => ~o'.urb[v].hcpriv) /\ ~o'.urb[v].del
      BY <2>2, <2>8 DEF MainInv
    <2>10. \A v \in IntUrb :
             /\ o'.dev[v] = "none" => ~o'.urb[v].hcpriv /\ o'.ed[v].state = "none"
             /\ o'.dev[v] # "gone"
      BY <2>2, <2>8, IntIsUrb DEF MainInv
    <2>11. MainInv' /\ WaitInv'
      BY <1>8, <2>2, <2>5, <2>8, <2>9, <2>10 DEF MainInv, WaitInv
    <2> QED
      BY <2>7, <2>11
  <1> QED
    BY <1>9, <1>10 DEF QueueIInv

LEMMA ProbeStep ==
  ASSUME QueueIInv, ~o.stale, NEW u \in IntUrb, Probe(u)
  PROVE  QueueIInv'
  <1>1. PICK b \in BOOLEAN :
          o' = usb_submit_urb(Dev([o EXCEPT !.urb[u] = [FreshUrb EXCEPT !.bound = b]], u, "here"), u)
    BY DEF Probe
  <1> DEFINE n == [FreshUrb EXCEPT !.bound = b]
             p == [o EXCEPT !.urb[u] = n]
             s == Dev(p, u, "here")
  <1>2. main.pc = "idle" /\ irq.pc = "off" /\ o.dev[u] = "none" /\ hc' = hc /\ irq' = irq /\ main' = main
    BY DEF Probe, AtRest
  <1>3. Data(o) /\ u \in Urb /\ u # Ctl
    BY IntIsUrb DEF QueueIInv, TypeInv
  <1>4. n \in UrbType /\ ~n.hcpriv /\ ~n.freed /\ ~n.del
    BY FreshUrbType DEF UrbType, FreshUrb
  <1>5. o' = usb_submit_urb(s, u)
    BY <1>1
  <1> HIDE DEF n
  <1>6. Rewrites(o, p, u) /\ Data(p) /\ p.urb[u] = n
    BY <1>3, <1>4, RewritesIt
  <1> HIDE DEF p
  <1>7. Moves(p, s, u) /\ s.dev[u] = "here"
    BY <1>3, <1>6, DevMoves
  <1> HIDE DEF s
  <1>8. Data(s) /\ s.disabled = o.disabled
    BY <1>6, <1>7 DEF Moves, Rewrites, Keeps, Around
  <1>9. IF Accepts(s, u) THEN Submits(s, o', u) ELSE Refuses(s, o', u)
    BY <1>3, <1>5, <1>8, SubmitUrb
  <1>10. Data(o') /\ o'.disabled = o.disabled
    BY <1>8, <1>9 DEF Submits, Refuses, Rewrites, Keeps, Around
  <1>11. TypeInv'
    BY <1>2, <1>10 DEF QueueIInv, TypeInv
  <1>12. ASSUME Ok' PROVE QueueInv' /\ UrbInv' /\ EdInv' /\ MainInv' /\ WaitInv'
    <2>1. Ok
      BY <1>10, <1>12 DEF Ok
    <2>2. /\ QueueInv /\ UrbInv /\ EdInv /\ MainInv
          /\ o.tick = {} /\ \A v \in Urb : ~o.urb[v].del
          /\ \A v \in IntUrb : o.dev[v] # "gone"
          /\ ~o.urb[Ctl].hcpriv
      BY <1>2, <2>1, NothingGoes
    <2>3. /\ s.ed = o.ed /\ s.rm = o.rm /\ s.tick = o.tick /\ s.ctl = o.ctl /\ s.cle = o.cle
          /\ s.urb[u] = n /\ \A v \in Urb \ {u} : s.urb[v] = o.urb[v] /\ s.dev[v] = o.dev[v]
      BY <1>6, <1>7 DEF Moves, Rewrites, Keeps, Around
    <2>4. Accepts(s, u)
      BY <1>4, <1>7, <1>8, <2>1, <2>3 DEF Accepts, Ok
    <2>5. Submits(s, o', u)
      BY <1>9, <2>4
    <2>6. ~o.urb[u].hcpriv
      BY <1>2, <2>2 DEF MainInv
    <2>7. QueueInv' /\ UrbInv' /\ EdInv'
      BY <1>2, <1>3, <2>2, <2>3, <2>5, <2>6, SubmittedStep
    <2>8. /\ o'.urb[u].hcpriv /\ ~o'.urb[u].del /\ ~o'.urb[u].freed /\ o'.dev[u] = "here"
          /\ \A v \in Urb \ {u} : o'.urb[v] = o.urb[v] /\ o'.ed[v] = o.ed[v] /\ o'.dev[v] = o.dev[v]
      BY <1>4, <1>7, <2>3, <2>5 DEF Submits, Keeps, Around
    <2>9. \A v \in Urb : (o'.urb[v].freed => ~o'.urb[v].hcpriv) /\ ~o'.urb[v].del
      BY <2>2, <2>8 DEF MainInv
    <2>10. \A v \in IntUrb :
             /\ o'.dev[v] = "none" => ~o'.urb[v].hcpriv /\ o'.ed[v].state = "none"
             /\ o'.dev[v] # "gone"
      BY <2>2, <2>8, IntIsUrb DEF MainInv
    <2>11. o'.dev[Ctl] = "here" /\ ~o'.urb[Ctl].hcpriv
      BY <1>3, <2>2, <2>8, IntIsUrb DEF MainInv
    <2>12. MainInv' /\ WaitInv'
      BY <1>2, <2>9, <2>10, <2>11 DEF MainInv, WaitInv
    <2> QED
      BY <2>7, <2>12
  <1> QED
    BY <1>11, <1>12 DEF QueueIInv

LEMMA DisconnectStep ==
  ASSUME QueueIInv, ~o.stale, NEW u \in IntUrb, Disconnect(u)
  PROVE  QueueIInv'
  <1> DEFINE s == Leave(o, u)
             unl == o.urb[u].bound /\ Unlinks(s, u)
  <1>1. /\ main.pc = "idle" /\ irq.pc = "off" /\ o.dev[u] \in {"here", "halted"} /\ hc' = hc /\ irq' = irq
        /\ IF unl
           THEN o' = hcd_unlink_urb(s, u) /\ main' = [pc |-> "unlink", u |-> u, n |-> Polls, frame |-> TRUE]
           ELSE /\ o' = IF o.urb[u].bound THEN usb_free_urb(s, u) ELSE s
                /\ main' = [pc |-> "kill", u |-> u, n |-> 0, frame |-> TRUE]
    BY DEF Disconnect, AtRest, UnlinkThen
  <1>2. Data(o) /\ u \in Urb /\ u # Ctl /\ u # None
    BY IntIsUrb DEF QueueIInv, TypeInv
  <1>3. Moves(o, s, u) /\ s.dev[u] = "gone"
    BY <1>2, DevMoves DEF Leave
  <1> HIDE DEF s
  <1>4. /\ Data(s) /\ s.disabled = o.disabled /\ s.urb = o.urb /\ s.ed = o.ed /\ s.rm = o.rm /\ s.tick = o.tick
        /\ s.stale = o.stale /\ s.ctl = o.ctl /\ s.cle = o.cle /\ \A v \in Urb \ {u} : s.dev[v] = o.dev[v]
    BY <1>3 DEF Moves
  <1>5. main' \in MainType /\ main'.u = u /\ main'.pc = IF unl THEN "unlink" ELSE "kill"
    <2> HIDE DEF unl
    <2>1. CASE unl
      <3>1. main' = [pc |-> "unlink", u |-> u, n |-> Polls, frame |-> TRUE]
        BY <1>1, <2>1
      <3> QED
        BY <1>2, <2>1, <3>1, PollsNat DEF MainType
    <2>2. CASE ~unl
      <3>1. main' = [pc |-> "kill", u |-> u, n |-> 0, frame |-> TRUE]
        BY <1>1, <2>2
      <3> QED
        BY <1>2, <2>2, <3>1 DEF MainType
    <2> QED
      BY <2>1, <2>2
  <1>6. /\ unl => Around(s, o', u) /\ (~o.disabled => UnlinksUrb(s, o', u))
        /\ ~unl /\ o.urb[u].bound => Frees(s, o', u)
        /\ ~unl /\ ~o.urb[u].bound => o' = s
    BY <1>1, <1>2, <1>4, UnlinkUrb, FreeUrb
  <1>7. Data(o') /\ o'.disabled = o.disabled
    BY <1>4, <1>6 DEF Around, Frees, Rewrites, Keeps
  <1>8. TypeInv'
    BY <1>1, <1>2, <1>5, <1>7 DEF QueueIInv, TypeInv
  <1>9. ASSUME Ok' PROVE QueueInv' /\ UrbInv' /\ EdInv' /\ MainInv' /\ WaitInv'
    <2>1. Ok
      BY <1>7, <1>9 DEF Ok
    <2>2. /\ QueueInv /\ UrbInv /\ EdInv /\ MainInv
          /\ o.tick = {} /\ \A v \in Urb : ~o.urb[v].del
          /\ \A v \in IntUrb : o.dev[v] # "gone"
          /\ ~o.urb[Ctl].hcpriv
      BY <1>1, <2>1, NothingGoes
    <2>3. ASSUME o'.dev = s.dev, \A v \in Urb \ {u} : o'.urb[v] = o.urb[v] /\ o'.ed[v] = o.ed[v],
                 o'.urb[u].freed => ~o'.urb[u].hcpriv,
                 o'.urb[u].del => unl, unl => o'.urb[u].hcpriv /\ ~o'.urb[u].done,
                 unl => o'.urb[u].del /\ o'.urb[u].spliced /\ o'.urb[u].status = "enoent"
          PROVE  MainInv' /\ WaitInv'
      <3>1. \A v \in Urb : /\ o'.urb[v].freed => ~o'.urb[v].hcpriv
                           /\ o'.urb[v].del => unl /\ v = u
        BY <2>2, <2>3 DEF MainInv
      <3>2. o'.dev[Ctl] = "here" /\ ~o'.urb[Ctl].hcpriv
        BY <1>2, <1>4, <2>2, <2>3, IntIsUrb DEF MainInv
      <3>3. \A v \in IntUrb :
              /\ o'.dev[v] = "none" => ~o'.urb[v].hcpriv /\ o'.ed[v].state = "none"
              /\ o'.dev[v] = "gone" <=> v = u
        BY <1>2, <1>3, <1>4, <2>2, <2>3, IntIsUrb DEF MainInv
      <3>4. MainInv'
        BY <1>5, <2>3, <3>1, <3>2, <3>3 DEF MainInv
      <3>5. WaitInv'
        <4>1. CASE unl
          <5>1. main'.pc = "unlink" /\ main'.u = u /\ main'.n = Polls
            BY <1>1, <4>1
          <5> QED
            BY <2>3, <4>1, <5>1, PollsNat DEF WaitInv
        <4>2. CASE ~unl
          BY <1>5, <4>2 DEF WaitInv
        <4> QED
          BY <4>1, <4>2
      <3> QED
        BY <3>4, <3>5
    <2>4. CASE unl
      <3>1. UnlinksUrb(s, o', u) /\ o.urb[u].hcpriv
        BY <1>4, <1>6, <2>1, <2>4 DEF Ok, Unlinks
      <3>2. /\ Sheds(s, o', u) /\ o'.urb[u].hcpriv /\ o'.urb[u].del /\ o'.urb[u].status = "enoent"
            /\ o'.urb[u].cnt = o.urb[u].cnt /\ o'.urb[u].freed = o.urb[u].freed
            /\ o'.urb[u].spliced /\ ~o'.urb[u].done
        BY <1>4, <3>1 DEF UnlinksUrb
      <3>3. QueueInv' /\ UrbInv' /\ EdInv'
        BY <1>1, <1>2, <1>4, <1>5, <2>2, <2>4, <3>1, <3>2, ShedStep
      <3>4. o'.dev = s.dev /\ \A v \in Urb \ {u} : o'.urb[v] = o.urb[v] /\ o'.ed[v] = o.ed[v]
        BY <1>4, <3>2 DEF Sheds, Around
      <3>5. ~o.urb[u].freed
        BY <1>2, <2>2, <3>1 DEF MainInv
      <3> HIDE DEF unl
      <3> QED
        BY <2>3, <2>4, <3>2, <3>3, <3>4, <3>5
    <2>5. CASE ~unl /\ o.urb[u].bound
      <3>1. Frees(s, o', u)
        BY <1>6, <2>5
      <3>2. ~o.urb[u].hcpriv
        BY <1>1, <1>2, <1>4, <2>2, <2>5, AtOff DEF Unlinks
      <3>3. o'.urb[u].freed /\ ~o'.urb[u].hcpriv /\ ~o'.urb[u].del
        <4>1. o'.urb[u] = [FreshUrb EXCEPT !.freed = TRUE]
          BY <1>4, <3>1, <3>2 DEF Frees
        <4> QED
          BY <4>1 DEF FreshUrb
      <3>4. /\ o'.ed = o.ed /\ o'.rm = o.rm /\ o'.tick = o.tick /\ o'.ctl = o.ctl /\ o'.cle = o.cle
            /\ o'.dev = s.dev /\ \A v \in Urb \ {u} : o'.urb[v] = o.urb[v]
        BY <1>4, <3>1 DEF Frees, Rewrites, Keeps, Around
      <3>5. QueueInv' /\ UrbInv' /\ EdInv'
        BY <1>1, <1>2, <2>2, <3>2, <3>3, <3>4, FreedStep
      <3> HIDE DEF unl
      <3> QED
        BY <2>3, <2>5, <3>3, <3>4, <3>5
    <2>6. CASE ~unl /\ ~o.urb[u].bound
      <3>1. o' = s
        BY <1>6, <2>6
      <3>2. QueueInv' /\ \A v \in Urb : /\ InIrq(v)' = InIrq(v) /\ Retired(v)' = Retired(v)
                                        /\ At(irq'.list, v) = At(irq.list, v)
        BY <1>1, <2>2, QueuesStay
      <3>3. UrbInv'
        BY <1>4, <2>2, <3>1, <3>2, UrbStays DEF UrbInv
      <3>4. EdInv'
        <4>1. o'.urb = o.urb /\ o'.ed = o.ed /\ o'.rm = o.rm /\ o'.tick = {} /\ o'.ctl = o.ctl /\ o'.cle = o.cle
          BY <1>4, <2>2, <3>1
        <4>2. ASSUME NEW v \in Urb PROVE EdOk(v)'
          BY <2>2, <4>1, EdStays DEF EdInv
        <4> QED
          BY <1>1, <2>2, <4>1, <4>2 DEF EdInv
      <3>5. o'.urb = o.urb /\ o'.ed = o.ed /\ o'.dev = s.dev /\ ~o.urb[u].del
            /\ (o.urb[u].freed => ~o.urb[u].hcpriv)
        BY <1>2, <1>4, <2>2, <3>1 DEF MainInv
      <3> HIDE DEF unl
      <3> QED
        BY <2>3, <2>6, <3>3, <3>2, <3>4, <3>5
    <2> QED
      BY <2>4, <2>5, <2>6
  <1> QED
    BY <1>8, <1>9 DEF QueueIInv

-----------------------------------------------------------------------------
(* The controller's steps.                                                 *)

LEMMA HcRetireStep ==
  ASSUME QueueIInv, ~o.stale, NEW u \in Urb, HcRetire(u)
  PROVE  QueueIInv'
  <1> DEFINE e == o.ed[u]
             td == <<u, e.head>>
             q == Append(hc.q, td)
  <1>1. PICK cc \in {"ok", "err", "stall"} :
          o' = [o EXCEPT !.ed[u] = [e EXCEPT !.head = e.head + 1, !.halt = cc # "ok",
                                             !.bad = IF cc = "ok" THEN 0 ELSE e.head, !.cc = cc]]
    BY DEF HcRetire
  <1> DEFINE f == [e EXCEPT !.head = e.head + 1]
             h == cc # "ok"
             g == [f EXCEPT !.halt = h]
             b == IF cc = "ok" THEN 0 ELSE e.head
             k == [g EXCEPT !.bad = b]
             n == [k EXCEPT !.cc = cc]
             ed == [o.ed EXCEPT ![u] = n]
  <1>2. /\ ~o.disabled /\ ~e.halt /\ e.head <= Length(u) /\ e.list # {} /\ (~e.skip \/ u \in o.tick)
        /\ hc' = [hc EXCEPT !.q = q] /\ irq' = irq /\ main' = main
    BY DEF HcRetire
  <1>3. Data(o) /\ hc \in HcType /\ e \in EdType /\ e.head \in 1 .. 4 /\ Length(u) \in 1 .. 3 /\ e.list \in SUBSET TdNumbers
    <2>1. Data(o) /\ hc \in HcType
      BY DEF QueueIInv, TypeInv
    <2>2. e \in EdType
      BY <2>1 DEF Data
    <2>3. Length(u) \in 1 .. 3
      BY Lengths DEF TdNumbers
    <2> HIDE DEF e
    <2> QED
      BY <2>1, <2>2, <2>3 DEF EdType
  <1>4. o' = [o EXCEPT !.ed = ed]
    BY <1>1
  <1> HIDE DEF e
  <1>5. td \in Tds /\ e.head \in TdNumbers /\ e.head + 1 \in 1 .. 4 /\ e.head \in 1 .. 3
    BY <1>2, <1>3 DEF Tds, TdNumbers
  <1>6. /\ f \in EdType /\ f.head = e.head + 1 /\ f.list = e.list /\ f.tds = e.tds /\ f.skip = e.skip
        /\ f.state = e.state /\ f.dequeue = e.dequeue
    BY <1>3, <1>5 DEF EdType
  <1> HIDE DEF f
  <1>7. /\ g \in EdType /\ g.head = e.head + 1 /\ g.list = e.list /\ g.tds = e.tds /\ g.skip = e.skip
        /\ g.state = e.state /\ g.dequeue = e.dequeue /\ g.halt = h
    <2>1. h \in BOOLEAN
      OBVIOUS
    <2> HIDE DEF h
    <2> QED
      BY <1>6, <2>1 DEF EdType
  <1> HIDE DEF g
  <1>8. /\ k \in EdType /\ k.head = e.head + 1 /\ k.list = e.list /\ k.tds = e.tds /\ k.skip = e.skip
        /\ k.state = e.state /\ k.dequeue = e.dequeue /\ k.halt = h /\ k.bad = b
    <2>1. b \in 0 .. 3
      BY <1>5
    <2> HIDE DEF b, h
    <2> QED
      BY <1>7, <2>1 DEF EdType
  <1> HIDE DEF k
  <1>9. /\ n \in EdType /\ n.head = e.head + 1 /\ n.list = e.list /\ n.tds = e.tds /\ n.skip = e.skip
        /\ n.state = e.state /\ n.dequeue = e.dequeue /\ n.halt = h /\ n.bad = b
    <2> HIDE DEF b, h
    <2> QED
      BY <1>8 DEF EdType
  <1> HIDE DEF n
  <1>10. ed \in [Urb -> EdType] /\ ed[u] = n /\ \A v \in Urb \ {u} : ed[v] = o.ed[v]
    BY <1>3, <1>9 DEF Data
  <1> HIDE DEF ed
  <1>11. /\ Data(o') /\ o'.urb = o.urb /\ o'.ed[u] = n /\ o'.dev = o.dev /\ o'.rm = o.rm /\ o'.tick = o.tick
         /\ o'.disabled = o.disabled /\ o'.stale = o.stale /\ o'.ctl = o.ctl /\ o'.cle = o.cle
         /\ \A v \in Urb \ {u} : o'.ed[v] = o.ed[v]
    BY <1>3, <1>4, <1>10 DEF Data
  <1>12. /\ q \in Seq(Tds) /\ ToSet(q) = ToSet(hc.q) \cup {td}
         /\ NoTwice(hc.q) /\ td \notin ToSet(hc.q) => NoTwice(q)
    <2>1. hc.q \in Seq(Tds)
      BY <1>3 DEF HcType
    <2> HIDE DEF td
    <2> QED
      BY <1>5, <2>1, Appended
  <1> HIDE DEF q
  <1>13. hc' \in HcType /\ hc'.q = q /\ hc'.head = hc.head /\ hc'.wdh = hc.wdh
    BY <1>2, <1>3, <1>12 DEF HcType
  <1>14. TypeInv'
    BY <1>2, <1>11, <1>13 DEF QueueIInv, TypeInv, Counts
  <1>15. ASSUME Ok' PROVE QueueInv' /\ UrbInv' /\ EdInv' /\ MainInv' /\ WaitInv'
    <2>1. Ok /\ QueueInv /\ UrbInv /\ EdInv /\ MainInv /\ WaitInv
      BY <1>11, <1>15 DEF Ok, QueueIInv
    <2>2. Busy(u) /\ o.urb[u].hcpriv
      BY <1>2, <2>1 DEF UrbInv, UrbOk, Free, e
    <2>3. /\ At(hc'.q, u) = At(hc.q, u) \cup {e.head}
          /\ \A v \in Urb \ {u} : At(hc'.q, v) = At(hc.q, v)
          /\ td \in ToSet(hc.q) <=> e.head \in At(hc.q, u)
      BY <1>5, <1>12, <1>13, MoreAt
    <2>4. /\ InHc(u)' = InHc(u) \cup {e.head} /\ InIrq(u)' = InIrq(u) /\ Retired(u)' = Retired(u) \cup {e.head}
          /\ \A v \in Urb \ {u} : InHc(v)' = InHc(v) /\ InIrq(v)' = InIrq(v) /\ Retired(v)' = Retired(v)
      BY <1>2, <1>13, <2>3 DEF InHc, InIrq, Retired
    <2>5. Retired(u) = {i \in e.list : i < e.head} /\ e.head .. Length(u) \subseteq e.list
      BY <2>2 DEF Busy, e
    <2>6. e.head \in e.list /\ e.head \notin Retired(u) /\ \A i \in Retired(u) : i < e.head
      BY <1>2, <1>3, <2>5
    <2>7. NoTwice(hc'.q)
      BY <1>12, <1>13, <2>1, <2>3, <2>6 DEF QueueInv, Retired, InHc
    <2>8. QueueInv'
      <3>1. /\ \A i \in InIrq(u)', j \in InHc(u)' : i < j
            /\ \A i \in At(hc'.head, u), j \in At(hc'.q, u) : i < j
        BY <1>13, <2>1, <2>3, <2>4, <2>6 DEF QueueInv, Retired, InHc
      <3>2. \A v \in Urb \ {u} : /\ \A i \in InIrq(v)', j \in InHc(v)' : i < j
                                 /\ \A i \in At(hc'.head, v), j \in At(hc'.q, v) : i < j
        BY <1>13, <2>1, <2>3, <2>4 DEF QueueInv
      <3> QED
        BY <1>2, <1>11, <1>13, <2>1, <2>7, <3>1, <3>2 DEF QueueInv
    <2>9. o.urb[u].status # "err" /\ (e.state = "UNLINK" => o.urb[u].del)
      <3>1. o.urb[u].status # "err"
        BY <2>2, <2>6 DEF Busy, Retired, InIrq, e
      <3>2. e.state = "UNLINK" => o.urb[u].del
        BY <1>2, <2>1, <2>2 DEF EdInv, EdOk, e
      <3> QED
        BY <3>1, <3>2
    <2>10. Busy(u)'
      <3>1. Retired(u)' = {i \in e.list : i < e.head + 1} /\ (e.head + 1) .. Length(u) \subseteq e.list
            /\ e.head + 1 \in 1 .. Length(u) + 1
        <4>1. \A i \in e.list : i \in Nat /\ (i < e.head + 1 <=> i < e.head \/ i = e.head)
          BY <1>3 DEF TdNumbers
        <4>2. Retired(u)' = {i \in e.list : i < e.head + 1}
          BY <2>4, <2>5, <2>6, <4>1
        <4>3. (e.head + 1) .. Length(u) \subseteq e.head .. Length(u) /\ e.head + 1 \in 1 .. Length(u) + 1
          BY <1>2, <1>3
        <4> QED
          BY <2>5, <4>2, <4>3
      <3>2. e.head \notin At(irq.list, u)
        BY <2>6 DEF Retired, InIrq
      <3>3. (h => b = e.head) /\ (~h => b \notin e.list)
        BY <1>3 DEF TdNumbers
      <3>4. /\ e.list # {} /\ e.list \subseteq 1 .. Length(u)
            /\ o.urb[u].cnt + Cardinality(e.list) = Length(u) /\ e.state \in {"OPER", "UNLINK"}
            /\ o.urb[u].status \in {"prog", "err", "enoent", "shutdown"}
            /\ o.urb[u].del <=> o.urb[u].status \in {"enoent", "shutdown"}
            /\ e.tds \cap e.list \subseteq At(irq.list, u)
        BY <2>2 DEF Busy, e
      <3>5. Retired(u)' # {}
        BY <2>4
      <3> HIDE DEF h, b
      <3> QED
        BY <1>2, <1>9, <1>11, <2>6, <2>9, <3>1, <3>2, <3>3, <3>4, <3>5 DEF Busy
    <2>11. UrbInv'
      <3>1. UrbOk(u)'
        BY <1>11, <2>2, <2>10 DEF UrbOk
      <3>2. ASSUME NEW v \in Urb \ {u} PROVE UrbOk(v)'
        BY <1>2, <1>11, <2>1, <2>4, UrbStays DEF UrbInv
      <3> QED
        BY <3>1, <3>2 DEF UrbInv
    <2>12. \A v \in Urb : o'.ed[v].state = o.ed[v].state
      BY <1>9, <1>11 DEF e
    <2>13. EdInv'
      <3>1. ASSUME NEW v \in Urb PROVE EdOk(v)'
        <4>1. CASE v = u
          BY <1>2, <1>9, <1>11, <2>1, <4>1 DEF EdInv, EdOk, e
        <4>2. CASE v # u
          BY <1>2, <1>11, <2>1, <4>2 DEF EdInv, EdOk
        <4> QED
          BY <4>1, <4>2
      <3> QED
        BY <1>2, <1>11, <2>1, <2>12, <3>1, IntIsUrb DEF EdInv
    <2>14. MainInv' /\ WaitInv'
      BY <1>2, <1>11, <2>1, <2>12, IntIsUrb DEF MainInv, WaitInv
    <2> QED
      BY <2>8, <2>11, <2>13, <2>14
  <1> QED
    BY <1>14, <1>15 DEF QueueIInv

-----------------------------------------------------------------------------
(* The handler's steps.                                                    *)

LEMMA LessAt ==
  ASSUME NEW q, NEW r, NEW u \in Urb, NEW i \in TdNumbers,
         ToSet(q) = ToSet(r) \cup {<<u, i>>}, <<u, i>> \notin ToSet(r)
  PROVE  /\ i \in At(q, u) /\ At(r, u) = At(q, u) \ {i}
         /\ \A v \in Urb \ {u} : At(r, v) = At(q, v)
  <1>1. At(q, u) = At(r, u) \cup {i} /\ i \notin At(r, u) /\ \A v \in Urb \ {u} : At(q, v) = At(r, v)
    BY MoreAt
  <1> QED
    BY <1>1

\* Whose TD is in a done queue has a request in progress.
LEMMA RetiredBusy ==
  ASSUME UrbInv, NEW u \in Urb, NEW i \in Retired(u)
  PROVE  o.urb[u].hcpriv /\ Busy(u) /\ i \in o.ed[u].list /\ i < o.ed[u].head
  <1>1. o.urb[u].hcpriv /\ Busy(u)
    BY DEF UrbInv, UrbOk, Free
  <1> QED
    BY <1>1 DEF Busy

LEMMA IrqReverseStep ==
  ASSUME QueueIInv, ~o.stale, IrqReverse
  PROVE  QueueIInv'
  <1>1. /\ irq.pc = "done" /\ irq.in # <<>>
        /\ o' = dl_reverse_done_list(o, Last(irq.in))
        /\ irq' = [irq EXCEPT !.in = Front(irq.in), !.list = Reversed(o, Last(irq.in), irq.list)]
        /\ hc' = hc /\ main' = main
    BY DEF IrqReverse
  <1>2. Data(o) /\ hc \in HcType /\ irq \in IrqType
    BY DEF QueueIInv, TypeInv
  <1>3. /\ Last(irq.in) \in Tds /\ Front(irq.in) \in Seq(Tds)
        /\ ToSet(irq.in) = ToSet(Front(irq.in)) \cup {Last(irq.in)}
        /\ NoTwice(irq.in) => NoTwice(Front(irq.in)) /\ Last(irq.in) \notin ToSet(Front(irq.in))
    BY <1>1, <1>2, Curtailed DEF IrqType
  <1>4. PICK u \in Urb, i \in TdNumbers : Last(irq.in) = <<u, i>>
    BY <1>3 DEF Tds
  <1> DEFINE e == o.ed[u]
             H == Halts(o, <<u, i>>)
             M == {i} \cup Later(o, u, i)
  <1>5. Turns(o, o', u, i)
    BY <1>1, <1>2, <1>4, ReverseStep
  <1>6. /\ irq' \in IrqType /\ irq'.in = Front(irq.in) /\ irq'.list = Reversed(o, <<u, i>>, irq.list)
        /\ irq'.pc = "done" /\ irq'.wait = irq.wait /\ irq'.wdh = irq.wdh
        /\ At(irq'.list, u) = At(irq.list, u) \cup M
        /\ \A v \in Urb \ {u} : At(irq'.list, v) = At(irq.list, v)
        /\ NoTwice(irq.list) /\ M \cap At(irq.list, u) = {} => NoTwice(irq'.list)
    <2> DEFINE r == Reversed(o, <<u, i>>, irq.list)
    <2>1. irq.list \in Seq(Tds)
      BY <1>2 DEF IrqType
    <2>2. /\ r \in Seq(Tds)
          /\ At(r, u) = At(irq.list, u) \cup M
          /\ \A v \in Urb \ {u} : At(r, v) = At(irq.list, v)
          /\ NoTwice(irq.list) /\ M \cap At(irq.list, u) = {} => NoTwice(r)
      BY <1>2, <2>1, ReversedList
    <2> HIDE DEF r, M
    <2>3. irq' = [irq EXCEPT !.in = Front(irq.in), !.list = r]
      BY <1>1, <1>4 DEF r
    <2>4. /\ irq' \in IrqType /\ irq'.in = Front(irq.in) /\ irq'.list = r
          /\ irq'.pc = "done" /\ irq'.wait = irq.wait /\ irq'.wdh = irq.wdh
      BY <1>1, <1>2, <1>3, <2>2, <2>3 DEF IrqType
    <2> QED
      BY <2>2, <2>4 DEF r
  <1> HIDE DEF H, M
  <1>7. /\ Data(o') /\ o'.disabled = o.disabled /\ o'.urb = o.urb /\ o'.rm = o.rm /\ o'.tick = o.tick
        /\ o'.stale = o.stale /\ o'.dev = o.dev /\ o'.ctl = o.ctl /\ o'.cle = o.cle
        /\ \A v \in Urb \ {u} : o'.ed[v] = o.ed[v]
    BY <1>5 DEF Turns, Keeps, Around
  <1>8. /\ o'.ed[u].state = e.state /\ o'.ed[u].dequeue = e.dequeue /\ o'.ed[u].list = e.list
        /\ o'.ed[u].bad = e.bad /\ o'.ed[u].tds = e.tds \cup M
        /\ H => o'.ed[u].skip /\ ~o'.ed[u].halt /\ o'.ed[u].head = Length(u) + 1
        /\ ~H => o'.ed[u].skip = e.skip /\ o'.ed[u].halt = e.halt /\ o'.ed[u].head = e.head
    BY <1>5 DEF Turns, H, M
  <1>9. /\ H => e.bad = i /\ e.halt /\ M = {i} \cup {j \in e.list : j > i}
        /\ ~H => ~(e.bad = i /\ e.halt) /\ M = {i}
    BY DEF Halts, Later, H, M
  <1>10. TypeInv'
    BY <1>1, <1>2, <1>6, <1>7 DEF QueueIInv, TypeInv, Counts
  <1> HIDE DEF e
  <1>11. ASSUME Ok' PROVE QueueInv' /\ UrbInv' /\ EdInv' /\ MainInv' /\ WaitInv'
    <2>1. Ok /\ QueueInv /\ UrbInv /\ EdInv /\ MainInv /\ WaitInv
      BY <1>7, <1>11 DEF Ok, QueueIInv
    <2>2. /\ i \in At(irq.in, u) /\ At(irq'.in, u) = At(irq.in, u) \ {i}
          /\ \A v \in Urb \ {u} : At(irq'.in, v) = At(irq.in, v)
      <3>1. ToSet(irq.in) = ToSet(irq'.in) \cup {<<u, i>>} /\ <<u, i>> \notin ToSet(irq'.in)
        <4>1. NoTwice(irq.in)
          BY <2>1 DEF QueueInv
        <4> QED
          BY <1>3, <1>4, <1>6, <4>1
      <3> QED
        BY <3>1, LessAt
    <2>3. InIrq(u)' = InIrq(u) \cup M /\ InHc(u)' = InHc(u) /\ Retired(u)' = Retired(u) \cup M
      <3>1. i \in M
        BY <1>9
      <3> QED
        BY <1>1, <1>6, <2>2, <3>1 DEF InIrq, InHc, Retired
    <2>4. \A v \in Urb \ {u} : InIrq(v)' = InIrq(v) /\ InHc(v)' = InHc(v) /\ Retired(v)' = Retired(v)
      BY <1>1, <1>6, <2>2 DEF InIrq, InHc, Retired
    <2>5. i \in Retired(u) /\ i \in InIrq(u) /\ i \notin At(irq.list, u)
      BY <2>1, <2>2 DEF Retired, InIrq, QueueInv
    <2>6. o.urb[u].hcpriv /\ Busy(u) /\ i \in e.list /\ i < e.head
      BY <2>1, <2>5, RetiredBusy DEF e
    <2>7. /\ e.list # {} /\ e.list \subseteq 1 .. Length(u) /\ e.head \in 1 .. Length(u) + 1 /\ Length(u) \in 1 .. 3
          /\ o.urb[u].cnt + Cardinality(e.list) = Length(u)
          /\ Retired(u) = {j \in e.list : j < e.head} /\ e.head .. Length(u) \subseteq e.list
          /\ e.state \in {"OPER", "UNLINK"}
          /\ e.halt => e.bad \in e.list /\ e.head = e.bad + 1 /\ e.bad \notin At(irq.list, u)
          /\ e.bad \in e.list /\ ~e.halt => e.list \subseteq InIrq(u) /\ e.bad \in At(irq.list, u)
          /\ o.urb[u].status = "err" => e.list \subseteq At(irq.list, u)
          /\ o.urb[u].status \in {"prog", "err", "enoent", "shutdown"}
          /\ o.urb[u].del <=> o.urb[u].status \in {"enoent", "shutdown"}
          /\ e.state = "UNLINK" /\ ~o.urb[u].del => e.head = 1
          /\ e.tds \cap e.list \subseteq At(irq.list, u)
      BY <2>6, Lengths DEF Busy, TdNumbers, e
    <2>8. ASSUME H
          PROVE  /\ e.head = i + 1 /\ InHc(u) = {} /\ Retired(u) = {j \in e.list : j < i + 1}
                 /\ InIrq(u) = Retired(u) /\ Retired(u) \cup M = e.list
      <3>1. e.head = i + 1 /\ Retired(u) = {j \in e.list : j < i + 1}
        BY <1>9, <2>7, <2>8
      <3>2. ASSUME NEW j \in InHc(u) PROVE FALSE
        <4>1. i < j
          BY <2>1, <2>5 DEF QueueInv
        <4>2. j \in Nat /\ j < i + 1
          BY <2>7, <3>1 DEF Retired
        <4> QED
          BY <4>1, <4>2 DEF TdNumbers
      <3>3. InIrq(u) = Retired(u) /\ InHc(u) = {}
        BY <3>2 DEF Retired
      <3>4. Retired(u) \cup M = e.list
        <4>1. \A j \in e.list : j < i + 1 \/ j > i
          BY <2>7 DEF TdNumbers
        <4> QED
          BY <1>9, <2>6, <2>8, <3>1, <4>1
      <3> QED
        BY <3>1, <3>3, <3>4
    <2>9. M \cap At(irq.list, u) = {} /\ M \cap At(irq'.in, u) = {}
      <3>1. CASE H
        <4>1. \A j \in Retired(u) : j \in Nat /\ ~(j > i)
          BY <2>7, <2>8, <3>1 DEF TdNumbers
        <4>2. At(irq.list, u) \subseteq Retired(u) /\ At(irq'.in, u) \subseteq Retired(u)
          BY <2>2 DEF Retired, InIrq
        <4> QED
          BY <1>9, <2>2, <2>5, <3>1, <4>1, <4>2
      <3>2. CASE ~H
        BY <1>9, <2>2, <2>5, <3>2
      <3> QED
        BY <3>1, <3>2
    <2>10. QueueInv'
      <3>1. NoTwice(irq'.in) /\ NoTwice(irq'.list)
        BY <1>3, <1>6, <2>1, <2>9 DEF QueueInv
      <3>2. At(irq'.in, u) \cap At(irq'.list, u) = {}
        BY <1>6, <2>1, <2>2, <2>9 DEF QueueInv
      <3>3. \A j \in InIrq(u)', k \in InHc(u)' : j < k
        <4>1. CASE H
          BY <2>3, <2>8, <4>1
        <4>2. CASE ~H
          BY <1>9, <2>1, <2>3, <2>5, <4>2 DEF QueueInv
        <4> QED
          BY <4>1, <4>2
      <3>4. \A v \in Urb \ {u} : /\ At(irq'.in, v) \cap At(irq'.list, v) = {}
                                 /\ \A j \in InIrq(v)', k \in InHc(v)' : j < k
        BY <1>6, <2>1, <2>2, <2>4 DEF QueueInv
      <3>5. /\ NoTwice(hc'.q) /\ NoTwice(hc'.head) /\ (hc'.head # <<>> => hc'.wdh /\ ~irq'.wdh) /\ (irq'.wdh => hc'.wdh)
            /\ irq'.wait = {}
            /\ \A v \in Urb : \A j \in At(hc'.head, v), k \in At(hc'.q, v) : j < k
        BY <1>1, <1>6, <2>1 DEF QueueInv
      <3> QED
        BY <1>6, <3>1, <3>2, <3>3, <3>4, <3>5 DEF QueueInv
    <2>11. Busy(u)'
      <3>1. /\ e.list # {} /\ e.list \subseteq 1 .. Length(u)
            /\ o'.urb[u].cnt + Cardinality(e.list) = Length(u)
            /\ e.state \in {"OPER", "UNLINK"}
            /\ o'.urb[u].status \in {"prog", "err", "enoent", "shutdown"}
            /\ o'.urb[u].del <=> o'.urb[u].status \in {"enoent", "shutdown"}
            /\ o'.urb[u].status = "err" => e.list \subseteq At(irq'.list, u)
            /\ o'.ed[u].tds \cap e.list \subseteq At(irq'.list, u)
        BY <1>6, <1>7, <1>8, <2>7
      <3>2. CASE H
        <4>1. o'.ed[u].skip /\ ~o'.ed[u].halt /\ o'.ed[u].head = Length(u) + 1
          BY <1>8, <3>2
        <4>2. ~(e.state = "UNLINK" /\ ~o.urb[u].del)
          BY <2>7, <2>8, <3>2 DEF TdNumbers
        <4>3. Retired(u)' = e.list /\ InIrq(u)' = e.list
          BY <2>3, <2>8, <3>2
        <4>4. e.list = {j \in e.list : j < Length(u) + 1} /\ (Length(u) + 1) .. Length(u) = {}
              /\ Length(u) + 1 \in 1 .. Length(u) + 1
          BY <2>7
        <4>5. e.bad \in At(irq'.list, u)
          BY <1>6, <1>9, <3>2
        <4> QED
          BY <1>7, <1>8, <3>1, <4>1, <4>2, <4>3, <4>4, <4>5 DEF Busy
      <3>3. CASE ~H
        <4>1. o'.ed[u].skip = e.skip /\ o'.ed[u].halt = e.halt /\ o'.ed[u].head = e.head
          BY <1>8, <3>3
        <4>2. Retired(u)' = Retired(u) /\ InIrq(u)' = InIrq(u) /\ Retired(u) # {} /\ M = {i}
          BY <1>9, <2>3, <2>5, <3>3
        <4>3. e.halt => e.bad \in e.list /\ e.head = e.bad + 1 /\ e.bad \notin At(irq'.list, u)
          BY <1>6, <1>9, <2>7, <3>3, <4>2
        <4>4. e.bad \in e.list /\ ~e.halt => e.list \subseteq InIrq(u) /\ e.bad \in At(irq'.list, u)
          BY <1>6, <2>7
        <4> QED
          BY <1>7, <1>8, <2>7, <3>1, <4>1, <4>2, <4>3, <4>4 DEF Busy
      <3> QED
        BY <3>2, <3>3
    <2>12. UrbInv'
      <3>1. UrbOk(u)'
        BY <1>7, <2>6, <2>11 DEF UrbOk
      <3>2. ASSUME NEW v \in Urb \ {u} PROVE UrbOk(v)'
        BY <1>6, <1>7, <2>1, <2>4, UrbStays DEF UrbInv
      <3> QED
        BY <3>1, <3>2 DEF UrbInv
    <2>13. \A v \in Urb : o'.ed[v].state = o.ed[v].state
      BY <1>7, <1>8 DEF e
    <2>14. EdInv'
      <3>1. EdOk(u)'
        <4>1. EdOk(u)
          BY <2>1 DEF EdInv
        <4>2. /\ o'.ed[u].state = "UNLINK" => o'.ed[u].skip
              /\ o'.ed[u].state \notin {"none", "IDLE"}
          BY <1>8, <2>7, <4>1 DEF EdOk, e
        <4> QED
          BY <1>1, <1>7, <1>8, <4>1, <4>2 DEF EdOk, e
      <3>2. ASSUME NEW v \in Urb \ {u} PROVE EdOk(v)'
        <4>1. EdOk(v) /\ (v \in o.tick => main.pc \in {"unlink", "disable"} /\ main.u = v)
          BY <2>1 DEF EdInv, EdOk
        <4> QED
          BY <1>1, <1>7, <4>1, EdStays
      <3> QED
        BY <1>1, <1>6, <1>7, <2>1, <2>13, <3>1, <3>2, IntIsUrb DEF EdInv
    <2>15. MainInv' /\ WaitInv'
      BY <1>1, <1>6, <1>7, <2>1, <2>13, IntIsUrb DEF MainInv, WaitInv
    <2> QED
      BY <2>10, <2>12, <2>14, <2>15
  <1> QED
    BY <1>10, <1>11 DEF QueueIInv

LEMMA IrqDoneStep ==
  ASSUME QueueIInv, ~o.stale, IrqDone
  PROVE  QueueIInv'
  <1>1. /\ irq.pc = "done" /\ irq.in = <<>> /\ irq.list # <<>>
        /\ o' = dl_done_list(o, Head(irq.list)) /\ irq' = [irq EXCEPT !.list = Tail(irq.list)]
        /\ hc' = hc /\ main' = main
    BY DEF IrqDone
  <1>2. Data(o) /\ hc \in HcType /\ irq \in IrqType
    BY DEF QueueIInv, TypeInv
  <1>3. /\ Head(irq.list) \in Tds /\ Tail(irq.list) \in Seq(Tds)
        /\ ToSet(irq.list) = ToSet(Tail(irq.list)) \cup {Head(irq.list)}
        /\ NoTwice(irq.list) => NoTwice(Tail(irq.list)) /\ Head(irq.list) \notin ToSet(Tail(irq.list))
    BY <1>1, <1>2, Beheaded DEF IrqType
  <1>4. PICK u \in Urb, i \in TdNumbers : Head(irq.list) = <<u, i>>
    BY <1>3 DEF Tds
  <1> DEFINE e == o.ed[u]
             L == e.list \ {i}
  <1>5. /\ irq' \in IrqType /\ irq'.in = <<>> /\ irq'.list = Tail(irq.list) /\ irq'.pc = "done"
        /\ irq'.wait = irq.wait /\ irq'.wdh = irq.wdh
    BY <1>1, <1>2, <1>3 DEF IrqType
  <1>6. Stays(o, o', u)
    BY <1>1, <1>2, <1>4, DoneStep
  <1>7. /\ Data(o') /\ o'.disabled = o.disabled /\ o'.rm = o.rm /\ o'.tick = o.tick /\ o'.stale = o.stale
        /\ \A v \in Urb \ {u} : o'.urb[v] = o.urb[v] /\ o'.ed[v] = o.ed[v] /\ o'.dev[v] = o.dev[v]
    BY <1>6 DEF Stays, Around
  <1>8. TypeInv'
    BY <1>1, <1>2, <1>5, <1>7 DEF QueueIInv, TypeInv, Counts
  <1>9. ASSUME Ok' PROVE QueueInv' /\ UrbInv' /\ EdInv' /\ MainInv' /\ WaitInv'
    <2>1. Ok /\ QueueInv /\ UrbInv /\ EdInv /\ MainInv /\ WaitInv
      BY <1>7, <1>9 DEF Ok, QueueIInv
    <2>2. /\ i \in At(irq.list, u) /\ At(irq'.list, u) = At(irq.list, u) \ {i}
          /\ \A v \in Urb \ {u} : At(irq'.list, v) = At(irq.list, v)
      <3>1. ToSet(irq.list) = ToSet(irq'.list) \cup {<<u, i>>} /\ <<u, i>> \notin ToSet(irq'.list)
        <4>1. NoTwice(irq.list)
          BY <2>1 DEF QueueInv
        <4> QED
          BY <1>3, <1>4, <1>5, <4>1
      <3> QED
        BY <3>1, LessAt
    <2>3. \A v \in Urb : /\ InIrq(v) = At(irq.list, v) /\ InIrq(v)' = At(irq'.list, v) /\ InHc(v)' = InHc(v)
                         /\ At(irq'.in, v) = {}
      BY <1>1, <1>5, NoneAt DEF InIrq, InHc
    <2>4. i \notin InHc(u)
      <3>1. \A j \in InHc(u) : i < j
        BY <2>1, <2>2, <2>3 DEF QueueInv
      <3>2. ~(i < i)
        BY DEF TdNumbers
      <3> QED
        BY <3>1, <3>2
    <2>5. /\ i \in Retired(u) /\ Retired(u)' = Retired(u) \ {i}
          /\ \A v \in Urb \ {u} : Retired(v)' = Retired(v) /\ InIrq(v)' = InIrq(v)
      BY <2>2, <2>3, <2>4 DEF Retired
    <2>6. o.urb[u].hcpriv /\ Busy(u) /\ i \in e.list /\ i < e.head
      BY <2>1, <2>5, RetiredBusy
    <2>7. DoneOne(o, o', u, i)
      BY <1>1, <1>2, <1>4, <2>6, DoneStep DEF Busy
    <2>8. EdOk(u) /\ ~o.urb[u].freed /\ e \in EdType /\ o.urb[u] \in UrbType
      BY <1>2, <2>1, <2>6 DEF EdInv, MainInv, Data
    <2> HIDE DEF e
    <2>9. /\ e.list # {} /\ e.list \subseteq 1 .. Length(u) /\ e.head \in 1 .. Length(u) + 1 /\ Length(u) \in 1 .. 3
          /\ o.urb[u].cnt + Cardinality(e.list) = Length(u)
          /\ Retired(u) = {j \in e.list : j < e.head} /\ e.head .. Length(u) \subseteq e.list
          /\ e.state \in {"OPER", "UNLINK"}
          /\ e.halt => e.bad \in e.list /\ e.head = e.bad + 1 /\ e.bad \notin At(irq.list, u)
          /\ e.bad \in e.list /\ ~e.halt => e.list \subseteq InIrq(u) /\ e.bad \in At(irq.list, u)
          /\ o.urb[u].status = "err" => e.list \subseteq At(irq.list, u)
          /\ o.urb[u].status \in {"prog", "err", "enoent", "shutdown"}
          /\ o.urb[u].del <=> o.urb[u].status \in {"enoent", "shutdown"}
          /\ e.state = "UNLINK" /\ ~o.urb[u].del => e.head = 1
          /\ e.tds \cap e.list \subseteq At(irq.list, u)
      BY <2>6, Lengths DEF Busy, TdNumbers, e
    <2>10. /\ e.state = "UNLINK" <=> u \in ToSet(o.rm)
           /\ e.dequeue <=> e.state = "UNLINK"
           /\ e.state = "UNLINK" => e.skip /\ o.urb[u].del
           /\ o.urb[u].del => e.state = "UNLINK"
           /\ u \in o.tick => e.state = "UNLINK" /\ main.pc \in {"unlink", "disable"} /\ main.u = u
           /\ u \in o.tick /\ o.urb[u].hcpriv => o.urb[u].del
      <3>1. ~(e.head = 1)
        BY <2>6 DEF TdNumbers
      <3> QED
        BY <2>8, <2>9, <3>1 DEF EdOk, e
    <2>11. QueueInv'
      <3>1. \A v \in Urb : InIrq(v)' \subseteq InIrq(v) /\ At(irq'.in, v) \cap At(irq'.list, v) = {}
        BY <2>2, <2>3
      <3>2. NoTwice(irq'.in) /\ NoTwice(irq'.list)
        BY <1>3, <1>5, <2>1, NoMembers DEF QueueInv
      <3>3. /\ NoTwice(hc'.q) /\ NoTwice(hc'.head) /\ (hc'.head # <<>> => hc'.wdh /\ ~irq'.wdh) /\ (irq'.wdh => hc'.wdh)
            /\ irq'.wait = {}
            /\ \A v \in Urb : \A j \in At(hc'.head, v), k \in At(hc'.q, v) : j < k
        BY <1>1, <1>5, <2>1 DEF QueueInv
      <3>4. \A v \in Urb : \A j \in InIrq(v)', k \in InHc(v)' : j < k
        BY <2>1, <2>3, <3>1 DEF QueueInv
      <3> QED
        BY <1>5, <3>1, <3>2, <3>3, <3>4 DEF QueueInv
    <2>12. /\ \A v \in Urb \ {u} : UrbOk(v)' /\ EdOk(v)'
           /\ o'.dev[u] = o.dev[u] \/ (u # Ctl /\ o.dev[u] = "here" /\ o'.dev[u] = "halted")
           /\ o'.urb[u].freed = o.urb[u].freed
      <3>1. ASSUME NEW v \in Urb \ {u} PROVE UrbOk(v)' /\ EdOk(v)'
        <4>1. UrbOk(v) /\ EdOk(v) /\ (v \in o.tick => main.pc \in {"unlink", "disable"} /\ main.u = v)
          BY <2>1 DEF EdInv, EdOk, UrbInv
        <4> QED
          BY <1>1, <1>7, <2>2, <2>5, <4>1, EdStays, UrbStays
      <3> QED
        BY <2>7, <3>1 DEF DoneOne
    <2>13. u # Ctl => u \in IntUrb
      BY IntIsUrb
    <2>14. CASE L # {}
      <3>1. /\ o'.ctl = o.ctl /\ o'.cle = o.cle
            /\ o'.urb[u].cnt = o.urb[u].cnt + 1
            /\ o'.urb[u].status = IF e.bad = i /\ o.urb[u].status = "prog" THEN "err" ELSE o.urb[u].status
            /\ o'.urb[u].hcpriv = o.urb[u].hcpriv /\ o'.urb[u].del = o.urb[u].del
            /\ o'.urb[u].spliced = o.urb[u].spliced /\ o'.urb[u].done = o.urb[u].done
            /\ o'.ed[u].list = L /\ o'.ed[u].state = e.state /\ o'.ed[u].halt = e.halt
            /\ o'.ed[u].dequeue = e.dequeue
            /\ o'.ed[u].head = e.head /\ o'.ed[u].tds = e.tds /\ o'.ed[u].bad = e.bad
            /\ o'.ed[u].skip <=> e.skip /\ (e.dequeue \/ FirstTd(L) \in e.tds)
        BY <2>7, <2>14 DEF DoneOne, e
      <3>2. L \subseteq 1 .. Length(u) /\ o'.urb[u].cnt + Cardinality(L) = Length(u)
        <4>1. e.list \in SUBSET TdNumbers /\ L \in SUBSET TdNumbers /\ o.urb[u].cnt \in Nat
          BY <2>8 DEF EdType, UrbType
        <4>2. Cardinality(L) = Cardinality(e.list) - 1 /\ Cardinality(e.list) \in Nat
          <5>1. IsFiniteSet(e.list) /\ Cardinality(e.list) \in Nat
            BY <4>1, Finite
          <5> QED
            BY <2>6, <5>1, FS_RemoveElement
        <4> QED
          BY <2>9, <3>1, <4>1, <4>2
      <3>3. Retired(u)' = {j \in L : j < e.head} /\ e.head .. Length(u) \subseteq L
        <4>1. i \notin e.head .. Length(u)
          BY <2>6, <2>9 DEF TdNumbers
        <4> QED
          BY <2>5, <2>9, <4>1
      <3>4. e.halt => e.bad \in L /\ e.head = e.bad + 1 /\ e.bad \notin At(irq'.list, u)
        BY <2>2, <2>9
      <3>5. e.bad \in L /\ ~e.halt => L \subseteq InIrq(u)' /\ e.bad \in At(irq'.list, u)
        BY <2>2, <2>3, <2>9
      <3>6. o'.urb[u].status = "err" => L \subseteq At(irq'.list, u)
        <4>1. e.bad = i => e.list \subseteq At(irq.list, u)
          BY <2>2, <2>3, <2>6, <2>9
        <4> QED
          BY <2>2, <2>9, <3>1, <4>1
      <3>7. /\ o'.urb[u].status \in {"prog", "err", "enoent", "shutdown"}
            /\ o'.urb[u].del <=> o'.urb[u].status \in {"enoent", "shutdown"}
            /\ o'.urb[u].status = "enoent" <=> o.urb[u].status = "enoent"
        BY <2>9, <3>1
      <3>8. e.tds \cap L \subseteq At(irq'.list, u)
        BY <2>2, <2>9
      <3>9. e.state = "OPER" /\ o'.ed[u].skip => Retired(u)' # {}
        <4>1. FirstTd(L) \in L
          <5>1. L \in SUBSET TdNumbers
            BY <2>8 DEF EdType
          <5> HIDE DEF L
          <5> QED
            BY <2>14, <5>1, Ends
        <4>2. ASSUME e.state = "OPER", o'.ed[u].skip PROVE FirstTd(L) \in At(irq'.list, u)
          <5>1. FirstTd(L) \in e.tds
            BY <2>10, <3>1, <4>2
          <5> QED
            BY <3>8, <4>1, <5>1
        <4> QED
          BY <2>3, <4>2 DEF Retired
      <3>10. Busy(u)'
        <4>1. o'.ed[u].state \in {"OPER", "UNLINK"} /\ (o'.ed[u].state = "UNLINK" => o'.urb[u].del)
          BY <2>9, <2>10, <3>1
        <4> HIDE DEF L
        <4> QED
          BY <2>9, <2>14, <3>1, <3>2, <3>3, <3>4, <3>5, <3>6, <3>7, <3>8, <3>9, <4>1 DEF Busy
      <3>11. UrbInv'
        <4>1. UrbOk(u)'
          BY <2>6, <3>1, <3>10 DEF UrbOk
        <4> QED
          BY <2>12, <4>1 DEF UrbInv
      <3>12. EdInv'
        <4>1. EdOk(u)'
          <5>1. /\ e.state \notin {"none", "IDLE"} /\ (e.state = "UNLINK" => o'.ed[u].skip)
            BY <2>9, <2>10, <3>1
          <5> QED
            BY <1>1, <1>7, <2>10, <3>1, <5>1 DEF EdOk
        <4>2. o'.ed[Ctl].state = o.ed[Ctl].state
          BY <1>7, <3>1, IntIsUrb DEF e
        <4> QED
          BY <1>5, <1>7, <2>1, <2>12, <3>1, <4>1, <4>2 DEF EdInv
      <3>13. MainInv' /\ WaitInv'
        <4>1. \A v \in Urb : /\ o'.urb[v].hcpriv = o.urb[v].hcpriv /\ o'.urb[v].del = o.urb[v].del
                             /\ o'.urb[v].done = o.urb[v].done /\ o'.urb[v].spliced = o.urb[v].spliced
                             /\ o'.urb[v].freed = o.urb[v].freed /\ o'.ed[v].state = o.ed[v].state
                             /\ o'.urb[v].status = "enoent" <=> o.urb[v].status = "enoent"
                             /\ o'.dev[v] \in {"here", "halted"} <=> o.dev[v] \in {"here", "halted"}
                             /\ o'.dev[v] = o.dev[v] \/ (v # Ctl /\ o'.dev[v] = "halted" /\ o.dev[v] = "here")
          BY <1>7, <2>12, <3>1, <3>7 DEF e
        <4>2. main.pc = "unlink" \/ main.pc = "disable" => main.u \in Urb
          BY MainUrb DEF QueueIInv
        <4> QED
          BY <1>1, <1>5, <1>7, <2>1, <4>1, <4>2, IntIsUrb DEF MainInv, WaitInv
      <3> QED
        BY <2>11, <3>11, <3>12, <3>13
    <2>15. CASE L = {}
      <3>1. /\ ~o'.urb[u].spliced /\ ~o'.urb[u].del /\ o'.urb[u].cnt = 0
            /\ o'.urb[u].done <=> o.urb[u].done \/ o.urb[u].spliced \/ u = Ctl
        BY <2>7, <2>15 DEF DoneOne, e
      <3>2. ~e.halt /\ Retired(u)' = {} /\ At(irq'.list, u) = {} /\ InIrq(u)' = {}
        <4>1. e.list = {i}
          BY <2>6, <2>15
        <4> QED
          BY <2>2, <2>3, <2>5, <2>9, <4>1 DEF Retired
      <3>3. CASE o'.urb[u].hcpriv
        <4>1. /\ u # Ctl /\ o.dev[u] = "here" /\ o'.dev[u] = "here" /\ o'.urb[u].status = "prog"
              /\ o'.ed[u].list = 1 .. Length(u) /\ o'.ed[u].head = 1 /\ o'.ed[u].tds = {} /\ o'.ed[u].bad = 0
              /\ o'.ed[u].state = e.state /\ o'.ed[u].dequeue = e.dequeue /\ (o'.ed[u].halt => e.halt)
              /\ o'.ed[u].skip <=> e.skip /\ e.dequeue
              /\ o'.ctl = o.ctl /\ o'.cle = o.cle
          BY <2>7, <2>15, <3>3 DEF DoneOne, e
        <4>2. u \in IntUrb /\ ~(main.pc \in {"unlink", "kill", "disable"} /\ main.u = u) /\ u \notin o.tick
          BY <2>1, <2>10, <2>13, <4>1 DEF MainInv
        <4>3. UrbInv'
          <5>1. Length(u) = 1 /\ 1 .. Length(u) = {1} /\ Cardinality(1 .. Length(u)) = 1
            <6>1. Length(u) = 1
              BY <4>1 DEF Length
            <6>2. 1 .. 1 = {1}
              OBVIOUS
            <6> QED
              BY <6>1, <6>2, FS_Singleton
          <5>2. e.state = "OPER" => ~o'.ed[u].skip
            BY <2>10, <4>1
          <5>3. 1 \in 1 .. 2 /\ {j \in {1} : j < 1} = {} /\ 0 \notin {1} /\ 0 + 1 = 1 /\ 1 + 1 = 2
            OBVIOUS
          <5>4. Busy(u)'
            BY <2>9, <3>1, <3>2, <4>1, <5>1, <5>2, <5>3 DEF Busy
          <5>5. UrbOk(u)'
            BY <3>3, <5>4 DEF UrbOk
          <5> QED
            BY <2>12, <5>5 DEF UrbInv
        <4>4. EdInv'
          <5>1. EdOk(u)'
            <6>1. e.state \notin {"none", "IDLE"}
              BY <2>9
            <6> QED
              BY <1>1, <1>7, <2>10, <3>1, <4>1, <4>2, <6>1 DEF EdOk
          <5>2. o'.ed[Ctl].state = o.ed[Ctl].state
            BY <1>7, <4>1, IntIsUrb
          <5> QED
            BY <1>5, <1>7, <2>1, <2>12, <4>1, <5>1, <5>2 DEF EdInv
        <4>5. MainInv' /\ WaitInv'
          <5>1. /\ \A v \in Urb \ {u} : o'.urb[v] = o.urb[v] /\ o'.ed[v] = o.ed[v] /\ o'.dev[v] = o.dev[v]
                /\ o'.dev[u] = o.dev[u] /\ ~o'.urb[u].freed /\ ~o'.urb[u].del
            BY <1>7, <2>8, <2>12, <3>1, <4>1
          <5>2. main.pc = "unlink" \/ main.pc = "disable" => main.u \in Urb \ {u}
            BY <4>2, MainUrb DEF QueueIInv
          <5>3. Ctl \in Urb \ {u}
            BY <4>1, IntIsUrb
          <5> QED
            <6>1. \A v \in Urb : o'.dev[v] = o.dev[v] /\ (v # u => o'.urb[v] = o.urb[v] /\ o'.ed[v] = o.ed[v])
              BY <5>1
            <6>2. /\ o'.dev[Ctl] = "here" /\ (o'.urb[Ctl].hcpriv => main.pc \in {"msg", "unlink"} /\ main.u = Ctl)
                  /\ main.pc = "msg" => (o'.urb[Ctl].done <=> ~o'.urb[Ctl].hcpriv)
              BY <2>1, <5>3, <6>1 DEF MainInv
            <6>3. ASSUME NEW v \in IntUrb
                  PROVE  /\ o'.dev[v] = "none" => ~o'.urb[v].hcpriv /\ o'.ed[v].state = "none"
                         /\ o'.dev[v] = "gone" <=> main.pc \in {"unlink", "kill", "disable"} /\ main.u = v
              <7>1. v \in Urb /\ (v = u => o'.dev[v] # "none")
                BY <4>1, IntIsUrb
              <7> QED
                BY <2>1, <6>1, <7>1 DEF MainInv
            <6>4. \A v \in Urb : /\ o'.urb[v].freed => ~o'.urb[v].hcpriv
                                 /\ o'.urb[v].del => main.pc \in {"unlink", "disable"} /\ main.u = v
              BY <2>1, <5>1, <6>1 DEF MainInv
            <6>5. main.pc = "unlink" \/ main.pc = "disable" => o'.urb[main.u] = o.urb[main.u]
              BY <5>1, <5>2
            <6>6. MainInv'
              BY <1>1, <2>1, <6>2, <6>3, <6>4, <6>5 DEF MainInv
            <6>7. WaitInv'
              BY <1>1, <1>5, <1>7, <2>1, <6>5 DEF WaitInv
            <6> QED
              BY <6>6, <6>7
        <4> QED
          BY <2>11, <4>3, <4>4, <4>5
      <3>4. CASE ~o'.urb[u].hcpriv
        <4>1. /\ e.state = "OPER" => o'.ed[u] = [FreshEd EXCEPT !.state = "IDLE"]
              /\ e.state = "UNLINK" => /\ o'.ed[u].list = {} /\ o'.ed[u].state = "UNLINK" /\ o'.ed[u].skip
                                       /\ o'.ed[u].dequeue = e.dequeue /\ o'.ed[u].halt = e.halt
              /\ o'.ctl <=> o.ctl /\ u # Ctl
              /\ u # Ctl => o'.cle = o.cle
          BY <2>7, <2>15, <3>4 DEF DoneOne, e
        <4>2. /\ e.state = "OPER" => /\ o'.ed[u].list = {} /\ o'.ed[u].state = "IDLE" /\ ~o'.ed[u].skip
                                     /\ ~o'.ed[u].halt /\ ~o'.ed[u].dequeue
          BY <4>1 DEF FreshEd
        <4>3. UrbInv'
          <5>1. Free(u)'
            BY <2>9, <3>1, <3>2, <4>1, <4>2 DEF Free
          <5>2. UrbOk(u)'
            BY <3>4, <5>1 DEF UrbOk
          <5> QED
            BY <2>12, <5>2 DEF UrbInv
        <4>4. EdInv'
          <5>1. EdOk(u)'
            BY <1>1, <1>7, <2>9, <2>10, <3>1, <3>4, <4>1, <4>2 DEF EdOk
          <5>2. o'.ctl <=> o'.ed[Ctl].state = "OPER"
            <6>1. CASE u = Ctl
              BY <2>9, <4>1, <4>2, <6>1
            <6>2. CASE u # Ctl
              BY <1>7, <2>1, <4>1, <6>2, IntIsUrb DEF EdInv
            <6> QED
              BY <6>1, <6>2
          <5> QED
            BY <1>5, <1>7, <2>1, <2>12, <5>1, <5>2 DEF EdInv
        <4>5. MainInv'
          <5>1. \A v \in Urb \ {u} : o'.urb[v] = o.urb[v] /\ o'.ed[v] = o.ed[v] /\ o'.dev[v] = o.dev[v]
            BY <1>7
          <5>2. /\ o'.dev[Ctl] = "here"
                /\ o'.urb[Ctl].hcpriv => o.urb[Ctl].hcpriv
                /\ main.pc = "msg" => (o'.urb[Ctl].done <=> ~o'.urb[Ctl].hcpriv)
            <6>1. CASE u = Ctl
              BY <2>1, <2>12, <3>1, <3>4, <6>1 DEF MainInv
            <6>2. CASE u # Ctl
              BY <2>1, <5>1, <6>2, IntIsUrb DEF MainInv
            <6> QED
              BY <6>1, <6>2
          <5>3. \A v \in IntUrb : /\ o'.dev[v] = "none" => ~o'.urb[v].hcpriv /\ o'.ed[v].state = "none"
                                  /\ o'.dev[v] = "gone" <=> main.pc \in {"unlink", "kill", "disable"} /\ main.u = v
            <6>1. \A v \in IntUrb : v \in Urb /\ (o.dev[v] = "none" => ~o.urb[v].hcpriv /\ o.ed[v].state = "none")
              BY <2>1, IntIsUrb DEF MainInv
            <6>2. u \in IntUrb => o.dev[u] # "none"
              BY <2>6, <6>1
            <6> QED
              BY <2>1, <2>12, <5>1, <6>1, <6>2 DEF MainInv
          <5>4. \A v \in Urb : /\ o'.urb[v].freed => ~o'.urb[v].hcpriv
                               /\ o'.urb[v].del => main.pc \in {"unlink", "disable"} /\ main.u = v
            BY <2>1, <3>1, <3>4, <5>1 DEF MainInv
          <5>5. main.pc = "unlink" => /\ o'.urb[main.u].done <=> ~o'.urb[main.u].hcpriv
                                      /\ o'.urb[main.u].hcpriv => /\ o'.urb[main.u].del /\ o'.urb[main.u].spliced
                                                                  /\ o'.urb[main.u].status = "enoent"
            <6>1. ASSUME main.pc = "unlink", main.u = u PROVE o'.urb[u].done
              BY <2>1, <2>6, <3>1, <6>1 DEF MainInv
            <6>2. main.pc = "unlink" => main.u \in Urb
              BY MainUrb DEF QueueIInv
            <6> QED
              BY <2>1, <3>4, <5>1, <6>1, <6>2 DEF MainInv
          <5>6. main.pc = "disable" /\ o'.urb[main.u].hcpriv => o'.urb[main.u].del
            <6>1. main.pc = "disable" => main.u \in Urb
              BY MainUrb DEF QueueIInv
            <6> QED
              BY <2>1, <3>4, <5>1, <6>1 DEF MainInv
          <5>7. o.urb[Ctl].hcpriv => main.pc \in {"msg", "unlink"} /\ main.u = Ctl
            BY <2>1 DEF MainInv
          <5> QED
            BY <1>1, <5>2, <5>3, <5>4, <5>5, <5>6, <5>7 DEF MainInv
        <4>6. WaitInv'
          <5>1. main.pc = "unlink" => main.u \in Urb /\ (o.urb[main.u].done => o'.urb[main.u].done)
            <6>1. main.pc = "unlink" => main.u \in Urb
              BY MainUrb DEF QueueIInv
            <6> QED
              BY <1>7, <3>1, <6>1
          <5> QED
            BY <1>1, <1>5, <1>7, <2>1, <5>1 DEF WaitInv
        <4> QED
          BY <2>11, <4>3, <4>4, <4>5, <4>6
      <3> QED
        BY <3>3, <3>4
    <2> QED
      BY <2>14, <2>15
  <1> QED
    BY <1>8, <1>9 DEF QueueIInv

\* The controller knows no TD of an endpoint that is in none of its queues.
LEMMA UnknownIt ==
  ASSUME NEW q \in Seq(Tds), NEW r \in Seq(Tds), NEW u \in Urb, ~Known(q \o r, u)
  PROVE  At(q, u) = {} /\ At(r, u) = {}
  <1> DEFINE s == q \o r
  <1>1. s \in Seq(Tds) /\ ToSet(s) = ToSet(q) \cup ToSet(r)
    BY Joined
  <1>2. DOMAIN s = 1 .. Len(s)
    BY <1>1
  <1>3. ~Known(s, u)
    OBVIOUS
  <1> HIDE DEF s
  <1>4. ASSUME NEW i \in TdNumbers, <<u, i>> \in ToSet(s) PROVE FALSE
    <2>1. PICK k \in DOMAIN s : s[k] = <<u, i>>
      BY <1>4 DEF ToSet
    <2>2. s[k][1] = u
      BY <2>1
    <2> QED
      BY <1>2, <1>3, <2>1, <2>2 DEF Known
  <1> QED
    BY <1>1, <1>4 DEF At

LEMMA IrqUnlinkStep ==
  ASSUME QueueIInv, ~o.stale, NEW u \in Urb, IrqUnlink(u)
  PROVE  QueueIInv'
  <1> DEFINE q == hc.q \o hc.head
             e == o.ed[u]
  <1>1. /\ irq.pc = "unlinks" /\ u \in ToSet(o.rm) /\ u \notin irq.wait
        /\ o' = finish_unlinks(o, u, q) /\ hc' = hc /\ irq' = irq /\ main' = main
    BY DEF IrqUnlink, Due, ToSet
  <1>2. Data(o) /\ hc \in HcType /\ hc.q \in Seq(Tds) /\ hc.head \in Seq(Tds)
    BY DEF QueueIInv, TypeInv, HcType
  <1>3. /\ Around(o, o', u) /\ o'.rm = TakenOff(o.rm, u) /\ o'.tick = o.tick
        /\ /\ ~o.disabled
           /\ o.urb[u].del => /\ o.urb[u].cnt + Cardinality(o.ed[u].list) = Length(u)
                              /\ u = Ctl \/ o.dev[u] # "here"
           => Unhooked(o, o', u, q)
    <2> HIDE DEF q
    <2> QED
      BY <1>1, <1>2, FinishUnlinks
  <1>4. /\ Data(o') /\ o'.disabled = o.disabled
        /\ \A v \in Urb \ {u} : o'.urb[v] = o.urb[v] /\ o'.ed[v] = o.ed[v] /\ o'.dev[v] = o.dev[v]
    BY <1>3 DEF Around
  <1>5. TypeInv'
    BY <1>1, <1>2, <1>4 DEF QueueIInv, TypeInv, Counts
  <1>6. ASSUME Ok' PROVE QueueInv' /\ UrbInv' /\ EdInv' /\ MainInv' /\ WaitInv'
    <2>1. Ok /\ QueueInv /\ UrbInv /\ EdInv /\ MainInv /\ WaitInv
      BY <1>4, <1>6 DEF Ok, QueueIInv
    <2>2. /\ QueueInv' /\ \A v \in Urb : /\ InIrq(v)' = InIrq(v) /\ Retired(v)' = Retired(v)
                                         /\ At(irq'.list, v) = At(irq.list, v)
      BY <1>1, <1>3, <2>1, QueuesStay
    <2>3. ToSet(o'.rm) = ToSet(o.rm) \ {u} /\ NoTwice(o'.rm)
      <3>1. o.rm \in Seq(Urb)
        BY <1>2 DEF Data
      <3> QED
        BY <1>1, <1>3, <2>1, <3>1, Taken DEF EdInv
    <2>4. u \notin o.tick /\ At(irq.list, u) = {} /\ InIrq(u) = {}
      BY <1>1, <2>1, NoneAt DEF QueueInv, InIrq
    <2>5. e.state = "UNLINK" /\ EdOk(u)
      BY <1>1, <2>1 DEF EdInv, EdOk
    <2>6. ASSUME o.urb[u].del
          PROVE  /\ o.urb[u].hcpriv /\ main.pc \in {"unlink", "disable"} /\ main.u = u
                 /\ o.urb[u].cnt + Cardinality(o.ed[u].list) = Length(u)
                 /\ u = Ctl \/ o.dev[u] = "gone"
      <3>1. o.urb[u].hcpriv /\ Busy(u)
        BY <2>1, <2>6 DEF UrbInv, UrbOk, Free
      <3>2. main.pc \in {"unlink", "disable"} /\ main.u = u
        BY <2>1, <2>6 DEF MainInv
      <3>3. u = Ctl \/ o.dev[u] = "gone"
        BY <2>1, <3>2, IntIsUrb DEF MainInv
      <3> QED
        BY <3>1, <3>2, <3>3 DEF Busy
    <2>7. Unhooked(o, o', u, q)
      <3> HIDE DEF q
      <3>1. ~o.disabled
        BY <2>1 DEF Ok
      <3> QED
        BY <1>3, <2>6, <3>1
    <2>8. o'.dev = o.dev /\ o'.urb[u].freed = o.urb[u].freed
      BY <2>7 DEF Unhooked
    <2>9. \A v \in Urb \ {u} : UrbOk(v)' /\ EdOk(v)'
      <3>1. ASSUME NEW v \in Urb \ {u} PROVE UrbOk(v)' /\ EdOk(v)'
        <4>1. UrbOk(v) /\ EdOk(v) /\ (v \in o.tick => main.pc \in {"unlink", "disable"} /\ main.u = v)
          BY <2>1 DEF EdInv, EdOk, UrbInv
        <4> QED
          BY <1>1, <1>3, <1>4, <2>2, <2>3, <4>1, EdStays, UrbStays
      <3> QED
        BY <3>1
    <2>10. u \in IntUrb => o.dev[u] # "none"
      BY <2>1, <2>5 DEF MainInv
    <2>11. [FreshEd EXCEPT !.state = "IDLE"].list = {} /\ [FreshEd EXCEPT !.state = "IDLE"].state = "IDLE"
           /\ ~[FreshEd EXCEPT !.state = "IDLE"].skip /\ ~[FreshEd EXCEPT !.state = "IDLE"].dequeue
           /\ ~[FreshEd EXCEPT !.state = "IDLE"].halt
      BY DEF FreshEd
    <2>12. CASE o.urb[u].del
      <3>1. /\ ~o'.urb[u].hcpriv /\ ~o'.urb[u].spliced /\ ~o'.urb[u].del
            /\ o'.urb[u].done <=> o.urb[u].done \/ o.urb[u].spliced \/ u = Ctl
            /\ o'.ed[u] = [FreshEd EXCEPT !.state = "IDLE"] /\ o'.ctl = o.ctl /\ o'.cle = o.cle
            /\ o'.stale <=> o.stale \/ Known(q, u)
        BY <2>7, <2>12 DEF Unhooked
      <3>2. o'.ed[u].list = {} /\ o'.ed[u].state = "IDLE" /\ ~o'.ed[u].skip /\ ~o'.ed[u].dequeue /\ ~o'.ed[u].halt
        BY <2>11, <3>1
      <3>3. Retired(u) = {}
        <4>1. ~Known(q, u)
          BY <1>6, <3>1 DEF Ok
        <4>2. At(hc.q, u) = {} /\ At(hc.head, u) = {}
          BY <1>2, <4>1, UnknownIt
        <4> QED
          BY <2>4, <4>2 DEF Retired, InHc
      <3>4. UrbInv'
        <4>1. UrbOk(u)'
          BY <2>2, <3>1, <3>2, <3>3 DEF UrbOk, Free
        <4> QED
          BY <2>9, <4>1 DEF UrbInv
      <3>5. EdInv'
        <4>1. EdOk(u)'
          BY <1>3, <2>3, <2>4, <3>1, <3>2 DEF EdOk
        <4>2. o'.ctl <=> o'.ed[Ctl].state = "OPER"
          <5>1. CASE u = Ctl
            BY <2>1, <2>5, <3>1, <3>2, <5>1 DEF EdInv
          <5>2. CASE u # Ctl
            BY <1>4, <2>1, <3>1, <5>2, IntIsUrb DEF EdInv
          <5> QED
            BY <5>1, <5>2
        <4> QED
          BY <1>1, <2>3, <2>9, <4>1, <4>2 DEF EdInv
      <3>6. main.u = u /\ main.pc \in {"unlink", "disable"} /\ o.urb[u].hcpriv
        BY <2>6, <2>12
      <3>7. MainInv'
        <4>1. o'.dev[Ctl] = "here" /\ ~o'.urb[Ctl].hcpriv
          <5>1. u # Ctl => ~o.urb[Ctl].hcpriv
            BY <2>1, <3>6 DEF MainInv
          <5> QED
            BY <1>4, <2>1, <2>8, <3>1, <5>1, IntIsUrb DEF MainInv
        <4>2. ASSUME NEW v \in IntUrb
              PROVE  /\ o'.dev[v] = "none" => ~o'.urb[v].hcpriv /\ o'.ed[v].state = "none"
                     /\ o'.dev[v] = "gone" <=> main.pc \in {"unlink", "kill", "disable"} /\ main.u = v
          BY <1>4, <2>1, <2>8, <2>10, IntIsUrb DEF MainInv
        <4>3. \A v \in Urb : /\ o'.urb[v].freed => ~o'.urb[v].hcpriv
                             /\ o'.urb[v].del => main.pc \in {"unlink", "disable"} /\ main.u = v
          BY <1>4, <2>1, <3>1 DEF MainInv
        <4>4. main.pc = "unlink" => o'.urb[u].done
          BY <2>1, <3>1, <3>6 DEF MainInv
        <4> QED
          BY <1>1, <3>1, <3>6, <4>1, <4>2, <4>3, <4>4 DEF MainInv
      <3>8. WaitInv'
        <4>1. main.pc = "unlink" => o'.urb[u].done
          BY <2>1, <3>1, <3>6 DEF MainInv
        <4> QED
          BY <1>1, <1>3, <2>1, <3>6, <4>1 DEF WaitInv
      <3> QED
        BY <2>2, <3>4, <3>5, <3>7, <3>8
    <2>13. CASE ~o.urb[u].del
      <3>1. /\ o'.urb = o.urb
            /\ e.list = {} => o'.ed[u] = [FreshEd EXCEPT !.state = "IDLE"] /\ o'.ctl = o.ctl
            /\ e.list # {} =>
                 /\ o'.ed[u] = [e EXCEPT !.state = "OPER", !.skip = FALSE, !.dequeue = FALSE, !.halt = FALSE]
                 /\ o'.ctl <=> o.ctl \/ u = Ctl
        BY <2>7, <2>13 DEF Unhooked
      <3>2. e.list = {} => /\ o'.ed[u].list = {} /\ o'.ed[u].state = "IDLE" /\ ~o'.ed[u].skip
                           /\ ~o'.ed[u].dequeue /\ ~o'.ed[u].halt
        BY <2>11, <3>1
      <3>3. e.list # {} =>
              /\ o'.ed[u].list = e.list /\ o'.ed[u].head = e.head /\ o'.ed[u].tds = e.tds /\ o'.ed[u].bad = e.bad
              /\ o'.ed[u].state = "OPER" /\ ~o'.ed[u].skip /\ ~o'.ed[u].dequeue /\ ~o'.ed[u].halt
        <4>1. e \in EdType
          BY <1>2 DEF Data
        <4> HIDE DEF e
        <4> QED
          BY <3>1, <4>1 DEF EdType
      <3>4. UrbOk(u) /\ (o.urb[u].hcpriv <=> e.list # {})
        <4>1. UrbOk(u)
          BY <2>1 DEF UrbInv
        <4> QED
          BY <4>1 DEF UrbOk, Busy, Free
      <3>5. UrbInv'
        <4>1. CASE e.list = {}
          <5>1. ~o.urb[u].hcpriv /\ Free(u)
            BY <3>4, <4>1 DEF UrbOk
          <5>2. UrbOk(u)'
            BY <2>2, <3>1, <3>2, <4>1, <5>1 DEF UrbOk, Free
          <5> QED
            BY <2>9, <5>2 DEF UrbInv
        <4>2. CASE e.list # {}
          <5>1. o.urb[u].hcpriv /\ Busy(u)
            BY <3>4, <4>2 DEF UrbOk
          <5>2. /\ e.list # {} /\ e.list \subseteq 1 .. Length(u) /\ e.head \in 1 .. Length(u) + 1
                /\ o.urb[u].cnt + Cardinality(e.list) = Length(u)
                /\ Retired(u) = {j \in e.list : j < e.head} /\ e.head .. Length(u) \subseteq e.list
                /\ e.halt => e.bad \in e.list /\ e.head = e.bad + 1
                /\ e.bad \in e.list /\ ~e.halt => e.bad \in At(irq.list, u)
                /\ o.urb[u].status = "err" => e.list \subseteq At(irq.list, u)
                /\ o.urb[u].status \in {"prog", "err", "enoent", "shutdown"}
                /\ o.urb[u].del <=> o.urb[u].status \in {"enoent", "shutdown"}
                /\ e.tds \cap e.list \subseteq At(irq.list, u)
                /\ e.head = 1
            BY <2>5, <2>13, <5>1 DEF Busy
          <5> HIDE DEF e
          <5>3. e.bad \notin e.list
            <6>1. ~e.halt
              <7>1. \A j \in 1 .. Length(u) : j + 1 # 1
                OBVIOUS
              <7> QED
                BY <5>2, <7>1
            <6> QED
              BY <2>4, <5>2, <6>1
          <5>4. Busy(u)'
            BY <2>2, <3>1, <3>3, <4>2, <5>2, <5>3 DEF Busy
          <5>5. UrbOk(u)'
            BY <3>1, <5>1, <5>4 DEF UrbOk
          <5> QED
            BY <2>9, <5>5 DEF UrbInv
        <4> QED
          BY <4>1, <4>2
      <3>6. EdInv'
        <4>1. EdOk(u)'
          BY <1>3, <2>3, <2>4, <2>13, <3>1, <3>2, <3>3 DEF EdOk
        <4>2. o'.ctl <=> o'.ed[Ctl].state = "OPER"
          <5>1. CASE u = Ctl
            BY <2>1, <2>5, <3>1, <3>2, <3>3, <5>1 DEF EdInv
          <5>2. CASE u # Ctl
            BY <1>4, <2>1, <3>1, <5>2, IntIsUrb DEF EdInv
          <5> QED
            BY <5>1, <5>2
        <4> QED
          BY <1>1, <2>3, <2>9, <4>1, <4>2 DEF EdInv
      <3>7. ASSUME NEW v \in IntUrb
            PROVE  o'.dev[v] = "none" => ~o'.urb[v].hcpriv /\ o'.ed[v].state = "none"
        BY <1>4, <2>1, <2>8, <2>10, <3>1, IntIsUrb DEF MainInv
      <3>8. MainInv' /\ WaitInv'
        BY <1>1, <1>3, <2>1, <2>8, <3>1, <3>7 DEF MainInv, WaitInv
      <3> QED
        BY <2>2, <3>5, <3>6, <3>8
    <2> QED
      BY <2>12, <2>13
  <1> QED
    BY <1>5, <1>6 DEF QueueIInv

-----------------------------------------------------------------------------
(* The invariant and what follows from it.                                 *)

LEMMA QueueInit == Init => QueueIInv
  <1> SUFFICES ASSUME Init PROVE QueueIInv
    OBVIOUS
  <1> DEFINE free == [FreshUrb EXCEPT !.freed = TRUE]
  <1>1. free \in UrbType /\ ~free.hcpriv /\ ~free.del
    BY FreshUrbType DEF FreshUrb
  <1>2. /\ FreshEd \in EdType /\ FreshEd.state = "none" /\ FreshEd.list = {} /\ ~FreshEd.skip /\ ~FreshEd.halt
        /\ ~FreshEd.dequeue
    BY FreshEdType DEF FreshEd
  <1> HIDE DEF free
  <1>3. /\ o.urb = [u \in Urb |-> free] /\ o.ed = [u \in Urb |-> FreshEd]
        /\ o.dev = [u \in Urb |-> IF u = Ctl THEN "here" ELSE "none"]
        /\ o.rm = <<>> /\ o.tick = {} /\ ~o.ctl /\ ~o.cle /\ ~o.disabled /\ ~o.stale
        /\ Data(o)
    <2> DEFINE tree == [periodic |-> [i \in Branch |-> None], load |-> [i \in Branch |-> 0],
                        next |-> [u \in Urb |-> None], branch |-> [u \in Urb |-> 0]]
               urb == [u \in Urb |-> free]
               ed == [u \in Urb |-> FreshEd]
               dev == [u \in Urb |-> IF u = Ctl THEN "here" ELSE "none"]
    <2>1. o = [urb |-> urb, ed |-> ed, dev |-> dev, tree |-> tree, rm |-> <<>>,
               tick |-> {}, ctl |-> FALSE, cle |-> FALSE, disabled |-> FALSE, stale |-> FALSE]
      BY DEF Init, free
    <2>2. /\ urb \in [Urb -> UrbType] /\ ed \in [Urb -> EdType]
          /\ dev \in [Urb -> {"none", "here", "halted", "gone"}]
      BY <1>1, <1>2
    <2>3. <<>> \in Seq(Urb) /\ {} \in SUBSET Urb
      OBVIOUS
    <2> HIDE DEF tree, urb, ed, dev
    <2>4. /\ o.urb = urb /\ o.ed = ed /\ o.dev = dev /\ o.tree = tree
          /\ o.rm = <<>> /\ o.tick = {} /\ ~o.ctl /\ ~o.cle /\ ~o.disabled /\ ~o.stale
      BY <2>1
    <2>5. Data(o)
      BY <2>1, <2>2, <2>3, <2>4 DEF Data
    <2> QED
      BY <2>4, <2>5 DEF urb, ed, dev
  <1>4. hc.q = <<>> /\ hc.head = <<>> /\ ~hc.wdh /\ hc \in HcType
    <2>1. hc = [q |-> <<>>, head |-> <<>>, wdh |-> FALSE, ue |-> FALSE]
      BY DEF Init
    <2> QED
      BY <2>1 DEF HcType
  <1>5. irq.pc = "off" /\ irq.in = <<>> /\ irq.list = <<>> /\ irq.wait = {} /\ ~irq.wdh /\ irq \in IrqType
    BY IdleIt DEF Init
  <1>6. main.pc = "idle" /\ main.u = None /\ main \in MainType
    <2>1. main = [pc |-> "idle", u |-> None, n |-> 0, frame |-> TRUE]
      BY DEF Init
    <2> QED
      BY <2>1 DEF MainType
  <1>7. TypeInv
    BY <1>3, <1>4, <1>5, <1>6, IntIsUrb DEF TypeInv
  <1>8. \A u \in Urb : At(irq.in, u) = {} /\ At(irq.list, u) = {} /\ At(hc.q, u) = {} /\ At(hc.head, u) = {}
    BY <1>4, <1>5, NoneAt
  <1>9. \A u \in Urb : Retired(u) = {} /\ InIrq(u) = {}
    BY <1>8 DEF Retired, InIrq, InHc
  <1>10. QueueInv
    BY <1>3, <1>4, <1>5, <1>8, <1>9, NoMembers DEF QueueInv
  <1>11. \A u \in Urb : ~o.urb[u].hcpriv /\ ~o.urb[u].del /\ o.ed[u] = FreshEd
    BY <1>1, <1>3
  <1>12. UrbInv
    BY <1>2, <1>9, <1>11 DEF UrbInv, UrbOk, Free
  <1>13. EdInv
    BY <1>2, <1>3, <1>11, NoMembers, IntIsUrb DEF EdInv, EdOk
  <1>14. MainInv /\ WaitInv
    BY <1>2, <1>3, <1>6, <1>11, IntIsUrb DEF MainInv, WaitInv
  <1> QED
    BY <1>7, <1>10, <1>12, <1>13, <1>14 DEF QueueIInv

LEMMA QueueNext == QueueIInv /\ [Next]_vars => QueueIInv'
  <1> SUFFICES ASSUME QueueIInv, [Next]_vars PROVE QueueIInv'
    OBVIOUS
  <1>1. CASE Next
    <2>1. ~o.stale
      BY <1>1 DEF Next
    <2>2. CASE IrqStep
      <3>1. CASE IrqEnter
        BY <2>1, <3>1, IrqEnterStep
      <3>2. CASE IrqReverse
        BY <2>1, <3>2, IrqReverseStep
      <3>3. CASE IrqDone
        BY <2>1, <3>3, IrqDoneStep
      <3>4. CASE IrqUnlinks
        BY <2>1, <3>4, IrqUnlinksStep
      <3>5. CASE \E u \in Urb : IrqUnlink(u)
        BY <2>1, <3>5, IrqUnlinkStep
      <3>6. CASE IrqEnd
        BY <2>1, <3>6, IrqEndStep
      <3> QED
        BY <2>2, <3>1, <3>2, <3>3, <3>4, <3>5, <3>6 DEF IrqStep
    <2>3. CASE MainStep
      <3>1. CASE UnlinkReturns
        BY <2>1, <3>1, UnlinkReturnsStep
      <3>2. CASE DisableEndpoint
        BY <2>1, <3>2, DisableEndpointStep
      <3>3. CASE EndpointDisabled
        BY <2>1, <3>3, EndpointDisabledStep
      <3>4. CASE MsgReturns
        BY <2>1, <3>4, MsgReturnsStep
      <3>5. CASE PollNothing
        BY <3>5, PollNothingStep
      <3> QED
        BY <2>3, <3>1, <3>2, <3>3, <3>4, <3>5 DEF MainStep
    <2>4. CASE ControlMsg
      BY <2>1, <2>4, ControlMsgStep
    <2>5. CASE HcFrame
      BY <2>5, HcFrameStep
    <2>6. CASE HcError
      BY <2>6, HcErrorStep
    <2>7. CASE \E u \in Urb : HcRetire(u)
      BY <2>1, <2>7, HcRetireStep
    <2>8. CASE \E u \in IntUrb : Probe(u) \/ Disconnect(u)
      BY <2>1, <2>8, ProbeStep, DisconnectStep
    <2> QED
      BY <1>1, <2>2, <2>3, <2>4, <2>5, <2>6, <2>7, <2>8 DEF Next
  <1>2. CASE UNCHANGED vars
    <2>1. UNCHANGED <<o, hc, irq, main>>
      BY <1>2 DEF vars
    <2>2. TypeInv'
      BY <2>1 DEF QueueIInv, TypeInv, Counts
    <2>3. ASSUME Ok' PROVE QueueInv' /\ UrbInv' /\ EdInv' /\ MainInv' /\ WaitInv'
      <3>1. Ok /\ QueueInv /\ UrbInv /\ EdInv /\ MainInv /\ WaitInv
        BY <2>1, <2>3 DEF Ok, QueueIInv
      <3>2. /\ QueueInv' /\ \A v \in Urb : /\ InIrq(v)' = InIrq(v) /\ Retired(v)' = Retired(v)
                                           /\ At(irq'.list, v) = At(irq.list, v)
        BY <2>1, <3>1, QueuesStay
      <3>3. UrbInv'
        BY <2>1, <3>1, <3>2, UrbStays DEF UrbInv
      <3>4. EdInv'
        BY <2>1, <3>1 DEF EdInv, EdOk
      <3>5. MainInv' /\ WaitInv'
        BY <2>1, <3>1 DEF MainInv, WaitInv
      <3> QED
        BY <3>2, <3>3, <3>4, <3>5
    <2> QED
      BY <2>2, <2>3 DEF QueueIInv
  <1> QED
    BY <1>1, <1>2

LEMMA QueueAlways == Spec => []QueueIInv
  BY QueueInit, QueueNext, PTL DEF Spec

\* The data of the driver, of the handler and of the code that waits keep their
\* types, whatever the controller does: a done list holds TDs, a counter of
\* completed TDs does not go below 0, the polls that are left are not negative,
\* and only a wait that has polls left lets the handler run.
THEOREM UsbQueueTypes == Spec => []TypeInv
  BY QueueAlways, PTL DEF QueueIInv

\* usb_free_urb() after usb_unlink_urb() or usb_start_wait_urb(): a URB is freed
\* only when the host controller driver gave it back, however its completion
\* raced the unlink, for every number of devices, polls and TDs.
THEOREM UrbsFreedAreReturned == Spec => []FreedIsReturned
  <1>1. QueueIInv => FreedIsReturned
    BY DEF QueueIInv, Ok, MainInv, FreedIsReturned
  <1> QED
    BY <1>1, QueueAlways, PTL

\* dl_reverse_done_list() and ed_halted(): no TD is in a done list twice, the
\* ones ed_halted() adds included, and what the handler works on was retired
\* before what the controller still holds.
THEOREM DoneListsSound == Spec => [](Ok => QueueInv)
  BY QueueAlways, PTL DEF QueueIInv

\* A URB in progress is where something returns it, as far as that does not
\* depend on the chains of the periodic tree: the operational interrupt
\* endpoints are assumed to be on it (periodic_link, dl_done_list,
\* finish_unlinks, ed_schedule).
THEOREM UrbsOnTheTreeAreNotLost ==
  Spec => []((\A u \in IntUrb : o.ed[u].state = "OPER" => Scheduled(o, u)) => NoLostUrb)
  <1>1. QueueIInv => ((\A u \in IntUrb : o.ed[u].state = "OPER" => Scheduled(o, u)) => NoLostUrb)
    <2> SUFFICES ASSUME QueueIInv, \A u \in IntUrb : o.ed[u].state = "OPER" => Scheduled(o, u),
                        ~o.stale, ~o.disabled, NEW u \in Urb, o.urb[u].hcpriv
                 PROVE  \/ Scheduled(o, u) /\ ~o.ed[u].skip
                        \/ u \in ToSet(o.rm)
                        \/ InDone(u)
                        \/ u = Ctl /\ o.ctl /\ (o.rm # <<>> \/ irq.pc # "off")
      BY DEF NoLostUrb
    <2>1. QueueInv /\ UrbInv /\ EdInv
      BY DEF QueueIInv, Ok
    <2>2. Busy(u) /\ EdOk(u)
      BY <2>1 DEF UrbInv, UrbOk, EdInv
    <2>3. CASE o.ed[u].state = "UNLINK"
      BY <2>2, <2>3 DEF EdOk
    <2>4. CASE o.ed[u].state = "OPER"
      <3>1. CASE Retired(u) # {}
        <4>1. PICK i \in Retired(u) : TRUE
          BY <3>1
        <4>2. /\ i \in TdNumbers
              /\ <<u, i>> \in ToSet(hc.q) \cup ToSet(hc.head) \cup ToSet(irq.in) \cup ToSet(irq.list)
          BY <4>1 DEF Retired, InIrq, InHc, At
        <4>3. <<u, i>>[1] = u
          OBVIOUS
        <4> QED
          BY <4>2, <4>3 DEF InDone
      <3>2. CASE Retired(u) = {}
        <4>1. ~o.ed[u].skip
          BY <2>2, <2>4, <3>2 DEF Busy
        <4>2. CASE u = Ctl
          <5>1. o.ctl /\ (o.cle => Scheduled(o, Ctl))
            BY <2>1, <2>4, <4>2 DEF EdInv, Scheduled
          <5> QED
            BY <2>1, <4>1, <4>2, <5>1 DEF EdInv
        <4>3. CASE u # Ctl
          BY <2>4, <4>1, <4>3, IntIsUrb
        <4> QED
          BY <4>2, <4>3
      <3> QED
        BY <3>1, <3>2
    <2> QED
      BY <2>2, <2>3, <2>4 DEF Busy
  <1> QED
    BY <1>1, QueueAlways, PTL
===============================================================================
