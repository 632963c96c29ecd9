---------------------------- MODULE UsbHubProofs ----------------------------
(***************************************************************************)
(* Proof that no two devices of the bus share an address and that none     *)
(* leaks, whatever is plugged and pulled and whichever messages are lost.  *)
(*                                                                         *)
(* What the thread knows of a device and what the device has heard part    *)
(* while the thread works on it (Worked): a lost answer leaves a device    *)
(* with the address it was to take, a failed try with one that was given   *)
(* back.  HubInv says that there is one such device at a time, that every  *)
(* other one on the bus is held by the tree under its address (Held), and  *)
(* that the thread looks at a device again before it lets go of it: a port *)
(* is turned off, or its device was heard at the address it was given.     *)
(***************************************************************************)
EXTENDS UsbHub, SequenceTheorems, FiniteSetTheorems,
        WellFoundedInduction, TLAPS

PCs == {"idle", "status", "enable", "change", "debounce", "clear", "alloc", "reset", "wait",
        "setaddr", "descriptor", "device", "configuration", "configure", "bind", "disable",
        "power", "hubreset"}

(* The thread has a place to bring up; first and last without an address.  *)
Unnamed == {"alloc", "reset", "wait", "disable"}
Named == {"setaddr", "descriptor", "device", "configuration", "configure", "bind"}
Working == k.pc \in Unnamed \cup Named

Ports4 == [power : BOOLEAN, en : BOOLEAN, cc : BOOLEAN, ce : BOOLEAN]
UsbDevs == [addr : Int, drv : Devices \cup {None}]

WireInv ==
  /\ phase \in {"off", "running", "stopped"}
  /\ plug \in [Devices -> {NoPort} \cup Ports]
  /\ plug[Ext] = NoPort \/ OnRoot(plug[Ext])
  /\ \A d, e \in Devices : plug[d] = plug[e] /\ plug[d] # NoPort => d = e
  /\ port \in [Ports -> Ports4]
  /\ addr \in [Devices -> Int]
  /\ \A p \in Ports : port[p].en => port[p].power /\ \E d \in Devices : plug[d] = p

TreeType ==
  /\ child \in [Places -> {None} \cup UsbDevs]
  /\ devmap \subseteq 1 .. MAX_ADDRESS
  /\ next \in 1 .. MAX_ADDRESS
  /\ events \in Seq(Hubs)
  /\ \A i, j \in DOMAIN events : events[i] = events[j] => i = j
  /\ hub \in [Hubs -> [bound : BOOLEAN, urb : BOOLEAN, error : BOOLEAN]]
  /\ stray \subseteq Ports

WorkInv ==
  /\ k.pc \in PCs /\ k.why \in {"probe", "hub"}
  /\ DOMAIN k = DOMAIN Rest
  /\ k.pc # "idle" => /\ phase = "running"
                      /\ k.h \in Hubs /\ k.i \in 1 .. Len(PortsOf(k.h))
                      /\ k.h # Root => IsHubAt(PlaceOf(k.h))
  /\ k.why = "hub" => k.h # Root /\ k.pc \in {"reset", "wait", "setaddr", "descriptor", "power"}
  /\ k.pc = "hubreset" => k.h # Root /\ hub[k.h].error /\ k.why = "probe"

TreeInv ==
  /\ \A pl \in Places : IsHubAt(pl) => pl[1] = Root
  /\ \A h \in Hubs \ {Root} : hub[h].bound => IsHubAt(PlaceOf(h))
  /\ \A h \in Hubs \ {Root} : (hub[h].error \/ h \in Range(events)) => hub[h].bound
  /\ ~hub[Root].error

(* The usb_device being brought up has no address yet.                     *)
Fresh(pl) == k.why = "probe" /\ k.pc \in Unnamed /\ pl = Here
Known == {pl \in Places : child[pl] # None /\ ~Fresh(pl)}

AddrInv ==
  /\ phase # "running" => /\ \A pl \in Places : child[pl] = None
                          /\ \A p \in Ports : ~port[p].en
                          /\ devmap = {} /\ stray = {}
  /\ phase = "running" => devmap = {1} \cup AddressesOf(Known)
  /\ \A q \in Known : child[q].addr \in 2 .. MAX_ADDRESS
  /\ \A q, r \in Known : child[q].addr = child[r].addr => q = r

(* How far the usb_device is that is being brought up.                     *)
FreshInv ==
  /\ k.why = "probe" /\ k.pc \in Unnamed /\ child[Here] # None
       => child[Here].addr \in {0, -1} /\ child[Here].drv = None
  /\ k.why = "probe" /\ k.pc \in {"reset", "wait"} => child[Here] # None /\ child[Here].addr = 0
  /\ k.why = "probe" /\ k.pc \in Named => child[Here] # None /\ child[Here].drv = None
  /\ k.pc \in {"debounce", "clear", "disable"} => child[Here] = None

(* The hub has the address that the tree has for h.                        *)
OnLine(h) == h # Root => child[PlaceOf(h)].addr = addr[Ext]

(* The bus reaches an enabled port, not one left on at an external hub; and *)
(* the device at it.                                                       *)
Heard(p) == port[p].en /\ (OnRoot(p) \/ (EnabledAt(Ext) /\ p \notin stray))
Hears(d) == Listens(d) /\ (OnRoot(plug[d]) \/ plug[d] \notin stray)

CcInv == \A p \in Ports : Heard(p) /\ port[p].cc =>
  k.pc \in {"reset", "wait", "disable"} /\ p = Target[2] /\ OnLine(Target[1])

QuietInv ==
  k.pc \in {"change", "debounce", "clear"} \/ (k.pc = "enable" /\ ~k.snap.en)
    => ~(Heard(Here[2]) /\ OnLine(k.h))

(* d hangs where the thread works and hears it if the bus reaches it.      *)
Worked(d) == Working /\ plug[d] = Target[2] /\ OnLine(Target[1])

(* What a device listens to while it is worked on.                         *)
Heeds(d) ==
  /\ k.why = "probe" /\ k.pc \in {"alloc", "reset", "disable"} => addr[d] \notin devmap
  /\ k.why = "hub" /\ k.pc = "reset" => addr[d] = 0 \/ addr[d] = child[Target].addr
  /\ k.pc = "wait" => addr[d] = 0
  /\ k.pc = "setaddr" => addr[d] = 0 \/ addr[d] = child[Target].addr
  /\ k.pc \in Named \ {"setaddr"} => addr[d] = child[Target].addr
  /\ d = Ext => \A p \in Ports : OnRoot(p) \/ ~port[p].en
WorkedInv == \A d \in Devices : Hears(d) /\ Worked(d) => Heeds(d)

(* The tree has d at its place, under a hub it takes for the one there.    *)
HeldAt(d, pl) ==
  /\ pl[2] = plug[d] /\ child[pl] # None /\ child[pl].addr = addr[d]
  /\ pl[1] # Root => child[PlaceOf(pl[1])] # None /\ OnLine(pl[1])
Held(d) == \E pl \in Places : HeldAt(d, pl)
SteadyInv == \A d \in Devices :
  Hears(d) /\ ~Worked(d) => addr[d] >= 2 /\ (~Astray(d) => Held(d))

(* A port of the root hub that was left on, whose hub was given up.         *)
StrayInv == \A p \in stray \cap Range(RootPorts) :
  /\ child[PlaceOf(p)] = None /\ ~port[p].cc /\ \E d \in Devices : plug[d] = p
  /\ k.h = Root /\ k.pc \notin {"idle", "status", "enable"} => Here[2] # p

ErrorInv == \A h \in Hubs \ {Root} :
  hub[h].error /\ ~(k.why = "hub" /\ k.h = h /\ k.pc # "power")
    => ~(EnabledAt(Ext) /\ OnLine(h))

AboveInv == k.why = "probe" /\ k.pc \in Named /\ EnabledAt(Ext) => OnLine(k.h)

HubInv == /\ WireInv /\ TreeType /\ WorkInv /\ TreeInv /\ AddrInv /\ FreshInv /\ CcInv
          /\ QuietInv /\ WorkedInv /\ SteadyInv /\ StrayInv /\ ErrorInv /\ AboveInv

-----------------------------------------------------------------------------
(* Places and what the bus reaches.                                        *)

(* A place is a hub and one of its ports; hubs are at places of the root.  *)
LEMMA PlaceFacts ==
  /\ \A pl \in Places : /\ pl = <<pl[1], pl[2]>> /\ pl[1] \in Hubs /\ pl[2] \in Ports
                        /\ pl[1] = Root <=> OnRoot(pl[2])
  /\ \A h \in Hubs \ {Root} : /\ PlaceOf(h) \in Places /\ OnRoot(h)
                              /\ PlaceOf(h)[1] = Root /\ PlaceOf(h)[2] = h
  /\ \A pl, ql \in Places : pl[1] = ql[1] /\ pl[2] = ql[2] => pl = ql
  /\ \A pl \in Places : pl[1] = Root => pl = PlaceOf(pl[2]) /\ pl[2] \in Hubs \ {Root}
  /\ Ext \in Devices /\ NoPort \notin Ports
  <1>1. \A pl \in Places : /\ pl = <<pl[1], pl[2]>> /\ pl[1] \in Hubs /\ pl[2] \in Ports
                           /\ pl[1] = Root <=> OnRoot(pl[2])
    BY HubAssumption DEF Places, Hubs, Ports, OnRoot
  <1>2. \A h \in Hubs \ {Root} : /\ PlaceOf(h) \in Places /\ OnRoot(h)
                                 /\ PlaceOf(h)[1] = Root /\ PlaceOf(h)[2] = h
    BY DEF Places, Hubs, PlaceOf, OnRoot
  <1>3. \A pl, ql \in Places : pl[1] = ql[1] /\ pl[2] = ql[2] => pl = ql
    BY <1>1
  <1>4. \A pl \in Places : pl[1] = Root => pl = PlaceOf(pl[2]) /\ pl[2] \in Hubs \ {Root}
    BY <1>1, HubAssumption DEF PlaceOf, OnRoot, Hubs
  <1> QED
    BY <1>1, <1>2, <1>3, <1>4, HubAssumption DEF Devices

(* A hub and an index into its ports make a place.                         *)
LEMMA PlaceAt ==
  ASSUME NEW h \in Hubs, NEW i \in 1 .. Len(PortsOf(h))
  PROVE  /\ <<h, PortsOf(h)[i]>> \in Places /\ <<h, PortsOf(h)[i]>>[1] = h
         /\ PortsOf(h)[i] \in Ports
  BY HubAssumption DEF Hubs, Places, PortsOf, Range, Ports

(* Where the thread is while it is not idle.                               *)
LEMMA HereFacts ==
  ASSUME WorkInv, k.pc # "idle"
  PROVE  /\ Here \in Places /\ Here[1] = k.h /\ Here[2] \in Ports
         /\ k.why = "probe" => Target = Here
         /\ k.why = "hub" => Target = PlaceOf(k.h) /\ Target[1] = Root /\ Target[2] = k.h
         /\ Target \in Places /\ Target[2] \in Ports
         /\ k.h \in Hubs /\ Target[1] \in Hubs
  <1>1. k.h \in Hubs /\ k.i \in 1 .. Len(PortsOf(k.h))
    BY DEF WorkInv
  <1>2. Here \in Places /\ Here[1] = k.h /\ Here[2] \in Ports
    BY <1>1, PlaceAt DEF Here
  <1>3. k.why = "probe" => Target = Here
    BY DEF Target
  <1>4. k.why = "hub" => Target = PlaceOf(k.h) /\ Target[1] = Root /\ Target[2] = k.h
    BY <1>1, PlaceFacts DEF Target, WorkInv
  <1>5. Target \in Places
    BY <1>1, <1>2, <1>3, <1>4, PlaceFacts DEF WorkInv
  <1> QED
    BY <1>1, <1>2, <1>3, <1>4, <1>5, PlaceFacts

(* Answers, Listens and Reached in terms of the enabled ports.             *)
LEMMA BusFacts ==
  ASSUME WireInv
  PROVE  /\ \A h : Answers(h) <=> h = Root \/ (EnabledAt(Ext) /\ OnLine(h))
         /\ \A d \in Devices : Hears(d) <=> plug[d] # NoPort /\ Heard(plug[d])
         /\ \A d \in Devices : Hears(d) => Listens(d)
         /\ \A d \in Devices : Listens(d) /\ ~OnRoot(plug[d]) => EnabledAt(Ext)
         /\ \A a, d : d \in Reached(a) <=> d \in Devices /\ Listens(d) /\ addr[d] = a
  <1>1. Listens(Ext) <=> EnabledAt(Ext)
    BY DEF WireInv, Listens, EnabledAt
  <1>2. \A a, d : d \in Reached(a) <=> d \in Devices /\ Listens(d) /\ addr[d] = a
    BY DEF Reached
  <1>3. ASSUME NEW h PROVE Answers(h) <=> h = Root \/ (EnabledAt(Ext) /\ OnLine(h))
    BY <1>1, <1>2, PlaceFacts DEF Answers, HubAddress, OnLine
  <1> QED
    BY <1>2, <1>3 DEF Hears, Listens, Heard, EnabledAt

(* A device that is held is held at a place that is not worked on.         *)
LEMMA HeldApart ==
  ASSUME HubInv, NEW d \in Devices, Hears(d), ~Worked(d), NEW pl \in Places, HeldAt(d, pl)
  PROVE  pl \in Known /\ (Working => pl # Target)
  <1>1. Working => pl # Target
    BY DEF HeldAt, Worked, OnLine
  <1>2. Fresh(pl) => Working /\ pl = Target
    <2>1. Fresh(pl) => k.pc # "idle"
      BY DEF Fresh, Unnamed
    <2> QED
      BY <2>1, HereFacts DEF Fresh, Working, HubInv
  <1> QED
    BY <1>1, <1>2 DEF Known, HeldAt

(* A device that has an address while the thread works on it is in use.    *)
LEMMA TargetKnown ==
  ASSUME HubInv, Working, k.why = "hub" \/ k.pc \in Named
  PROVE  Target \in Known /\ child[Target].addr \in 2 .. MAX_ADDRESS
  <1>1. k.pc # "idle" /\ Target \in Places
    BY HereFacts DEF HubInv, Working, Unnamed, Named
  <1>2. CASE k.why = "hub"
    BY <1>1, <1>2, HereFacts DEF HubInv, WorkInv, IsHubAt, Known, Fresh, AddrInv
  <1>3. CASE k.why = "probe" /\ k.pc \in Named
    BY <1>1, <1>3, HereFacts DEF HubInv, FreshInv, Known, Fresh, AddrInv, Named, Unnamed
  <1> QED
    BY <1>2, <1>3 DEF HubInv, WorkInv

(* The addresses of different devices differ.                              *)
LEMMA UniqueNow == HubInv => AddressesUnique
  <1> SUFFICES ASSUME HubInv, NEW d \in Devices, NEW e \in Devices, d # e,
                      Hears(d), Hears(e), ~Astray(d), ~Astray(e)
               PROVE  addr[d] # addr[e]
    BY DEF AddressesUnique, Astray, Hears
  <1>1. plug[d] # plug[e]
    BY DEF HubInv, WireInv, Hears, Listens, EnabledAt
  <1>2. ASSUME NEW x \in Devices, NEW y \in Devices, Hears(x), Hears(y), Worked(x), ~Worked(y),
               ~Astray(y)
        PROVE  addr[x] # addr[y]
    <2>1. PICK pl \in Places : HeldAt(y, pl)
      BY <1>2 DEF HubInv, SteadyInv, Held
    <2>2. pl \in Known /\ pl # Target /\ addr[y] = child[pl].addr /\ addr[y] >= 2
      BY <1>2, <2>1, HeldApart DEF Worked, HeldAt, HubInv, SteadyInv
    <2>3. k.pc # "idle" /\ phase = "running" /\ Working
      BY <1>2 DEF Worked, Working, Unnamed, Named, HubInv, WorkInv
    <2>4. addr[y] \in devmap
      BY <2>2, <2>3 DEF HubInv, AddrInv, AddressesOf, Known
    <2>5. Heeds(x)
      BY <1>2 DEF HubInv, WorkedInv
    <2>6. k.why = "hub" \/ k.pc \in Named => child[Target].addr # addr[y]
      BY <2>2, <2>3, TargetKnown DEF HubInv, AddrInv
    <2> QED
      BY <2>2, <2>3, <2>4, <2>5, <2>6 DEF Heeds, Working, Unnamed, Named, HubInv, WorkInv
  <1>3. CASE ~Worked(d) /\ ~Worked(e)
    <2>1. PICK pd \in Places : HeldAt(d, pd)
      BY <1>3 DEF HubInv, SteadyInv, Held
    <2>2. PICK pe \in Places : HeldAt(e, pe)
      BY <1>3 DEF HubInv, SteadyInv, Held
    <2>3. pd \in Known /\ pe \in Known
      BY <1>3, <2>1, <2>2, HeldApart
    <2> QED
      BY <1>1, <2>1, <2>2, <2>3 DEF HeldAt, HubInv, AddrInv
  <1>4. ~(Worked(d) /\ Worked(e))
    BY <1>1 DEF Worked
  <1> QED
    BY <1>2, <1>3, <1>4

(* The invariant is strong enough.                                         *)
LEMMA ExactNow == HubInv => AddressesExact
  <1> SUFFICES ASSUME HubInv PROVE AddressesExact
    OBVIOUS
  <1>1. phase = "running" /\ At("idle") => devmap = {1} \cup AddressesOf(Places)
    <2>1. At("idle") => AddressesOf(Known) = AddressesOf(Places)
      BY DEF At, AddressesOf, Known, Fresh, Unnamed
    <2> QED
      BY <2>1 DEF HubInv, AddrInv
  <1>2. phase = "stopped" => devmap = {}
    BY DEF HubInv, AddrInv
  <1> QED
    BY <1>1, <1>2, UniqueNow DEF AddressesExact, DevmapExact

-----------------------------------------------------------------------------
(* What the helpers do.                                                    *)

(* There are finitely many places.                                         *)
LEMMA PlacesFinite == IsFiniteSet(Places) /\ Cardinality(Places) \in Nat
  <1>1. \A s \in Seq(Int) : IsFiniteSet(Range(s))
    <2> SUFFICES ASSUME NEW s \in Seq(Int) PROVE IsFiniteSet(Range(s))
      OBVIOUS
    <2>1. IsFiniteSet(1 .. Len(s))
      BY FS_Interval
    <2>2. s \in Surjection(1 .. Len(s), Range(s))
      BY DEF Surjection, Range
    <2> QED
      BY <2>1, <2>2, FS_Surjection
  <1>2. IsFiniteSet({Root})
    BY FS_Singleton
  <1>3. IsFiniteSet({Root} \X Range(RootPorts)) /\ IsFiniteSet(Range(RootPorts) \X Range(ExtPorts))
    BY <1>1, <1>2, FS_Product, HubAssumption
  <1> QED
    BY <1>3, FS_Union, FS_CardinalityType DEF Places

(* There is an address left for one more place than are known.             *)
LEMMA AddressLeft ==
  ASSUME TreeType, NEW K \in SUBSET Places, NEW pl \in Places \ K,
         devmap = {1} \cup {child[q].addr : q \in K}
  PROVE  \E a \in 1 .. MAX_ADDRESS : a \notin devmap
  <1> DEFINE A == {child[q].addr : q \in K}
             f == [q \in K |-> child[q].addr]
  <1>1. IsFiniteSet(K) /\ Cardinality(K) \in Nat /\ Cardinality(K) < Cardinality(Places)
    <2>1. /\ IsFiniteSet(K) /\ Cardinality(K) <= Cardinality(Places)
          /\ Cardinality(Places) = Cardinality(K) => Places = K
      BY PlacesFinite, FS_Subset
    <2>2. Cardinality(K) \in Nat
      BY <2>1, FS_CardinalityType
    <2> QED
      BY <2>1, <2>2, PlacesFinite
  <1>2. IsFiniteSet(A) /\ Cardinality(A) <= Cardinality(K)
    <2>1. f \in Surjection(K, A)
      BY DEF Surjection
    <2> QED
      BY <1>1, <2>1, FS_Surjection
  <1>3. Cardinality(A \cup {1}) \in Nat /\ Cardinality(A \cup {1}) <= Cardinality(A) + 1
    <2> HIDE DEF A
    <2>1. Cardinality(A) \in Nat
      BY <1>2, FS_CardinalityType
    <2>2. /\ IsFiniteSet(A \cup {1})
          /\ Cardinality(A \cup {1}) = IF 1 \in A THEN Cardinality(A) ELSE Cardinality(A) + 1
      BY <1>2, FS_AddElement
    <2> QED
      BY <2>1, <2>2
  <1>4. devmap = A \cup {1}
    OBVIOUS
  <1>5. Cardinality(devmap) < MAX_ADDRESS
    <2> HIDE DEF A
    <2>1. Cardinality(A) \in Nat
      BY <1>2, FS_CardinalityType
    <2>2. Cardinality(devmap) = Cardinality(A \cup {1})
      BY <1>4
    <2>3. Cardinality(A \cup {1}) <= Cardinality(Places)
      BY <1>1, <1>2, <1>3, <2>1, PlacesFinite
    <2> QED
      BY <1>3, <2>2, <2>3, PlacesFinite, AddressAssumption
  <1>6. ASSUME devmap = 1 .. MAX_ADDRESS PROVE FALSE
    <2>1. MAX_ADDRESS \in Nat /\ ~(MAX_ADDRESS < MAX_ADDRESS)
      BY AddressAssumption
    <2>2. Cardinality(1 .. MAX_ADDRESS) = MAX_ADDRESS
      BY <2>1, FS_Interval
    <2>3. Cardinality(devmap) = MAX_ADDRESS
      BY <1>6, <2>2, Zenon
    <2> QED
      BY <1>5, <2>1, <2>3
  <1> QED
    BY <1>6 DEF TreeType

(* CHOOSE finds the smallest free address.                                 *)
LEMMA Smallest ==
  ASSUME NEW S, S \subseteq Nat, S # {}
  PROVE  \E a \in S : \A b \in S : a <= b
  <1> DEFINE R == {ss \in Nat \X Nat : ss[1] < ss[2]}
  <1>1. IsWellFoundedOn(R, Nat)
    BY NatLessThanWellFounded DEF OpToRel
  <1> HIDE DEF R
  <1>2. PICK a \in S : \A b \in S : ~(<<b, a>> \in R)
    BY <1>1, WFMin
  <1> SUFFICES ASSUME NEW b \in S PROVE a <= b
    OBVIOUS
  <1>3. a \in Nat /\ b \in Nat
    OBVIOUS
  <1>4. <<b, a>> \notin R
    BY <1>2
  <1> QED
    BY <1>3, <1>4 DEF R

(* The search for a free address, from one of them up.                     *)
LEMMA FirstFreeFacts ==
  ASSUME NEW from \in Nat
  PROVE  LET a == FirstFree(from)
         IN  /\ a \in Nat
             /\ a <= MAX_ADDRESS => a >= from /\ a \notin devmap
             /\ (\E b \in from .. MAX_ADDRESS : b \notin devmap) => a <= MAX_ADDRESS
  <1> DEFINE free == {a \in from .. MAX_ADDRESS : a \notin devmap}
  <1>1. MAX_ADDRESS \in Nat
    BY AddressAssumption
  <1>2. FirstFree(from) = IF free = {} THEN MAX_ADDRESS + 1
                          ELSE CHOOSE a \in free : \A b \in free : a <= b
    BY DEF FirstFree
  <1>3. CASE free = {}
    BY <1>1, <1>2, <1>3
  <1>4. CASE free # {}
    <2>1. \E a \in free : \A b \in free : a <= b
      <3> HIDE DEF free
      <3>1. free \subseteq Nat
        BY <1>1 DEF free
      <3> QED
        BY <1>4, <3>1, Smallest
    <2>2. FirstFree(from) \in free
      BY <1>2, <1>4, <2>1
    <2> QED
      BY <1>1, <2>2
  <1> QED
    BY <1>3, <1>4

(* usb_connect() finds an address that is not in use.                      *)
LEMMA NextFree ==
  ASSUME TreeType, 1 \in devmap, \E a \in 1 .. MAX_ADDRESS : a \notin devmap
  PROVE  /\ NextAddress \in 2 .. MAX_ADDRESS /\ NextAddress \notin devmap
         /\ After(NextAddress) \in 1 .. MAX_ADDRESS
  <1>1. MAX_ADDRESS \in Nat /\ next \in Nat
    BY AddressAssumption DEF TreeType
  <1>2. /\ FirstFree(next) \in Nat /\ FirstFree(1) \in Nat
        /\ FirstFree(next) <= MAX_ADDRESS => FirstFree(next) >= next /\ FirstFree(next) \notin devmap
        /\ FirstFree(1) \notin devmap /\ FirstFree(1) <= MAX_ADDRESS
    BY <1>1, FirstFreeFacts
  <1>3. NextAddress = IF FirstFree(next) <= MAX_ADDRESS THEN FirstFree(next) ELSE FirstFree(1)
    BY DEF NextAddress
  <1>4. /\ NextAddress \in Nat /\ NextAddress <= MAX_ADDRESS /\ NextAddress \notin devmap
        /\ NextAddress >= 1
    <2>1. FirstFree(1) >= 1
      BY <1>1, <1>2, FirstFreeFacts
    <2> QED
      BY <1>1, <1>2, <1>3, <2>1 DEF TreeType
  <1> QED
    BY <1>1, <1>4 DEF After

(* What the requests to a port leave of the ports.                         *)
Calmer(r) ==
  /\ r \in [Ports -> Ports4]
  /\ \A p \in Ports : /\ r[p].en => port[p].en
                      /\ r[p].cc => port[p].cc
                      /\ r[p].power = port[p].power

(* A feature is cleared.                                                   *)
LEMMA ClearedFacts ==
  ASSUME WireInv, NEW p \in Ports, NEW f \in {"cc", "ce", "en"}, port' = [port EXCEPT ![p][f] = FALSE]
  PROVE  /\ Calmer(port')
         /\ f # "en" => \A q \in Ports : port'[q].en = port[q].en
         /\ f = "en" => ~port'[p].en
         /\ \A q \in Ports : q # p => port'[q] = port[q]
  <1>1. port \in [Ports -> Ports4]
    BY DEF WireInv
  <1>2. port' = [port EXCEPT ![p] = [@ EXCEPT ![f] = FALSE]]
    OBVIOUS
  <1>3. /\ \A q \in Ports : q # p => port'[q] = port[q]
        /\ port'[p] = [port[p] EXCEPT ![f] = FALSE]
        /\ DOMAIN port' = Ports
    BY <1>1, <1>2
  <1>4. /\ port'[p] \in Ports4
        /\ f = "cc" => /\ port'[p].en = port[p].en /\ port'[p].power = port[p].power
                       /\ ~port'[p].cc
        /\ f = "ce" => /\ port'[p].en = port[p].en /\ port'[p].power = port[p].power
                       /\ port'[p].cc = port[p].cc
        /\ f = "en" => /\ ~port'[p].en /\ port'[p].power = port[p].power
                       /\ port'[p].cc = port[p].cc
    <2>1. port[p] \in Ports4
      BY <1>1
    <2>2. CASE f = "cc"
      BY <1>3, <2>1, <2>2 DEF Ports4
    <2>3. CASE f = "ce"
      BY <1>3, <2>1, <2>3 DEF Ports4
    <2>4. CASE f = "en"
      BY <1>3, <2>1, <2>4 DEF Ports4
    <2> QED
      BY <2>2, <2>3, <2>4
  <1>5. port' \in [Ports -> Ports4]
    BY <1>1, <1>2, <1>3, <1>4
  <1>6. ASSUME NEW q \in Ports
        PROVE  /\ port'[q].en => port[q].en
               /\ port'[q].cc => port[q].cc
               /\ port'[q].power = port[q].power
               /\ f # "en" => port'[q].en = port[q].en
    <2>1. CASE q # p
      BY <1>3, <2>1
    <2>2. CASE q = p
      BY <1>4, <2>2
    <2> QED
      BY <2>1, <2>2
  <1>7. Calmer(port')
    BY <1>5, <1>6 DEF Calmer
  <1> QED
    BY <1>3, <1>4, <1>6, <1>7

(* Clearing a feature never enables a port nor sets a change; the root hub *)
(* hears every request.                                                    *)
LEMMA ClearFacts ==
  ASSUME WireInv, NEW pl \in Places, NEW f \in {"cc", "ce", "en"}, ClearFeature(pl, f)
  PROVE  /\ Calmer(port')
         /\ f # "en" => \A p \in Ports : port'[p].en = port[p].en
         /\ f = "en" /\ pl[1] = Root => ~port'[pl[2]].en
         /\ \A p \in Ports : p # pl[2] => port'[p] = port[p]
  <1>1. pl[2] \in Ports /\ port \in [Ports -> Ports4]
    BY PlaceFacts DEF WireInv
  <1>2. ~Unanswered(Root)
    BY DEF Unanswered, Answers
  <1>3. CASE port' = [port EXCEPT ![pl[2]][f] = FALSE]
    BY <1>1, <1>3, ClearedFacts
  <1>4. CASE port' = port /\ pl[1] # Root
    BY <1>1, <1>4 DEF Calmer
  <1> QED
    BY <1>2, <1>3, <1>4 DEF ClearFeature

(* list_del() takes a hub out of the queue.                                *)
LEMMA DelFacts ==
  ASSUME TreeType, NEW h
  PROVE  /\ list_del(h) \in Seq(Hubs)
         /\ \A i, j \in DOMAIN list_del(h) : list_del(h)[i] = list_del(h)[j] => i = j
         /\ h \notin Range(list_del(h)) /\ Range(list_del(h)) \subseteq Range(events)
  <1>1. CASE h \notin Range(events)
    BY <1>1 DEF list_del, TreeType
  <1>2. CASE h \in Range(events)
    <2> DEFINE i == CHOOSE i \in DOMAIN events : events[i] = h
               n == Len(events)
               s == list_del(h)
    <2>1. i \in DOMAIN events /\ events[i] = h
      BY <1>2 DEF Range
    <2>2. n \in Nat /\ i \in 1 .. n /\ events \in [1 .. n -> Hubs]
      BY <2>1 DEF TreeType
    <2>3. s = SubSeq(events, 1, i - 1) \o SubSeq(events, i + 1, n)
      BY <1>2 DEF list_del, RemoveAt
    <2> HIDE DEF i, n, s
    <2>4. /\ SubSeq(events, 1, i - 1) \in Seq(Hubs) /\ Len(SubSeq(events, 1, i - 1)) = i - 1
          /\ \A j \in 1 .. i - 1 : SubSeq(events, 1, i - 1)[j] = events[j]
      BY <2>2, SubSeqProperties DEF TreeType, n
    <2>5. /\ SubSeq(events, i + 1, n) \in Seq(Hubs) /\ Len(SubSeq(events, i + 1, n)) = n - i
          /\ \A j \in 1 .. n - i : SubSeq(events, i + 1, n)[j] = events[i + j]
      <3>1. i + 1 \in Int /\ n \in Int /\ \A j \in i + 1 .. n : events[j] \in Hubs
        BY <2>2
      <3>2. /\ SubSeq(events, i + 1, n) \in Seq(Hubs)
            /\ Len(SubSeq(events, i + 1, n)) = IF i + 1 <= n THEN n - (i + 1) + 1 ELSE 0
            /\ \A j \in 1 .. n - (i + 1) + 1 : SubSeq(events, i + 1, n)[j] = events[(i + 1) + j - 1]
        BY <3>1, SubSeqProperties
      <3>3. n - (i + 1) + 1 = n - i /\ \A j \in 1 .. n - i : (i + 1) + j - 1 = i + j
        BY <2>2
      <3> QED
        BY <2>2, <3>2, <3>3
    <2>6. /\ s \in Seq(Hubs) /\ Len(s) = n - 1
          /\ \A j \in 1 .. n - 1 : s[j] = events[IF j < i THEN j ELSE j + 1]
      <3> DEFINE x == SubSeq(events, 1, i - 1)
                 y == SubSeq(events, i + 1, n)
      <3>1. /\ x \in Seq(Hubs) /\ Len(x) = i - 1 /\ \A j \in 1 .. i - 1 : x[j] = events[j]
            /\ y \in Seq(Hubs) /\ Len(y) = n - i /\ \A j \in 1 .. n - i : y[j] = events[i + j]
            /\ s = x \o y
        BY <2>3, <2>4, <2>5
      <3> HIDE DEF x, y
      <3>2. /\ s \in Seq(Hubs) /\ Len(s) = Len(x) + Len(y)
            /\ \A j \in 1 .. Len(x) + Len(y) : s[j] = IF j <= Len(x) THEN x[j] ELSE y[j - Len(x)]
        BY <3>1, ConcatProperties
      <3>3. Len(x) + Len(y) = n - 1
        BY <2>2, <3>1
      <3>4. ASSUME NEW j \in 1 .. n - 1 PROVE s[j] = events[IF j < i THEN j ELSE j + 1]
        <4>1. CASE j < i
          BY <2>2, <3>1, <3>2, <3>3, <4>1
        <4>2. CASE ~(j < i)
          <5>1. j - (i - 1) \in 1 .. n - i /\ i + (j - (i - 1)) = j + 1 /\ ~(j <= i - 1)
            BY <2>2, <4>2
          <5>2. s[j] = y[j - (i - 1)]
            BY <3>1, <3>2, <3>3, <5>1
          <5> QED
            BY <3>1, <4>2, <5>1, <5>2
        <4> QED
          BY <4>1, <4>2
      <3> QED
        BY <3>2, <3>3, <3>4
    <2>7. \A a, b \in DOMAIN events : events[a] = events[b] => a = b
      BY DEF TreeType
    <2>8. DOMAIN s = 1 .. n - 1 /\ DOMAIN events = 1 .. n
      BY <2>2, <2>6
    <2>9. \A a, b \in DOMAIN s : s[a] = s[b] => a = b
      BY <2>2, <2>6, <2>7, <2>8
    <2>10. \A a \in DOMAIN s : s[a] # h /\ s[a] \in Range(events)
      BY <2>1, <2>2, <2>6, <2>7, <2>8 DEF Range
    <2> QED
      BY <2>6, <2>9, <2>10 DEF Range, s
  <1> QED
    BY <1>1, <1>2

-----------------------------------------------------------------------------
(* Steps that leave the tree alone.                                        *)

Dimmer(r) ==
  /\ r \in [Ports -> Ports4]
  /\ \A p \in Ports : /\ r[p].en => port[p].en
                      /\ r[p].en /\ r[p].cc => port[p].cc
                      /\ port[p].power => r[p].power

(* Ports that lose only bits are also dimmer.                              *)
LEMMA CalmerDims == ASSUME NEW r, Calmer(r) PROVE Dimmer(r)
  BY DEF Calmer, Dimmer

SameTree == UNCHANGED <<phase, child, devmap, next, stray>>
SameWires == UNCHANGED <<plug, addr>>

(* Nobody is heard that was not heard before.                              *)
LEMMA DimmerListens ==
  ASSUME HubInv, SameWires, Dimmer(port')
  PROVE  /\ stray \subseteq stray' => /\ \A d \in Devices : Hears(d)' => Hears(d)
                                     /\ \A p \in Ports : Heard(p)' => Heard(p)
         /\ EnabledAt(Ext)' => EnabledAt(Ext)
         /\ WireInv' \/ phase' # phase
  <1>1. EnabledAt(Ext)' => EnabledAt(Ext)
    BY PlaceFacts DEF SameWires, Dimmer, EnabledAt, HubInv, WireInv
  <1>2. \A d \in Devices : EnabledAt(d)' => EnabledAt(d)
    BY DEF SameWires, Dimmer, EnabledAt, HubInv, WireInv
  <1>3. stray \subseteq stray' => \A d \in Devices : Hears(d)' => Hears(d)
    BY <1>1, <1>2 DEF Hears, Listens, SameWires
  <1>4. stray \subseteq stray' => \A p \in Ports : Heard(p)' => Heard(p)
    BY <1>1 DEF Heard, Dimmer
  <1>5. phase' = phase => WireInv'
    BY DEF WireInv, HubInv, Dimmer, SameWires
  <1> QED
    BY <1>1, <1>3, <1>4, <1>5

(* The addresses in use stay when the tree does.                           *)
LEMMA SameKnown ==
  ASSUME HubInv, SameTree, Known' = Known, Dimmer(port')
  PROVE  AddrInv'
  <1>1. AddressesOf(Known)' = AddressesOf(Known)
    BY DEF AddressesOf, SameTree
  <1>2. \A p \in Ports : port'[p].en => port[p].en
    BY DEF Dimmer
  <1>3. AddrInv /\ phase' = phase /\ child' = child /\ devmap' = devmap /\ stray' = stray
    BY DEF HubInv, SameTree
  <1> QED
    BY <1>1, <1>2, <1>3 DEF AddrInv

(* What a step without work on a device keeps of the wires.                *)
LEMMA CalmStep ==
  ASSUME HubInv, ~Working, ~Working', SameTree, SameWires, Dimmer(port')
  PROVE  WireInv' /\ AddrInv' /\ CcInv' /\ WorkedInv' /\ SteadyInv' /\ AboveInv'
  <1>1. /\ \A d \in Devices : Hears(d)' => Hears(d)
        /\ \A p \in Ports : Heard(p)' => Heard(p)
        /\ EnabledAt(Ext)' => EnabledAt(Ext)
        /\ WireInv'
    BY DimmerListens DEF SameTree
  <1>2. Known' = Known
    BY DEF Known, Fresh, Working, SameTree
  <1>3. AddrInv'
    BY <1>2, SameKnown
  <1>4. CcInv'
    BY <1>1 DEF CcInv, HubInv, Working, Unnamed, Dimmer, Heard
  <1>5. WorkedInv'
    BY DEF WorkedInv, Worked
  <1>6. SteadyInv'
    <2> SUFFICES ASSUME NEW d \in Devices, Hears(d)'
                 PROVE  addr'[d] >= 2 /\ (~Astray(d)' => Held(d)')
      BY DEF SteadyInv
    <2>1. addr[d] >= 2 /\ (~Astray(d) => Held(d))
      BY <1>1 DEF HubInv, SteadyInv, Worked
    <2>2. Astray(d)' = Astray(d) /\ Held(d)' = Held(d)
      BY DEF Astray, Held, HeldAt, OnLine, SameTree, SameWires
    <2> QED
      BY <2>1, <2>2 DEF SameWires
  <1>7. AboveInv'
    BY DEF AboveInv, Working
  <1> QED
    BY <1>1, <1>3, <1>4, <1>5, <1>6, <1>7

(* The locals of the thread.                                               *)
LEMMA Fields ==
  ASSUME WorkInv
  PROVE  {"pc", "h", "i", "snap", "try", "r", "a", "n", "seen", "stable", "why"} = DOMAIN k
  BY DEF WorkInv, Rest

(* The locals of a thread at rest.                                         *)
LEMMA RestFields ==
  /\ Rest.pc = "idle" /\ Rest.why = "probe" /\ Rest.h = None
  /\ {"pc", "h", "i", "snap", "try", "r", "a", "n", "seen", "stable", "why"} = DOMAIN Rest
  BY DEF Rest

(* The tree and the list of events are not touched.                        *)
LEMMA CalmTree ==
  ASSUME HubInv, SameTree, hub' = hub, events' = events
  PROVE  TreeType' /\ TreeInv'
  BY DEF HubInv, SameTree, TreeType, TreeInv, IsHubAt

(* What a calm step must show of the thread's new place.                   *)
LEMMA CalmWork ==
  ASSUME HubInv, ~Working, SameTree, SameWires, Dimmer(port'),
         ~Working', k'.pc \in PCs, k'.why = "probe", DOMAIN k' = DOMAIN Rest,
         k'.pc # "idle" => /\ phase = "running" /\ k'.h \in Hubs /\ k'.i \in 1 .. Len(PortsOf(k'.h))
                           /\ k'.h # Root => IsHubAt(PlaceOf(k'.h)),
         k'.pc = "hubreset" => k'.h # Root /\ hub'[k'.h].error,
         k'.pc \in {"debounce", "clear"} => child[Here'] = None,
         k'.pc \in {"change", "debounce", "clear"} \/ (k'.pc = "enable" /\ ~k'.snap.en)
           => ~(Heard(Here[2]) /\ OnLine(k.h))',
         k'.h = Root /\ k'.pc \notin {"idle", "status", "enable"} => Here'[2] \notin stray,
         \A p \in stray \cap Range(RootPorts) : port'[p].cc => port[p].cc,
         \A h \in Hubs \ {Root} : hub'[h].error => hub[h].error \/ ~(EnabledAt(Ext) /\ OnLine(h)),
         TreeType', TreeInv'
  PROVE  HubInv'
  <1>1. WireInv' /\ AddrInv' /\ CcInv' /\ WorkedInv' /\ SteadyInv' /\ AboveInv'
    BY CalmStep
  <1>2. WorkInv'
    BY DEF WorkInv, SameTree, IsHubAt
  <1>3. FreshInv'
    BY DEF FreshInv, Working, Unnamed, Named, SameTree
  <1>4. QuietInv'
    BY DEF QuietInv
  <1>5. StrayInv'
    BY DEF StrayInv, HubInv, SameTree, SameWires
  <1>6. ErrorInv'
    <2> SUFFICES ASSUME NEW h \in Hubs \ {Root}, hub'[h].error, EnabledAt(Ext)', OnLine(h)'
                 PROVE FALSE
      BY DEF ErrorInv
    <2>1. EnabledAt(Ext) /\ OnLine(h)
      BY DimmerListens DEF OnLine, SameTree, SameWires
    <2>2. k.why = "hub" => k.pc = "power"
      BY DEF HubInv, WorkInv, Working, Unnamed, Named
    <2> QED
      BY <2>1, <2>2 DEF HubInv, ErrorInv
  <1> QED
    BY <1>1, <1>2, <1>3, <1>4, <1>5, <1>6 DEF HubInv

(* A hub has a first port.                                                 *)
LEMMA PortIndex == \A h \in Hubs : Len(PortsOf(h)) \in Nat /\ 1 \in 1 .. Len(PortsOf(h))
  BY HubAssumption DEF PortsOf

(* The thread takes a hub off the list.                                    *)
LEMMA TakeEventKeeps == HubInv /\ TakeEvent => HubInv'
  <1> SUFFICES ASSUME HubInv, TakeEvent PROVE HubInv'
    OBVIOUS
  <1> DEFINE h == Head(events)
  <1>1. /\ phase = "running" /\ k.pc = "idle" /\ events # <<>> /\ hub' = hub
        /\ k' = [Rest EXCEPT !.h = h, !.i = 1, !.pc = IF hub[h].error THEN "hubreset" ELSE "status"]
        /\ events' = Tail(events) /\ SameTree /\ SameWires /\ port' = port
    BY DEF TakeEvent, At, SameTree, SameWires, hardware
  <1>2. /\ h \in Hubs /\ h \in Range(events) /\ events' \in Seq(Hubs)
        /\ Range(events') \subseteq Range(events)
        /\ \A i, j \in DOMAIN events' : events'[i] = events'[j] => i = j
    <2>1. events \in Seq(Hubs) /\ \A i, j \in DOMAIN events : events[i] = events[j] => i = j
      BY DEF HubInv, TreeType
    <2> QED
      BY <1>1, <2>1 DEF Range
  <1>3. /\ k'.h = h /\ k'.i = 1 /\ k'.pc = IF hub[h].error THEN "hubreset" ELSE "status"
        /\ k'.why = "probe" /\ DOMAIN k' = DOMAIN Rest
    BY <1>1, RestFields
  <1>4. h # Root => IsHubAt(PlaceOf(h))
    BY <1>1, <1>2 DEF HubInv, TreeInv
  <1>5. TreeType'
    BY <1>1, <1>2 DEF HubInv, TreeType, SameTree
  <1>6. TreeInv'
    BY <1>1, <1>2 DEF HubInv, TreeInv, SameTree, IsHubAt
  <1>7. hub[h].error => h # Root
    BY <1>2 DEF HubInv, TreeInv
  <1>8. Dimmer(port')
    BY <1>1 DEF Dimmer, HubInv, WireInv
  <1> HIDE DEF h
  <1> QED
    BY <1>1, <1>2, <1>3, <1>4, <1>5, <1>6, <1>7, <1>8, CalmWork, PortIndex
       DEF PCs, Working, Unnamed, Named

(* The thread stays where it is.                                           *)
LEMMA HereSame ==
  ASSUME k'.h = k.h, k'.i = k.i
  PROVE  Here' = Here /\ (k'.why = k.why => Target' = Target)
  BY DEF Here, Target

(* Where the thread goes when it is done with a port.                      *)
LEMMA NextPortFields ==
  ASSUME WorkInv, k.pc # "idle"
  PROVE  /\ NextPort.pc \in {"idle", "status"} /\ NextPort.why = "probe"
         /\ DOMAIN NextPort = DOMAIN Rest
         /\ NextPort.pc = "status" =>
              NextPort.h = k.h /\ NextPort.i \in 1 .. Len(PortsOf(NextPort.h))
  <1>1. k.h \in Hubs /\ k.i \in 1 .. Len(PortsOf(k.h)) /\ Len(PortsOf(k.h)) \in Nat
    BY PortIndex DEF WorkInv
  <1>2. CASE k.i = Len(PortsOf(k.h))
    BY <1>2, RestFields DEF NextPort
  <1>3. CASE k.i # Len(PortsOf(k.h))
    <2>1. NextPort = [Rest EXCEPT !.pc = "status", !.h = k.h, !.i = k.i + 1]
      BY <1>3 DEF NextPort
    <2>2. /\ NextPort.pc = "status" /\ NextPort.why = "probe" /\ DOMAIN NextPort = DOMAIN Rest
          /\ NextPort.h = k.h /\ NextPort.i = k.i + 1
      BY <2>1, RestFields
    <2> QED
      BY <1>1, <1>3, <2>2
  <1> QED
    BY <1>2, <1>3

(* The thread leaves a port alone.                                         *)
LEMMA CalmNext ==
  ASSUME HubInv, k.pc # "idle", ~Working, SameTree, SameWires, Dimmer(port'),
         \A p \in stray \cap Range(RootPorts) : port'[p].cc => port[p].cc,
         hub' = hub, events' = events, k' = NextPort
  PROVE  HubInv'
  <1>1. /\ k'.pc \in {"idle", "status"} /\ k'.why = "probe" /\ DOMAIN k' = DOMAIN Rest
        /\ k'.pc = "status" => k'.h = k.h /\ k'.i \in 1 .. Len(PortsOf(k'.h))
    BY NextPortFields DEF HubInv
  <1>2. phase = "running" /\ k.h \in Hubs /\ (k.h # Root => IsHubAt(PlaceOf(k.h)))
    BY DEF HubInv, WorkInv
  <1>3. TreeType' /\ TreeInv'
    BY CalmTree
  <1> QED
    BY <1>1, <1>2, <1>3, CalmWork DEF PCs, Working, Unnamed, Named

(* Ports of the root hub are ports.                                        *)
LEMMA CalmStray ==
  ASSUME Calmer(port')
  PROVE  Dimmer(port') /\ \A p \in stray \cap Range(RootPorts) : port'[p].cc => port[p].cc
  BY CalmerDims DEF Calmer, Ports

(* The thread goes on with the port whose change it saw.                   *)
LEMMA ToChange ==
  ASSUME HubInv, k.pc \in {"status", "enable"}, SameTree, SameWires, Calmer(port'),
         hub' = hub, events' = events, DOMAIN k' = DOMAIN k,
         k'.pc \in {"enable", "change"}, k'.h = k.h, k'.i = k.i, k'.why = k.why,
         k'.pc = "change" \/ ~k'.snap.en => ~(Heard(Here[2]) /\ OnLine(k.h)),
         k'.pc = "change" /\ k.h = Root => Here[2] \notin stray
  PROVE  HubInv'
  <1>1. Here' = Here /\ ~Working /\ ~Working'
    BY HereSame DEF Working, Unnamed, Named
  <1>2. /\ WorkInv /\ k.why = "probe" /\ phase = "running" /\ Here[2] \in Ports
        /\ k.h \in Hubs /\ (k.h # Root => IsHubAt(PlaceOf(k.h))) /\ k.i \in 1 .. Len(PortsOf(k.h))
    BY HereFacts DEF HubInv, WorkInv
  <1>3. Dimmer(port') /\ \A p \in stray \cap Range(RootPorts) : port'[p].cc => port[p].cc
    BY CalmStray
  <1>4. k'.pc = "change" \/ ~k'.snap.en => ~(Heard(Here[2]) /\ OnLine(k.h))'
    <2>1. Heard(Here[2])' => Heard(Here[2])
      BY <1>1, <1>2, <1>3, DimmerListens DEF SameTree
    <2>2. OnLine(k.h)' = OnLine(k.h)
      BY DEF OnLine, SameTree, SameWires
    <2> QED
      BY <2>1, <2>2
  <1>5. TreeType' /\ TreeInv'
    BY CalmTree
  <1> QED
    BY <1>1, <1>2, <1>3, <1>4, <1>5, CalmWork DEF PCs, WorkInv

(* The thread reads the status of a port.                                  *)
LEMMA PortStatusKeeps == HubInv /\ PortStatus => HubInv'
  <1> SUFFICES ASSUME HubInv, PortStatus PROVE HubInv'
    OBVIOUS
  <1> DEFINE s == Status(Here)
  <1>1. k.pc = "status" /\ SameTree /\ SameWires /\ hub' = hub /\ events' = events /\ port' = port
    BY DEF PortStatus, At, SameTree, SameWires, hardware
  <1>2. ~Working
    BY <1>1 DEF Working, Unnamed, Named
  <1>3. Here \in Places /\ Here[1] = k.h /\ Here[2] \in Ports /\ k.why = "probe" /\ WireInv /\ WorkInv
    BY <1>1, HereFacts DEF HubInv, WorkInv
  <1>4. Calmer(port')
    BY <1>1, <1>3 DEF Calmer, WireInv
  <1>5. CASE k' = NextPort
    BY <1>1, <1>2, <1>4, <1>5, CalmNext, CalmStray
  <1>6. s.cc = port[Here[2]].cc /\ s.en = port[Here[2]].en
    BY DEF Status
  <1>7. CASE k' = [k EXCEPT !.pc = "change", !.snap = s] /\ s.cc
    <2>1. /\ k'.pc = "change" /\ k'.h = k.h /\ k'.i = k.i /\ k'.why = k.why
          /\ DOMAIN k' = DOMAIN k
      BY <1>3, <1>7, Fields DEF WorkInv
    <2>2. ~Heard(Here[2])
      BY <1>1, <1>3, <1>6, <1>7 DEF HubInv, CcInv
    <2>3. k.h = Root => Here[2] \notin stray
      BY <1>3, <1>6, <1>7, PlaceFacts DEF HubInv, StrayInv, OnRoot
    <2> QED
      BY <1>1, <1>4, <2>1, <2>2, <2>3, ToChange
  <1>8. CASE k' = [k EXCEPT !.pc = "enable", !.snap = s]
    <2>1. /\ k'.pc = "enable" /\ k'.h = k.h /\ k'.i = k.i /\ k'.why = k.why
          /\ DOMAIN k' = DOMAIN k /\ k'.snap = s
      BY <1>3, <1>8, Fields DEF WorkInv
    <2>2. ~k'.snap.en => ~Heard(Here[2])
      BY <1>6, <2>1 DEF Heard
    <2> QED
      BY <1>1, <1>4, <2>1, <2>2, ToChange
  <1> QED
    BY <1>5, <1>7, <1>8 DEF PortStatus

(* A change of enable is cleared; a port that went off is looked at again. *)
LEMMA EnableChangeKeeps == HubInv /\ EnableChange => HubInv'
  <1> SUFFICES ASSUME HubInv, EnableChange PROVE HubInv'
    OBVIOUS
  <1>1. k.pc = "enable" /\ SameTree /\ SameWires /\ hub' = hub /\ events' = events
    BY DEF EnableChange, At, SameTree, SameWires
  <1>2. ~Working
    BY <1>1 DEF Working, Unnamed, Named
  <1>3. Here \in Places /\ Here[1] = k.h /\ Here[2] \in Ports /\ WireInv /\ WorkInv
    BY <1>1, HereFacts DEF HubInv
  <1>4. Calmer(port')
    BY <1>3, ClearFacts DEF EnableChange
  <1>5. CASE k' = NextPort
    BY <1>1, <1>2, <1>4, <1>5, CalmNext, CalmStray
  <1>6. CASE Reenable(k.snap) /\ k' = Goto("change")
    <2>1. /\ k'.pc = "change" /\ k'.h = k.h /\ k'.i = k.i /\ k'.why = k.why
          /\ DOMAIN k' = DOMAIN k
      BY <1>3, <1>6, Fields DEF Goto
    <2>2. ~(Heard(Here[2]) /\ OnLine(k.h))
      BY <1>1, <1>6 DEF Reenable, HubInv, QuietInv
    <2>3. k.h = Root => Here[2] \notin stray
      BY <1>3, <1>6, PlaceFacts DEF Reenable, HubInv, StrayInv, OnRoot
    <2> QED
      BY <1>1, <1>4, <2>1, <2>2, <2>3, ToChange
  <1> QED
    BY <1>5, <1>6 DEF EnableChange

(* Another step for the same port.                                         *)
LEMMA ThenFields ==
  ASSUME NEW pc
  PROVE  /\ Then(pc).pc = pc /\ Then(pc).h = k.h /\ Then(pc).i = k.i /\ Then(pc).why = "probe"
         /\ DOMAIN Then(pc) = DOMAIN Rest
  BY RestFields DEF Then

(* The thread turns to a place where nothing is heard any more.            *)
LEMMA ToAlloc ==
  ASSUME HubInv, k.pc \in {"debounce", "clear"}, SameTree, SameWires, Calmer(port'),
         hub' = hub, events' = events,
         NEW conn, k' = Debounced(conn)
  PROVE  HubInv'
  <1>1. /\ k'.pc \in {"alloc", "disable"} /\ k'.h = k.h /\ k'.i = k.i /\ k'.why = "probe"
        /\ DOMAIN k' = DOMAIN Rest
    <2>1. CASE conn
      <3>1. k' = [Then("alloc") EXCEPT !.try = 1]
        BY <2>1 DEF Debounced
      <3> QED
        BY <3>1, ThenFields, RestFields
    <2>2. CASE ~conn
      BY <2>2, ThenFields DEF Debounced
    <2> QED
      BY <2>1, <2>2
  <1>2. /\ Here \in Places /\ Here[1] = k.h /\ k.why = "probe" /\ Target = Here /\ WireInv /\ WorkInv
        /\ Here[2] \in Ports
    BY HereFacts DEF HubInv, WorkInv
  <1>3. Here' = Here /\ Target' = Here
    BY <1>1, <1>2, HereSame
  <1>4. ~Working
    BY DEF Working, Unnamed, Named
  <1>5. Dimmer(port')
    BY CalmerDims
  <1>6. /\ \A d \in Devices : Hears(d)' => Hears(d)
        /\ \A p \in Ports : Heard(p)' => Heard(p)
        /\ EnabledAt(Ext)' => EnabledAt(Ext)
        /\ WireInv'
    BY <1>5, DimmerListens DEF SameTree
  <1>7. ~(Heard(Here[2]) /\ OnLine(k.h)) /\ child[Here] = None
    BY DEF HubInv, QuietInv, FreshInv
  <1>8. Known' = Known
    <2>1. \A pl \in Places : child'[pl] # None /\ ~Fresh(pl)' <=> child[pl] # None /\ ~Fresh(pl)
      BY <1>1, <1>2, <1>3, <1>4, <1>7 DEF Fresh, Working, SameTree
    <2> QED
      BY <2>1 DEF Known
  <1>9. AddrInv'
    BY <1>5, <1>8, SameKnown
  <1>10. CcInv'
    BY <1>4, <1>5, <1>6 DEF CcInv, HubInv, Working, Unnamed, Dimmer, Heard
  <1>11. WorkedInv'
    <2> SUFFICES ASSUME NEW d \in Devices, Hears(d)', Worked(d)' PROVE FALSE
      BY DEF WorkedInv
    <2>1. plug[d] = Here[2] /\ OnLine(k.h)
      BY <1>2, <1>3 DEF Worked, OnLine, SameTree, SameWires
    <2>2. Heard(Here[2])
      BY <1>2, <1>6, <2>1, BusFacts
    <2> QED
      BY <1>7, <2>1, <2>2
  <1>12. SteadyInv'
    <2> SUFFICES ASSUME NEW d \in Devices, Hears(d)'
                 PROVE  addr'[d] >= 2 /\ (~Astray(d)' => Held(d)')
      BY DEF SteadyInv
    <2>1. addr[d] >= 2 /\ (~Astray(d) => Held(d))
      BY <1>4, <1>6 DEF HubInv, SteadyInv, Worked
    <2>2. Astray(d)' = Astray(d) /\ Held(d)' = Held(d)
      BY DEF Astray, Held, HeldAt, OnLine, SameTree, SameWires
    <2> QED
      BY <2>1, <2>2 DEF SameWires
  <1>13. AboveInv' /\ QuietInv'
    BY <1>1 DEF AboveInv, QuietInv, Named
  <1>14. WorkInv'
    BY <1>1, <1>2 DEF WorkInv, SameTree, IsHubAt, PCs
  <1>15. FreshInv'
    BY <1>1, <1>3, <1>7 DEF FreshInv, SameTree, Named
  <1>16. StrayInv'
    <2>1. \A p \in stray \cap Range(RootPorts) : port'[p].cc => port[p].cc
      BY CalmStray
    <2> QED
      BY <1>1, <1>3, <2>1 DEF StrayInv, HubInv, SameTree, SameWires
  <1>17. ErrorInv'
    <2> SUFFICES ASSUME NEW h \in Hubs \ {Root}, hub[h].error, EnabledAt(Ext)', OnLine(h)'
                 PROVE FALSE
      BY DEF ErrorInv
    <2>1. EnabledAt(Ext) /\ OnLine(h)
      BY <1>6 DEF OnLine, SameTree, SameWires
    <2> QED
      BY <1>2, <2>1 DEF HubInv, ErrorInv
  <1>18. TreeType' /\ TreeInv'
    BY CalmTree
  <1> QED
    BY <1>6, <1>9, <1>10, <1>11, <1>12, <1>13, <1>14, <1>15, <1>16, <1>17, <1>18 DEF HubInv

(* Another sample, or a request between two.                               *)
LEMMA SampleKeeps ==
  ASSUME HubInv, k.pc \in {"debounce", "clear"}, SameTree, SameWires, Calmer(port'),
         hub' = hub, events' = events, DOMAIN k' = DOMAIN k,
         k'.pc \in {"debounce", "clear"}, k'.h = k.h, k'.i = k.i, k'.why = k.why
  PROVE  HubInv'
  <1>1. Here' = Here /\ ~Working /\ ~Working'
    BY HereSame DEF Working, Unnamed, Named
  <1>2. WorkInv /\ k.why = "probe" /\ phase = "running" /\ Here[2] \in Ports
    BY HereFacts DEF HubInv, WorkInv
  <1>3. Dimmer(port') /\ \A p \in stray \cap Range(RootPorts) : port'[p].cc => port[p].cc
    BY CalmStray
  <1>4. ~(Heard(Here[2]) /\ OnLine(k.h))'
    <2>1. ~(Heard(Here[2]) /\ OnLine(k.h))
      BY DEF HubInv, QuietInv
    <2>2. Heard(Here[2])' => Heard(Here[2])
      BY <1>1, <1>2, <1>3, DimmerListens DEF SameTree
    <2>3. OnLine(k.h)' = OnLine(k.h)
      BY DEF OnLine, SameTree, SameWires
    <2> QED
      BY <2>1, <2>2, <2>3
  <1>5. child[Here'] = None
    BY <1>1 DEF HubInv, FreshInv
  <1>6. k'.h = Root => Here'[2] \notin stray
    <2>1. Here \in Places /\ Here[1] = k.h
      BY HereFacts DEF HubInv
    <2> QED
      BY <1>1, <2>1, PlaceFacts DEF HubInv, StrayInv, OnRoot
  <1>7. TreeType' /\ TreeInv'
    BY CalmTree
  <1> QED
    BY <1>1, <1>2, <1>3, <1>4, <1>5, <1>6, <1>7, CalmWork DEF PCs, WorkInv

(* A sample of the debounce.                                               *)
LEMMA DebounceKeeps == HubInv /\ Debounce => HubInv'
  <1> SUFFICES ASSUME HubInv, Debounce PROVE HubInv'
    OBVIOUS
  <1> DEFINE s == Status(Here)
             stable == IF s.conn = k.seen THEN k.stable + (IF s.conn THEN 1 ELSE 0) ELSE 0
             sample == [k EXCEPT !.seen = s.conn, !.stable = stable, !.n = @ - 1]
  <1>1. /\ k.pc = "debounce" /\ SameTree /\ SameWires /\ hub' = hub /\ events' = events
        /\ port' = port
    BY DEF Debounce, At, SameTree, SameWires, hardware
  <1>2. Here \in Places /\ WireInv /\ WorkInv
    BY <1>1, HereFacts DEF HubInv
  <1>3. Calmer(port')
    BY <1>1, <1>2 DEF Calmer, WireInv
  <1>4. \/ k' = Debounced(FALSE)
        \/ k' = Debounced(TRUE)
        \/ k' = [sample EXCEPT !.pc = "clear"]
        \/ k' = Debounced(s.conn)
        \/ k' = sample
    BY DEF Debounce, Debounced
  <1>5. ASSUME NEW conn, k' = Debounced(conn) PROVE HubInv'
    BY <1>1, <1>3, <1>5, ToAlloc
  <1>6. ASSUME k' = [sample EXCEPT !.pc = "clear"] \/ k' = sample
        PROVE  HubInv'
    <2> HIDE DEF s, stable
    <2>1. /\ k'.pc \in {"clear", "debounce"} /\ k'.h = k.h /\ k'.i = k.i /\ k'.why = k.why
          /\ DOMAIN k' = DOMAIN k
      BY <1>1, <1>2, <1>6, Fields
    <2> QED
      BY <1>1, <1>3, <2>1, SampleKeeps
  <1> QED
    BY <1>4, <1>5, <1>6

(* The change a sample showed is cleared.                                  *)
LEMMA DebounceClearKeeps == HubInv /\ DebounceClear => HubInv'
  <1> SUFFICES ASSUME HubInv, DebounceClear PROVE HubInv'
    OBVIOUS
  <1>1. /\ k.pc = "clear" /\ SameTree /\ SameWires /\ hub' = hub /\ events' = events
    BY DEF DebounceClear, At, SameTree, SameWires
  <1>2. Here \in Places /\ WireInv /\ WorkInv
    BY <1>1, HereFacts DEF HubInv
  <1>3. Calmer(port')
    BY <1>2, ClearFacts DEF DebounceClear
  <1>4. CASE k' = Debounced(k.seen)
    BY <1>1, <1>3, <1>4, ToAlloc
  <1>5. CASE k' = Goto("debounce")
    <2>1. /\ k'.pc = "debounce" /\ k'.h = k.h /\ k'.i = k.i /\ k'.why = k.why
          /\ DOMAIN k' = DOMAIN k
      BY <1>2, <1>5, Fields DEF Goto
    <2> QED
      BY <1>1, <1>3, <2>1, SampleKeeps
  <1> QED
    BY <1>4, <1>5 DEF DebounceClear

(* Power for the ports of a hub.                                           *)
LEMMA PoweredDims ==
  ASSUME WireInv, port' \in [Ports -> Ports4],
         \A p \in Ports : port'[p] = port[p] \/ port'[p] = Powered(p)
  PROVE  Dimmer(port')
  <1> SUFFICES ASSUME NEW p \in Ports
               PROVE  /\ port'[p].en => port[p].en
                      /\ port'[p].en /\ port'[p].cc => port[p].cc
                      /\ port[p].power => port'[p].power
    BY DEF Dimmer
  <1>1. port[p] \in Ports4 /\ (port[p].en => port[p].power)
    BY DEF WireInv
  <1>2. CASE port'[p] = port[p]
    BY <1>2
  <1>3. CASE port'[p] = Powered(p)
    <2>1. DOMAIN port[p] = {"power", "en", "cc", "ce"}
      BY <1>1 DEF Ports4
    <2> DEFINE cc == \/ port[p].cc
                     \/ ~port[p].power /\ \E d \in Devices : plug[d] = p
    <2>2. Powered(p) = [port[p] EXCEPT !.power = TRUE, !.cc = cc]
      BY Zenon DEF Powered
    <2>3. /\ Powered(p).en = port[p].en /\ Powered(p).power
          /\ Powered(p).cc = cc
      <3> HIDE DEF cc
      <3> QED
        BY <2>1, <2>2
    <2> QED
      BY <1>1, <1>3, <2>3
  <1> QED
    BY <1>2, <1>3

(* Powering a port only sets bits.                                         *)
LEMMA PoweredType == ASSUME WireInv, NEW p \in Ports PROVE Powered(p) \in Ports4
  <1>1. port[p] \in Ports4
    BY DEF WireInv
  <1> QED
    BY <1>1 DEF Powered, Ports4

(* The ports of the external hub are powered.                              *)
LEMMA HubPowerKeeps == HubInv /\ HubPower => HubInv'
  <1> SUFFICES ASSUME HubInv, HubPower PROVE HubInv'
    OBVIOUS
  <1>1. k.pc = "power" /\ SameTree /\ SameWires /\ hub' = hub /\ events' = events
    BY DEF HubPower, At, SameTree, SameWires
  <1>2. ~Working /\ WireInv /\ WorkInv
    BY <1>1 DEF Working, Unnamed, Named, HubInv
  <1>3. /\ port' \in [Ports -> Ports4]
        /\ \A p \in Ports : port'[p] = port[p] \/ port'[p] = Powered(p)
        /\ \A p \in Ports : OnRoot(p) => port'[p] = port[p]
    <2>1. port \in [Ports -> Ports4] /\ \A p \in Ports : Powered(p) \in Ports4
      BY <1>2, PoweredType DEF WireInv
    <2>2. port' = port \/ port' = [p \in Ports |-> IF OnRoot(p) THEN port[p] ELSE Powered(p)]
      BY DEF HubPower
    <2> QED
      BY <2>1, <2>2
  <1>4. Dimmer(port') /\ \A p \in stray \cap Range(RootPorts) : port'[p].cc => port[p].cc
    BY <1>2, <1>3, PoweredDims DEF Ports, OnRoot
  <1>5. CASE k.why = "hub"
    <2>1. k' = [Rest EXCEPT !.pc = "status", !.h = k.h, !.i = 1]
      BY <1>5 DEF HubPower
    <2>2. k'.pc = "status" /\ k'.h = k.h /\ k'.i = 1 /\ k'.why = "probe" /\ DOMAIN k' = DOMAIN Rest
      BY <2>1, RestFields
    <2>3. phase = "running" /\ k.h \in Hubs /\ (k.h # Root => IsHubAt(PlaceOf(k.h)))
      BY <1>1, <1>2 DEF WorkInv
    <2>4. ~Working' /\ TreeType' /\ TreeInv'
      BY <1>1, <2>2, CalmTree DEF Working, Unnamed, Named
    <2> QED
      BY <1>1, <1>2, <1>4, <2>2, <2>3, <2>4, CalmWork, PortIndex DEF PCs
  <1>6. CASE k.why # "hub"
    BY <1>1, <1>2, <1>4, <1>6, CalmNext DEF HubPower
  <1> QED
    BY <1>5, <1>6

(* The thread and the bus stay as they are.                                *)
LEMMA Still ==
  ASSUME HubInv, k' = k, SameTree, SameWires, port' = port
  PROVE  /\ WireInv' /\ AddrInv' /\ FreshInv' /\ CcInv' /\ QuietInv' /\ WorkedInv' /\ SteadyInv'
         /\ StrayInv' /\ AboveInv'
  <1>1. Here' = Here /\ Target' = Target /\ Working' = Working
    BY HereSame DEF Working
  <1>2. \A h : OnLine(h)' = OnLine(h)
    BY DEF OnLine, SameTree, SameWires
  <1>3. EnabledAt(Ext)' = EnabledAt(Ext) /\ \A p : Heard(p)' = Heard(p)
    BY DEF EnabledAt, Heard, SameTree, SameWires
  <1>4. \A d : Hears(d)' = Hears(d)
    BY DEF Hears, Listens, EnabledAt, SameTree, SameWires
  <1>5. WireInv'
    BY DEF WireInv, HubInv, SameTree, SameWires
  <1>6. AddrInv'
    <2>1. Known' = Known /\ Dimmer(port')
      BY <1>1 DEF Known, Fresh, SameTree, Dimmer, HubInv, WireInv
    <2> QED
      BY <2>1, SameKnown
  <1>7. FreshInv'
    BY <1>1 DEF FreshInv, HubInv, SameTree
  <1>8. CcInv'
    BY <1>1, <1>2, <1>3 DEF CcInv, HubInv
  <1>9. QuietInv'
    <2>1. Here[2]' = Here[2] /\ k.h' = k.h
      BY <1>1
    <2> QED
      BY <1>2, <1>3, <2>1 DEF QuietInv, HubInv
  <1>10. \A d : Worked(d)' = Worked(d)
    BY <1>1, <1>2 DEF Worked, SameWires
  <1>11. WorkedInv'
    <2>1. \A d \in Devices : Heeds(d) => Heeds(d)'
      BY <1>1 DEF Heeds, SameTree, SameWires
    <2> QED
      BY <1>4, <1>10, <2>1 DEF WorkedInv, HubInv
  <1>12. SteadyInv'
    <2>1. \A d : Astray(d)' = Astray(d) /\ Held(d)' = Held(d)
      BY DEF Astray, Held, HeldAt, OnLine, SameTree, SameWires
    <2> QED
      BY <1>4, <1>10, <2>1 DEF SteadyInv, HubInv, SameWires
  <1>13. StrayInv'
    BY <1>1 DEF StrayInv, HubInv, SameTree, SameWires
  <1>14. AboveInv'
    BY <1>2, <1>3 DEF AboveInv, HubInv
  <1> QED
    BY <1>5, <1>6, <1>7, <1>8, <1>9, <1>11, <1>12, <1>13, <1>14

(* A hub is in the list of events at most once.                            *)
LEMMA QueueFacts ==
  ASSUME TreeType, NEW h \in Hubs
  PROVE  /\ Queue(h) \in Seq(Hubs)
         /\ \A i, j \in DOMAIN Queue(h) : Queue(h)[i] = Queue(h)[j] => i = j
         /\ Range(Queue(h)) \subseteq Range(events) \cup {h}
  <1>1. /\ events \in Seq(Hubs) /\ \A i, j \in DOMAIN events : events[i] = events[j] => i = j
    BY DEF TreeType
  <1>2. CASE h \in Range(events)
    BY <1>1, <1>2 DEF Queue
  <1>3. CASE h \notin Range(events)
    <2> DEFINE s == <<h>> \o events
    <2>1. /\ s \in Seq(Hubs) /\ Len(s) = Len(events) + 1 /\ s[1] = h
          /\ \A i \in 1 .. Len(events) : s[i + 1] = events[i]
          /\ Len(events) \in Nat
      BY <1>1
    <2>2. \A i \in 1 .. Len(events) : events[i] # h
      BY <1>1, <1>3 DEF Range
    <2>3. \A i \in DOMAIN s : i = 1 \/ (i - 1 \in 1 .. Len(events) /\ s[i] = events[i - 1])
      <3> SUFFICES ASSUME NEW i \in DOMAIN s, i # 1
                   PROVE  i - 1 \in 1 .. Len(events) /\ s[i] = events[i - 1]
        OBVIOUS
      <3>1. i \in 1 .. Len(events) + 1
        BY <2>1
      <3>2. i - 1 \in 1 .. Len(events) /\ (i - 1) + 1 = i
        BY <2>1, <3>1
      <3> QED
        BY <2>1, <3>2
    <2> HIDE DEF s
    <2>4. \A i, j \in DOMAIN s : s[i] = s[j] => i = j
      <3> SUFFICES ASSUME NEW i \in DOMAIN s, NEW j \in DOMAIN s, s[i] = s[j] PROVE i = j
        OBVIOUS
      <3>1. i \in Nat /\ j \in Nat
        BY <2>1
      <3> QED
        BY <1>1, <2>1, <2>2, <2>3, <3>1
    <2>5. Range(s) \subseteq Range(events) \cup {h}
      BY <1>1, <2>1, <2>3 DEF Range
    <2>6. Queue(h) = s
      BY <1>3 DEF Queue, s
    <2> QED
      BY <2>1, <2>4, <2>5, <2>6
  <1> QED
    BY <1>2, <1>3

(* A hub reports a change.                                                 *)
LEMMA HubIrqKeeps == ASSUME HubInv, NEW h \in Hubs, hub_irq(h) PROVE HubInv'
  <1>1. /\ k' = k /\ SameTree /\ SameWires /\ port' = port /\ hub' = hub /\ hub[h].bound
        /\ events' = Queue(h)
    BY DEF hub_irq, SameTree, SameWires, hardware
  <1>2. TreeType'
    BY <1>1, QueueFacts DEF HubInv, TreeType, SameTree
  <1>3. TreeInv'
    BY <1>1, QueueFacts DEF HubInv, TreeInv, SameTree, IsHubAt
  <1>4. WorkInv'
    BY <1>1 DEF HubInv, WorkInv, SameTree, IsHubAt
  <1>5. ErrorInv'
    BY <1>1 DEF HubInv, ErrorInv, OnLine, EnabledAt, SameTree, SameWires
  <1> QED
    BY <1>1, <1>2, <1>3, <1>4, <1>5, Still DEF HubInv

(* Only a hub that does not answer collects errors.                        *)
LEMMA HubErrorsKeeps == ASSUME HubInv, NEW h \in Hubs, HubErrors(h) PROVE HubInv'
  <1>1. /\ k' = k /\ SameTree /\ SameWires /\ port' = port /\ hub[h].bound
        /\ hub' = [hub EXCEPT ![h].error = TRUE]
        /\ events' = Queue(h) /\ ~Answers(h)
    BY DEF HubErrors, SameTree, SameWires, hardware
  <1>2. h # Root /\ ~(EnabledAt(Ext) /\ OnLine(h))
    BY <1>1, BusFacts DEF HubInv
  <1>3. /\ hub' \in [Hubs -> [bound : BOOLEAN, urb : BOOLEAN, error : BOOLEAN]]
        /\ \A g \in Hubs : hub'[g].bound = hub[g].bound /\ (hub'[g].error = (hub[g].error \/ g = h))
    BY <1>1 DEF HubInv, TreeType
  <1>4. TreeType'
    BY <1>1, <1>3, QueueFacts DEF HubInv, TreeType, SameTree
  <1>5. TreeInv'
    <2>1. Root \in Hubs /\ TreeInv
      BY DEF Hubs, HubInv
    <2>2. Range(events') \subseteq Range(events) \cup {h}
      BY <1>1, QueueFacts DEF HubInv
    <2> QED
      BY <1>1, <1>2, <1>3, <2>1, <2>2 DEF TreeInv, SameTree, IsHubAt
  <1>6. WorkInv'
    BY <1>1, <1>3 DEF HubInv, WorkInv, SameTree, IsHubAt
  <1>7. ErrorInv'
    BY <1>1, <1>2, <1>3 DEF HubInv, ErrorInv, OnLine, EnabledAt, SameTree, SameWires
  <1> QED
    BY <1>1, <1>4, <1>5, <1>6, <1>7, Still DEF HubInv

(* A step that changes nothing.                                            *)
LEMMA IdleKeeps == HubInv /\ UNCHANGED vars => HubInv'
  <1> SUFFICES ASSUME HubInv, UNCHANGED vars PROVE HubInv'
    OBVIOUS
  <1>1. /\ k' = k /\ SameTree /\ SameWires /\ port' = port /\ hub' = hub /\ events' = events
    BY DEF vars, SameTree, SameWires
  <1>2. WorkInv' /\ ErrorInv'
    BY <1>1 DEF HubInv, WorkInv, ErrorInv, OnLine, EnabledAt, SameTree, SameWires, IsHubAt
  <1> QED
    BY <1>1, <1>2, Still, CalmTree DEF HubInv

-----------------------------------------------------------------------------
(* Start and stop.                                                         *)

(* Nothing is heard while all ports are off.                               *)
LEMMA Deaf ==
  ASSUME WireInv', \A p \in Ports : ~port'[p].en, k'.pc = "idle"
  PROVE  CcInv' /\ QuietInv' /\ WorkedInv' /\ SteadyInv' /\ AboveInv' /\ ErrorInv' /\ FreshInv'
  <1>1. \A d \in Devices : ~EnabledAt(d)'
    BY DEF EnabledAt, WireInv
  <1>2. \A d \in Devices : ~Hears(d)'
    BY <1>1 DEF Hears, Listens
  <1>3. CcInv' /\ QuietInv'
    BY DEF CcInv, QuietInv, Heard
  <1>4. WorkedInv' /\ SteadyInv'
    BY <1>2 DEF WorkedInv, SteadyInv
  <1>5. AboveInv' /\ FreshInv'
    BY DEF AboveInv, FreshInv, Unnamed, Named
  <1>6. ErrorInv'
    BY <1>1, PlaceFacts DEF ErrorInv
  <1> QED
    BY <1>3, <1>4, <1>5, <1>6

(* Before the start nothing is powered and the tree is empty.              *)
LEMMA InitHolds == Init => HubInv
  <1> SUFFICES ASSUME Init PROVE HubInv
    OBVIOUS
  <1>1. /\ k.pc = "idle" /\ k.why = "probe" /\ DOMAIN k = DOMAIN Rest
        /\ \A p \in Ports : port[p] = Dark /\ ~port[p].en /\ port[p] \in Ports4
        /\ port \in [Ports -> Ports4] /\ phase = "off"
    <2>1. Dark \in Ports4 /\ ~Dark.en
      BY DEF Dark, Ports4
    <2>2. k = Rest /\ port = [p \in Ports |-> Dark] /\ phase = "off"
      BY DEF Init
    <2> QED
      BY <2>1, <2>2, RestFields
  <1>2. /\ child = [pl \in Places |-> None] /\ devmap = {} /\ next = 1 /\ events = <<>>
        /\ hub = [h \in Hubs |-> NoHub] /\ stray = {} /\ addr = [d \in Devices |-> 0]
    BY DEF Init
  <1>3. WireInv
    <2>1. plug \in [Devices -> {NoPort} \cup Range(RootPorts)] /\ Ext \in Devices
      BY PlaceFacts DEF Init
    <2>2. plug \in [Devices -> {NoPort} \cup Ports] /\ (plug[Ext] = NoPort \/ OnRoot(plug[Ext]))
      BY <2>1 DEF Ports, OnRoot
    <2>3. \A d, e \in Devices : plug[d] = plug[e] /\ plug[d] # NoPort => d = e
      BY DEF Init
    <2>4. addr \in [Devices -> Int]
      BY <1>2
    <2> QED
      BY <1>1, <2>2, <2>3, <2>4 DEF WireInv
  <1>4. TreeType
    <2>1. MAX_ADDRESS \in Nat /\ 1 <= MAX_ADDRESS
      BY AddressAssumption, PlacesFinite, FS_CardinalityType
    <2>2. NoHub \in [bound : BOOLEAN, urb : BOOLEAN, error : BOOLEAN]
      BY DEF NoHub
    <2>3. next \in 1 .. MAX_ADDRESS /\ devmap \subseteq 1 .. MAX_ADDRESS
      BY <1>2, <2>1
    <2>4. hub \in [Hubs -> [bound : BOOLEAN, urb : BOOLEAN, error : BOOLEAN]]
      BY <1>2, <2>2
    <2>5. events \in Seq(Hubs) /\ \A i, j \in DOMAIN events : events[i] = events[j] => i = j
      BY <1>2
    <2>6. child \in [Places -> {None} \cup UsbDevs] /\ stray \subseteq Ports
      BY <1>2
    <2> QED
      BY <2>3, <2>4, <2>5, <2>6 DEF TreeType
  <1>5. WorkInv
    BY <1>1 DEF WorkInv, PCs
  <1>6. \A h \in Hubs : ~hub[h].bound /\ ~hub[h].error /\ h \notin Range(events)
    BY <1>2 DEF NoHub, Range
  <1>7. TreeInv
    BY <1>2, <1>6 DEF TreeInv, IsHubAt, Hubs
  <1>8. AddrInv
    BY <1>1, <1>2 DEF AddrInv, Known
  <1>9. \A d \in Devices : ~EnabledAt(d)
    BY <1>1, <1>3 DEF EnabledAt, WireInv
  <1>10. CcInv /\ QuietInv
    BY <1>1 DEF CcInv, QuietInv, Heard
  <1>11. WorkedInv /\ SteadyInv
    BY <1>9 DEF WorkedInv, SteadyInv, Hears, Listens
  <1>12. AboveInv /\ FreshInv
    BY <1>1 DEF AboveInv, FreshInv, Unnamed, Named
  <1>13. ErrorInv /\ StrayInv
    BY <1>2, <1>6 DEF ErrorInv, StrayInv
  <1> QED
    BY <1>3, <1>4, <1>5, <1>7, <1>8, <1>10, <1>11, <1>12, <1>13 DEF HubInv

(* BootStartUSB() powers the root ports and takes the first address.       *)
LEMMA StartKeeps == HubInv /\ BootStartUSB => HubInv'
  <1> SUFFICES ASSUME HubInv, BootStartUSB PROVE HubInv'
    OBVIOUS
  <1>1. /\ phase = "off" /\ phase' = "running" /\ devmap' = {1} /\ next' = After(1)
        /\ port' = [p \in Ports |-> IF OnRoot(p) THEN Powered(p) ELSE port[p]]
        /\ hub' = [hub EXCEPT ![Root] = FreshHub]
        /\ plug' = plug /\ addr' = addr /\ child' = child /\ events' = events /\ k' = k
        /\ stray' = stray
    BY DEF BootStartUSB, hc_start, usb_register_root_hub
  <1>2. /\ k.pc = "idle" /\ \A pl \in Places : child[pl] = None
        /\ \A p \in Ports : ~port[p].en
        /\ stray = {} /\ WireInv
    BY <1>1 DEF HubInv, WorkInv, AddrInv
  <1>3. Dimmer(port')
    <2>1. port \in [Ports -> Ports4] /\ \A p \in Ports : Powered(p) \in Ports4
      BY <1>2, PoweredType DEF WireInv
    <2>2. /\ port' \in [Ports -> Ports4]
          /\ \A p \in Ports : port'[p] = port[p] \/ port'[p] = Powered(p)
      BY <1>1, <2>1
    <2> QED
      BY <1>2, <2>2, PoweredDims
  <1>4. \A p \in Ports : ~port'[p].en
    BY <1>2, <1>3 DEF Dimmer
  <1>5. WireInv'
    BY <1>1, <1>2, <1>3, <1>4 DEF WireInv, Dimmer
  <1>6. TreeType'
    <2>1. MAX_ADDRESS \in Nat /\ 1 <= MAX_ADDRESS
      BY AddressAssumption, PlacesFinite
    <2>2. next' \in 1 .. MAX_ADDRESS /\ devmap' \subseteq 1 .. MAX_ADDRESS
      BY <1>1, <2>1 DEF After
    <2>3. FreshHub \in [bound : BOOLEAN, urb : BOOLEAN, error : BOOLEAN]
      BY DEF FreshHub
    <2>4. hub' \in [Hubs -> [bound : BOOLEAN, urb : BOOLEAN, error : BOOLEAN]]
      BY <1>1, <2>3 DEF HubInv, TreeType
    <2> QED
      BY <1>1, <2>2, <2>4 DEF HubInv, TreeType
  <1>7. TreeInv'
    <2>1. hub' \in [Hubs -> [bound : BOOLEAN, urb : BOOLEAN, error : BOOLEAN]]
      BY <1>6 DEF TreeType
    <2>2. \A h \in Hubs \ {Root} : hub'[h] = hub[h]
      BY <1>1
    <2>3. ~hub'[Root].error
      BY <1>1 DEF HubInv, TreeType, Hubs, FreshHub
    <2> QED
      BY <1>1, <2>2, <2>3 DEF HubInv, TreeInv, IsHubAt
  <1>8. WorkInv'
    BY <1>1, <1>2 DEF HubInv, WorkInv
  <1>9. AddrInv'
    <2>1. Known' = {} /\ AddressesOf(Known)' = {}
      BY <1>1, <1>2 DEF Known, AddressesOf
    <2> QED
      BY <1>1, <2>1 DEF AddrInv
  <1>10. StrayInv'
    BY <1>1, <1>2 DEF StrayInv
  <1>11. k'.pc = "idle"
    BY <1>1, <1>2
  <1> QED
    BY <1>4, <1>5, <1>6, <1>7, <1>8, <1>9, <1>10, <1>11, Deaf DEF HubInv

(* BootStopUSB() turns every port off and empties the tree.                *)
LEMMA StopKeeps == HubInv /\ BootStopUSB => HubInv'
  <1> SUFFICES ASSUME HubInv, BootStopUSB PROVE HubInv'
    OBVIOUS
  <1>1. /\ phase = "running" /\ k.pc = "idle" /\ phase' = "stopped"
        /\ child' = [pl \in Places |-> None]
        /\ devmap' = devmap \ ({1} \cup AddressesOf(Places))
        /\ hub' = [h \in Hubs |-> IF h = Root THEN hub[h] ELSE NoHub]
        /\ events' = IF Root \in Range(events) THEN <<Root>> ELSE <<>>
        /\ port' = [p \in Ports |-> Dark] /\ addr' = [d \in Devices |-> 0]
        /\ plug' = plug /\ next' = next /\ k' = k /\ stray' = {}
    BY DEF BootStopUSB, At, usb_hcd_pci_remove, ohci_stop
  <1>2. devmap' = {}
    <2>1. devmap = {1} \cup AddressesOf(Known)
      BY <1>1 DEF HubInv, AddrInv
    <2>2. AddressesOf(Known) \subseteq AddressesOf(Places)
      BY DEF AddressesOf, Known
    <2> QED
      BY <1>1, <2>1, <2>2
  <1>3. port' \in [Ports -> Ports4] /\ \A p \in Ports : ~port'[p].en
    <2>1. Dark \in Ports4 /\ ~Dark.en
      BY DEF Dark, Ports4
    <2> QED
      BY <1>1, <2>1
  <1>4. WireInv'
    BY <1>1, <1>3 DEF HubInv, WireInv
  <1>5. TreeType'
    <2>1. NoHub \in [bound : BOOLEAN, urb : BOOLEAN, error : BOOLEAN] /\ Root \in Hubs
      BY DEF NoHub, Hubs
    <2>2. hub' \in [Hubs -> [bound : BOOLEAN, urb : BOOLEAN, error : BOOLEAN]]
      BY <1>1, <2>1 DEF HubInv, TreeType
    <2>3. events' \in Seq(Hubs) /\ \A i, j \in DOMAIN events' : events'[i] = events'[j] => i = j
      BY <1>1, <2>1
    <2>4. child' \in [Places -> {None} \cup UsbDevs]
      BY <1>1
    <2> QED
      BY <1>1, <1>2, <2>2, <2>3, <2>4 DEF HubInv, TreeType
  <1>6. TreeInv'
    <2>1. \A h \in Hubs \ {Root} : ~hub'[h].bound /\ ~hub'[h].error /\ h \notin Range(events')
      BY <1>1 DEF NoHub, Range
    <2>2. hub'[Root] = hub[Root]
      BY <1>1 DEF Hubs
    <2>3. \A pl \in Places : ~IsHubAt(pl)'
      BY <1>1 DEF IsHubAt
    <2> QED
      BY <2>1, <2>2, <2>3 DEF HubInv, TreeInv
  <1>7. WorkInv'
    BY <1>1 DEF HubInv, WorkInv
  <1>8. AddrInv'
    BY <1>1, <1>2, <1>3 DEF AddrInv, Known
  <1>9. StrayInv'
    BY <1>1 DEF StrayInv
  <1>10. k'.pc = "idle"
    BY <1>1
  <1> QED
    BY <1>3, <1>4, <1>5, <1>6, <1>7, <1>8, <1>9, <1>10, Deaf DEF HubInv

-----------------------------------------------------------------------------
(* The wires.                                                              *)

(* A device that is held below a hub: the hub is the one on the wires.     *)
LEMMA CarrierFacts ==
  ASSUME HubInv, NEW d \in Devices, Hears(d), ~Astray(d), NEW pl \in Places, HeldAt(d, pl),
         pl[1] # Root
  PROVE  pl[1] = plug[Ext] /\ Hears(Ext) /\ ~Worked(Ext) /\ addr[Ext] >= 2
  <1>1. /\ pl[2] = plug[d] /\ ~OnRoot(plug[d]) /\ child[PlaceOf(pl[1])] # None /\ OnLine(pl[1])
        /\ pl[1] \in Hubs \ {Root} /\ PlaceOf(pl[1]) \in Places /\ pl[2] \in Ports
    BY PlaceFacts DEF HeldAt
  <1>2. EnabledAt(Ext) /\ port[plug[d]].en /\ WireInv /\ Ext \in Devices
    BY <1>1, BusFacts, PlaceFacts DEF HubInv, Hears, Listens, EnabledAt
  <1>3. Hears(Ext) /\ OnRoot(plug[Ext])
    BY <1>2 DEF Hears, Listens, EnabledAt, WireInv
  <1>4. ~Worked(Ext)
    BY <1>1, <1>2, <1>3 DEF HubInv, WorkedInv, Heeds
  <1>5. ~Astray(Ext)
    BY <1>1, <1>3 DEF Astray
  <1>6. PICK qe \in Places : HeldAt(Ext, qe)
    BY <1>2, <1>3, <1>4, <1>5 DEF HubInv, SteadyInv, Held
  <1>7. qe \in Known /\ child[qe].addr = addr[Ext] /\ addr[Ext] >= 2 /\ qe[2] = plug[Ext]
    BY <1>2, <1>3, <1>4, <1>6, HeldApart DEF HeldAt, HubInv, SteadyInv
  <1>8. PlaceOf(pl[1]) \in Known
    BY <1>1, <1>7 DEF Known, Fresh, HubInv, FreshInv, OnLine
  <1>9. qe = PlaceOf(pl[1])
    BY <1>1, <1>7, <1>8 DEF HubInv, AddrInv, OnLine
  <1>10. PlaceOf(pl[1])[2] = pl[1]
    BY <1>1, PlaceFacts
  <1> QED
    BY <1>3, <1>4, <1>7, <1>9, <1>10

(* Where the thread works nothing else is held.                            *)
LEMMA HeldElsewhere ==
  ASSUME HubInv, Working, NEW d \in Devices, Hears(d), ~Worked(d), ~Astray(d),
         NEW pl \in Places, HeldAt(d, pl)
  PROVE  pl # Target /\ (pl[1] # Root => PlaceOf(pl[1]) # Target)
  <1>1. pl # Target
    BY HeldApart
  <1>2. ASSUME pl[1] # Root, PlaceOf(pl[1]) = Target PROVE FALSE
    <2>1. pl[1] = plug[Ext] /\ ~Worked(Ext)
      BY <1>2, CarrierFacts
    <2>2. Target[1] = Root /\ Target[2] = pl[1]
      BY <1>2, PlaceFacts
    <2> QED
      BY <2>1, <2>2 DEF Worked, OnLine
  <1> QED
    BY <1>1, <1>2

(* What is heard was heard before, unmoved and under the same address.     *)
Unmoved ==
  /\ \A d \in Devices : EnabledAt(d)' => EnabledAt(d) /\ plug'[d] = plug[d] /\ addr'[d] = addr[d]
                                         /\ (plug[d] \in stray => plug[d] \in stray')
  /\ \A p \in Ports : /\ port'[p].en => port[p].en
                      /\ port'[p].en /\ port'[p].cc => port[p].cc

(* What a step of the wires keeps, for the three of them.                  *)
LEMMA WiresStep ==
  ASSUME HubInv, Unmoved, WireInv', phase' = phase, child' = child, devmap' = devmap, next' = next,
         events' = events, hub' = hub, k' = k, stray' \subseteq stray,
         \A p \in stray' \cap Range(RootPorts) : ~port'[p].cc /\ \E d \in Devices : plug'[d] = p
  PROVE  HubInv'
  <1>1. Here' = Here /\ Target' = Target /\ Working' = Working
    BY HereSame DEF Working
  <1>2. EnabledAt(Ext)' => EnabledAt(Ext) /\ \A h : OnLine(h)' = OnLine(h)
    BY PlaceFacts DEF Unmoved, OnLine
  <1>3. \A p \in Ports : Heard(p)' => Heard(p)
    <2> SUFFICES ASSUME NEW p \in Ports, Heard(p)' PROVE Heard(p)
      OBVIOUS
    <2>1. PICK d \in Devices : plug'[d] = p
      BY DEF Heard, WireInv
    <2>2. EnabledAt(d)'
      BY <2>1, PlaceFacts DEF Heard, EnabledAt
    <2>3. plug[d] = p /\ (p \in stray => p \in stray')
      BY <2>1, <2>2 DEF Unmoved
    <2> QED
      BY <1>2, <2>3 DEF Heard, Unmoved
  <1>4. \A d \in Devices : Hears(d)' =>
          Hears(d) /\ plug'[d] = plug[d] /\ addr'[d] = addr[d] /\ plug[d] \in Ports
    <2>1. \A d \in Devices : EnabledAt(d) => plug[d] \in Ports
      BY DEF EnabledAt, HubInv, WireInv
    <2> QED
      BY <1>2, <2>1 DEF Hears, Listens, Unmoved
  <1>5. TreeType' /\ TreeInv' /\ WorkInv' /\ FreshInv'
    BY <1>1 DEF HubInv, TreeType, TreeInv, WorkInv, FreshInv, IsHubAt
  <1>6. AddrInv'
    <2>1. Known' = Known
      BY <1>1 DEF Known, Fresh
    <2>2. AddressesOf(Known)' = AddressesOf(Known)
      BY <2>1 DEF AddressesOf
    <2>3. \A p \in Ports : port'[p].en => port[p].en
      BY DEF Unmoved
    <2> QED
      BY <2>1, <2>2, <2>3 DEF HubInv, AddrInv
  <1>7. CcInv'
    <2> SUFFICES ASSUME NEW p \in Ports, Heard(p)', port'[p].cc
                 PROVE  k.pc \in {"reset", "wait", "disable"} /\ p = Target[2] /\ OnLine(Target[1])'
      BY <1>1 DEF CcInv
    <2>1. Heard(p) /\ port[p].cc
      BY <1>3 DEF Unmoved, Heard
    <2>2. k.pc \in {"reset", "wait", "disable"} /\ p = Target[2] /\ OnLine(Target[1])
      BY <2>1 DEF HubInv, CcInv
    <2>3. Target[1] # Root => ~OnRoot(p)
      BY <2>2, HereFacts, PlaceFacts DEF HubInv
    <2>4. OnLine(Target[1])'
      BY <1>1, <1>2, <2>2, <2>3 DEF Heard, OnLine
    <2> QED
      BY <2>2, <2>4
  <1>8. QuietInv'
    <2> SUFFICES ASSUME k.pc \in {"change", "debounce", "clear"} \/ (k.pc = "enable" /\ ~k.snap.en),
                        Heard(Here[2])', OnLine(k.h)'
                 PROVE  FALSE
      BY <1>1 DEF QuietInv
    <2>1. Here \in Places /\ Here[1] = k.h /\ Here[2] \in Ports
      BY HereFacts DEF HubInv
    <2>2. Heard(Here[2])
      BY <1>1, <1>3, <2>1
    <2>3. k.h # Root => ~OnRoot(Here[2])
      BY <2>1, PlaceFacts
    <2>4. OnLine(k.h)
      BY <1>1, <1>2, <2>3 DEF Heard, OnLine
    <2> QED
      BY <2>2, <2>4 DEF HubInv, QuietInv
  <1>9. \A d \in Devices : Hears(d)' => (Worked(d)' <=> Worked(d))
    <2> SUFFICES ASSUME NEW d \in Devices, Hears(d)' PROVE Worked(d)' <=> Worked(d)
      OBVIOUS
    <2>1. plug'[d] = plug[d]
      BY <1>4
    <2>2. ASSUME Working, plug[d] = Target[2] PROVE OnLine(Target[1])' <=> OnLine(Target[1])
      <3>1. k.pc # "idle"
        BY <2>2 DEF Working, Unnamed, Named
      <3>2. Target[1] # Root => ~OnRoot(plug[d])
        BY <2>2, <3>1, HereFacts, PlaceFacts DEF HubInv
      <3>3. Target[1] # Root => EnabledAt(Ext)'
        BY <2>1, <3>2 DEF Hears, Listens
      <3> QED
        BY <1>1, <1>2, <3>3 DEF OnLine
    <2> QED
      BY <1>1, <2>1, <2>2 DEF Worked
  <1>10. WorkedInv'
    <2> SUFFICES ASSUME NEW d \in Devices, Hears(d)', Worked(d)' PROVE Heeds(d)'
      BY DEF WorkedInv
    <2>1. Heeds(d) /\ addr'[d] = addr[d]
      BY <1>4, <1>9 DEF HubInv, WorkedInv
    <2> QED
      BY <1>1, <2>1 DEF Heeds, Unmoved
  <1>11. SteadyInv'
    <2> SUFFICES ASSUME NEW d \in Devices, Hears(d)', ~Worked(d)'
                 PROVE  addr'[d] >= 2 /\ (~Astray(d)' => Held(d)')
      BY DEF SteadyInv
    <2>1. addr[d] >= 2 /\ (~Astray(d) => Held(d)) /\ addr'[d] = addr[d] /\ plug'[d] = plug[d]
      BY <1>4, <1>9 DEF HubInv, SteadyInv
    <2>2. ~OnRoot(plug[d]) => EnabledAt(Ext)'
      BY <2>1 DEF Hears, Listens
    <2>3. Astray(d) => Astray(d)'
      BY <1>4, <2>1, <2>2, PlaceFacts DEF Astray, Unmoved, Hears, Listens
    <2>4. ASSUME NEW pl \in Places, HeldAt(d, pl) PROVE HeldAt(d, pl)'
      BY <1>2, <2>1, <2>2, <2>4, PlaceFacts DEF HeldAt
    <2> QED
      BY <2>1, <2>3, <2>4 DEF Held
  <1>12. StrayInv'
    BY <1>1 DEF HubInv, StrayInv
  <1>13. ErrorInv' /\ AboveInv'
    BY <1>2 DEF HubInv, ErrorInv, AboveInv
  <1> QED
    BY <1>5, <1>6, <1>7, <1>8, <1>10, <1>11, <1>12, <1>13 DEF HubInv

(* A port that drops out is heard no more.                                 *)
LEMMA NoiseKeeps == ASSUME HubInv, NEW p \in Ports, Noise(p) PROVE HubInv'
  <1>1. /\ port' = [port EXCEPT ![p].en = FALSE, ![p].ce = TRUE] /\ plug' = plug /\ addr' = addr
        /\ phase' = phase /\ child' = child /\ devmap' = devmap /\ next' = next
        /\ events' = events /\ hub' = hub /\ k' = k /\ stray' = stray
    BY DEF Noise
  <1>2. WireInv /\ port \in [Ports -> Ports4] /\ port[p] \in Ports4
    BY DEF HubInv, WireInv
  <1>3. /\ port' \in [Ports -> Ports4]
        /\ \A q \in Ports : /\ port'[q].en => port[q].en
                            /\ port'[q].cc = port[q].cc /\ port'[q].power = port[q].power
    <2>1. port' = [port EXCEPT ![p] = [port[p] EXCEPT !.en = FALSE, !.ce = TRUE]]
      BY <1>1, <1>2
    <2>2. [port[p] EXCEPT !.en = FALSE, !.ce = TRUE] \in Ports4
      BY <1>2 DEF Ports4
    <2>3. /\ ~[port[p] EXCEPT !.en = FALSE, !.ce = TRUE].en
          /\ [port[p] EXCEPT !.en = FALSE, !.ce = TRUE].cc = port[p].cc
          /\ [port[p] EXCEPT !.en = FALSE, !.ce = TRUE].power = port[p].power
      BY <1>2 DEF Ports4
    <2> QED
      BY <1>2, <2>1, <2>2, <2>3
  <1>4. Unmoved
    BY <1>1, <1>2, <1>3 DEF Unmoved, EnabledAt, WireInv
  <1>5. WireInv'
    BY <1>1, <1>2, <1>3 DEF WireInv
  <1>6. \A q \in stray' \cap Range(RootPorts) : ~port'[q].cc /\ \E d \in Devices : plug'[d] = q
    BY <1>1, <1>3 DEF HubInv, StrayInv, Ports
  <1> QED
    BY <1>1, <1>4, <1>5, <1>6, WiresStep

(* A device that is plugged in is on a disabled port.                      *)
LEMMA PlugInKeeps == ASSUME HubInv, NEW d \in Devices, NEW p \in Ports, PlugIn(d, p) PROVE HubInv'
  <1>1. /\ plug[d] = NoPort /\ \A e \in Devices : plug[e] # p
        /\ d = Ext => OnRoot(p)
        /\ plug' = [plug EXCEPT ![d] = p]
        /\ port' = [port EXCEPT ![p].cc = @ \/ port[p].power] /\ addr' = addr
        /\ phase' = phase /\ child' = child /\ devmap' = devmap /\ next' = next
        /\ events' = events /\ hub' = hub /\ k' = k /\ stray' = stray
    BY DEF PlugIn
  <1>2. WireInv /\ port \in [Ports -> Ports4] /\ port[p] \in Ports4 /\ ~port[p].en
    BY <1>1 DEF HubInv, WireInv
  <1>3. /\ port' \in [Ports -> Ports4]
        /\ \A q \in Ports : q # p => port'[q] = port[q]
        /\ port'[p].en = port[p].en /\ port'[p].power = port[p].power
    <2> DEFINE cc == port[p].cc \/ port[p].power
    <2>1. port' = [port EXCEPT ![p] = [port[p] EXCEPT !.cc = cc]] /\ cc \in BOOLEAN
      BY <1>1, <1>2 DEF Ports4
    <2> HIDE DEF cc
    <2>2. [port[p] EXCEPT !.cc = cc] \in Ports4
      BY <1>2, <2>1 DEF Ports4
    <2>3. /\ [port[p] EXCEPT !.cc = cc].en = port[p].en
          /\ [port[p] EXCEPT !.cc = cc].power = port[p].power
      BY <1>2 DEF Ports4
    <2> QED
      BY <1>2, <2>1, <2>2, <2>3
  <1>4. Unmoved
    <2>1. \A q \in Ports : port'[q].en => port[q].en /\ q # p
      BY <1>2, <1>3
    <2>2. \A e \in Devices : e # d => plug'[e] = plug[e]
      BY <1>1, <1>2 DEF WireInv
    <2>3. plug'[d] = p /\ p # NoPort
      BY <1>1, <1>2, PlaceFacts DEF WireInv
    <2>4. ~EnabledAt(d)'
      BY <2>1, <2>3 DEF EnabledAt
    <2> QED
      BY <1>1, <1>2, <1>3, <2>1, <2>2, <2>4 DEF Unmoved, EnabledAt, WireInv
  <1>5. WireInv'
    <2>1. plug' \in [Devices -> {NoPort} \cup Ports]
      BY <1>1, <1>2 DEF WireInv
    <2>2. \A x, e \in Devices : plug'[x] = plug'[e] /\ plug'[x] # NoPort => x = e
      BY <1>1, <1>2 DEF WireInv
    <2>3. plug'[Ext] = NoPort \/ OnRoot(plug'[Ext])
      BY <1>1, <1>2, PlaceFacts DEF WireInv
    <2>4. \A q \in Ports : port'[q].en => port'[q].power /\ \E e \in Devices : plug'[e] = q
      <3> SUFFICES ASSUME NEW q \in Ports, port'[q].en
                   PROVE  port'[q].power /\ \E e \in Devices : plug'[e] = q
        OBVIOUS
      <3>1. q # p /\ port[q].en /\ port'[q].power = port[q].power
        BY <1>2, <1>3
      <3>2. PICK e \in Devices : plug[e] = q
        BY <1>2, <3>1 DEF WireInv
      <3>3. e # d
        BY <1>1, <3>2, PlaceFacts
      <3> QED
        BY <1>1, <1>2, <3>1, <3>2, <3>3 DEF WireInv
    <2> QED
      BY <1>1, <1>2, <1>3, <2>1, <2>2, <2>3, <2>4 DEF WireInv
  <1>6. \A q \in stray' \cap Range(RootPorts) : ~port'[q].cc /\ \E e \in Devices : plug'[e] = q
    <2> SUFFICES ASSUME NEW q \in stray \cap Range(RootPorts)
                 PROVE ~port'[q].cc /\ \E e \in Devices : plug'[e] = q
      BY <1>1
    <2>1. q \in Ports /\ ~port[q].cc
      BY DEF HubInv, StrayInv, Ports
    <2>2. PICK e \in Devices : plug[e] = q
      BY DEF HubInv, StrayInv
    <2>3. q # p /\ e # d
      BY <1>1, <2>1, <2>2, PlaceFacts
    <2> QED
      BY <1>1, <1>2, <1>3, <2>1, <2>2, <2>3 DEF WireInv
  <1> QED
    BY <1>1, <1>4, <1>5, <1>6, WiresStep

(* A device that is pulled takes with it what hangs below it.              *)
LEMMA PullOutKeeps == ASSUME HubInv, NEW d \in Devices, PullOut(d) PROVE HubInv'
  <1> DEFINE p == plug[d]
             off == [port EXCEPT ![p] = Pulled(p)]
  <1>1. /\ p # NoPort
        /\ plug' = [plug EXCEPT ![d] = NoPort]
        /\ addr' = [addr EXCEPT ![d] = 0]
        /\ port' = Below(off, d) /\ stray' = stray \ {p}
        /\ phase' = phase /\ child' = child /\ devmap' = devmap /\ next' = next
        /\ events' = events /\ hub' = hub /\ k' = k
    BY DEF PullOut
  <1>2. WireInv /\ port \in [Ports -> Ports4] /\ p \in Ports /\ port[p] \in Ports4
    BY <1>1 DEF HubInv, WireInv
  <1>3. /\ off \in [Ports -> Ports4] /\ ~off[p].en
        /\ \A q \in Ports : q # p => off[q] = port[q]
    <2> DEFINE cc == port[p].cc \/ port[p].power
               ce == port[p].ce \/ port[p].en
    <2>1. Pulled(p) = [port[p] EXCEPT !.cc = cc, !.ce = ce, !.en = FALSE]
      BY Zenon DEF Pulled
    <2>2. Pulled(p) \in Ports4 /\ ~Pulled(p).en
      <3>1. cc \in BOOLEAN /\ ce \in BOOLEAN
        BY <1>2 DEF Ports4
      <3> HIDE DEF cc, ce
      <3> QED
        BY <1>2, <2>1, <3>1 DEF Ports4
    <2> QED
      BY <1>2, <2>2
  <1> HIDE DEF off
  <1>4. /\ port' \in [Ports -> Ports4] /\ ~port'[p].en
        /\ \A q \in Ports : q # p => port'[q] = port[q] \/ (port'[q] = Dark /\ ~OnRoot(q))
        /\ d = Ext => \A q \in Ports : OnRoot(q) \/ ~port'[q].en
    <2>1. Dark \in Ports4 /\ ~Dark.en /\ ~Dark.cc
      BY DEF Dark, Ports4
    <2> QED
      BY <1>1, <1>2, <1>3, <2>1 DEF Below
  <1>5. ~Dark.en /\ ~Dark.cc
    BY DEF Dark
  <1>6. plug'[d] = NoPort /\ \A e \in Devices : e # d => plug'[e] = plug[e] /\ addr'[e] = addr[e]
    BY <1>1, <1>2 DEF WireInv
  <1>7. Unmoved
    <2>1. \A q \in Ports : port'[q].en => q # p /\ port'[q] = port[q]
      BY <1>4, <1>5
    <2>2. ~EnabledAt(d)'
      BY <1>6 DEF EnabledAt
    <2>3. \A e \in Devices : e # d => plug[e] # p
      BY <1>1, <1>2 DEF WireInv
    <2>4. ASSUME NEW e \in Devices, EnabledAt(e)'
          PROVE  EnabledAt(e) /\ plug'[e] = plug[e] /\ addr'[e] = addr[e]
                 /\ (plug[e] \in stray => plug[e] \in stray')
      <3>1. e # d /\ plug'[e] = plug[e] /\ plug[e] # p
        BY <1>6, <2>2, <2>3, <2>4
      <3>2. plug[e] # NoPort /\ port'[plug[e]].en /\ plug[e] \in Ports
        BY <1>2, <2>4, <3>1 DEF EnabledAt, WireInv
      <3> QED
        BY <1>1, <1>6, <2>1, <3>1, <3>2 DEF EnabledAt
    <2> QED
      BY <2>1, <2>4 DEF Unmoved
  <1>8. WireInv'
    <2>1. plug' \in [Devices -> {NoPort} \cup Ports] /\ addr' \in [Devices -> Int]
      BY <1>1, <1>2 DEF WireInv
    <2>2. \A x, e \in Devices : plug'[x] = plug'[e] /\ plug'[x] # NoPort => x = e
      BY <1>6, <1>2 DEF WireInv
    <2>3. plug'[Ext] = NoPort \/ OnRoot(plug'[Ext])
      BY <1>6, <1>2, PlaceFacts DEF WireInv
    <2>4. \A q \in Ports : port'[q].en => port'[q].power /\ \E e \in Devices : plug'[e] = q
      <3> SUFFICES ASSUME NEW q \in Ports, port'[q].en
                   PROVE  port'[q].power /\ \E e \in Devices : plug'[e] = q
        OBVIOUS
      <3>1. q # p /\ port'[q] = port[q]
        BY <1>4, <1>5
      <3>2. port[q].power /\ \E e \in Devices : plug[e] = q
        BY <1>2, <3>1 DEF WireInv
      <3> QED
        BY <1>6, <3>1, <3>2
    <2> QED
      BY <1>1, <1>2, <1>4, <2>1, <2>2, <2>3, <2>4 DEF WireInv
  <1>9. \A q \in stray' \cap Range(RootPorts) : ~port'[q].cc /\ \E e \in Devices : plug'[e] = q
    <2> SUFFICES ASSUME NEW q \in stray \cap Range(RootPorts), q # p
                 PROVE  ~port'[q].cc /\ \E e \in Devices : plug'[e] = q
      BY <1>1
    <2>1. q \in Ports /\ ~port[q].cc /\ \E e \in Devices : plug[e] = q
      BY DEF HubInv, StrayInv, Ports
    <2> QED
      BY <1>4, <1>5, <1>6, <2>1
  <1>10. stray' \subseteq stray
    BY <1>1
  <1> QED
    BY <1>1, <1>7, <1>8, <1>9, <1>10, WiresStep

-----------------------------------------------------------------------------
(* The thread works on a device.                                           *)

(* Where the thread is while it works on a device.                         *)
LEMMA WorkingAt ==
  ASSUME HubInv, Working
  PROVE  /\ phase = "running" /\ k.pc # "idle" /\ WireInv /\ WorkInv
         /\ Here \in Places /\ Here[1] = k.h /\ Here[2] \in Ports /\ k.h \in Hubs
         /\ Target \in Places /\ Target[2] \in Ports /\ Target[1] \in Hubs
         /\ k.why = "probe" => Target = Here
         /\ k.why = "hub" => Target = PlaceOf(k.h) /\ Target[1] = Root /\ Target[2] = k.h
         /\ k.why \in {"probe", "hub"}
         /\ Target[1] = Root <=> OnRoot(Target[2])
  <1>1. k.pc # "idle" /\ WorkInv /\ WireInv
    BY DEF Working, Unnamed, Named, HubInv
  <1>2. phase = "running" /\ k.why \in {"probe", "hub"}
    BY <1>1 DEF WorkInv
  <1> QED
    BY <1>1, <1>2, HereFacts, PlaceFacts

(* As DimmerListens, for steps in which a device takes an address.         *)
LEMMA DimmerHears ==
  ASSUME WireInv, plug' = plug, Dimmer(port'), stray \subseteq stray'
  PROVE  /\ \A d \in Devices : Hears(d)' => Hears(d)
         /\ \A p \in Ports : Heard(p)' => Heard(p)
         /\ EnabledAt(Ext)' => EnabledAt(Ext)
         /\ phase' = phase /\ addr' \in [Devices -> Int] => WireInv'
  <1>1. \A d \in Devices : EnabledAt(d)' => EnabledAt(d)
    BY DEF Dimmer, EnabledAt, WireInv
  <1>2. EnabledAt(Ext)' => EnabledAt(Ext)
    BY <1>1, PlaceFacts
  <1>3. \A d \in Devices : Hears(d)' => Hears(d)
    BY <1>1, <1>2 DEF Hears, Listens
  <1>4. \A p \in Ports : Heard(p)' => Heard(p)
    BY <1>2 DEF Heard, Dimmer
  <1>5. phase' = phase /\ addr' \in [Devices -> Int] => WireInv'
    BY DEF WireInv, Dimmer
  <1> QED
    BY <1>2, <1>3, <1>4, <1>5

(* A device may take its address although its answer is lost.              *)
Taking == \/ addr' = addr
          \/ k.pc = "setaddr" /\ Taken

(* Only the device that is worked on takes an address.                     *)
LEMMA TakingFacts ==
  ASSUME HubInv, Working, Taking
  PROVE  /\ addr' \in [Devices -> Int]
         /\ \A d \in Devices : Hears(d) /\ ~Worked(d) => addr'[d] = addr[d]
         /\ \A d \in Devices : Hears(d) /\ Worked(d) =>
              addr'[d] = addr[d] \/ (k.pc = "setaddr" /\ addr'[d] = child[Target].addr)
         /\ \A d \in Devices : Hears(d) /\ ~OnRoot(plug[d]) => addr'[Ext] = addr[Ext]
         /\ Target[1] # Root => addr'[Ext] = addr[Ext]
         /\ addr'[Ext] # addr[Ext] => /\ k.pc = "setaddr" /\ addr'[Ext] = child[Target].addr
                                      /\ Hears(Ext) /\ Worked(Ext)
  <1>1. WireInv /\ addr \in [Devices -> Int] /\ Ext \in Devices
    BY WorkingAt, PlaceFacts DEF WireInv
  <1>2. CASE addr' = addr
    BY <1>1, <1>2
  <1>3. CASE k.pc = "setaddr" /\ Taken
    <2>1. child[Target].addr \in Int
      BY <1>3, TargetKnown DEF Named
    <2>2. /\ addr' \in [Devices -> Int]
          /\ \A d \in Devices : addr'[d] = IF d \in Reached(0) THEN child[Target].addr ELSE addr[d]
      BY <1>1, <1>3, <2>1 DEF Taken
    <2>3. \A d \in Devices : Hears(d) /\ d \in Reached(0) => Worked(d)
      BY <1>1, BusFacts DEF HubInv, SteadyInv
    <2>4. Ext \in Reached(0) => Hears(Ext) /\ Worked(Ext) /\ Heeds(Ext) /\ OnRoot(plug[Ext])
      <3>1. Ext \in Reached(0) => Listens(Ext) /\ OnRoot(plug[Ext])
        BY <1>1, BusFacts DEF Listens, EnabledAt, WireInv
      <3> QED
        BY <1>1, <2>3, <3>1 DEF Hears, HubInv, WorkedInv
    <2>5. \A d \in Devices : Hears(d) /\ ~OnRoot(plug[d]) => Ext \notin Reached(0)
      <3> SUFFICES ASSUME NEW d \in Devices, Hears(d), ~OnRoot(plug[d]), Ext \in Reached(0)
                   PROVE  FALSE
        OBVIOUS
      <3>1. plug[d] \in Ports /\ port[plug[d]].en
        BY <1>1 DEF Hears, Listens, EnabledAt, WireInv
      <3> QED
        BY <2>4, <3>1 DEF Heeds
    <2>6. Target[1] # Root => Ext \notin Reached(0)
      BY <2>4, WorkingAt DEF Worked
    <2> QED
      BY <1>1, <1>3, <2>2, <2>3, <2>4, <2>5, <2>6
  <1> QED
    BY <1>2, <1>3 DEF Taking

(* A hub that waits to be reset is not reached.                            *)
LEMMA ErrorStays ==
  ASSUME HubInv, Working, Taking, NEW h \in Hubs \ {Root}, hub[h].error, EnabledAt(Ext),
         ~(k.why = "hub" /\ k.h = h)
  PROVE  addr'[Ext] # child[PlaceOf(h)].addr
  <1>1. ~OnLine(h)
    BY DEF HubInv, ErrorInv
  <1>2. CASE addr'[Ext] = addr[Ext]
    BY <1>1, <1>2 DEF OnLine
  <1>3. CASE addr'[Ext] # addr[Ext]
    <2>1. k.pc = "setaddr" /\ addr'[Ext] = child[Target].addr
      BY <1>3, TakingFacts
    <2>2. Target \in Known
      BY <2>1, TargetKnown DEF Named
    <2>3. IsHubAt(PlaceOf(h)) /\ PlaceOf(h) \in Places /\ PlaceOf(h)[2] = h
      BY PlaceFacts DEF HubInv, TreeInv
    <2>4. PlaceOf(h) \in Known
      BY <2>1, <2>3 DEF Known, IsHubAt, Fresh, Unnamed
    <2>5. Target # PlaceOf(h)
      <3>1. k.why = "probe" => Target = Here /\ child[Here].drv = None
        BY <2>1, WorkingAt DEF HubInv, FreshInv, Named
      <3>2. k.why = "hub" => Target[2] = k.h
        BY WorkingAt
      <3>3. None # Ext
        BY HubAssumption, PlaceFacts
      <3> QED
        BY <2>3, <3>1, <3>2, <3>3, WorkingAt DEF IsHubAt
    <2> QED
      BY <2>1, <2>2, <2>4, <2>5 DEF HubInv, AddrInv
  <1> QED
    BY <1>2, <1>3

(* The next stage, or the last one once more.                              *)
LEMMA OnwardKeeps ==
  ASSUME HubInv, Working, SameTree, plug' = plug, Taking, port' = port, hub' = hub, events' = events,
         k'.h = k.h, k'.i = k.i, k'.why = k.why, DOMAIN k' = DOMAIN k,
         \/ k.pc = "wait" /\ k'.pc = "reset"
         \/ k.pc \in Named /\ k'.pc = "setaddr"
         \/ k.pc \in Named \ {"setaddr"} /\ k'.pc \in Named
         \/ k.pc = "setaddr" /\ k'.pc = "descriptor" /\ Taken
         \/ k.pc = "wait" /\ k'.pc = "setaddr" /\ k.why = "hub" /\ ~port[Target[2]].cc,
         k.why = "hub" => k'.pc \in {"reset", "setaddr", "descriptor"}
  PROVE  HubInv'
  <1>1. Here' = Here /\ Target' = Target /\ Working'
    BY HereSame DEF Working, Unnamed, Named
  <1>2. k.pc \in Unnamed \cup Named /\ k'.pc \in Unnamed \cup Named
        /\ (k.why = "probe" => (k'.pc \in Unnamed <=> k.pc \in Unnamed))
    BY WorkingAt DEF Unnamed, Named
  <1>3. /\ EnabledAt(Ext)' = EnabledAt(Ext) /\ \A p : Heard(p)' = Heard(p)
        /\ \A d : Hears(d)' = Hears(d)
    BY DEF EnabledAt, Heard, Hears, Listens, SameTree
  <1>4. Dimmer(port') /\ WireInv'
    <2>1. Dimmer(port')
      BY DEF Dimmer, HubInv, WireInv
    <2> QED
      BY <2>1, DimmerHears, TakingFacts, WorkingAt DEF SameTree
  <1>5. TreeType' /\ TreeInv'
    BY CalmTree
  <1>6. WorkInv'
    BY <1>1, <1>2, WorkingAt DEF WorkInv, SameTree, IsHubAt, PCs, Unnamed, Named
  <1>7. AddrInv'
    <2>1. Known' = Known
      BY <1>1, <1>2, WorkingAt DEF Known, Fresh, SameTree
    <2> QED
      BY <1>4, <2>1, SameKnown
  <1>8. FreshInv'
    BY <1>1, <1>2, WorkingAt DEF FreshInv, HubInv, SameTree, Unnamed, Named
  <1>9. \A h : Target[1] = h \/ (h = k.h /\ k.why = "probe") => OnLine(h)' = OnLine(h)
    <2>1. Target[1] # Root => addr'[Ext] = addr[Ext]
      BY TakingFacts
    <2> QED
      BY <2>1, WorkingAt DEF OnLine, SameTree
  <1>10. CcInv'
    <2> SUFFICES ASSUME NEW p \in Ports, Heard(p)', port'[p].cc
                 PROVE  k'.pc \in {"reset", "wait", "disable"} /\ p = Target[2] /\ OnLine(Target[1])'
      BY <1>1 DEF CcInv
    <2>1. k.pc \in {"reset", "wait", "disable"} /\ p = Target[2] /\ OnLine(Target[1])
      BY <1>3 DEF HubInv, CcInv
    <2>2. k'.pc = "reset"
      BY <2>1 DEF Named
    <2>3. OnLine(Target[1])'
      BY <1>1, <1>9, <2>1
    <2> QED
      BY <2>1, <2>2, <2>3
  <1>11. QuietInv'
    BY <1>2 DEF QuietInv, Unnamed, Named
  <1>12. \A d \in Devices : Worked(d)' <=> Worked(d)
    BY <1>1, <1>9 DEF Worked
  <1>13. WorkedInv'
    <2> SUFFICES ASSUME NEW d \in Devices, Hears(d), Worked(d) PROVE Heeds(d)'
      BY <1>3, <1>12 DEF WorkedInv
    <2>1. Heeds(d) /\ (addr'[d] = addr[d] \/ (k.pc = "setaddr" /\ addr'[d] = child[Target].addr))
      BY TakingFacts DEF HubInv, WorkedInv
    <2>2. 0 \notin devmap
      BY DEF HubInv, TreeType
    <2>3. k'.pc = "descriptor" /\ k.pc = "setaddr" => addr'[d] = child[Target].addr
      <3> SUFFICES ASSUME k'.pc = "descriptor", k.pc = "setaddr" PROVE addr'[d] = child[Target].addr
        OBVIOUS
      <3>1. Taken /\ (addr[d] = 0 => d \in Reached(0))
        BY WorkingAt, BusFacts DEF Named
      <3> QED
        BY <2>1, <3>1 DEF Taken, Heeds
    <2> QED
      BY <1>1, <1>2, <2>1, <2>2, <2>3, WorkingAt DEF Heeds, SameTree, Unnamed, Named
  <1>14. SteadyInv'
    <2> SUFFICES ASSUME NEW d \in Devices, Hears(d), ~Worked(d)
                 PROVE  addr'[d] >= 2 /\ (~Astray(d)' => Held(d)')
      BY <1>3, <1>12 DEF SteadyInv
    <2>1. addr[d] >= 2 /\ (~Astray(d) => Held(d)) /\ addr'[d] = addr[d]
      BY TakingFacts DEF HubInv, SteadyInv
    <2>2. Astray(d)' = Astray(d)
      BY DEF Astray, SameTree
    <2>3. ASSUME NEW pl \in Places, HeldAt(d, pl) PROVE HeldAt(d, pl)'
      <3>1. pl[1] # Root => addr'[Ext] = addr[Ext]
        BY <2>3, TakingFacts, PlaceFacts DEF HeldAt
      <3> QED
        BY <2>1, <2>3, <3>1 DEF HeldAt, OnLine, SameTree
    <2> QED
      BY <2>1, <2>2, <2>3 DEF Held
  <1>15. StrayInv'
    BY <1>1, <1>2 DEF StrayInv, HubInv, SameTree, Unnamed, Named
  <1>16. ErrorInv'
    <2> SUFFICES ASSUME NEW h \in Hubs \ {Root}, hub[h].error, EnabledAt(Ext), ~(k.why = "hub" /\ k.h = h)
                 PROVE  ~OnLine(h)'
      BY <1>2, <1>3 DEF ErrorInv, Unnamed, Named
    <2> QED
      BY ErrorStays DEF OnLine, SameTree
  <1>17. AboveInv'
    BY <1>2, <1>3, <1>9 DEF AboveInv, HubInv, Unnamed, Named
  <1> QED
    BY <1>4, <1>5, <1>6, <1>7, <1>8, <1>10, <1>11, <1>13, <1>14, <1>15, <1>16, <1>17 DEF HubInv

-----------------------------------------------------------------------------
(* The thread lets go of a device.                                         *)

(* Addresses of devices that leave the tree are given back.                *)
LEMMA AddrDrop ==
  ASSUME HubInv, phase = "running", phase' = phase, NEW S \in SUBSET Places,
         Known' = Known \ S, \A q \in Known \ S : child'[q].addr = child[q].addr,
         devmap' = devmap \ AddressesOf(S)
  PROVE  AddrInv' /\ devmap' \subseteq 1 .. MAX_ADDRESS
  <1>1. /\ devmap = {1} \cup AddressesOf(Known)
        /\ \A q \in Known : child[q].addr \in 2 .. MAX_ADDRESS
        /\ \A q, r \in Known : child[q].addr = child[r].addr => q = r
        /\ devmap \subseteq 1 .. MAX_ADDRESS
    BY DEF HubInv, AddrInv, TreeType
  <1>2. \A q \in Known : q \in Places /\ child[q] # None
    BY DEF Known
  <1>3. \A r \in S : child[r] # None => r \in Known \/ child[r].addr \in {0, -1}
    BY DEF Known, Fresh, HubInv, FreshInv
  <1>4. \A q \in Known \ S : child[q].addr \notin AddressesOf(S)
    BY <1>1, <1>3 DEF AddressesOf
  <1>5. 1 \notin AddressesOf(S)
    BY <1>1, <1>3 DEF AddressesOf
  <1>6. devmap' = {1} \cup {child[q].addr : q \in Known \ S}
    <2>1. devmap = {1} \cup {child[q].addr : q \in Known}
      BY <1>1, <1>2 DEF AddressesOf
    <2>2. \A q \in Known \cap S : child[q].addr \in AddressesOf(S)
      BY <1>2 DEF AddressesOf
    <2> QED
      BY <1>4, <1>5, <2>1, <2>2
  <1>7. AddressesOf(Known)' = {child'[q].addr : q \in Known'}
    <2>1. \A q \in Known' : child'[q] # None
      BY DEF Known
    <2> QED
      BY <2>1 DEF AddressesOf
  <1>8. {child'[q].addr : q \in Known'} = {child[q].addr : q \in Known \ S}
    OBVIOUS
  <1>9. AddrInv'
    <2>1. phase' = "running" /\ devmap' = {1} \cup AddressesOf(Known)'
      BY <1>6, <1>7, <1>8
    <2>2. \A q \in Known' : child'[q].addr \in 2 .. MAX_ADDRESS
      BY <1>1
    <2>3. \A q, r \in Known' : child'[q].addr = child'[r].addr => q = r
      BY <1>1
    <2> QED
      BY <2>1, <2>2, <2>3 DEF AddrInv
  <1> QED
    BY <1>1, <1>9

(* A device stays held while its place and its hub keep their addresses.   *)
LEMMA StaysHeld ==
  ASSUME NEW d, NEW pl \in Places, HeldAt(d, pl), plug' = plug, addr'[d] = addr[d],
         child'[pl] = child[pl] \/ (child'[pl] # None /\ child'[pl].addr = child[pl].addr),
         pl[1] # Root => /\ addr'[Ext] = addr[Ext]
                         /\ \/ child'[PlaceOf(pl[1])] = child[PlaceOf(pl[1])]
                            \/ /\ child'[PlaceOf(pl[1])] # None
                               /\ child'[PlaceOf(pl[1])].addr = child[PlaceOf(pl[1])].addr
  PROVE  Held(d)'
  <1>1. HeldAt(d, pl)'
    BY DEF HeldAt, OnLine
  <1> QED
    BY <1>1 DEF Held

(* At rest the thread knows no more than the tree does.                    *)
LEMMA Leaving ==
  ASSUME k'.pc \in {"idle", "status", "power"}
  PROVE  ~Working' /\ FreshInv' /\ QuietInv' /\ WorkedInv' /\ AboveInv'
  <1>1. ~Working' /\ FreshInv' /\ QuietInv' /\ AboveInv'
    BY DEF Working, FreshInv, QuietInv, AboveInv, Unnamed, Named
  <1> QED
    BY <1>1 DEF WorkedInv, Worked

(* The thread goes on with the next port.                                  *)
LEMMA NextWork ==
  ASSUME WorkInv, k.pc # "idle", phase' = phase, k' = NextPort,
         k.h # Root => child'[PlaceOf(k.h)] # None /\ child'[PlaceOf(k.h)].drv = Ext
  PROVE  WorkInv' /\ k'.pc \in {"idle", "status"} /\ k'.why = "probe"
  <1>1. /\ k'.pc \in {"idle", "status"} /\ k'.why = "probe"
        /\ DOMAIN k' = DOMAIN Rest
        /\ k'.pc = "status" => k'.h = k.h /\ k'.i \in 1 .. Len(PortsOf(k'.h))
    BY NextPortFields
  <1>2. phase = "running" /\ k.h \in Hubs
    BY DEF WorkInv
  <1> QED
    BY <1>1, <1>2 DEF WorkInv, PCs, IsHubAt

(* The device is tried once more, or given up; its address is given back.               *)
LEMMA RetryKeeps ==
  ASSUME HubInv, k.why = "probe", k.pc \in Named \cup {"wait"}, Taking, plug' = plug, port' = port,
         UNCHANGED <<phase, next, stray, hub, events>>, devmap' = devmap \ {child[Here].addr},
         \/ /\ k' = [Then("alloc") EXCEPT !.try = k.try + 1] /\ k.pc \in Named
            /\ child' = [child EXCEPT ![Here].addr = -1]
         \/ /\ k' = Then("disable")
            /\ child' = [child EXCEPT ![Here] = None]
  PROVE  HubInv'
  <1>1. Working
    BY DEF Working, Unnamed
  <1>2. /\ phase = "running" /\ k.pc # "idle" /\ WireInv /\ WorkInv
        /\ Here \in Places /\ Here[1] = k.h /\ Here[2] \in Ports /\ Target = Here /\ k.h \in Hubs
    BY <1>1, WorkingAt
  <1>3. /\ k'.pc \in {"alloc", "disable"} /\ k'.h = k.h /\ k'.i = k.i /\ k'.why = "probe"
        /\ DOMAIN k' = DOMAIN Rest /\ (k'.pc = "alloc" => k.pc \in Named)
    BY ThenFields, RestFields
  <1>4. Here' = Here /\ Target' = Here
    BY <1>2, <1>3, HereSame
  <1>5. child[Here] # None /\ child[Here].drv = None /\ child[Here] \in UsbDevs
    BY <1>1, <1>2 DEF HubInv, FreshInv, TreeType, Unnamed
  <1>6. /\ child' \in [Places -> {None} \cup UsbDevs]
        /\ k'.pc = "alloc" => child'[Here] # None /\ child'[Here].addr = -1 /\ child'[Here].drv = None
        /\ k'.pc = "disable" => child'[Here] = None
        /\ \A q \in Places : q # Here => child'[q] = child[q]
    <2>1. [child[Here] EXCEPT !.addr = -1] \in UsbDevs
      BY <1>5 DEF UsbDevs
    <2>2. [child[Here] EXCEPT !.addr = -1].addr = -1 /\ [child[Here] EXCEPT !.addr = -1].drv = None
      BY <1>5 DEF UsbDevs
    <2>3. \/ k'.pc = "alloc" /\ child' = [child EXCEPT ![Here] = [child[Here] EXCEPT !.addr = -1]]
          \/ k'.pc = "disable" /\ child' = [child EXCEPT ![Here] = None]
      <3>1. [Then("alloc") EXCEPT !.try = k.try + 1].pc = "alloc" /\ Then("disable").pc = "disable"
        BY ThenFields, RestFields
      <3>2. [child EXCEPT ![Here].addr = -1] = [child EXCEPT ![Here] = [child[Here] EXCEPT !.addr = -1]]
        OBVIOUS
      <3> QED
        BY <3>1, <3>2
    <2>4. None \notin UsbDevs
      BY HubAssumption DEF UsbDevs
    <2> QED
      BY <1>2, <2>1, <2>2, <2>3, <2>4 DEF HubInv, TreeType
  <1>7. \A q \in Places : IsHubAt(q)' <=> IsHubAt(q)
    <2>1. None # Ext
      BY HubAssumption, PlaceFacts
    <2> QED
      BY <1>3, <1>5, <1>6, <2>1 DEF IsHubAt
  <1>8. \A h \in Hubs \ {Root} : IsHubAt(PlaceOf(h))' <=> IsHubAt(PlaceOf(h))
    BY <1>7, PlaceFacts
  <1>9. WorkInv' /\ Working'
    BY <1>2, <1>3, <1>8 DEF WorkInv, PCs, Working, Unnamed
  <1>10. AddrInv' /\ devmap' \subseteq 1 .. MAX_ADDRESS
    <2>1. Known' = Known \ {Here}
      <3>1. \A q : Fresh(q)' <=> q = Here
        BY <1>3, <1>4 DEF Fresh, Unnamed
      <3>2. \A q \in Places : Fresh(q) => q = Here
        BY DEF Fresh
      <3> QED
        BY <1>6, <3>1, <3>2 DEF Known
    <2>2. AddressesOf({Here}) = {child[Here].addr}
      BY <1>5 DEF AddressesOf
    <2>3. \A q \in Known \ {Here} : child'[q].addr = child[q].addr
      BY <1>6 DEF Known
    <2> QED
      BY <1>2, <2>1, <2>2, <2>3, AddrDrop
  <1>11. TreeType' /\ TreeInv'
    BY <1>6, <1>7, <1>8, <1>10 DEF TreeType, TreeInv, HubInv
  <1>12. /\ EnabledAt(Ext)' = EnabledAt(Ext) /\ \A p : Heard(p)' = Heard(p)
         /\ \A d : Hears(d)' = Hears(d)
    BY DEF EnabledAt, Heard, Hears, Listens
  <1>13. WireInv'
    <2>1. Dimmer(port')
      BY <1>2 DEF Dimmer, WireInv
    <2> QED
      BY <1>1, <1>2, <2>1, DimmerHears, TakingFacts
  <1>14. FreshInv' /\ QuietInv' /\ AboveInv'
    BY <1>3, <1>4, <1>6 DEF FreshInv, QuietInv, AboveInv, Named
  <1>21. OnLine(k.h)' <=> OnLine(k.h)
    <2>1. k.h # Root => PlaceOf(k.h) \in Places /\ PlaceOf(k.h) # Here
      BY <1>2, PlaceFacts
    <2> QED
      BY <1>1, <1>2, <1>3, <1>6, <2>1, TakingFacts DEF OnLine
  <1>16. \A d \in Devices : Worked(d)' <=> Worked(d)
    <2>3. OnLine(Target[1])' <=> OnLine(k.h)
      BY <1>2, <1>3, <1>4, <1>21
    <2> QED
      BY <1>1, <1>2, <1>4, <1>9, <2>3 DEF Worked
  <1>15. CcInv'
    <2> SUFFICES ASSUME NEW p \in Ports, Heard(p), port[p].cc
                 PROVE  k'.pc = "disable" /\ p = Here[2] /\ OnLine(k.h)'
      BY <1>2, <1>3, <1>4, <1>12 DEF CcInv
    <2>1. k.pc = "wait" /\ p = Here[2] /\ OnLine(k.h)
      BY <1>2 DEF HubInv, CcInv, Named
    <2> QED
      BY <1>3, <1>21, <2>1 DEF Named
  <1>17. WorkedInv'
    <2> SUFFICES ASSUME NEW d \in Devices, Hears(d), Worked(d) PROVE Heeds(d)'
      BY <1>12, <1>16 DEF WorkedInv
    <2>1. Heeds(d) /\ (addr'[d] = addr[d] \/ (k.pc = "setaddr" /\ addr'[d] = child[Target].addr))
      BY <1>1, TakingFacts DEF HubInv, WorkedInv
    <2>2. 0 \notin devmap
      BY DEF HubInv, TreeType
    <2>3. addr'[d] = 0 \/ addr'[d] = child[Here].addr
      BY <1>2, <2>1 DEF Heeds
    <2>4. addr'[d] \notin devmap'
      BY <2>2, <2>3
    <2> QED
      BY <1>3, <2>1, <2>4 DEF Heeds, Named
  <1>18. SteadyInv'
    <2> SUFFICES ASSUME NEW d \in Devices, Hears(d), ~Worked(d)
                 PROVE  addr'[d] >= 2 /\ (~Astray(d)' => Held(d)')
      BY <1>12, <1>16 DEF SteadyInv
    <2>2. addr[d] >= 2 /\ (~Astray(d) => Held(d)) /\ addr'[d] = addr[d]
      BY <1>1, TakingFacts DEF HubInv, SteadyInv
    <2>3. Astray(d)' = Astray(d)
      BY DEF Astray
    <2>4. ASSUME ~Astray(d), NEW pl \in Places, HeldAt(d, pl) PROVE Held(d)'
      <3>1. pl # Here /\ (pl[1] # Root => PlaceOf(pl[1]) # Here)
        BY <1>1, <1>2, <2>4, HeldElsewhere
      <3>2. child'[pl] = child[pl] /\ (pl[1] # Root => child'[PlaceOf(pl[1])] = child[PlaceOf(pl[1])])
        BY <1>6, <3>1, PlaceFacts
      <3>3. pl[1] # Root => addr'[Ext] = addr[Ext]
        BY <1>1, <2>4, TakingFacts, PlaceFacts DEF HeldAt
      <3> QED
        BY <2>2, <2>4, <3>2, <3>3, StaysHeld
    <2> QED
      BY <2>2, <2>3, <2>4 DEF Held
  <1>19. StrayInv'
    <2> SUFFICES ASSUME NEW p \in stray \cap Range(RootPorts)
                 PROVE  /\ child'[PlaceOf(p)] = None /\ ~port[p].cc
                        /\ \E d \in Devices : plug[d] = p
                        /\ k.h = Root => Here[2] # p
      BY <1>3, <1>4 DEF StrayInv
    <2>1. p \in Ports /\ PlaceOf(p) \in Places
      BY PlaceFacts, HubAssumption DEF Ports, Hubs
    <2> QED
      BY <1>5, <1>6, <2>1 DEF HubInv, StrayInv, Named
  <1>20. ErrorInv'
    <2> SUFFICES ASSUME NEW h \in Hubs \ {Root}, hub[h].error, EnabledAt(Ext)
                 PROVE  ~OnLine(h)'
      BY <1>12 DEF ErrorInv
    <2>1. addr'[Ext] # child[PlaceOf(h)].addr
      BY <1>1, ErrorStays
    <2>2. child'[PlaceOf(h)] = child[PlaceOf(h)]
      <3>1. IsHubAt(PlaceOf(h)) /\ PlaceOf(h) \in Places
        BY PlaceFacts DEF HubInv, TreeInv
      <3>2. None # Ext
        BY HubAssumption, PlaceFacts
      <3> QED
        BY <1>5, <1>6, <3>1, <3>2 DEF IsHubAt
    <2> QED
      BY <2>1, <2>2 DEF OnLine
  <1> QED
    BY <1>9, <1>10, <1>11, <1>13, <1>14, <1>15, <1>17, <1>18, <1>19, <1>20 DEF HubInv

(* usb_disconnect() of a place.                                            *)
LEMMA DisconnectFacts ==
  ASSUME HubInv, NEW pl \in Places, usb_disconnect(pl)
  PROVE  /\ Removed(pl) \subseteq Places /\ pl \in Removed(pl)
         /\ \A q \in Removed(pl) : q = pl \/ (IsHubAt(pl) /\ pl[1] = Root /\ q[1] = pl[2])
         /\ \A h \in Hubs \ {Root} : PlaceOf(h) \in Removed(pl) => PlaceOf(h) = pl /\ h = pl[2]
         /\ child' \in [Places -> {None} \cup UsbDevs]
         /\ \A q \in Places : child'[q] = IF q \in Removed(pl) THEN None ELSE child[q]
         /\ devmap' = devmap \ AddressesOf(Removed(pl))
         /\ hub' \in [Hubs -> [bound : BOOLEAN, urb : BOOLEAN, error : BOOLEAN]]
         /\ \A h \in Hubs : hub'[h] = hub[h] \/ (h = pl[2] /\ hub'[h] = NoHub)
         /\ IsHubAt(pl) => ~hub'[pl[2]].error
         /\ events' \in Seq(Hubs)
         /\ \A i, j \in DOMAIN events' : events'[i] = events'[j] => i = j
         /\ TreeInv'
  <1>1. /\ child' = [q \in Places |-> IF q \in Removed(pl) THEN None ELSE child[q]]
        /\ devmap' = devmap \ AddressesOf(Removed(pl))
        /\ IsHubAt(pl) => hub' = [hub EXCEPT ![pl[2]] = NoHub] /\ events' = list_del(pl[2])
        /\ ~IsHubAt(pl) => hub' = hub /\ events' = events
    BY DEF usb_disconnect, hub_disconnect
  <1>2. TreeType /\ TreeInv
    BY DEF HubInv
  <1>3. IsHubAt(pl) => pl[1] = Root /\ pl[2] \in Hubs \ {Root} /\ pl = PlaceOf(pl[2])
    BY <1>2, PlaceFacts DEF TreeInv
  <1>4. /\ Removed(pl) \subseteq Places /\ pl \in Removed(pl)
        /\ \A q \in Removed(pl) : q = pl \/ (IsHubAt(pl) /\ pl[1] = Root /\ q[1] = pl[2])
    BY <1>3 DEF Removed, PlacesBelow
  <1>5. \A h \in Hubs \ {Root} : PlaceOf(h) \in Removed(pl) => PlaceOf(h) = pl /\ h = pl[2]
    BY <1>3, <1>4, PlaceFacts
  <1>6. child' \in [Places -> {None} \cup UsbDevs]
    BY <1>1, <1>2 DEF TreeType
  <1>7. NoHub \in [bound : BOOLEAN, urb : BOOLEAN, error : BOOLEAN] /\ ~NoHub.error /\ ~NoHub.bound
    BY DEF NoHub
  <1>8. /\ hub' \in [Hubs -> [bound : BOOLEAN, urb : BOOLEAN, error : BOOLEAN]]
        /\ \A h \in Hubs : hub'[h] = hub[h] \/ (h = pl[2] /\ hub'[h] = NoHub)
        /\ IsHubAt(pl) => hub'[pl[2]] = NoHub
        /\ ~IsHubAt(pl) => hub' = hub
        /\ hub'[Root] = hub[Root]
    <2>1. hub \in [Hubs -> [bound : BOOLEAN, urb : BOOLEAN, error : BOOLEAN]] /\ Root \in Hubs
      BY <1>2 DEF TreeType, Hubs
    <2> QED
      BY <1>1, <1>3, <1>7, <2>1
  <1>9. /\ events' \in Seq(Hubs)
        /\ \A i, j \in DOMAIN events' : events'[i] = events'[j] => i = j
        /\ Range(events') \subseteq Range(events)
        /\ IsHubAt(pl) => pl[2] \notin Range(events')
    BY <1>1, <1>2, DelFacts DEF TreeType
  <1>10. TreeInv'
    <2>1. \A q \in Places : IsHubAt(q)' <=> IsHubAt(q) /\ q \notin Removed(pl)
      BY <1>1 DEF IsHubAt
    <2>2. ASSUME NEW h \in Hubs \ {Root}, hub'[h].bound PROVE IsHubAt(PlaceOf(h))'
      <3>1. hub[h].bound /\ ~(IsHubAt(pl) /\ h = pl[2])
        BY <1>7, <1>8, <2>2
      <3>2. IsHubAt(PlaceOf(h)) /\ PlaceOf(h) \in Places
        BY <1>2, <3>1, PlaceFacts DEF TreeInv
      <3>3. PlaceOf(h) \notin Removed(pl)
        BY <1>5, <3>1, <3>2
      <3> QED
        BY <2>1, <3>2, <3>3
    <2>3. ASSUME NEW h \in Hubs \ {Root}, hub'[h].error \/ h \in Range(events') PROVE hub'[h].bound
      <3>1. ~(IsHubAt(pl) /\ h = pl[2])
        BY <1>7, <1>8, <1>9, <2>3
      <3>2. hub'[h] = hub[h]
        BY <1>8, <3>1
      <3> QED
        BY <1>2, <1>9, <2>3, <3>2 DEF TreeInv
    <2>4. ~hub'[Root].error
      BY <1>2, <1>8 DEF TreeInv
    <2>5. \A q \in Places : IsHubAt(q)' => q[1] = Root
      BY <1>2, <2>1 DEF TreeInv
    <2> QED
      BY <2>2, <2>3, <2>4, <2>5 DEF TreeInv
  <1> QED
    BY <1>1, <1>4, <1>5, <1>6, <1>7, <1>8, <1>9, <1>10

(* A hub that does not come back takes with it what was below it.  When it *)
(* was heard last its port stays on and it goes astray.                    *)
LEMMA LostKeeps ==
  ASSUME HubInv, Working, k.why = "hub", Taking, plug' = plug,
         UNCHANGED <<phase, next>>, usb_disconnect(PlaceOf(k.h)), k' = Rest, Calmer(port'),
         stray \subseteq stray', stray' \subseteq stray \cup {k.h},
         \A d \in Devices : Hears(d)' /\ plug[d] = k.h => k.h \in stray' /\ addr'[d] >= 2,
         port'[k.h].en => ~port'[k.h].cc,
         k.h \in stray' => ~port'[k.h].cc /\ \E d \in Devices : plug[d] = k.h
  PROVE  HubInv'
  <1> DEFINE S == Removed(PlaceOf(k.h))
  <1>1. /\ phase = "running" /\ k.pc # "idle" /\ WireInv /\ WorkInv /\ k.h \in Hubs \ {Root}
        /\ Target \in Places /\ Target = PlaceOf(k.h) /\ Target[1] = Root /\ Target[2] = k.h
        /\ IsHubAt(PlaceOf(k.h)) /\ k.h \in Ports
    BY WorkingAt DEF WorkInv
  <1>2. /\ S \subseteq Places /\ PlaceOf(k.h) \in S
        /\ \A q \in S : q = Target \/ q[1] = k.h
        /\ \A h \in Hubs \ {Root} : PlaceOf(h) \in S => h = k.h
        /\ child' \in [Places -> {None} \cup UsbDevs]
        /\ \A q \in Places : child'[q] = IF q \in S THEN None ELSE child[q]
        /\ devmap' = devmap \ AddressesOf(S)
        /\ hub' \in [Hubs -> [bound : BOOLEAN, urb : BOOLEAN, error : BOOLEAN]]
        /\ \A h \in Hubs : hub'[h] = hub[h] \/ (h = k.h /\ hub'[h] = NoHub)
        /\ ~hub'[k.h].error
        /\ events' \in Seq(Hubs)
        /\ \A i, j \in DOMAIN events' : events'[i] = events'[j] => i = j
        /\ TreeInv'
    BY <1>1, DisconnectFacts
  <1> HIDE DEF S
  <1>3. /\ \A d \in Devices : Hears(d)' => Hears(d)
        /\ \A p \in Ports : Heard(p)' => Heard(p)
        /\ EnabledAt(Ext)' => EnabledAt(Ext)
        /\ WireInv'
    BY <1>1, CalmerDims, DimmerHears, TakingFacts
  <1>4. k'.pc = "idle" /\ k'.why = "probe" /\ DOMAIN k' = DOMAIN Rest
    BY RestFields
  <1>5. WorkInv'
    BY <1>4 DEF WorkInv, PCs
  <1>6. ~Working' /\ FreshInv' /\ QuietInv' /\ WorkedInv' /\ AboveInv'
    BY <1>4, Leaving
  <1>7. AddrInv' /\ devmap' \subseteq 1 .. MAX_ADDRESS
    <2>1. Known' = Known \ S
      <3>1. \A q : ~Fresh(q) /\ ~Fresh(q)'
        BY <1>4 DEF Fresh, Unnamed
      <3>2. Known = {q \in Places : child[q] # None} /\ Known' = {q \in Places : child'[q] # None}
        BY <3>1 DEF Known
      <3> QED
        BY <1>2, <3>2
    <2>2. \A q \in Known \ S : child'[q].addr = child[q].addr
      BY <1>2 DEF Known
    <2> QED
      BY <1>1, <1>2, <2>1, <2>2, AddrDrop
  <1>8. stray' \subseteq Ports
    BY <1>1 DEF HubInv, TreeType
  <1>9. TreeType'
    BY <1>2, <1>7, <1>8 DEF TreeType, HubInv
  <1>10. \A d \in Devices : Worked(d) <=> plug[d] = k.h
    BY <1>1 DEF Worked, OnLine
  <1>11. CcInv'
    <2> SUFFICES ASSUME NEW p \in Ports, Heard(p)', port'[p].cc PROVE FALSE
      BY DEF CcInv
    <2>1. Heard(p) /\ port[p].cc /\ port'[p].en
      BY <1>3 DEF Calmer, Heard
    <2>2. p = k.h
      BY <1>1, <2>1 DEF HubInv, CcInv
    <2> QED
      BY <2>1, <2>2
  <1>12. SteadyInv'
    <2> SUFFICES ASSUME NEW d \in Devices, Hears(d)'
                 PROVE  addr'[d] >= 2 /\ (~Astray(d)' => Held(d)')
      BY DEF SteadyInv
    <2>1. CASE plug[d] = k.h
      BY <2>1 DEF Astray
    <2>2. CASE plug[d] # k.h
      <3>1. Hears(d) /\ ~Worked(d)
        BY <1>3, <1>10, <2>2
      <3>2. addr[d] >= 2 /\ (~Astray(d) => Held(d)) /\ addr'[d] = addr[d]
        BY <3>1, TakingFacts DEF HubInv, SteadyInv
      <3>3. Astray(d) => Astray(d)'
        BY DEF Astray
      <3>4. ASSUME ~Astray(d), NEW pl \in Places, HeldAt(d, pl) PROVE Held(d)'
        <4>1. pl # Target /\ (pl[1] # Root => PlaceOf(pl[1]) # Target)
          BY <3>1, <3>4, HeldElsewhere
        <4>2. pl \notin S
          BY <1>1, <1>2, <4>1
        <4>3. pl[1] # Root => PlaceOf(pl[1]) \notin S /\ PlaceOf(pl[1]) \in Places
          BY <1>1, <1>2, <4>1, PlaceFacts
        <4>4. child'[pl] = child[pl] /\ (pl[1] # Root => child'[PlaceOf(pl[1])] = child[PlaceOf(pl[1])])
          BY <1>2, <4>2, <4>3
        <4>5. pl[1] # Root => addr'[Ext] = addr[Ext]
          BY <3>1, <3>4, TakingFacts, PlaceFacts DEF HeldAt
        <4> QED
          BY <3>2, <3>4, <4>4, <4>5, StaysHeld
      <3> QED
        BY <3>2, <3>3, <3>4 DEF Held
    <2> QED
      BY <2>1, <2>2
  <1>13. StrayInv'
    <2> SUFFICES ASSUME NEW p \in stray' \cap Range(RootPorts)
                 PROVE  /\ child'[PlaceOf(p)] = None /\ ~port'[p].cc
                        /\ \E d \in Devices : plug[d] = p
      BY <1>4 DEF StrayInv
    <2>1. p \in Ports /\ PlaceOf(p) \in Places
      BY PlaceFacts, HubAssumption DEF Ports, Hubs
    <2>2. CASE p \in stray
      BY <1>2, <2>1, <2>2 DEF HubInv, StrayInv, Calmer
    <2>3. CASE p = k.h
      BY <1>2, <2>1, <2>3
    <2> QED
      BY <2>2, <2>3
  <1>14. ErrorInv'
    <2> SUFFICES ASSUME NEW h \in Hubs \ {Root}, hub'[h].error, EnabledAt(Ext)'
                 PROVE  ~OnLine(h)'
      BY DEF ErrorInv
    <2>1. h # k.h /\ hub[h].error
      BY <1>2
    <2>2. addr'[Ext] # child[PlaceOf(h)].addr
      BY <1>1, <1>3, <2>1, ErrorStays
    <2>3. child'[PlaceOf(h)] = child[PlaceOf(h)]
      BY <1>2, <2>1, PlaceFacts
    <2> QED
      BY <2>2, <2>3 DEF OnLine
  <1> QED
    BY <1>2, <1>3, <1>5, <1>6, <1>7, <1>9, <1>11, <1>12, <1>13, <1>14 DEF HubInv

(* The device is heard at its address and is left to the tree.             *)
LEMMA KeptKeeps ==
  ASSUME HubInv, k.pc \in Named \ {"setaddr"}, SameWires, port' = port,
         UNCHANGED <<phase, devmap, next, stray>>,
         \A q \in Places : q # Target => child'[q] = child[q],
         child'[Target] # None, child'[Target].addr = child[Target].addr,
         k'.pc \in {"idle", "status"} \/ (k'.pc = "power" /\ k'.h = k.h /\ k'.i = k.i)
  PROVE  /\ WireInv' /\ AddrInv' /\ FreshInv' /\ CcInv' /\ QuietInv' /\ WorkedInv' /\ SteadyInv'
         /\ StrayInv' /\ AboveInv'
         /\ EnabledAt(Ext)' = EnabledAt(Ext) /\ \A h : OnLine(h)' = OnLine(h) \/ h \notin Hubs
  <1>1. Working
    BY DEF Working
  <1>2. /\ phase = "running" /\ k.pc # "idle" /\ WireInv /\ WorkInv
        /\ Here \in Places /\ Here[1] = k.h /\ Here[2] \in Ports /\ k.h \in Hubs
        /\ Target \in Places /\ Target[1] \in Hubs /\ Target[2] \in Ports
        /\ Target = Here \/ (Target[1] = Root /\ Target[2] = k.h)
    BY <1>1, WorkingAt
  <1>3. Target \in Known /\ child[Target].addr \in 2 .. MAX_ADDRESS
    BY <1>1, TargetKnown
  <1>4. \A q \in Places : /\ child'[q].addr = child[q].addr
                          /\ child'[q] # None <=> child[q] # None
    BY <1>3 DEF Known
  <1>5. ~Working' /\ FreshInv' /\ QuietInv' /\ WorkedInv' /\ AboveInv'
    BY Leaving
  <1>6. WireInv'
    BY <1>2 DEF WireInv, SameWires
  <1>7. AddrInv'
    <2>1. Known' = Known
      BY <1>4 DEF Known, Fresh, Named, Unnamed
    <2>2. AddressesOf(Known)' = AddressesOf(Known)
      <3>1. AddressesOf(Known) = {child[q].addr : q \in Known}
        BY DEF AddressesOf, Known
      <3>2. AddressesOf(Known)' = {child'[q].addr : q \in Known'}
        <4>1. \A q \in Known' : child'[q] # None
          BY DEF Known
        <4> QED
          BY <4>1 DEF AddressesOf
      <3>3. \A q \in Known : child'[q].addr = child[q].addr
        BY <1>4 DEF Known
      <3> QED
        BY <2>1, <3>1, <3>2, <3>3
    <2>3. \A q \in Known : child'[q].addr = child[q].addr
      BY <1>4 DEF Known
    <2>4. AddrInv /\ phase = "running"
      BY <1>2 DEF HubInv
    <2> QED
      BY <2>1, <2>2, <2>3, <2>4 DEF AddrInv
  <1>8. /\ EnabledAt(Ext)' = EnabledAt(Ext) /\ \A p : Heard(p)' = Heard(p)
        /\ \A d : Hears(d)' = Hears(d)
    BY DEF EnabledAt, Heard, Hears, Listens, SameWires
  <1>9. \A h : OnLine(h)' = OnLine(h) \/ h \notin Hubs
    BY <1>4, PlaceFacts DEF OnLine, SameWires
  <1>10. CcInv'
    BY <1>8 DEF CcInv, HubInv, Named
  <1>11. SteadyInv'
    <2> SUFFICES ASSUME NEW d \in Devices, Hears(d)
                 PROVE  addr'[d] >= 2 /\ (~Astray(d)' => Held(d)')
      BY <1>8 DEF SteadyInv
    <2>1. ASSUME NEW pl \in Places, HeldAt(d, pl) PROVE Held(d)'
      <3>1. child'[pl] = child[pl] \/ (child'[pl] # None /\ child'[pl].addr = child[pl].addr)
        BY <1>4, <2>1 DEF HeldAt
      <3>2. pl[1] # Root => /\ child'[PlaceOf(pl[1])].addr = child[PlaceOf(pl[1])].addr
                            /\ child'[PlaceOf(pl[1])] # None
        BY <1>4, <2>1, PlaceFacts DEF HeldAt
      <3> QED
        BY <2>1, <3>1, <3>2, StaysHeld DEF SameWires
    <2>2. CASE ~Worked(d)
      <3>1. addr[d] >= 2 /\ (~Astray(d) => Held(d))
        BY <2>2 DEF HubInv, SteadyInv
      <3>2. Astray(d)' = Astray(d)
        BY DEF Astray, SameWires
      <3> QED
        BY <2>1, <3>1, <3>2 DEF Held, SameWires
    <2>3. CASE Worked(d)
      <3>1. addr[d] = child[Target].addr /\ plug[d] = Target[2] /\ OnLine(Target[1])
        BY <2>3 DEF HubInv, WorkedInv, Heeds, Worked
      <3>2. Target[1] # Root => child[PlaceOf(Target[1])] # None
        BY <1>2 DEF WorkInv, IsHubAt
      <3>3. child[Target] # None
        BY <1>3 DEF Known
      <3>4. HeldAt(d, Target)
        BY <3>1, <3>2, <3>3 DEF HeldAt
      <3>5. addr[d] >= 2
        BY <1>3, <3>1, AddressAssumption
      <3> QED
        BY <1>2, <2>1, <3>4, <3>5 DEF SameWires
    <2> QED
      BY <2>2, <2>3
  <1>12. StrayInv'
    <2> SUFFICES ASSUME NEW p \in stray \cap Range(RootPorts)
                 PROVE  /\ child'[PlaceOf(p)] = None /\ ~port[p].cc
                        /\ \E d \in Devices : plug[d] = p
                        /\ k'.h = Root /\ k'.pc = "power" => Here'[2] # p
      BY DEF StrayInv, SameWires
    <2>1. PlaceOf(p) \in Places
      BY PlaceFacts, HubAssumption DEF Hubs
    <2>2. k'.pc = "power" => Here' = Here /\ k'.h = k.h
      BY HereSame
    <2> QED
      BY <1>2, <1>4, <2>1, <2>2 DEF HubInv, StrayInv, Named
  <1> QED
    BY <1>5, <1>6, <1>7, <1>8, <1>9, <1>10, <1>11, <1>12

-----------------------------------------------------------------------------
(* The stages of bringing a device up.                                     *)

(* usb_new_device() failed: another try, or the last one.                  *)
LEMMA FailsKeeps ==
  ASSUME HubInv, k.why = "probe", k.pc \in Named, Taking, plug' = plug,
         UNCHANGED <<phase, next, stray>>, NewDeviceFails
  PROVE  HubInv'
  <1>1. devmap' = devmap \ {child[Here].addr} /\ hub' = hub /\ events' = events /\ port' = port
    BY DEF NewDeviceFails, Freed
  <1>2. CASE k.try < PROBE_TRIES
    BY <1>1, <1>2, RetryKeeps DEF NewDeviceFails
  <1>3. CASE ~(k.try < PROBE_TRIES)
    BY <1>1, <1>3, RetryKeeps DEF NewDeviceFails, NoDevice
  <1> QED
    BY <1>2, <1>3

(* hub_reset() failed and the port of the hub is turned off.               *)
LEMMA HubOffKeeps ==
  ASSUME HubInv, Working, k.why = "hub", Taking, plug' = plug,
         UNCHANGED <<phase, next, stray>>, HubOff
  PROVE  HubInv'
  <1>1. /\ WireInv /\ WorkInv /\ Target \in Places /\ Target[1] = Root /\ Target[2] = k.h
        /\ IsHubAt(PlaceOf(k.h)) /\ k.h \in Ports
    BY WorkingAt DEF WorkInv
  <1>2. Calmer(port') /\ ~port'[k.h].en
    BY <1>1, ClearedFacts DEF HubOff
  <1>3. \A d \in Devices : ~(Hears(d)' /\ plug[d] = k.h)
    BY <1>2 DEF Hears, Listens, EnabledAt
  <1>4. k.h \notin stray
    BY <1>1, PlaceFacts DEF HubInv, StrayInv, IsHubAt, OnRoot
  <1>5. usb_disconnect(PlaceOf(k.h)) /\ k' = Rest
    BY DEF HubOff, HubLost
  <1> QED
    BY <1>2, <1>3, <1>4, <1>5, LostKeeps

(* A jump changes nothing but the place in the code.                       *)
LEMMA GotoFields ==
  ASSUME WorkInv, NEW pc
  PROVE  /\ Goto(pc).pc = pc /\ Goto(pc).h = k.h /\ Goto(pc).i = k.i /\ Goto(pc).why = k.why
         /\ DOMAIN Goto(pc) = DOMAIN k
  BY Fields DEF Goto

(* SET_ADDRESS is taken or not, and heard or not.                          *)
LEMMA SetAddressKeeps == HubInv /\ SetAddress => HubInv'
  <1> SUFFICES ASSUME HubInv, SetAddress PROVE HubInv'
    OBVIOUS
  <1>1. /\ k.pc = "setaddr" /\ phase' = phase /\ plug' = plug /\ next' = next /\ stray' = stray
    BY DEF SetAddress, At
  <1>2. k.pc \in Named /\ Working /\ WorkInv /\ k.why \in {"probe", "hub"}
    BY <1>1, WorkingAt DEF Working, Named, HubInv
  <1>3. CASE /\ Taken
             /\ k' = Goto("descriptor")
             /\ UNCHANGED <<child, devmap, port, hub, events, lost>>
    <2>1. Taking /\ Taken
      BY <1>1, <1>3 DEF Taking
    <2>2. /\ k'.pc = "descriptor" /\ k'.h = k.h /\ k'.i = k.i /\ k'.why = k.why
          /\ DOMAIN k' = DOMAIN k
      BY <1>2, <1>3, GotoFields
    <2> QED
      BY <1>1, <1>2, <1>3, <2>1, <2>2, OnwardKeeps DEF SameTree
  <1>4. CASE /\ \/ Reached(0) = {} /\ UNCHANGED <<faults, addr>>
                \/ Reached(0) # {} /\ Dropped /\ (Taken \/ UNCHANGED addr)
             /\ IF k.why = "hub" THEN HubOff
                ELSE IF k.a < SET_ADDRESS_RETRYS
                THEN /\ k' = [k EXCEPT !.a = @ + 1]
                     /\ UNCHANGED <<child, devmap, port, hub, events, lost>>
                ELSE NewDeviceFails
    <2>1. Taking
      BY <1>1, <1>4 DEF Taking
    <2>2. CASE k.why = "hub"
      BY <1>1, <1>2, <1>4, <2>1, <2>2, HubOffKeeps
    <2>3. CASE k.why # "hub" /\ k.a < SET_ADDRESS_RETRYS
      <3>1. k' = [k EXCEPT !.a = @ + 1] /\ UNCHANGED <<child, devmap, port, hub, events, lost>>
        BY <1>4, <2>3
      <3>2. /\ k'.pc = "setaddr" /\ k'.h = k.h /\ k'.i = k.i /\ k'.why = k.why
            /\ DOMAIN k' = DOMAIN k
        BY <1>1, <1>2, <3>1, Fields
      <3> QED
        BY <1>1, <1>2, <2>1, <2>3, <3>1, <3>2, OnwardKeeps DEF SameTree
    <2>4. CASE k.why # "hub" /\ ~(k.a < SET_ADDRESS_RETRYS)
      BY <1>1, <1>2, <1>4, <2>1, <2>4, FailsKeeps
    <2> QED
      BY <2>2, <2>3, <2>4
  <1> QED
    BY <1>3, <1>4 DEF SetAddress

(* The first bytes of the descriptor show that the address was taken.      *)
LEMMA DescriptorKeeps == HubInv /\ Descriptor => HubInv'
  <1> SUFFICES ASSUME HubInv, Descriptor PROVE HubInv'
    OBVIOUS
  <1>1. /\ k.pc = "descriptor" /\ k.why = "probe" /\ phase' = phase /\ plug' = plug /\ addr' = addr
        /\ next' = next /\ stray' = stray
    BY DEF Descriptor, At
  <1>2. k.pc \in Named /\ Working /\ WorkInv /\ Taking
    BY <1>1 DEF Working, Named, HubInv, Taking
  <1>3. CASE k' = Goto("device") /\ UNCHANGED <<child, devmap, port, hub, events, lost>>
    <2>1. /\ k'.pc = "device" /\ k'.h = k.h /\ k'.i = k.i /\ k'.why = k.why
          /\ DOMAIN k' = DOMAIN k
      BY <1>2, <1>3, GotoFields
    <2> QED
      BY <1>1, <1>2, <1>3, <2>1, OnwardKeeps DEF SameTree, Named
  <1>4. CASE /\ k' = [k EXCEPT !.pc = "setaddr", !.n = @ + 1, !.a = 1]
             /\ UNCHANGED <<child, devmap, port, hub, events, lost>>
    <2>1. /\ k'.pc = "setaddr" /\ k'.h = k.h /\ k'.i = k.i /\ k'.why = k.why
          /\ DOMAIN k' = DOMAIN k
      BY <1>2, <1>4, Fields
    <2> QED
      BY <1>1, <1>2, <1>4, <2>1, OnwardKeeps DEF SameTree, Named
  <1>5. CASE NewDeviceFails
    BY <1>1, <1>2, <1>5, FailsKeeps
  <1> QED
    BY <1>3, <1>4, <1>5 DEF Descriptor

(* The stages of usb_new_device() behind it.                               *)
LEMMA StageKeeps ==
  ASSUME HubInv, NEW here \in Named \ {"setaddr", "descriptor", "bind"},
         NEW then \in Named \ {"setaddr"}, Stage(here, then)
  PROVE  HubInv'
  <1>1. /\ k.pc = here /\ phase' = phase /\ plug' = plug /\ addr' = addr
        /\ next' = next /\ stray' = stray
    BY DEF Stage, At
  <1>2. k.pc \in Named \ {"setaddr"} /\ Working /\ WorkInv /\ Taking
    BY <1>1 DEF Working, Named, HubInv, Taking
  <1>3. k.why = "probe"
    BY <1>1, <1>2 DEF WorkInv, Named
  <1>4. CASE k' = Goto(then) /\ UNCHANGED <<child, devmap, port, hub, events, lost>>
    <2>1. /\ k'.pc = then /\ k'.h = k.h /\ k'.i = k.i /\ k'.why = k.why
          /\ DOMAIN k' = DOMAIN k
      BY <1>2, <1>4, GotoFields
    <2> QED
      BY <1>1, <1>2, <1>3, <1>4, <2>1, OnwardKeeps DEF SameTree
  <1>5. CASE NewDeviceFails
    BY <1>1, <1>2, <1>3, <1>5, FailsKeeps
  <1> QED
    BY <1>4, <1>5 DEF Stage

(* The drivers are asked.                                                  *)
LEMMA BoundAt ==
  ASSUME HubInv, k.pc = "bind"
  PROVE  /\ k.why = "probe" /\ Target = Here /\ k.pc \in Named \ {"setaddr"} /\ WorkInv
         /\ Here \in Places /\ Here[1] = k.h /\ k.h \in Hubs
         /\ child[Here] \in UsbDevs /\ child[Here] # None /\ child[Here].drv = None
         /\ Here \in Known /\ None # Ext /\ phase = "running"
         /\ k.h # Root => /\ PlaceOf(k.h) \in Places /\ PlaceOf(k.h) # Here
                          /\ child[PlaceOf(k.h)] # None /\ child[PlaceOf(k.h)].drv = Ext
  <1>1. k.pc \in Named \ {"setaddr"} /\ Working /\ k.pc # "idle"
    BY DEF Named, Working
  <1>2. WorkInv /\ TreeType /\ k.why = "probe" /\ phase = "running"
    BY <1>1 DEF WorkInv, HubInv
  <1>3. Here \in Places /\ Here[1] = k.h /\ k.h \in Hubs /\ Target = Here
    BY <1>1, <1>2, WorkingAt
  <1>4. child[Here] # None /\ child[Here].drv = None
    BY <1>1, <1>2 DEF HubInv, FreshInv
  <1>5. child[Here] \in UsbDevs
    BY <1>2, <1>3, <1>4 DEF TreeType
  <1>6. Here \in Known
    BY <1>1, <1>2, <1>3, TargetKnown
  <1>7. k.h # Root => /\ PlaceOf(k.h) \in Places /\ PlaceOf(k.h) # Here
                      /\ child[PlaceOf(k.h)] # None /\ child[PlaceOf(k.h)].drv = Ext
    BY <1>1, <1>2, <1>3, PlaceFacts DEF WorkInv, IsHubAt
  <1>8. None # Ext
    BY HubAssumption, PlaceFacts
  <1> QED
    BY <1>1, <1>2, <1>3, <1>4, <1>5, <1>6, <1>7, <1>8

(* A device gets its driver and keeps its address.                         *)
LEMMA Driven ==
  ASSUME HubInv, k.pc = "bind", NEW x \in Devices, child' = [child EXCEPT ![Here].drv = x]
  PROVE  /\ child' \in [Places -> {None} \cup UsbDevs]
         /\ child'[Here] # None /\ child'[Here].addr = child[Here].addr /\ child'[Here].drv = x
         /\ \A q \in Places : q # Here => child'[q] = child[q]
  <1>1. /\ Here \in Places /\ child[Here] \in UsbDevs /\ TreeType
    BY BoundAt DEF HubInv
  <1>2. [child[Here] EXCEPT !.drv = x] \in UsbDevs
    BY <1>1 DEF UsbDevs
  <1>3. /\ [child[Here] EXCEPT !.drv = x].addr = child[Here].addr
        /\ [child[Here] EXCEPT !.drv = x].drv = x
    BY <1>1 DEF UsbDevs
  <1>4. child' = [child EXCEPT ![Here] = [child[Here] EXCEPT !.drv = x]]
    OBVIOUS
  <1>5. None \notin UsbDevs
    BY HubAssumption DEF UsbDevs
  <1> QED
    BY <1>1, <1>2, <1>3, <1>4, <1>5 DEF TreeType

(* The driver of a pad.                                                    *)
LEMMA ProbePadKeeps == HubInv /\ ProbePad => HubInv'
  <1> SUFFICES ASSUME HubInv, ProbePad PROVE HubInv'
    OBVIOUS
  <1>1. /\ k.pc = "bind" /\ k' = NextPort /\ SameWires /\ port' = port
        /\ UNCHANGED <<phase, devmap, next, stray, hub, events>>
    BY DEF ProbePad, At, hardware, SameWires
  <1>2. PICK d \in Pads : child' = [child EXCEPT ![Here].drv = d]
    BY DEF ProbePad
  <1>3. d \in Devices /\ d # Ext
    BY HubAssumption DEF Devices
  <1>4. /\ child' \in [Places -> {None} \cup UsbDevs]
        /\ child'[Here] # None /\ child'[Here].addr = child[Here].addr /\ child'[Here].drv = d
        /\ \A q \in Places : q # Here => child'[q] = child[q]
    BY <1>1, <1>2, <1>3, Driven
  <1>5. /\ k.why = "probe" /\ Target = Here /\ k.pc \in Named \ {"setaddr"} /\ WorkInv
        /\ child[Here].drv = None /\ None # Ext
    BY <1>1, BoundAt
  <1>6. WorkInv' /\ k'.pc \in {"idle", "status"} /\ k'.why = "probe"
    <2>1. k.h # Root => child'[PlaceOf(k.h)] # None /\ child'[PlaceOf(k.h)].drv = Ext
      BY <1>1, <1>4, BoundAt
    <2> QED
      BY <1>1, <1>5, <2>1, NextWork
  <1>7. /\ WireInv' /\ AddrInv' /\ FreshInv' /\ CcInv' /\ QuietInv' /\ WorkedInv' /\ SteadyInv'
        /\ StrayInv' /\ AboveInv'
        /\ EnabledAt(Ext)' = EnabledAt(Ext) /\ \A h : OnLine(h)' = OnLine(h) \/ h \notin Hubs
    BY <1>1, <1>4, <1>5, <1>6, KeptKeeps
  <1>8. \A q \in Places : IsHubAt(q)' <=> IsHubAt(q)
    BY <1>3, <1>4, <1>5 DEF IsHubAt
  <1>9. TreeType' /\ TreeInv'
    <2>1. \A h \in Hubs \ {Root} : IsHubAt(PlaceOf(h))' <=> IsHubAt(PlaceOf(h))
      BY <1>8, PlaceFacts
    <2> QED
      BY <1>1, <1>4, <1>8, <2>1 DEF TreeType, TreeInv, HubInv
  <1>10. ErrorInv'
    BY <1>1, <1>5, <1>7 DEF ErrorInv, HubInv
  <1> QED
    BY <1>6, <1>7, <1>9, <1>10 DEF HubInv

(* A probe that fails leaves the device with its address.                  *)
LEMMA ProbeFailsKeeps == HubInv /\ ProbeFails => HubInv'
  <1> SUFFICES ASSUME HubInv, ProbeFails PROVE HubInv'
    OBVIOUS
  <1>1. /\ k.pc = "bind" /\ k' = NextPort /\ SameWires /\ port' = port
        /\ UNCHANGED <<phase, devmap, next, stray, hub, events>> /\ child' = child /\ SameTree
    BY DEF ProbeFails, At, hardware, SameWires, SameTree
  <1>2. /\ k.why = "probe" /\ Target = Here /\ k.pc \in Named \ {"setaddr"} /\ WorkInv
        /\ child[Here] # None
    BY <1>1, BoundAt
  <1>3. WorkInv' /\ k'.pc \in {"idle", "status"} /\ k'.why = "probe"
    <2>1. k.h # Root => child'[PlaceOf(k.h)] # None /\ child'[PlaceOf(k.h)].drv = Ext
      BY <1>1, BoundAt
    <2> QED
      BY <1>1, <1>2, <2>1, NextWork
  <1>4. /\ WireInv' /\ AddrInv' /\ FreshInv' /\ CcInv' /\ QuietInv' /\ WorkedInv' /\ SteadyInv'
        /\ StrayInv' /\ AboveInv'
        /\ EnabledAt(Ext)' = EnabledAt(Ext) /\ \A h : OnLine(h)' = OnLine(h) \/ h \notin Hubs
    BY <1>1, <1>2, <1>3, KeptKeeps
  <1>5. TreeType' /\ TreeInv'
    BY <1>1, CalmTree
  <1>6. ErrorInv'
    BY <1>1, <1>2, <1>4 DEF ErrorInv, HubInv
  <1> QED
    BY <1>3, <1>4, <1>5, <1>6 DEF HubInv

(* The driver of the external hub.                                         *)
LEMMA HubConfigureKeeps == HubInv /\ hub_configure => HubInv'
  <1> SUFFICES ASSUME HubInv, hub_configure PROVE HubInv'
    OBVIOUS
  <1>1. /\ k.pc = "bind" /\ k' = Goto("power") /\ SameWires /\ port' = port
        /\ UNCHANGED <<phase, devmap, next, stray, events>>
        /\ child' = [child EXCEPT ![Here].drv = Ext] /\ hub' = [hub EXCEPT ![Here[2]] = FreshHub]
        /\ Ext \in Reached(child[Here].addr)
    BY DEF hub_configure, At, hardware, SameWires
  <1>2. /\ k.why = "probe" /\ Target = Here /\ k.pc \in Named \ {"setaddr"} /\ WorkInv
        /\ child[Here].drv = None /\ None # Ext /\ Here \in Places /\ Here[1] = k.h
        /\ phase = "running" /\ Here \in Known
    BY <1>1, BoundAt
  <1>3. /\ child' \in [Places -> {None} \cup UsbDevs]
        /\ child'[Here] # None /\ child'[Here].addr = child[Here].addr /\ child'[Here].drv = Ext
        /\ \A q \in Places : q # Here => child'[q] = child[q]
    BY <1>1, PlaceFacts, Driven
  <1>4. k.h = Root
    <2> SUFFICES ASSUME k.h # Root PROVE FALSE
      OBVIOUS
    <2>1. Listens(Ext) /\ addr[Ext] = child[Here].addr /\ WireInv
      BY <1>1, BusFacts DEF HubInv
    <2>2. OnLine(k.h)
      BY <1>2, <2>1 DEF HubInv, AboveInv, Listens
    <2>3. /\ PlaceOf(k.h) \in Places /\ PlaceOf(k.h) # Here /\ child[PlaceOf(k.h)] # None
      BY <1>1, BoundAt
    <2>4. PlaceOf(k.h) \in Known
      BY <1>2, <2>3 DEF Known, Fresh
    <2> QED
      BY <1>2, <2>1, <2>2, <2>3, <2>4 DEF HubInv, AddrInv, OnLine
  <1>5. Here[2] \in Hubs \ {Root} /\ Here = PlaceOf(Here[2])
    BY <1>2, <1>4, PlaceFacts
  <1>6. /\ k'.pc = "power" /\ k'.h = k.h /\ k'.i = k.i /\ k'.why = "probe" /\ DOMAIN k' = DOMAIN k
    BY <1>1, <1>2, GotoFields
  <1>7. /\ WireInv' /\ AddrInv' /\ FreshInv' /\ CcInv' /\ QuietInv' /\ WorkedInv' /\ SteadyInv'
        /\ StrayInv' /\ AboveInv'
        /\ EnabledAt(Ext)' = EnabledAt(Ext) /\ \A h : OnLine(h)' = OnLine(h) \/ h \notin Hubs
    BY <1>1, <1>2, <1>3, <1>6, KeptKeeps
  <1>8. WorkInv'
    BY <1>1, <1>2, <1>4, <1>6 DEF WorkInv, PCs
  <1>9. /\ hub' \in [Hubs -> [bound : BOOLEAN, urb : BOOLEAN, error : BOOLEAN]]
        /\ \A h \in Hubs : h # Here[2] => hub'[h] = hub[h]
        /\ hub'[Here[2]].bound /\ ~hub'[Here[2]].error
    <2>1. FreshHub \in [bound : BOOLEAN, urb : BOOLEAN, error : BOOLEAN]
          /\ FreshHub.bound /\ ~FreshHub.error
      BY DEF FreshHub
    <2>2. hub \in [Hubs -> [bound : BOOLEAN, urb : BOOLEAN, error : BOOLEAN]]
      BY DEF HubInv, TreeType
    <2> QED
      BY <1>1, <1>5, <2>1, <2>2
  <1>10. TreeType'
    BY <1>1, <1>3, <1>7, <1>9 DEF TreeType, HubInv
  <1>11. TreeInv'
    <2>1. \A q \in Places : IsHubAt(q)' <=> IsHubAt(q) \/ q = Here
      BY <1>2, <1>3 DEF IsHubAt
    <2>2. \A h \in Hubs \ {Root} : h # Here[2] => (IsHubAt(PlaceOf(h))' <=> IsHubAt(PlaceOf(h)))
      BY <2>1, PlaceFacts
    <2>3. IsHubAt(PlaceOf(Here[2]))
          \/ (child'[PlaceOf(Here[2])] # None /\ child'[PlaceOf(Here[2])].drv = Ext)
      BY <1>3, <1>5
    <2>4. \A h \in Hubs \ {Root} : hub'[h].bound => IsHubAt(PlaceOf(h))'
      <3> SUFFICES ASSUME NEW h \in Hubs \ {Root}, hub'[h].bound PROVE IsHubAt(PlaceOf(h))'
        OBVIOUS
      <3>1. CASE h # Here[2]
        BY <1>9, <2>2, <3>1 DEF HubInv, TreeInv
      <3>2. CASE h = Here[2]
        <4>1. PlaceOf(h) = Here
          BY <1>5, <3>2
        <4> QED
          BY <1>3, <4>1 DEF IsHubAt
      <3> QED
        BY <3>1, <3>2
    <2>5. \A h \in Hubs \ {Root} : (hub'[h].error \/ h \in Range(events)) => hub'[h].bound
      BY <1>9 DEF HubInv, TreeInv
    <2>6. ~hub'[Root].error
      BY <1>5, <1>9 DEF HubInv, TreeInv, Hubs
    <2>7. \A q \in Places : IsHubAt(q)' => q[1] = Root
      BY <1>2, <1>4, <2>1 DEF HubInv, TreeInv
    <2> QED
      BY <1>1, <2>4, <2>5, <2>6, <2>7 DEF TreeInv
  <1>12. ErrorInv'
    <2> SUFFICES ASSUME NEW h \in Hubs \ {Root}, hub'[h].error PROVE ~(EnabledAt(Ext) /\ OnLine(h))'
      BY DEF ErrorInv
    <2>1. hub[h].error
      BY <1>9
    <2> QED
      BY <1>2, <1>7, <2>1 DEF ErrorInv, HubInv
  <1> QED
    BY <1>7, <1>8, <1>10, <1>11, <1>12 DEF HubInv

(* After a reset the hub answers again, or it is given up.                 *)
LEMMA HubBackKeeps == HubInv /\ HubBack => HubInv'
  <1> SUFFICES ASSUME HubInv, HubBack PROVE HubInv'
    OBVIOUS
  <1>1. /\ k.pc = "descriptor" /\ k.why = "hub" /\ SameWires /\ port' = port
        /\ phase' = phase /\ next' = next
    BY DEF HubBack, At, hardware, SameWires
  <1>2. k.pc \in Named \ {"setaddr"} /\ Working /\ Taking
    BY <1>1 DEF Named, Working, Taking, SameWires
  <1>3. /\ WireInv /\ WorkInv /\ Target \in Places /\ Target[1] = Root /\ Target[2] = k.h
        /\ IsHubAt(PlaceOf(k.h)) /\ k.h \in Ports /\ Target = PlaceOf(k.h) /\ k.h \in Hubs \ {Root}
        /\ OnRoot(k.h)
    BY <1>1, <1>2, WorkingAt, PlaceFacts DEF WorkInv
  <1>4. CASE /\ hub' = [hub EXCEPT ![k.h] = FreshHub]
             /\ k' = Goto("power")
             /\ UNCHANGED <<child, devmap, events, lost, stray>>
    <2>1. /\ k'.pc = "power" /\ k'.h = k.h /\ k'.i = k.i /\ k'.why = "hub" /\ DOMAIN k' = DOMAIN k
      BY <1>1, <1>3, <1>4, GotoFields
    <2>2. child[Target] # None
      BY <1>3 DEF IsHubAt
    <2>3. /\ WireInv' /\ AddrInv' /\ FreshInv' /\ CcInv' /\ QuietInv' /\ WorkedInv' /\ SteadyInv'
          /\ StrayInv' /\ AboveInv'
          /\ EnabledAt(Ext)' = EnabledAt(Ext) /\ \A h : OnLine(h)' = OnLine(h) \/ h \notin Hubs
      BY <1>1, <1>2, <1>4, <2>1, <2>2, KeptKeeps
    <2>4. WorkInv'
      BY <1>1, <1>3, <1>4, <2>1 DEF WorkInv, PCs, IsHubAt
    <2>5. /\ hub' \in [Hubs -> [bound : BOOLEAN, urb : BOOLEAN, error : BOOLEAN]]
          /\ \A h \in Hubs : h # k.h => hub'[h] = hub[h]
          /\ hub'[k.h].bound /\ ~hub'[k.h].error
      <3>1. FreshHub \in [bound : BOOLEAN, urb : BOOLEAN, error : BOOLEAN]
            /\ FreshHub.bound /\ ~FreshHub.error
        BY DEF FreshHub
      <3>2. hub \in [Hubs -> [bound : BOOLEAN, urb : BOOLEAN, error : BOOLEAN]]
        BY DEF HubInv, TreeType
      <3> QED
        BY <1>3, <1>4, <3>1, <3>2
    <2>6. TreeType'
      BY <1>1, <1>4, <2>5 DEF TreeType, HubInv
    <2>7. TreeInv'
      BY <1>3, <1>4, <2>5 DEF TreeInv, HubInv, IsHubAt, Hubs
    <2>8. ErrorInv'
      <3> SUFFICES ASSUME NEW h \in Hubs \ {Root}, hub'[h].error
                   PROVE  ~(EnabledAt(Ext) /\ OnLine(h))'
        BY DEF ErrorInv
      <3>1. hub[h].error /\ h # k.h
        BY <2>5
      <3> QED
        BY <2>3, <3>1 DEF ErrorInv, HubInv
    <2> QED
      BY <2>3, <2>4, <2>6, <2>7, <2>8 DEF HubInv
  <1>5. CASE HubLost /\ stray' = stray \cup {p \in {k.h} : port[p].en}
    <2>1. Calmer(port')
      BY <1>1, <1>3 DEF Calmer, WireInv
    <2>2. k.h \notin stray
      BY <1>3 DEF HubInv, StrayInv, IsHubAt, OnRoot
    <2>3. port[k.h].en => ~port[k.h].cc /\ \E d \in Devices : plug[d] = k.h
      BY <1>1, <1>3 DEF HubInv, CcInv, WireInv, Heard
    <2>4. ASSUME NEW d \in Devices, Hears(d)', plug[d] = k.h PROVE k.h \in stray' /\ addr'[d] >= 2
      <3>1. Hears(d) /\ Worked(d) /\ port[k.h].en
        BY <1>1, <1>2, <1>3, <2>4 DEF Hears, Listens, EnabledAt, SameWires, Worked, OnLine
      <3>2. addr[d] = child[Target].addr
        BY <1>1, <3>1 DEF HubInv, WorkedInv, Heeds, Named
      <3>3. child[Target].addr \in 2 .. MAX_ADDRESS
        BY <1>2, TargetKnown
      <3> QED
        BY <1>1, <1>5, <3>1, <3>2, <3>3, AddressAssumption DEF SameWires
    <2>5. usb_disconnect(PlaceOf(k.h)) /\ k' = Rest
      BY <1>5 DEF HubLost
    <2>6. stray \subseteq stray' /\ stray' \subseteq stray \cup {k.h}
      BY <1>5
    <2>7. k.h \in stray' => port[k.h].en
      BY <1>5, <2>2
    <2> QED
      BY <1>1, <1>2, <2>1, <2>3, <2>4, <2>5, <2>6, <2>7, LostKeeps DEF SameWires
  <1> QED
    BY <1>4, <1>5 DEF HubBack

-----------------------------------------------------------------------------
(* A usb_device and its address.                                           *)

(* A new usb_device at a place the bus does not reach.                     *)
LEMMA FreshStep ==
  ASSUME HubInv, k.why = "probe", k.pc \in Unnamed, SameWires, port' = port,
         UNCHANGED <<phase, stray, hub, events>>,
         child' \in [Places -> {None} \cup UsbDevs], child'[Here] # None, child'[Here].drv = None,
         \A q \in Places : q # Here => child'[q] = child[q],
         k'.h = k.h, k'.i = k.i, k'.why = k.why, DOMAIN k' = DOMAIN k, k'.pc \in {"reset", "setaddr"}
  PROVE  /\ WireInv' /\ WorkInv' /\ TreeInv' /\ SteadyInv' /\ StrayInv' /\ ErrorInv' /\ QuietInv'
         /\ Here' = Here /\ Target' = Here
         /\ EnabledAt(Ext)' = EnabledAt(Ext) /\ \A p : Heard(p)' = Heard(p)
         /\ \A d : Hears(d)' = Hears(d)
         /\ \A d : Worked(d)' <=> Worked(d)
         /\ OnLine(k.h)' <=> OnLine(k.h)
         /\ OnLine(Target[1])' <=> OnLine(k.h)
  <1>1. Working /\ Working'
    BY DEF Working, Unnamed, Named
  <1>2. /\ phase = "running" /\ k.pc # "idle" /\ WireInv /\ WorkInv
        /\ Here \in Places /\ Here[1] = k.h /\ Here[2] \in Ports /\ Target = Here /\ k.h \in Hubs
    BY <1>1, WorkingAt
  <1>3. Here' = Here /\ Target' = Here
    BY <1>2, HereSame
  <1>4. None # Ext /\ (child[Here] # None => child[Here].drv = None)
    BY HubAssumption, PlaceFacts DEF HubInv, FreshInv
  <1>5. \A q \in Places : IsHubAt(q)' <=> IsHubAt(q)
    BY <1>4 DEF IsHubAt
  <1>6. \A h \in Hubs \ {Root} : IsHubAt(PlaceOf(h))' <=> IsHubAt(PlaceOf(h))
    BY <1>5, PlaceFacts
  <1>7. WorkInv'
    BY <1>2, <1>6 DEF WorkInv, PCs
  <1>8. TreeInv'
    BY <1>5, <1>6 DEF TreeInv, HubInv
  <1>9. WireInv'
    BY <1>2 DEF WireInv, SameWires
  <1>10. /\ EnabledAt(Ext)' = EnabledAt(Ext) /\ \A p : Heard(p)' = Heard(p)
         /\ \A d : Hears(d)' = Hears(d)
    BY DEF EnabledAt, Heard, Hears, Listens, SameWires
  <1>11. OnLine(k.h)' <=> OnLine(k.h)
    <2>1. k.h # Root => PlaceOf(k.h) \in Places /\ PlaceOf(k.h) # Here
      BY <1>2, PlaceFacts
    <2> QED
      BY <2>1 DEF OnLine, SameWires
  <1>12. OnLine(Target[1])' <=> OnLine(k.h)
    BY <1>2, <1>3, <1>11
  <1>13. \A d : Worked(d)' <=> Worked(d)
    BY <1>1, <1>2, <1>3, <1>12 DEF Worked, SameWires
  <1>14. SteadyInv'
    <2> SUFFICES ASSUME NEW d \in Devices, Hears(d), ~Worked(d)
                 PROVE  addr'[d] >= 2 /\ (~Astray(d)' => Held(d)')
      BY <1>10, <1>13 DEF SteadyInv
    <2>1. addr[d] >= 2 /\ (~Astray(d) => Held(d))
      BY DEF HubInv, SteadyInv
    <2>2. Astray(d)' = Astray(d)
      BY DEF Astray, SameWires
    <2>3. ASSUME ~Astray(d), NEW pl \in Places, HeldAt(d, pl) PROVE Held(d)'
      <3>1. pl # Here /\ (pl[1] # Root => PlaceOf(pl[1]) # Here)
        BY <1>1, <1>2, <2>3, HeldElsewhere
      <3>2. child'[pl] = child[pl] /\ (pl[1] # Root => child'[PlaceOf(pl[1])] = child[PlaceOf(pl[1])])
        BY <3>1, PlaceFacts
      <3> QED
        BY <2>3, <3>2, StaysHeld DEF SameWires
    <2> QED
      BY <2>1, <2>2, <2>3 DEF Held, SameWires
  <1>15. StrayInv'
    <2> SUFFICES ASSUME NEW p \in stray \cap Range(RootPorts)
                 PROVE  /\ child'[PlaceOf(p)] = None /\ ~port[p].cc
                        /\ \E d \in Devices : plug[d] = p
                        /\ k.h = Root => Here[2] # p
      BY <1>3 DEF StrayInv, SameWires
    <2>1. /\ child[PlaceOf(p)] = None /\ ~port[p].cc /\ \E d \in Devices : plug[d] = p
          /\ k.h = Root => Here[2] # p
      BY DEF HubInv, StrayInv, Unnamed
    <2>2. PlaceOf(p) \in Places /\ PlaceOf(p)[1] = Root /\ PlaceOf(p)[2] = p
      BY PlaceFacts, HubAssumption DEF Hubs
    <2> QED
      BY <1>2, <2>1, <2>2
  <1>16. ErrorInv'
    <2> SUFFICES ASSUME NEW h \in Hubs \ {Root}, hub[h].error
                 PROVE  ~(EnabledAt(Ext) /\ OnLine(h)')
      BY <1>10 DEF ErrorInv
    <2>1. IsHubAt(PlaceOf(h)) /\ PlaceOf(h) \in Places
      BY PlaceFacts DEF HubInv, TreeInv
    <2>2. child'[PlaceOf(h)] = child[PlaceOf(h)]
      BY <1>4, <2>1 DEF IsHubAt
    <2> QED
      BY <2>2 DEF ErrorInv, HubInv, OnLine, SameWires
  <1>17. QuietInv'
    BY DEF QuietInv
  <1> QED
    BY <1>3, <1>7, <1>8, <1>9, <1>10, <1>11, <1>12, <1>13, <1>14, <1>15, <1>16, <1>17

(* A try begins with a new usb_device.                                     *)
LEMMA AllocKeeps == HubInv /\ Alloc => HubInv'
  <1> SUFFICES ASSUME HubInv, Alloc PROVE HubInv'
    OBVIOUS
  <1>1. /\ k.pc = "alloc" /\ SameWires /\ port' = port
        /\ UNCHANGED <<phase, stray, hub, events, devmap, next>>
        /\ child' = [child EXCEPT ![Here] = NewChild]
        /\ k' = [k EXCEPT !.pc = "reset", !.r = 1]
    BY DEF Alloc, At, SameWires, hardware
  <1>2. Working /\ k.pc \in Unnamed
    BY <1>1 DEF Working, Unnamed
  <1>3. /\ phase = "running" /\ WorkInv /\ Here \in Places /\ k.why = "probe"
    BY <1>1, <1>2, WorkingAt DEF WorkInv
  <1>4. NewChild \in UsbDevs /\ NewChild.addr = 0 /\ NewChild.drv = None /\ None \notin UsbDevs
    BY HubAssumption DEF NewChild, UsbDevs
  <1>5. /\ child' \in [Places -> {None} \cup UsbDevs]
        /\ child'[Here] # None /\ child'[Here].drv = None /\ child'[Here].addr = 0
        /\ \A q \in Places : q # Here => child'[q] = child[q]
    BY <1>1, <1>3, <1>4 DEF HubInv, TreeType
  <1>6. k'.pc = "reset" /\ k'.h = k.h /\ k'.i = k.i /\ k'.why = k.why /\ DOMAIN k' = DOMAIN k
    BY <1>1, <1>3, Fields
  <1>7. /\ WireInv' /\ WorkInv' /\ TreeInv' /\ SteadyInv' /\ StrayInv' /\ ErrorInv' /\ QuietInv'
        /\ Here' = Here /\ Target' = Here
        /\ EnabledAt(Ext)' = EnabledAt(Ext) /\ \A p : Heard(p)' = Heard(p)
        /\ \A d : Hears(d)' = Hears(d)
        /\ \A d : Worked(d)' <=> Worked(d)
    BY <1>1, <1>2, <1>3, <1>5, <1>6, FreshStep
  <1>8. AddrInv'
    <2>1. Known' = Known \ {}
      <3>1. \A q : (Fresh(q) <=> q = Here) /\ (Fresh(q)' <=> q = Here)
        BY <1>2, <1>3, <1>6, <1>7 DEF Fresh, Unnamed
      <3>2. Known = {q \in Places : child[q] # None /\ q # Here}
            /\ Known' = {q \in Places : child'[q] # None /\ q # Here}
        BY <3>1 DEF Known
      <3> QED
        BY <1>5, <3>2
    <2>2. AddressesOf({}) = {}
      BY DEF AddressesOf
    <2>3. \A q \in Known \ {} : q # Here /\ q \in Places
      BY <1>2, <1>3 DEF Known, Fresh
    <2> QED
      BY <1>1, <1>3, <1>5, <2>1, <2>2, <2>3, AddrDrop
  <1>9. TreeType'
    BY <1>1, <1>5 DEF TreeType, HubInv
  <1>10. FreshInv' /\ AboveInv'
    BY <1>5, <1>6, <1>7 DEF FreshInv, AboveInv, Named
  <1>11. CcInv'
    BY <1>1, <1>7 DEF CcInv, HubInv
  <1>12. WorkedInv'
    <2> SUFFICES ASSUME NEW d \in Devices, Hears(d), Worked(d) PROVE Heeds(d)'
      BY <1>7 DEF WorkedInv
    <2>1. Heeds(d)
      BY DEF HubInv, WorkedInv
    <2> QED
      BY <1>1, <1>3, <1>6, <2>1 DEF Heeds, SameWires, Named
  <1> QED
    BY <1>7, <1>8, <1>9, <1>10, <1>11, <1>12 DEF HubInv

(* usb_connect() finds an address nobody has.                              *)
LEMMA AddressKeeps ==
  ASSUME HubInv, k.why = "probe", k.pc = "wait", SameWires, port' = port,
         UNCHANGED <<phase, stray, hub, events>>, Address, Answers(k.h), ~port[Here[2]].cc,
         k'.h = k.h, k'.i = k.i, k'.why = k.why, DOMAIN k' = DOMAIN k, k'.pc = "setaddr"
  PROVE  HubInv'
  <1> DEFINE a == NextAddress
  <1>1. Working /\ k.pc \in Unnamed
    BY DEF Working, Unnamed
  <1>2. /\ phase = "running" /\ WorkInv /\ Here \in Places /\ Target = Here /\ TreeType /\ WireInv
        /\ Here[1] = k.h
    BY <1>1, WorkingAt DEF HubInv
  <1>3. devmap' = devmap \cup {a} /\ next' = After(a) /\ child' = [child EXCEPT ![Here].addr = a]
    BY DEF Address
  <1>4. /\ devmap = {1} \cup AddressesOf(Known) /\ Here \notin Known /\ Known \subseteq Places
        /\ \A q \in Known : child[q].addr \in 2 .. MAX_ADDRESS /\ child[q] # None
        /\ \A q, r \in Known : child[q].addr = child[r].addr => q = r
    BY <1>1, <1>2 DEF HubInv, AddrInv, Known, Fresh
  <1>5. AddressesOf(Known) = {child[q].addr : q \in Known}
    BY <1>4 DEF AddressesOf
  <1>6. a \in 2 .. MAX_ADDRESS /\ a \notin devmap /\ After(a) \in 1 .. MAX_ADDRESS
    <2>1. \E b \in 1 .. MAX_ADDRESS : b \notin devmap
      BY <1>2, <1>4, <1>5, AddressLeft
    <2>2. 1 \in devmap
      BY <1>4
    <2> QED
      BY <1>2, <2>1, <2>2, NextFree
  <1> HIDE DEF a
  <1>7. child[Here] # None /\ child[Here].drv = None /\ child[Here] \in UsbDevs
    BY <1>1, <1>2 DEF HubInv, FreshInv, TreeType
  <1>8. /\ child' \in [Places -> {None} \cup UsbDevs]
        /\ child'[Here] # None /\ child'[Here].addr = a /\ child'[Here].drv = None
        /\ \A q \in Places : q # Here => child'[q] = child[q]
    <2>1. a \in Int
      BY <1>6, AddressAssumption
    <2>2. [child[Here] EXCEPT !.addr = a] \in UsbDevs
      BY <1>7, <2>1 DEF UsbDevs
    <2>3. [child[Here] EXCEPT !.addr = a].addr = a /\ [child[Here] EXCEPT !.addr = a].drv = None
      BY <1>7 DEF UsbDevs
    <2>4. child' = [child EXCEPT ![Here] = [child[Here] EXCEPT !.addr = a]]
      BY <1>3
    <2>5. None \notin UsbDevs
      BY HubAssumption DEF UsbDevs
    <2> QED
      BY <1>2, <2>2, <2>3, <2>4, <2>5 DEF TreeType
  <1>9. /\ WireInv' /\ WorkInv' /\ TreeInv' /\ SteadyInv' /\ StrayInv' /\ ErrorInv' /\ QuietInv'
        /\ Here' = Here /\ Target' = Here
        /\ EnabledAt(Ext)' = EnabledAt(Ext) /\ \A p : Heard(p)' = Heard(p)
        /\ \A d : Hears(d)' = Hears(d)
        /\ \A d : Worked(d)' <=> Worked(d)
        /\ OnLine(k.h)' <=> OnLine(k.h)
    BY <1>1, <1>8, FreshStep
  <1>10. TreeType'
    BY <1>2, <1>3, <1>6, <1>8, AddressAssumption DEF TreeType
  <1>11. AddrInv'
    <2>1. Known' = Known \cup {Here}
      <3>1. \A q : (Fresh(q) <=> q = Here) /\ ~Fresh(q)'
        BY <1>1 DEF Fresh, Unnamed
      <3>2. Known = {q \in Places : child[q] # None /\ q # Here}
            /\ Known' = {q \in Places : child'[q] # None}
        BY <3>1 DEF Known
      <3> QED
        BY <1>2, <1>8, <3>2
    <2>2. AddressesOf(Known)' = {child'[q].addr : q \in Known'}
      <3>1. \A q \in Known' : child'[q] # None
        BY DEF Known
      <3> QED
        BY <3>1 DEF AddressesOf
    <2>3. \A q \in Known : child'[q].addr = child[q].addr /\ child[q].addr # a
      BY <1>4, <1>5, <1>6, <1>8
    <2>4. AddressesOf(Known)' = {child[q].addr : q \in Known} \cup {a}
      <3>1. {child'[q].addr : q \in Known \cup {Here}}
              = {child'[q].addr : q \in Known} \cup {child'[Here].addr}
        OBVIOUS
      <3>2. {child'[q].addr : q \in Known} = {child[q].addr : q \in Known}
        BY <2>3
      <3>3. child'[Here].addr = a
        BY <1>8
      <3> QED
        BY <2>1, <2>2, <3>1, <3>2, <3>3
    <2>5. devmap' = {1} \cup AddressesOf(Known)'
      BY <1>3, <1>4, <1>5, <2>4
    <2>6. \A q \in Known' : child'[q].addr \in 2 .. MAX_ADDRESS
      BY <1>4, <1>6, <1>8, <2>1, <2>3
    <2>7. \A q, r \in Known' : child'[q].addr = child'[r].addr => q = r
      BY <1>4, <1>8, <2>1, <2>3
    <2> QED
      BY <1>2, <2>5, <2>6, <2>7 DEF AddrInv
  <1>12. FreshInv'
    BY <1>8, <1>9 DEF FreshInv, Unnamed
  <1>13. AboveInv'
    <2>1. EnabledAt(Ext) => OnLine(k.h)
      BY <1>2, BusFacts DEF OnLine
    <2> QED
      BY <1>9, <2>1 DEF AboveInv
  <1>14. CcInv'
    BY <1>2, <1>9 DEF CcInv, HubInv
  <1>15. WorkedInv'
    <2> SUFFICES ASSUME NEW d \in Devices, Hears(d), Worked(d) PROVE Heeds(d)'
      BY <1>9 DEF WorkedInv
    <2>1. Heeds(d)
      BY DEF HubInv, WorkedInv
    <2> QED
      BY <2>1 DEF Heeds, SameWires, Named
  <1> QED
    BY <1>9, <1>10, <1>11, <1>12, <1>13, <1>14, <1>15 DEF HubInv

(* The status after a reset: an address, another try, or the end.          *)
LEMMA WaitResetKeeps == HubInv /\ WaitReset => HubInv'
  <1> SUFFICES ASSUME HubInv, WaitReset PROVE HubInv'
    OBVIOUS
  <1>1. k.pc = "wait" /\ SameWires /\ UNCHANGED <<phase, stray>> /\ plug' = plug
    BY DEF WaitReset, At, SameWires
  <1>2. Working /\ Taking /\ k.pc \in Unnamed
    BY <1>1 DEF Working, Unnamed, Taking, SameWires
  <1>3. /\ WorkInv /\ k.why \in {"probe", "hub"} /\ (k.why = "probe" => Target = Here /\ Target[1] = k.h)
    BY <1>2, WorkingAt
  <1>4. CASE /\ Answers(Target[1]) /\ ~Status(Target).cc
             /\ k' = [k EXCEPT !.pc = "setaddr", !.r = 0, !.a = 1, !.n = 1]
             /\ IF k.why = "hub" THEN UNCHANGED <<devmap, next, child>> ELSE Address
             /\ UNCHANGED <<port, hub, events, lost>>
    <2>1. ~port[Target[2]].cc
      BY <1>4 DEF Status
    <2>2. k'.pc = "setaddr" /\ k'.h = k.h /\ k'.i = k.i /\ k'.why = k.why /\ DOMAIN k' = DOMAIN k
      BY <1>3, <1>4, Fields
    <2>3. CASE k.why = "hub"
      <3>1. UNCHANGED <<devmap, next, child>> /\ UNCHANGED <<port, hub, events>>
        BY <1>4, <2>3
      <3> QED
        BY <1>1, <1>2, <2>1, <2>2, <2>3, <3>1, OnwardKeeps DEF SameTree
    <2>4. CASE k.why = "probe"
      <3>1. Address /\ UNCHANGED <<port, hub, events>> /\ Answers(k.h) /\ ~port[Here[2]].cc
        BY <1>3, <1>4, <2>1, <2>4
      <3> QED
        BY <1>1, <2>2, <2>4, <3>1, AddressKeeps
    <2> QED
      BY <1>3, <2>3, <2>4
  <1>5. CASE /\ k' = [k EXCEPT !.pc = "reset", !.r = @ + 1]
             /\ UNCHANGED <<devmap, next, child, port, hub, events, lost>>
    <2>1. k'.pc = "reset" /\ k'.h = k.h /\ k'.i = k.i /\ k'.why = k.why /\ DOMAIN k' = DOMAIN k
      BY <1>3, <1>5, Fields
    <2> QED
      BY <1>1, <1>2, <1>5, <2>1, OnwardKeeps DEF SameTree
  <1>6. CASE /\ IF k.why = "hub" THEN HubOff ELSE NoDevice /\ UNCHANGED <<devmap, hub, events, port>>
             /\ UNCHANGED next
    <2>1. CASE k.why = "hub"
      BY <1>1, <1>2, <1>6, <2>1, HubOffKeeps
    <2>2. CASE k.why = "probe"
      <3>1. /\ child' = [child EXCEPT ![Here] = None] /\ k' = Then("disable")
            /\ UNCHANGED <<devmap, hub, events, port, next>>
        BY <1>6, <2>2 DEF NoDevice
      <3>2. child[Here] # None /\ child[Here].addr = 0
        BY <1>1, <2>2 DEF HubInv, FreshInv
      <3>3. devmap' = devmap \ {child[Here].addr}
        BY <3>1, <3>2 DEF HubInv, TreeType
      <3> QED
        BY <1>1, <1>2, <2>2, <3>1, <3>2, <3>3, RetryKeeps
    <2> QED
      BY <1>3, <2>1, <2>2
  <1>7. Answered(Target[1]) => Answers(Target[1])
    BY DEF Answered
  <1> QED
    BY <1>4, <1>5, <1>6, <1>7 DEF WaitReset

-----------------------------------------------------------------------------
(* Resets.                                                                 *)

(* A reset takes the address away from the device at the port only.        *)
LEMMA ResetDoneKeeps ==
  ASSUME HubInv, k.pc = "reset", plug' = plug, UNCHANGED <<phase, child, devmap, next, hub, events>>,
         k' = Goto("wait"), Answers(Target[1]), ResetDone(Target[2])
  PROVE  HubInv'
  <1> DEFINE ds == DevicesReset(Target[2])
  <1>1. /\ addr' = [d \in Devices |-> IF d \in ds THEN 0 ELSE addr[d]]
        /\ port' = IF ds = {} THEN port
                   ELSE Below([port EXCEPT ![Target[2]].en = TRUE], CHOOSE d \in ds : TRUE)
        /\ stray' = stray \ {Target[2]}
    BY DEF ResetDone
  <1>2. Working
    BY DEF Working, Unnamed
  <1>3. /\ phase = "running" /\ k.pc # "idle" /\ WireInv /\ WorkInv
        /\ Here \in Places /\ Here[1] = k.h /\ Here[2] \in Ports /\ k.h \in Hubs
        /\ Target \in Places /\ Target[1] \in Hubs /\ Target[2] \in Ports
        /\ k.why = "probe" => Target = Here
        /\ k.why = "hub" => Target = PlaceOf(k.h) /\ Target[1] = Root /\ Target[2] = k.h
        /\ k.why \in {"probe", "hub"}
        /\ Target[1] = Root <=> OnRoot(Target[2])
        /\ Ext \in Devices
    BY <1>2, WorkingAt, PlaceFacts
  <1>4. /\ k'.pc = "wait" /\ k'.h = k.h /\ k'.i = k.i /\ k'.why = k.why /\ DOMAIN k' = DOMAIN k
    BY <1>3, GotoFields
  <1>5. Here' = Here /\ Target' = Target /\ Working'
    BY <1>4, HereSame DEF Working, Unnamed
  <1>6. \A d : d \in ds <=> d \in Devices /\ Connected(Target[2]) /\ plug[d] = Target[2]
    BY DEF DevicesReset
  <1> HIDE DEF ds
  <1>7. \A d, e \in ds : d = e
    BY <1>3, <1>6, PlaceFacts DEF WireInv
  <1>8. /\ port' \in [Ports -> Ports4] /\ addr' \in [Devices -> Int]
        /\ ds = {} => port' = port /\ addr' = addr
        /\ ds # {} => /\ port'[Target[2]].en /\ port'[Target[2]].power = port[Target[2]].power
                      /\ port'[Target[2]].cc = port[Target[2]].cc
        /\ \A p \in Ports : p # Target[2] =>
             IF Ext \in ds /\ ~OnRoot(p) THEN ~port'[p].en /\ ~port'[p].cc ELSE port'[p] = port[p]
    <2>1. port \in [Ports -> Ports4] /\ addr \in [Devices -> Int] /\ port[Target[2]] \in Ports4
      BY <1>3 DEF WireInv
    <2>2. addr' \in [Devices -> Int]
      BY <1>1, <2>1
    <2>3. CASE ds = {}
      BY <1>1, <2>1, <2>2, <2>3
    <2>4. CASE ds # {}
      <3> DEFINE x == CHOOSE d \in ds : TRUE
                 on == [port[Target[2]] EXCEPT !.en = TRUE]
                 ports == [port EXCEPT ![Target[2]] = on]
      <3>1. x \in ds /\ (x = Ext <=> Ext \in ds)
        BY <1>7, <2>4
      <3>2. on \in Ports4 /\ on.en /\ on.power = port[Target[2]].power /\ on.cc = port[Target[2]].cc
        BY <2>1 DEF Ports4
      <3>3. port' = Below(ports, x)
        BY <1>1, <2>4
      <3> HIDE DEF x, on
      <3>4. ports \in [Ports -> Ports4] /\ ports[Target[2]] = on
            /\ \A p \in Ports : p # Target[2] => ports[p] = port[p]
        BY <1>3, <2>1, <3>2
      <3>5. Dark \in Ports4 /\ ~Dark.en /\ ~Dark.cc
        BY DEF Dark, Ports4
      <3> HIDE DEF ports
      <3>6. /\ port' \in [Ports -> Ports4]
            /\ \A p \in Ports : port'[p] = IF x = Ext /\ ~OnRoot(p) THEN Dark ELSE ports[p]
        BY <3>3, <3>4, <3>5 DEF Below
      <3>7. x = Ext => OnRoot(Target[2])
        BY <1>3, <1>6, <3>1, PlaceFacts DEF WireInv
      <3> QED
        BY <1>3, <2>2, <2>4, <3>1, <3>2, <3>4, <3>5, <3>6, <3>7
    <2> QED
      BY <2>3, <2>4
  <1>9. /\ \A d \in ds : d \in Devices /\ addr'[d] = 0 /\ plug[d] = Target[2]
        /\ \A d \in Devices : d \notin ds => addr'[d] = addr[d]
    BY <1>1, <1>3, <1>6 DEF WireInv
  <1>10. Ext \notin ds => addr'[Ext] = addr[Ext] /\ EnabledAt(Ext)' = EnabledAt(Ext)
    <2> SUFFICES ASSUME Ext \notin ds
                 PROVE  addr'[Ext] = addr[Ext] /\ EnabledAt(Ext)' = EnabledAt(Ext)
      OBVIOUS
    <2>1. addr'[Ext] = addr[Ext]
      BY <1>3, <1>9
    <2>2. CASE ds = {}
      BY <1>1, <1>8, <2>2 DEF EnabledAt
    <2>3. CASE ds # {}
      <3>1. plug[Ext] # Target[2]
        BY <1>3, <1>6, <2>3
      <3>2. plug[Ext] \in Ports => port'[plug[Ext]] = port[plug[Ext]]
        BY <1>8, <3>1
      <3> QED
        BY <1>1, <1>3, <2>1, <3>2 DEF EnabledAt, WireInv
    <2> QED
      BY <2>1, <2>2, <2>3
  <1>11. Ext \in ds => Target[1] = Root /\ addr'[Ext] = 0 /\ \A p \in Ports : OnRoot(p) \/ ~port'[p].en
    BY <1>3, <1>6, <1>8, <1>9, PlaceFacts DEF WireInv
  <1>12. OnLine(Target[1])' <=> OnLine(Target[1])
    <2>1. Target[1] # Root => addr'[Ext] = addr[Ext]
      BY <1>10, <1>11
    <2> QED
      BY <1>5, <2>1 DEF OnLine
  <1>13. \A d : Worked(d)' <=> Worked(d)
    BY <1>1, <1>2, <1>5, <1>12 DEF Worked
  <1>14. WireInv'
    <2>1. \A p \in Ports : port'[p].en => port'[p].power /\ \E d \in Devices : plug[d] = p
      <3> SUFFICES ASSUME NEW p \in Ports, port'[p].en
                   PROVE  port'[p].power /\ \E d \in Devices : plug[d] = p
        OBVIOUS
      <3>1. CASE ds = {} \/ p # Target[2]
        BY <1>3, <1>8, <3>1 DEF WireInv
      <3>2. CASE ds # {} /\ p = Target[2]
        BY <1>3, <1>6, <1>8, <3>2 DEF Connected
      <3> QED
        BY <3>1, <3>2
    <2> QED
      <3>1. /\ phase' \in {"off", "running", "stopped"}
            /\ plug' \in [Devices -> {NoPort} \cup Ports]
            /\ plug'[Ext] = NoPort \/ OnRoot(plug'[Ext])
            /\ \A d, e \in Devices : plug'[d] = plug'[e] /\ plug'[d] # NoPort => d = e
        BY <1>3 DEF WireInv
      <3>2. \A p \in Ports : port'[p].en => port'[p].power /\ \E d \in Devices : plug'[d] = p
        BY <2>1
      <3>3. port' \in [Ports -> Ports4] /\ addr' \in [Devices -> Int]
        BY <1>8
      <3> QED
        BY <3>1, <3>2, <3>3 DEF WireInv
  <1>15. \A p \in Ports : port'[p].en /\ p = Target[2] => ds # {}
    <2>1. \A p \in Ports : port'[p].en => \E d \in Devices : plug[d] = p
      BY <1>14 DEF WireInv
    <2>2. port'[Target[2]].en => port[Target[2]].power
      BY <1>3, <1>8, <1>14 DEF WireInv
    <2> QED
      BY <1>3, <1>6, <2>1, <2>2 DEF Connected
  <1>16. ASSUME NEW d \in Devices, Hears(d)', d \notin ds
         PROVE  Hears(d) /\ plug[d] # Target[2] /\ (~OnRoot(plug[d]) => Ext \notin ds)
    <2>1. EnabledAt(d)' /\ plug[d] \in Ports /\ port'[plug[d]].en
          /\ (OnRoot(plug[d]) \/ EnabledAt(Ext)')
      BY <1>3, <1>16 DEF Hears, Listens, EnabledAt, WireInv
    <2>2. plug[d] # Target[2]
      <3> SUFFICES ASSUME plug[d] = Target[2] PROVE FALSE
        OBVIOUS
      <3>1. ds # {}
        BY <1>15, <2>1
      <3> QED
        BY <1>6, <1>16, <3>1
    <2>3. port'[plug[d]] = port[plug[d]] /\ (Ext \in ds => OnRoot(plug[d]))
      BY <1>8, <2>1, <2>2
    <2>4. EnabledAt(d)
      BY <2>1, <2>3 DEF EnabledAt
    <2>5. Listens(d)
      BY <1>10, <2>1, <2>3, <2>4 DEF Listens
    <2>6. plug[d] \in stray' <=> plug[d] \in stray
      BY <1>1, <2>2
    <2> QED
      BY <1>16, <2>2, <2>3, <2>5, <2>6 DEF Hears
  <1>17. WorkInv'
    BY <1>3, <1>4 DEF WorkInv, IsHubAt, PCs
  <1>18. TreeType' /\ TreeInv'
    BY <1>1 DEF TreeType, TreeInv, HubInv, IsHubAt
  <1>19. AddrInv'
    <2>1. Known' = Known
      BY <1>4, <1>5 DEF Known, Fresh, Unnamed
    <2>2. AddressesOf(Known)' = AddressesOf(Known)
      BY <2>1 DEF AddressesOf
    <2> QED
      BY <1>3, <2>1, <2>2 DEF AddrInv, HubInv
  <1>20. FreshInv' /\ QuietInv' /\ AboveInv'
    BY <1>4, <1>5 DEF FreshInv, QuietInv, AboveInv, HubInv, Named, Unnamed
  <1>21. CcInv'
    <2> SUFFICES ASSUME NEW p \in Ports, Heard(p)', port'[p].cc
                 PROVE  p = Target[2] /\ OnLine(Target[1])
      BY <1>4, <1>5, <1>12 DEF CcInv
    <2>1. CASE p = Target[2]
      BY <1>3, <2>1, BusFacts DEF OnLine
    <2>2. CASE p # Target[2]
      <3>1. port'[p] = port[p] /\ (Ext \in ds => OnRoot(p)) /\ (p \in stray' <=> p \in stray)
        <4>1. port'[p].en
          BY DEF Heard
        <4> QED
          BY <1>1, <1>8, <2>2, <4>1
      <3>2. Heard(p) /\ port[p].cc
        BY <1>10, <3>1 DEF Heard
      <3> QED
        BY <3>2 DEF HubInv, CcInv
    <2> QED
      BY <2>1, <2>2
  <1>22. WorkedInv'
    <2> SUFFICES ASSUME NEW d \in Devices, Hears(d)', Worked(d) PROVE Heeds(d)'
      BY <1>13 DEF WorkedInv
    <2>1. d \in ds
      BY <1>16 DEF Worked
    <2> QED
      BY <1>4, <1>9, <1>11, <2>1 DEF Heeds, Named
  <1>23. SteadyInv'
    <2> SUFFICES ASSUME NEW d \in Devices, Hears(d)', ~Worked(d)
                 PROVE  addr'[d] >= 2 /\ (~Astray(d)' => Held(d)')
      BY <1>13 DEF SteadyInv
    <2>1. d \notin ds
      BY <1>2, <1>3, <1>6, BusFacts DEF Worked, OnLine
    <2>2. /\ Hears(d) /\ addr'[d] = addr[d] /\ plug[d] # Target[2]
          /\ (~OnRoot(plug[d]) => Ext \notin ds)
      BY <1>9, <1>16, <2>1
    <2>3. addr[d] >= 2 /\ (~Astray(d) => Held(d))
      BY <2>2 DEF HubInv, SteadyInv
    <2>4. Astray(d) => Astray(d)'
      <3> SUFFICES ASSUME ~OnRoot(plug[d]), plug[Ext] \in stray PROVE plug[Ext] \in stray'
        BY <1>1, <2>2 DEF Astray
      <3>1. EnabledAt(Ext) /\ plug[Ext] \in Ports
        BY <1>3, <2>2, BusFacts DEF EnabledAt, WireInv
      <3>2. plug[Ext] # Target[2]
        BY <1>3, <1>6, <2>2, <3>1 DEF Connected, EnabledAt, WireInv
      <3> QED
        BY <1>1, <3>2
    <2>5. ASSUME NEW pl \in Places, HeldAt(d, pl) PROVE Held(d)'
      <3>1. pl[1] # Root => addr'[Ext] = addr[Ext]
        BY <1>10, <2>2, <2>5, PlaceFacts DEF HeldAt
      <3> QED
        BY <2>2, <2>5, <3>1, StaysHeld
    <2> QED
      BY <2>2, <2>3, <2>4, <2>5 DEF Held
  <1>24. StrayInv'
    <2> SUFFICES ASSUME NEW p \in stray \cap Range(RootPorts) PROVE ~port'[p].cc
      BY <1>1, <1>4, <1>5 DEF StrayInv, HubInv
    <2>1. p \in Ports /\ OnRoot(p) /\ ~port[p].cc
      BY DEF HubInv, StrayInv, Ports, OnRoot
    <2> QED
      BY <1>8, <2>1
  <1>25. ErrorInv'
    <2> SUFFICES ASSUME NEW h \in Hubs \ {Root}, hub[h].error, ~(k.why = "hub" /\ k.h = h),
                        EnabledAt(Ext)', OnLine(h)'
                 PROVE  FALSE
      BY <1>4 DEF ErrorInv
    <2>1. CASE Ext \notin ds
      BY <1>10, <2>1 DEF HubInv, ErrorInv, OnLine
    <2>2. CASE Ext \in ds
      <3>1. child[PlaceOf(h)].addr = 0
        BY <1>11, <2>2 DEF OnLine
      <3>2. IsHubAt(PlaceOf(h)) /\ PlaceOf(h) \in Places /\ None # Ext
        BY PlaceFacts, HubAssumption DEF HubInv, TreeInv
      <3>3. PlaceOf(h) \in Known
        BY <3>2 DEF Known, IsHubAt, Fresh, HubInv, FreshInv
      <3> QED
        BY <3>1, <3>3 DEF HubInv, AddrInv
    <2> QED
      BY <2>1, <2>2
  <1> QED
    BY <1>14, <1>17, <1>18, <1>19, <1>20, <1>21, <1>22, <1>23, <1>24, <1>25 DEF HubInv

(* A hub that does not hear of the reset leaves the port as it is.         *)
LEMMA ResetUnheardKeeps ==
  ASSUME HubInv, k.pc = "reset", plug' = plug, UNCHANGED <<phase, child, devmap, next, hub, events>>,
         k' = Goto("wait"), Target[1] # Root, ResetUnheard(Target[2])
  PROVE  HubInv'
  <1>1. /\ addr' = addr /\ port' = port
        /\ stray' = stray \cup {q \in {Target[2]} : port[q].en}
    BY DEF ResetUnheard
  <1>2. Working
    BY DEF Working, Unnamed
  <1>3. /\ phase = "running" /\ k.pc # "idle" /\ WireInv /\ WorkInv
        /\ Target \in Places /\ Target[2] \in Ports /\ ~OnRoot(Target[2])
    BY <1>2, WorkingAt
  <1>4. /\ k'.pc = "wait" /\ k'.h = k.h /\ k'.i = k.i /\ k'.why = k.why /\ DOMAIN k' = DOMAIN k
    BY <1>3, GotoFields
  <1>5. Here' = Here /\ Target' = Target /\ Working'
    BY <1>4, HereSame DEF Working, Unnamed
  <1>6. stray \subseteq stray' /\ stray' \subseteq Ports /\ (port[Target[2]].en => Target[2] \in stray')
    BY <1>1, <1>3 DEF HubInv, TreeType
  <1>7. Dimmer(port')
    BY <1>1, <1>3 DEF Dimmer, WireInv
  <1>8. /\ \A d \in Devices : Hears(d)' => Hears(d)
        /\ \A p \in Ports : Heard(p)' => Heard(p)
        /\ WireInv'
    BY <1>1, <1>3, <1>6, <1>7, DimmerHears DEF WireInv
  <1>9. EnabledAt(Ext)' = EnabledAt(Ext) /\ \A h : OnLine(h)' = OnLine(h)
    BY <1>1 DEF EnabledAt, OnLine
  <1>10. \A d : Worked(d)' <=> Worked(d)
    BY <1>2, <1>5, <1>9 DEF Worked
  <1>11. \A d \in Devices : Hears(d)' => plug[d] # Target[2]
    BY <1>1, <1>3, <1>6 DEF Hears, Listens, EnabledAt
  <1>12. TreeType' /\ TreeInv' /\ WorkInv'
    <2>1. TreeType' /\ TreeInv'
      BY <1>6 DEF TreeType, TreeInv, HubInv, IsHubAt
    <2> QED
      BY <1>3, <1>4, <2>1 DEF WorkInv, IsHubAt, PCs
  <1>13. AddrInv'
    <2>1. Known' = Known
      BY <1>4, <1>5 DEF Known, Fresh, Unnamed
    <2>2. AddressesOf(Known)' = AddressesOf(Known)
      BY <2>1 DEF AddressesOf
    <2> QED
      BY <1>3, <2>1, <2>2 DEF AddrInv, HubInv
  <1>14. FreshInv' /\ QuietInv' /\ AboveInv'
    BY <1>4, <1>5 DEF FreshInv, QuietInv, AboveInv, HubInv, Named, Unnamed
  <1>15. CcInv'
    BY <1>1, <1>4, <1>5, <1>8, <1>9 DEF CcInv, HubInv
  <1>16. WorkedInv'
    BY <1>5, <1>11 DEF WorkedInv, Worked
  <1>17. SteadyInv'
    <2> SUFFICES ASSUME NEW d \in Devices, Hears(d)', ~Worked(d)
                 PROVE  addr[d] >= 2 /\ (~Astray(d)' => Held(d)')
      BY <1>1, <1>10 DEF SteadyInv
    <2>1. addr[d] >= 2 /\ (~Astray(d) => Held(d))
      BY <1>8 DEF HubInv, SteadyInv
    <2>2. (Astray(d) => Astray(d)') /\ Held(d)' = Held(d)
      BY <1>1, <1>6 DEF Astray, Held, HeldAt, OnLine
    <2> QED
      BY <2>1, <2>2
  <1>18. StrayInv'
    <2>1. stray' \cap Range(RootPorts) = stray \cap Range(RootPorts)
      BY <1>1, <1>3 DEF OnRoot
    <2> QED
      BY <1>1, <1>4, <1>5, <2>1 DEF StrayInv, HubInv
  <1>19. ErrorInv'
    BY <1>4, <1>9 DEF ErrorInv, HubInv
  <1> QED
    BY <1>8, <1>12, <1>13, <1>14, <1>15, <1>16, <1>17, <1>18, <1>19 DEF HubInv

(* The port of the device is reset, or its hub does not hear of it.        *)
LEMMA PortResetKeeps == HubInv /\ PortReset => HubInv'
  <1> SUFFICES ASSUME HubInv, PortReset PROVE HubInv'
    OBVIOUS
  <1>1. /\ k.pc = "reset" /\ plug' = plug /\ UNCHANGED <<phase, child, devmap, next, hub, events>>
        /\ k' = Goto("wait") /\ SetReset(Target)
    BY DEF PortReset, At
  <1>2. CASE Answered(Target[1]) /\ ResetDone(Target[2])
    BY <1>1, <1>2, ResetDoneKeeps DEF Answered
  <1>3. CASE Unanswered(Target[1]) /\ ResetUnheard(Target[2])
    <2>1. Target[1] # Root
      BY <1>3 DEF Unanswered, Answers
    <2> QED
      BY <1>1, <1>3, <2>1, ResetUnheardKeeps
  <1> QED
    BY <1>1, <1>2, <1>3 DEF SetReset

(* The hub does not answer under the address the tree has for it.          *)
LEMMA HubResetKeeps == HubInv /\ HubReset => HubInv'
  <1> SUFFICES ASSUME HubInv, HubReset PROVE HubInv'
    OBVIOUS
  <1> DEFINE g == k.h
             gone == PlacesBelow(g)
  <1>1. /\ k.pc = "hubreset"
        /\ child' = [q \in Places |-> IF q \in gone THEN None ELSE child[q]]
        /\ devmap' = devmap \ AddressesOf(gone)
        /\ hub' = [hub EXCEPT ![g].urb = FALSE]
        /\ k' = [k EXCEPT !.pc = "reset", !.why = "hub", !.r = 1]
        /\ plug' = plug /\ port' = port /\ addr' = addr
        /\ phase' = phase /\ next' = next /\ events' = events /\ stray' = stray
    BY DEF HubReset, At, BelowGone, hardware
  <1>2. /\ phase = "running" /\ WireInv /\ WorkInv /\ k.why = "probe"
        /\ g \in Hubs \ {Root} /\ k.i \in 1 .. Len(PortsOf(g)) /\ IsHubAt(PlaceOf(g)) /\ hub[g].error
        /\ PlaceOf(g) \in Places /\ OnRoot(g) /\ PlaceOf(g)[1] = Root /\ PlaceOf(g)[2] = g
        /\ g \in Ports
    BY <1>1, PlaceFacts DEF HubInv, WorkInv, Ports, OnRoot
  <1>3. k'.pc = "reset" /\ k'.why = "hub" /\ k'.h = g /\ k'.i = k.i /\ DOMAIN k' = DOMAIN k
    BY <1>1, <1>2, Fields
  <1>4. gone \subseteq Places /\ (\A q \in gone : q[1] = g) /\ \A q \in Places : q[1] = g => q \in gone
    BY DEF PlacesBelow
  <1>5. \A h \in Hubs \ {Root} : PlaceOf(h) \in Places /\ PlaceOf(h) \notin gone
    BY <1>2, <1>4, PlaceFacts
  <1> HIDE DEF gone
  <1>6. \A q \in Places : child'[q] = IF q \in gone THEN None ELSE child[q]
    BY <1>1
  <1>7. \A h \in Hubs \ {Root} : child'[PlaceOf(h)] = child[PlaceOf(h)]
    BY <1>5, <1>6
  <1>8. ~Working /\ Working' /\ Target' = PlaceOf(g)
    BY <1>1, <1>3 DEF Working, Unnamed, Named, Target
  <1>9. ~(EnabledAt(Ext) /\ OnLine(g))
    BY <1>2 DEF HubInv, ErrorInv
  <1>10. /\ \A d \in Devices : Hears(d)' = Hears(d) /\ Astray(d)' = Astray(d)
         /\ \A p \in Ports : Heard(p)' = Heard(p)
         /\ EnabledAt(Ext)' = EnabledAt(Ext)
         /\ \A h \in Hubs : OnLine(h)' <=> OnLine(h)
    <2>1. \A d : EnabledAt(d)' = EnabledAt(d)
      BY <1>1 DEF EnabledAt
    <2>2. \A h \in Hubs : OnLine(h)' <=> OnLine(h)
      BY <1>1, <1>7 DEF OnLine
    <2> QED
      BY <1>1, <2>1, <2>2 DEF Hears, Listens, Astray, Heard
  <1>11. \A d : Worked(d)' <=> plug[d] = g
    BY <1>1, <1>2, <1>8 DEF Worked, OnLine
  <1>12. Known' = Known \ gone
    BY <1>1, <1>3, <1>4, <1>6 DEF Known, Fresh, Unnamed
  <1>13. AddrInv' /\ devmap' \subseteq 1 .. MAX_ADDRESS
    <2>1. \A q \in Known \ gone : child'[q].addr = child[q].addr
      BY <1>6 DEF Known
    <2> QED
      BY <1>1, <1>2, <1>4, <1>12, <2>1, AddrDrop
  <1>14. WireInv'
    BY <1>1, <1>2 DEF WireInv
  <1>15. /\ hub' \in [Hubs -> [bound : BOOLEAN, urb : BOOLEAN, error : BOOLEAN]]
         /\ \A h \in Hubs : hub'[h].bound = hub[h].bound /\ hub'[h].error = hub[h].error
    BY <1>1, <1>2 DEF HubInv, TreeType
  <1>16. TreeType'
    <2>1. child' \in [Places -> {None} \cup UsbDevs]
      BY <1>1 DEF HubInv, TreeType
    <2> QED
      BY <1>1, <1>13, <1>15, <2>1 DEF HubInv, TreeType
  <1>17. TreeInv'
    <2>1. \A q \in Places : IsHubAt(q)' => q[1] = Root
      BY <1>6 DEF HubInv, TreeInv, IsHubAt
    <2>2. \A h \in Hubs \ {Root} : hub'[h].bound => IsHubAt(PlaceOf(h))'
      BY <1>7, <1>15 DEF HubInv, TreeInv, IsHubAt
    <2> QED
      BY <1>1, <1>15, <2>1, <2>2, PlaceFacts DEF HubInv, TreeInv, Hubs
  <1>18. WorkInv'
    <2>1. child'[PlaceOf(k.h)] # None /\ child'[PlaceOf(k.h)].drv = Ext
      BY <1>2, <1>7 DEF IsHubAt
    <2> QED
      BY <1>1, <1>2, <1>3, <2>1 DEF WorkInv, PCs, IsHubAt
  <1>19. FreshInv' /\ QuietInv' /\ AboveInv'
    BY <1>3 DEF FreshInv, QuietInv, AboveInv
  <1>20. CcInv'
    BY <1>1, <1>10 DEF HubInv, CcInv
  <1>21. StrayInv'
    <2>1. k.h # Root /\ \A p \in Range(RootPorts) : p \in Hubs \ {Root}
      BY <1>2, HubAssumption DEF Hubs
    <2> QED
      BY <1>1, <1>3, <1>7, <2>1 DEF HubInv, StrayInv
  <1>22. ErrorInv'
    BY <1>1, <1>2, <1>10, <1>15 DEF HubInv, ErrorInv
  <1>23. ASSUME NEW d \in Devices, Hears(d)
         PROVE  ~Worked(d) /\ addr[d] >= 2 /\ (~Astray(d) => Held(d))
    BY <1>8, <1>23 DEF HubInv, SteadyInv, Worked
  <1>24. WorkedInv'
    <2> SUFFICES ASSUME NEW d \in Devices, Hears(d), plug[d] = g
                 PROVE  addr[d] = child[PlaceOf(g)].addr /\ d # Ext
      BY <1>1, <1>3, <1>7, <1>8, <1>10, <1>11, <1>2 DEF WorkedInv, Heeds, Named
    <2>1. ~Astray(d)
      BY <1>2 DEF Astray, HubInv, StrayInv, IsHubAt, OnRoot
    <2>2. PICK pl \in Places : HeldAt(d, pl)
      BY <1>23, <2>1 DEF Held
    <2>3. pl = PlaceOf(g)
      BY <1>2, <2>2, PlaceFacts DEF HeldAt
    <2>4. addr[d] = child[PlaceOf(g)].addr
      BY <2>2, <2>3 DEF HeldAt
    <2>5. d = Ext => EnabledAt(Ext) /\ OnLine(g)
      BY <2>4 DEF OnLine, Hears, Listens
    <2> QED
      BY <1>9, <2>4, <2>5
  <1>25. SteadyInv'
    <2> SUFFICES ASSUME NEW d \in Devices, Hears(d)
                 PROVE  addr[d] >= 2 /\ (~Astray(d) => Held(d)')
      BY <1>1, <1>10 DEF SteadyInv
    <2>1. ASSUME ~Astray(d) PROVE Held(d)'
      <3>1. PICK pl \in Places : HeldAt(d, pl)
        BY <1>23, <2>1 DEF Held
      <3>2. pl \notin gone
        <4>1. pl[1] = g => OnLine(g) /\ EnabledAt(Ext)
          BY <1>2, <3>1, PlaceFacts, BusFacts DEF HeldAt
        <4> QED
          BY <1>4, <1>9, <4>1
      <3>3. child'[pl] = child[pl]
        BY <1>6, <3>2
      <3>4. pl[1] # Root => child'[PlaceOf(pl[1])] = child[PlaceOf(pl[1])]
        BY <1>7, PlaceFacts
      <3> QED
        BY <1>1, <3>1, <3>3, <3>4, StaysHeld
    <2> QED
      BY <1>23, <2>1
  <1> QED
    BY <1>13, <1>14, <1>16, <1>17, <1>18, <1>19, <1>20, <1>21, <1>22, <1>24, <1>25 DEF HubInv

(* As DisconnectFacts, also for a place without a device.                  *)
LEMMA DisconnectAnyFacts ==
  ASSUME HubInv, NEW pl \in Places, DisconnectAny(pl)
  PROVE  /\ Removed(pl) \subseteq Places /\ pl \in Removed(pl)
         /\ \A q \in Removed(pl) : q = pl \/ (IsHubAt(pl) /\ pl[1] = Root /\ q[1] = pl[2])
         /\ \A h \in Hubs \ {Root} : PlaceOf(h) \in Removed(pl) => PlaceOf(h) = pl /\ h = pl[2]
         /\ child' \in [Places -> {None} \cup UsbDevs]
         /\ \A q \in Places : child'[q] = IF q \in Removed(pl) THEN None ELSE child[q]
         /\ devmap' = devmap \ AddressesOf(Removed(pl))
         /\ hub' \in [Hubs -> [bound : BOOLEAN, urb : BOOLEAN, error : BOOLEAN]]
         /\ \A h \in Hubs : hub'[h] = hub[h] \/ (h = pl[2] /\ hub'[h] = NoHub)
         /\ IsHubAt(pl) => ~hub'[pl[2]].error
         /\ events' \in Seq(Hubs)
         /\ \A i, j \in DOMAIN events' : events'[i] = events'[j] => i = j
         /\ TreeInv'
  <1>1. CASE child[pl] # None
    <2>1. usb_disconnect(pl)
      BY <1>1 DEF DisconnectAny
    <2> QED
      BY <2>1, DisconnectFacts
  <1>2. CASE child[pl] = None
    <2>1. child' = child /\ devmap' = devmap /\ hub' = hub /\ events' = events
      BY <1>2 DEF DisconnectAny
    <2>2. ~IsHubAt(pl) /\ Removed(pl) = {pl}
      BY <1>2 DEF IsHubAt, Removed
    <2>3. AddressesOf(Removed(pl)) = {}
      BY <1>2, <2>2 DEF AddressesOf
    <2>4. \A h \in Hubs \ {Root} : PlaceOf(h) = pl => h = pl[2]
      BY PlaceFacts
    <2>5. TreeType /\ TreeInv
      BY DEF HubInv
    <2>6. TreeInv'
      BY <2>1, <2>5 DEF TreeInv, IsHubAt
    <2>7. \A q \in Places : child'[q] = IF q \in Removed(pl) THEN None ELSE child[q]
      BY <1>2, <2>1, <2>2
    <2>8. devmap' = devmap \ AddressesOf(Removed(pl))
      BY <2>1, <2>3
    <2> QED
      BY <2>1, <2>2, <2>4, <2>5, <2>6, <2>7, <2>8 DEF TreeType
  <1> QED
    BY <1>1, <1>2

(* The thread drops a device that the bus does not reach.                  *)
LEMMA ConnectChangeKeeps == HubInv /\ ConnectChange => HubInv'
  <1> SUFFICES ASSUME HubInv, ConnectChange PROVE HubInv'
    OBVIOUS
  <1> DEFINE S == Removed(Here)
  <1>1. /\ k.pc = "change" /\ DisconnectAny(Here) /\ ClearFeature(Here, "cc")
        /\ plug' = plug /\ addr' = addr /\ phase' = phase /\ next' = next /\ stray' = stray
        /\ \/ k' = [Then("debounce") EXCEPT !.n = DEBOUNCE_SAMPLES]
           \/ k' = Then("disable")
           \/ k' = NextPort
    BY DEF ConnectChange, At
  <1>2. /\ phase = "running" /\ WireInv /\ WorkInv /\ k.why = "probe" /\ k.h \in Hubs
        /\ k.i \in 1 .. Len(PortsOf(k.h)) /\ (k.h # Root => IsHubAt(PlaceOf(k.h)))
        /\ Here \in Places /\ Here[1] = k.h /\ Here[2] \in Ports
    BY <1>1, HereFacts DEF HubInv, WorkInv
  <1>3. Calmer(port')
    BY <1>1, <1>2, ClearFacts
  <1>4. \/ /\ k'.pc \in {"debounce", "disable"} /\ k'.h = k.h /\ k'.i = k.i /\ k'.why = "probe"
           /\ DOMAIN k' = DOMAIN Rest
        \/ k' = NextPort /\ k'.pc \in {"idle", "status"} /\ k'.why = "probe"
    <2>1. CASE k' = [Then("debounce") EXCEPT !.n = DEBOUNCE_SAMPLES]
      BY <2>1, ThenFields, RestFields
    <2>2. CASE k' = Then("disable")
      BY <2>2, ThenFields
    <2>3. CASE k' = NextPort
      BY <1>1, <1>2, <2>3, NextPortFields
    <2> QED
      BY <1>1, <2>1, <2>2, <2>3
  <1>5. /\ S \subseteq Places /\ Here \in S
        /\ \A q \in S : q = Here \/ (IsHubAt(Here) /\ Here[1] = Root /\ q[1] = Here[2])
        /\ \A h \in Hubs \ {Root} : PlaceOf(h) \in S => PlaceOf(h) = Here /\ h = Here[2]
        /\ child' \in [Places -> {None} \cup UsbDevs]
        /\ \A q \in Places : child'[q] = IF q \in S THEN None ELSE child[q]
        /\ devmap' = devmap \ AddressesOf(S)
        /\ hub' \in [Hubs -> [bound : BOOLEAN, urb : BOOLEAN, error : BOOLEAN]]
        /\ \A h \in Hubs : hub'[h] = hub[h] \/ (h = Here[2] /\ hub'[h] = NoHub)
        /\ IsHubAt(Here) => ~hub'[Here[2]].error
        /\ events' \in Seq(Hubs)
        /\ \A i, j \in DOMAIN events' : events'[i] = events'[j] => i = j
        /\ TreeInv'
    BY <1>1, <1>2, DisconnectAnyFacts
  <1> HIDE DEF S
  <1>6. /\ \A d \in Devices : Hears(d)' => Hears(d)
        /\ \A p \in Ports : Heard(p)' => Heard(p)
        /\ EnabledAt(Ext)' => EnabledAt(Ext)
        /\ WireInv'
    BY <1>1, <1>2, <1>3, CalmerDims, DimmerHears DEF WireInv
  <1>7. ~Working
    BY <1>1 DEF Working, Unnamed, Named
  <1>8. ~(Heard(Here[2]) /\ OnLine(k.h))
    BY <1>1 DEF HubInv, QuietInv
  <1>9. k.h # Root => PlaceOf(k.h) \in Places /\ child'[PlaceOf(k.h)] = child[PlaceOf(k.h)]
    <2> SUFFICES ASSUME k.h # Root
                 PROVE  PlaceOf(k.h) \in Places /\ child'[PlaceOf(k.h)] = child[PlaceOf(k.h)]
      OBVIOUS
    <2>1. PlaceOf(k.h) \in Places /\ PlaceOf(k.h)[1] = Root
      BY <1>2, PlaceFacts
    <2>2. PlaceOf(k.h) \notin S
      BY <1>2, <1>5, <2>1
    <2> QED
      BY <1>5, <2>1, <2>2
  <1>10. Known' = Known \ S
    <2>1. \A q : ~Fresh(q) /\ (Fresh(q)' => q = Here)
      <3>1. Here' = Here \/ k'.pc \in {"idle", "status"}
        BY <1>4, HereSame
      <3> QED
        BY <1>1, <3>1 DEF Fresh, Unnamed
    <2>2. child'[Here] = None
      BY <1>2, <1>5
    <2>3. Known = {q \in Places : child[q] # None} /\ Known' = {q \in Places : child'[q] # None}
      BY <2>1, <2>2 DEF Known
    <2> QED
      BY <1>5, <2>3
  <1>11. AddrInv' /\ devmap' \subseteq 1 .. MAX_ADDRESS
    <2>1. \A q \in Known \ S : child'[q].addr = child[q].addr
      BY <1>5 DEF Known
    <2> QED
      BY <1>1, <1>2, <1>5, <1>10, <2>1, AddrDrop
  <1>12. TreeType'
    BY <1>1, <1>5, <1>11 DEF TreeType, HubInv
  <1>13. WorkInv'
    <2>1. k.h # Root => child'[PlaceOf(k.h)] # None /\ child'[PlaceOf(k.h)].drv = Ext
      BY <1>2, <1>9 DEF IsHubAt
    <2>2. CASE k' = NextPort
      BY <1>1, <1>2, <2>1, <2>2, NextWork
    <2>3. CASE /\ k'.pc \in {"debounce", "disable"} /\ k'.h = k.h /\ k'.i = k.i /\ k'.why = "probe"
               /\ DOMAIN k' = DOMAIN Rest
      BY <1>1, <1>2, <2>1, <2>3 DEF WorkInv, PCs, IsHubAt
    <2> QED
      BY <1>4, <2>2, <2>3
  <1>14. CcInv'
    BY <1>1, <1>3, <1>6 DEF HubInv, CcInv, Calmer
  <1>16. FreshInv' /\ QuietInv' /\ WorkedInv' /\ AboveInv'
    <2>1. CASE k' = NextPort /\ k'.pc \in {"idle", "status"}
      BY <2>1, Leaving
    <2>2. CASE k'.pc \in {"debounce", "disable"} /\ k'.h = k.h /\ k'.i = k.i /\ k'.why = "probe"
      <3>1. Here' = Here /\ Target' = Here
        BY <1>2, <2>2, HereSame DEF Target
      <3>2. child'[Here] = None
        BY <1>2, <1>5
      <3>3. ~(Heard(Here[2])' /\ OnLine(k.h)')
        <4>1. OnLine(k.h)' => OnLine(k.h)
          BY <1>1, <1>9, <2>2 DEF OnLine
        <4>2. Heard(Here[2])' => Heard(Here[2])
          BY <1>2, <1>6, <3>1 DEF Heard
        <4> QED
          BY <1>8, <4>1, <4>2
      <3>4. WorkedInv'
        <4> SUFFICES ASSUME NEW d \in Devices, Hears(d)', Worked(d)' PROVE FALSE
          BY DEF WorkedInv
        <4>1. plug[d] = Here[2] /\ OnLine(k.h)'
          BY <1>1, <1>2, <2>2, <3>1 DEF Worked
        <4>2. Heard(Here[2])'
          BY <1>1, <3>1, <4>1 DEF Hears, Listens, EnabledAt, Heard
        <4> QED
          BY <3>3, <4>1, <4>2
      <3>5. FreshInv'
        BY <2>2, <3>1, <3>2 DEF FreshInv, Named
      <3>6. QuietInv' /\ AboveInv'
        BY <2>2, <3>1, <3>3 DEF QuietInv, AboveInv, Named
      <3> QED
        BY <3>4, <3>5, <3>6
    <2> QED
      BY <1>4, <2>1, <2>2
  <1>17. SteadyInv'
    <2> SUFFICES ASSUME NEW d \in Devices, Hears(d)'
                 PROVE  addr'[d] >= 2 /\ (~Astray(d)' => Held(d)')
      BY DEF SteadyInv
    <2>1. Hears(d) /\ ~Worked(d)
      BY <1>6, <1>7 DEF Worked
    <2>2. addr[d] >= 2 /\ (~Astray(d) => Held(d))
      BY <2>1 DEF HubInv, SteadyInv
    <2>3. Astray(d)' = Astray(d)
      BY <1>1 DEF Astray
    <2>4. ASSUME ~Astray(d), NEW pl \in Places, HeldAt(d, pl) PROVE Held(d)'
      <3>1. pl # Here
        BY <1>2, <1>8, <2>1, <2>4, BusFacts DEF HeldAt, OnLine
      <3>2. ~(pl[1] # Root /\ Here[1] = Root /\ pl[1] = Here[2])
        <4> SUFFICES ASSUME pl[1] # Root, Here[1] = Root, pl[1] = Here[2] PROVE FALSE
          OBVIOUS
        <4>1. plug[Ext] = Here[2] /\ Hears(Ext)
          BY <2>1, <2>4, CarrierFacts
        <4> QED
          BY <1>2, <1>8, <4>1, BusFacts, PlaceFacts DEF OnLine
      <3>3. pl \notin S
        BY <1>2, <1>5, <3>1, <3>2, PlaceFacts
      <3>4. pl[1] # Root => PlaceOf(pl[1]) \notin S /\ PlaceOf(pl[1]) \in Places
        BY <1>5, <3>2, PlaceFacts
      <3>5. child'[pl] = child[pl] /\ (pl[1] # Root => child'[PlaceOf(pl[1])] = child[PlaceOf(pl[1])])
        BY <1>5, <3>3, <3>4
      <3> QED
        BY <1>1, <2>4, <3>5, StaysHeld
    <2> QED
      BY <1>1, <2>2, <2>3, <2>4 DEF Held
  <1>18. StrayInv'
    <2> SUFFICES ASSUME NEW p \in stray \cap Range(RootPorts)
                 PROVE  /\ child'[PlaceOf(p)] = None /\ ~port'[p].cc
                        /\ \E d \in Devices : plug[d] = p
                        /\ k'.h = Root /\ k'.pc \notin {"idle", "status"} => Here'[2] # p
      BY <1>1 DEF StrayInv
    <2>1. p \in Ports /\ p \in Hubs \ {Root} /\ PlaceOf(p) \in Places
      BY PlaceFacts, HubAssumption DEF Ports, Hubs
    <2>2. /\ child[PlaceOf(p)] = None /\ ~port[p].cc /\ \E d \in Devices : plug[d] = p
          /\ k.h = Root => Here[2] # p
      BY <1>1 DEF HubInv, StrayInv
    <2>3. k'.pc \in {"idle", "status"} \/ (k'.h = k.h /\ Here' = Here)
      BY <1>4, HereSame
    <2> QED
      BY <1>3, <1>5, <2>1, <2>2, <2>3 DEF Calmer
  <1>19. ErrorInv'
    <2> SUFFICES ASSUME NEW h \in Hubs \ {Root}, hub'[h].error, EnabledAt(Ext)', OnLine(h)'
                 PROVE  FALSE
      BY DEF ErrorInv
    <2>1. hub[h].error
      BY <1>5 DEF NoHub
    <2>2. IsHubAt(PlaceOf(h)) /\ PlaceOf(h) \in Places
      BY <2>1, PlaceFacts DEF HubInv, TreeInv
    <2>3. PlaceOf(h) \notin S
      BY <1>5, <2>2
    <2>4. child'[PlaceOf(h)] = child[PlaceOf(h)]
      BY <1>5, <2>2, <2>3
    <2> QED
      BY <1>1, <1>2, <1>6, <2>1, <2>4 DEF HubInv, ErrorInv, OnLine
  <1> QED
    BY <1>5, <1>6, <1>11, <1>12, <1>13, <1>14, <1>16, <1>17, <1>18, <1>19 DEF HubInv

(* The port is turned off; one at an external hub that does not hear of it *)
(* is stray from then on.                                                  *)
LEMMA DisableKeeps == HubInv /\ hub_port_disable => HubInv'
  <1> SUFFICES ASSUME HubInv, hub_port_disable PROVE HubInv'
    OBVIOUS
  <1>1. /\ k.pc = "disable" /\ SameWires /\ plug' = plug /\ k' = NextPort /\ ClearFeature(Here, "en")
        /\ UNCHANGED <<phase, child, devmap, next, hub, events>>
        /\ stray' = stray \cup {p \in {Here[2]} : port'[p].en}
    BY DEF hub_port_disable, At, SameWires
  <1>2. Working
    BY <1>1 DEF Working, Unnamed
  <1>3. /\ phase = "running" /\ k.pc # "idle" /\ WireInv /\ WorkInv /\ k.why = "probe"
        /\ Here \in Places /\ Here[1] = k.h /\ Here[2] \in Ports /\ Target = Here
        /\ k.h = Root <=> OnRoot(Here[2])
    BY <1>1, <1>2, WorkingAt DEF WorkInv
  <1>4. child[Here] = None
    BY <1>1 DEF HubInv, FreshInv
  <1>5. Calmer(port') /\ (OnRoot(Here[2]) => ~port'[Here[2]].en)
    BY <1>1, <1>3, ClearFacts
  <1>6. stray \subseteq stray' /\ stray' \subseteq Ports /\ (port'[Here[2]].en => Here[2] \in stray')
    BY <1>1, <1>3 DEF HubInv, TreeType
  <1>7. /\ \A d \in Devices : Hears(d)' => Hears(d)
        /\ \A p \in Ports : Heard(p)' => Heard(p)
        /\ EnabledAt(Ext)' => EnabledAt(Ext)
        /\ WireInv'
    BY <1>1, <1>3, <1>5, <1>6, CalmerDims, DimmerHears DEF SameWires, WireInv
  <1>8. \A p \in Ports : p = Here[2] => ~Heard(p)'
    BY <1>5, <1>6 DEF Heard
  <1>9. \A d \in Devices : Hears(d)' => ~Worked(d)
    BY <1>1, <1>3, <1>7, <1>8, BusFacts DEF SameWires, Worked, Hears, Listens, EnabledAt, Heard
  <1>10. WorkInv' /\ k'.pc \in {"idle", "status"} /\ k'.why = "probe"
    BY <1>1, <1>3, NextWork DEF WorkInv, IsHubAt
  <1>11. ~Working' /\ FreshInv' /\ QuietInv' /\ WorkedInv' /\ AboveInv'
    BY <1>10, Leaving
  <1>12. AddrInv'
    <2>1. Known' = Known
      <3>1. \A q : (Fresh(q) => q = Here) /\ ~Fresh(q)'
        BY <1>10 DEF Fresh, Unnamed
      <3> QED
        BY <1>1, <1>4, <3>1 DEF Known
    <2>2. AddressesOf(Known)' = AddressesOf(Known)
      BY <1>1, <2>1 DEF AddressesOf
    <2> QED
      BY <1>1, <1>3, <2>1, <2>2 DEF AddrInv, HubInv
  <1>13. TreeType' /\ TreeInv'
    BY <1>1, <1>6 DEF TreeType, TreeInv, HubInv, IsHubAt
  <1>14. CcInv'
    <2> SUFFICES ASSUME NEW p \in Ports, Heard(p)', port'[p].cc PROVE FALSE
      BY DEF CcInv
    <2>1. Heard(p) /\ port[p].cc
      BY <1>5, <1>7 DEF Calmer
    <2>2. p = Here[2]
      BY <1>3, <2>1 DEF HubInv, CcInv
    <2> QED
      BY <1>8, <2>2
  <1>15. SteadyInv'
    <2> SUFFICES ASSUME NEW d \in Devices, Hears(d)'
                 PROVE  addr'[d] >= 2 /\ (~Astray(d)' => Held(d)')
      BY DEF SteadyInv
    <2>1. addr[d] >= 2 /\ (~Astray(d) => Held(d))
      BY <1>7, <1>9 DEF HubInv, SteadyInv
    <2>2. (Astray(d) => Astray(d)') /\ Held(d)' = Held(d)
      BY <1>1, <1>6 DEF Astray, Held, HeldAt, OnLine, SameWires
    <2> QED
      BY <1>1, <2>1, <2>2 DEF SameWires
  <1>16. StrayInv'
    <2>1. stray' \cap Range(RootPorts) = stray \cap Range(RootPorts)
      BY <1>1, <1>5 DEF OnRoot
    <2>2. \A p \in stray \cap Range(RootPorts) : p \in Ports /\ (port'[p].cc => port[p].cc)
      BY <1>5 DEF Calmer, Ports
    <2> QED
      BY <1>1, <1>10, <2>1, <2>2 DEF StrayInv, HubInv
  <1>17. ErrorInv'
    BY <1>1, <1>3, <1>7 DEF ErrorInv, HubInv, OnLine, SameWires
  <1> QED
    BY <1>7, <1>10, <1>11, <1>12, <1>13, <1>14, <1>15, <1>16, <1>17 DEF HubInv

-----------------------------------------------------------------------------
(* Every step keeps the invariant.                                         *)

(* The steps of the thread.                                                *)
LEMMA KhubdKeeps == HubInv /\ Khubd => HubInv'
  <1> SUFFICES ASSUME HubInv, Khubd PROVE HubInv'
    OBVIOUS
  <1>1. CASE TakeEvent \/ PortStatus \/ EnableChange \/ ConnectChange \/ Debounce \/ DebounceClear
    BY <1>1, TakeEventKeeps, PortStatusKeeps, EnableChangeKeeps, ConnectChangeKeeps, DebounceKeeps,
       DebounceClearKeeps
  <1>2. CASE Alloc \/ PortReset \/ WaitReset \/ SetAddress \/ Descriptor
    BY <1>2, AllocKeeps, PortResetKeeps, WaitResetKeeps, SetAddressKeeps, DescriptorKeeps
  <1>3. CASE usb_get_device_descriptor
    BY <1>3, StageKeeps DEF usb_get_device_descriptor, Named
  <1>4. CASE usb_get_configuration
    BY <1>4, StageKeeps DEF usb_get_configuration, Named
  <1>5. CASE usb_set_configuration
    BY <1>5, StageKeeps DEF usb_set_configuration, Named
  <1>6. CASE ProbePad \/ hub_configure \/ ProbeFails
    BY <1>6, ProbePadKeeps, HubConfigureKeeps, ProbeFailsKeeps
  <1>7. CASE hub_port_disable \/ HubPower \/ HubReset \/ HubBack
    BY <1>7, DisableKeeps, HubPowerKeeps, HubResetKeeps, HubBackKeeps
  <1> QED
    BY <1>1, <1>2, <1>3, <1>4, <1>5, <1>6, <1>7 DEF Khubd

(* HubInv is inductive.                                                    *)
LEMMA NextKeeps == HubInv /\ [Next]_vars => HubInv'
  <1> SUFFICES ASSUME HubInv, [Next]_vars PROVE HubInv'
    OBVIOUS
  <1>1. CASE BootStartUSB \/ BootStopUSB
    BY <1>1, StartKeeps, StopKeeps
  <1>2. CASE Khubd
    BY <1>2, KhubdKeeps
  <1>3. CASE Reports
    BY <1>3, HubIrqKeeps, HubErrorsKeeps DEF Reports
  <1>4. CASE Wires
    BY <1>4, PullOutKeeps, PlugInKeeps, NoiseKeeps DEF Wires
  <1>5. CASE Idle \/ UNCHANGED vars
    BY <1>5, IdleKeeps DEF Idle
  <1> QED
    BY <1>1, <1>2, <1>3, <1>4, <1>5 DEF Next

(* AddressesExact: however devices and hubs come and go, and whichever     *)
(* messages are lost, no two devices that the bus reaches listen to the    *)
(* same address, except behind a port left on: by a lost request to turn   *)
(* it off or to reset it again, or by hub_reset(); and between two calls   *)
(* of hub_events() bus->devmap has exactly the addresses of the tree.      *)
THEOREM AddressesAlwaysExact == Spec => []AddressesExact
  <1>1. Init => HubInv
    BY InitHolds
  <1>2. HubInv /\ [Next]_vars => HubInv'
    BY NextKeeps
  <1>3. HubInv => AddressesExact
    BY ExactNow
  <1> QED
    BY <1>1, <1>2, <1>3, PTL DEF Spec
=============================================================================
