------------------------------- MODULE UsbHub -------------------------------
(***************************************************************************)
(* The hub driver of the USB core: how plugging, pulling and noise at the  *)
(* ports of the root hub and of an external hub become devices with an     *)
(* address and a driver (drivers/usb/core/hub.c, usb.c, the root hub of    *)
(* hcd.c and ohci-hub.c, started and polled by drivers/usb/sys/BootUSB.c). *)
(*                                                                         *)
(* hub_events() is one thread that talks to the hardware step by step (k); *)
(* between any two of its accesses devices come and go and the hubs report *)
(* changes.  A message is one step and may be lost; UsbQueue models how it *)
(* is carried.  C_RESET, which tells the thread nothing, is left out.      *)
(***************************************************************************)
EXTENDS Integers, Sequences, FiniteSets, SequencesExt

CONSTANTS
  Root, Ext,             \* the root hub and a device that is itself a hub
  Pads,                  \* devices that are not hubs
  RootPorts, ExtPorts,   \* sequences of port numbers
  NoPort, None,
  MAX_ADDRESS,           \* addresses are 1 .. MAX_ADDRESS (127)
  DEBOUNCE_SAMPLES,      \* HUB_DEBOUNCE_TIMEOUT / HUB_DEBOUNCE_STEP
  DEBOUNCE_STABLE, RESET_TRIES, PROBE_TRIES,
  SET_ADDRESS_RETRYS, NEW_DEVICE_RETRYS,
  MaxMoves, MaxFaults    \* bounds: plugs and pulls; lost messages and noise

Devices == Pads \cup {Ext}
Ports == Range(RootPorts) \cup Range(ExtPorts)
OnRoot(p) == p \in Range(RootPorts)

\* A struct usb_hub is known by the port of the root hub it was found at, and a
\* usb_device by its place: a hub and one of the hub's ports.  A hub that moves
\* is another one at its new place, also while the old one still waits for its
\* end.
Hubs == {Root} \cup Range(RootPorts)
PortsOf(h) == IF h = Root THEN RootPorts ELSE ExtPorts
Places == ({Root} \X Range(RootPorts)) \cup (Range(RootPorts) \X Range(ExtPorts))
PlaceOf(h) == <<Root, h>>

ASSUME HubAssumption ==
  /\ RootPorts \in Seq(Int) \ {<<>>} /\ ExtPorts \in Seq(Int) \ {<<>>}
  /\ \A i, j \in DOMAIN RootPorts : RootPorts[i] = RootPorts[j] => i = j
  /\ \A i, j \in DOMAIN ExtPorts : ExtPorts[i] = ExtPorts[j] => i = j
  /\ Range(RootPorts) \cap Range(ExtPorts) = {}
  /\ Root \notin Range(RootPorts) /\ NoPort \notin Ports /\ None \notin Hubs
  /\ Ext \notin Pads /\ None \notin Devices
  /\ None \notin [addr : Int, drv : Devices \cup {None}]

\* There is an address for every place.
ASSUME AddressAssumption == MAX_ADDRESS \in Nat /\ Cardinality(Places) < MAX_ADDRESS

VARIABLES
  phase,     \* "off", "running" between BootStartUSB() and BootStopUSB(), "stopped"
  plug,      \* plug[d]: the port device d is plugged into
  port,      \* port[p]: power, enable, C_CONNECTION and C_ENABLE of a port
  addr,      \* addr[d]: the address device d listens to, 0 after a reset
  child,     \* child[pl]: hub->children[], the usb_device of a place
  devmap,    \* the addresses in use (bus->devmap)
  next,      \* bus->devnum_next
  events,    \* hub_event_list
  hub,       \* hub[h]: struct usb_hub: bound, status urb queued, error
  k,         \* the thread: where it is in hub_events() and its locals
  lost,      \* places whose device was given up, or whose change went unseen
  stray,     \* ports left enabled with a device that nobody knows
  moves, faults

hardware == <<plug, port, addr>>
vars == <<phase, plug, port, addr, child, devmap, next, events, hub, k, lost,
          stray, moves, faults>>

-----------------------------------------------------------------------------
(* The wires *)

Dark == [power |-> FALSE, en |-> FALSE, cc |-> FALSE, ce |-> FALSE]

\* A device is seen by a hub that powers the port.
Connected(p) == port[p].power /\ \E d \in Devices : plug[d] = p

\* The bus reaches a device through enabled ports only.
EnabledAt(d) == plug[d] # NoPort /\ port[plug[d]].en
Listens(d) == EnabledAt(d) /\ (OnRoot(plug[d]) \/ EnabledAt(Ext))

\* A message reaches whoever listens to its address.
Reached(a) == {d \in Devices : Listens(d) /\ addr[d] = a}

\* The external hub loses the state of its ports with power or a reset.
Below(ports, d) ==
  [p \in Ports |-> IF d = Ext /\ ~OnRoot(p) THEN Dark ELSE ports[p]]

PlugIn(d, p) ==
  /\ moves > 0 /\ plug[d] = NoPort /\ \A e \in Devices : plug[e] # p
  /\ d = Ext => OnRoot(p)
  /\ moves' = moves - 1
  /\ plug' = [plug EXCEPT ![d] = p]
  /\ port' = [port EXCEPT ![p].cc = @ \/ port[p].power]
  /\ UNCHANGED <<phase, addr, child, devmap, next, events, hub, k, lost, faults, stray>>

Pulled(p) == [port[p] EXCEPT !.cc = @ \/ port[p].power, !.ce = @ \/ port[p].en, !.en = FALSE]
PullOut(d) ==
  LET p == plug[d] IN
  /\ moves > 0 /\ p # NoPort
  /\ moves' = moves - 1
  /\ plug' = [plug EXCEPT ![d] = NoPort]
  /\ addr' = [addr EXCEPT ![d] = 0]
  /\ stray' = stray \ {p}
  /\ port' = Below([port EXCEPT ![p] = Pulled(p)], d)
  /\ UNCHANGED <<phase, child, devmap, next, events, hub, k, lost, faults>>

\* Interference: the hub disables an enabled port by itself.
Noise(p) ==
  /\ faults > 0 /\ port[p].en
  /\ faults' = faults - 1
  /\ port' = [port EXCEPT ![p].en = FALSE, ![p].ce = TRUE]
  /\ UNCHANGED <<phase, plug, addr, child, devmap, next, events, hub, k, lost, moves, stray>>

-----------------------------------------------------------------------------
(* Requests of the hub driver to a hub.  The root hub answers at once      *)
(* (rh_call_control), the external one while the bus reaches it.           *)

HubAddress(h) == child[PlaceOf(h)].addr
Answers(h) == IF h = Root THEN TRUE ELSE Ext \in Reached(HubAddress(h))

\* A request is answered, or not: the hub is silent, or the request or its
\* answer is lost on the bus, which those of the root hub do not cross.
Dropped == faults > 0 /\ faults' = faults - 1
Answered(h) == Answers(h) /\ UNCHANGED faults
Unanswered(h) == (~Answers(h) /\ UNCHANGED faults) \/ (h # Root /\ Answers(h) /\ Dropped)

\* ClearPortFeature; nobody looks at the result.
ClearFeature(pl, f) ==
  \/ Answered(pl[1]) /\ port' = [port EXCEPT ![pl[2]][f] = FALSE]
  \/ Unanswered(pl[1]) /\ UNCHANGED port

\* SetPortFeature RESET: the device forgets its address, the port is enabled.
\* Unheard, it leaves an enabled port with a device at an address of before.
DevicesReset(p) == {d \in Devices : Connected(p) /\ plug[d] = p}
ResetDone(p) ==
  LET ds == DevicesReset(p) IN
  /\ addr' = [d \in Devices |-> IF d \in ds THEN 0 ELSE addr[d]]
  /\ port' = IF ds = {} THEN port
             ELSE Below([port EXCEPT ![p].en = TRUE], CHOOSE d \in ds : TRUE)
  /\ stray' = stray \ {p}
ResetUnheard(p) ==
  /\ stray' = stray \cup {q \in {p} : port[q].en}
  /\ UNCHANGED <<addr, port>>
SetReset(pl) == \/ Answered(pl[1]) /\ ResetDone(pl[2])
                \/ Unanswered(pl[1]) /\ ResetUnheard(pl[2])

\* SetPortFeature POWER: a device that is there already is a new connection.
Powered(p) == [port[p] EXCEPT !.power = TRUE,
                              !.cc = \/ @
                                     \/ ~port[p].power /\ \E d \in Devices : plug[d] = p]

\* GetPortStatus.
Status(pl) == LET p == pl[2] IN
  [conn |-> Connected(p), en |-> port[p].en, cc |-> port[p].cc, ce |-> port[p].ce]

-----------------------------------------------------------------------------
(* Hubs report changes *)

NoHub == [bound |-> FALSE, urb |-> FALSE, error |-> FALSE]
FreshHub == [bound |-> TRUE, urb |-> TRUE, error |-> FALSE]

\* hub_irq() puts a hub that is not waiting at the head of the list.
Queue(h) == IF h \in Range(events) THEN events ELSE <<h>> \o events

\* A change of a port completes the status urb: for the root hub its timer
\* (rh_report_status) asks the controller.  The urb is submitted again.
hub_irq(h) ==
  /\ phase = "running" /\ hub[h].bound /\ hub[h].urb /\ Answers(h)
  /\ h \notin Range(events)
  /\ \E p \in Range(PortsOf(h)) : port[p].cc \/ port[p].ce
  /\ events' = Queue(h)
  /\ UNCHANGED <<phase, hardware, child, devmap, next, hub, k, lost, moves, faults, stray>>

\* Ten polls in a row that a silent hub does not answer.
HubErrors(h) ==
  /\ phase = "running" /\ hub[h].bound /\ hub[h].urb /\ ~Answers(h)
  /\ ~hub[h].error
  /\ hub' = [hub EXCEPT ![h].error = TRUE]
  /\ events' = Queue(h)
  /\ UNCHANGED <<phase, hardware, child, devmap, next, k, lost, moves, faults, stray>>

-----------------------------------------------------------------------------
(* Devices *)

\* usb_alloc_dev() in the state the reset leaves it, before it has an address.
NewChild == [addr |-> 0, drv |-> None]

\* usb_connect(): the next free address, from devnum_next on, then from 1.
FirstFree(from) ==
  LET free == {a \in from .. MAX_ADDRESS : a \notin devmap} IN
  IF free = {} THEN MAX_ADDRESS + 1 ELSE CHOOSE a \in free : \A b \in free : a <= b
NextAddress == LET a == FirstFree(next) IN IF a <= MAX_ADDRESS THEN a ELSE FirstFree(1)
After(a) == IF a >= MAX_ADDRESS THEN 1 ELSE a + 1

\* usb_disconnect(): the devices below go first, every one gives its address
\* back, and a hub driver leaves the lists (hub_disconnect).
IsHubAt(pl) == child[pl] # None /\ child[pl].drv = Ext
PlacesBelow(h) == {pl \in Places : pl[1] = h}
Removed(pl) == {pl} \cup (IF IsHubAt(pl) THEN PlacesBelow(pl[2]) ELSE {})
AddressesOf(pls) == {child[q].addr : q \in {r \in pls : child[r] # None}}
list_del(h) == IF h \in Range(events)
               THEN RemoveAt(events, CHOOSE i \in DOMAIN events : events[i] = h) ELSE events
hub_disconnect(h) == hub' = [hub EXCEPT ![h] = NoHub] /\ events' = list_del(h)
usb_disconnect(pl) ==
  /\ child' = [q \in Places |-> IF q \in Removed(pl) THEN None ELSE child[q]]
  /\ devmap' = devmap \ AddressesOf(Removed(pl))
  /\ IF IsHubAt(pl) THEN hub_disconnect(pl[2]) ELSE UNCHANGED <<hub, events>>

\* usb_disconnect() of what a place has, if anything.
DisconnectAny(pl) ==
  IF child[pl] # None THEN usb_disconnect(pl)
  ELSE UNCHANGED <<child, devmap, hub, events>>

-----------------------------------------------------------------------------
(* hub_events() *)

Rest == [pc |-> "idle", h |-> None, i |-> 0, snap |-> Dark, try |-> 0, r |-> 0,
         a |-> 0, n |-> 0, seen |-> FALSE, stable |-> 0, why |-> "probe"]
At(pc) == k.pc = pc
Here == <<k.h, PortsOf(k.h)[k.i]>>

\* The place whose device is being reset: the hub's own when the hub is reset.
Target == IF k.why = "hub" THEN PlaceOf(k.h) ELSE Here

\* On to the next port of the hub, or out to the next event.
Goto(pc) == [k EXCEPT !.pc = pc]
NextPort == IF k.i = Len(PortsOf(k.h)) THEN Rest
            ELSE [Rest EXCEPT !.pc = "status", !.h = k.h, !.i = k.i + 1]

\* USBGetEvents() runs the thread, which takes hubs off the head of the list.
TakeEvent ==
  /\ phase = "running" /\ At("idle") /\ events # <<>>
  /\ LET h == Head(events) IN
     k' = [Rest EXCEPT !.h = h, !.i = 1, !.pc = IF hub[h].error THEN "hubreset" ELSE "status"]
  /\ events' = Tail(events)
  /\ UNCHANGED <<phase, hardware, child, devmap, next, hub, lost, moves, faults, stray>>

\* The loop over the ports reads a status and acts on what it read.
\* A port the hub disabled is left alone.
ReenableNever(s) == FALSE
Reenable(s) == ~s.en /\ s.conn /\ child[Here] # None
PortStatus ==
  /\ At("status")
  /\ \/ Unanswered(k.h) /\ k' = NextPort
     \/ /\ Answered(k.h)
        /\ LET s == Status(Here) IN
           k' = IF s.cc THEN [k EXCEPT !.pc = "change", !.snap = s]
                ELSE IF s.ce THEN [k EXCEPT !.pc = "enable", !.snap = s]
                ELSE NextPort
  /\ UNCHANGED <<phase, hardware, child, devmap, next, events, hub, lost, moves, stray>>

\* The change is cleared, and with it one that came after the status: a port
\* that was on then and is off now is not noticed.
Unnoticed == IF k.snap.en /\ ~port'[Here[2]].en /\ ~port'[Here[2]].ce THEN {Here} ELSE {}
EnableChange ==
  /\ At("enable")
  /\ ClearFeature(Here, "ce")
  /\ k' = IF Reenable(k.snap) THEN Goto("change") ELSE NextPort
  /\ lost' = lost \cup Unnoticed
  /\ UNCHANGED <<phase, plug, addr, child, devmap, next, events, hub, moves, stray>>

\* So with a connection that came after the status that is acted on.
Unseen(conn) == IF ~conn /\ Connected(Here[2]) /\ ~port'[Here[2]].cc THEN {Here} ELSE {}

\* Another step of hub_port_connect_change() for this port.
Then(pc) == [Rest EXCEPT !.pc = pc, !.h = k.h, !.i = k.i]

\* hub_port_connect_change(): clear the change, drop the old device, and
\* return when the status said that nothing is connected.
ConnectChange ==
  /\ At("change")
  /\ ClearFeature(Here, "cc")
  /\ DisconnectAny(Here)
  /\ k' = IF k.snap.conn THEN [Then("debounce") EXCEPT !.n = DEBOUNCE_SAMPLES]
          ELSE IF k.snap.en THEN Then("disable") ELSE NextPort
  /\ lost' = (lost \ {Here}) \cup Unseen(k.snap.conn)
  /\ UNCHANGED <<phase, plug, addr, next, moves, stray>>

\* hub_port_debounce() returned: go on, or disable the port.
Debounced(conn) == IF conn THEN [Then("alloc") EXCEPT !.try = 1] ELSE Then("disable")

\* One sample; the change it shows is cleared by a request of its own.  A
\* status that does not come ends it, as if nothing were connected.
Debounce ==
  /\ At("debounce")
  /\ \/ Unanswered(k.h) /\ k' = Then("disable") /\ lost' = lost \cup {Here}
     \/ /\ Answered(k.h) /\ UNCHANGED lost
        /\ LET s == Status(Here)
               stable == IF s.conn = k.seen THEN k.stable + (IF s.conn THEN 1 ELSE 0) ELSE 0
               sample == [k EXCEPT !.seen = s.conn, !.stable = stable, !.n = @ - 1]
           IN  k' = IF stable = DEBOUNCE_STABLE THEN Debounced(TRUE)
                    ELSE IF s.cc THEN [sample EXCEPT !.pc = "clear"]
                    ELSE IF k.n = 1 THEN Debounced(s.conn)
                    ELSE sample
  /\ UNCHANGED <<phase, hardware, child, devmap, next, events, hub, moves, stray>>

DebounceClear ==
  /\ At("clear")
  /\ ClearFeature(Here, "cc")
  /\ k' = IF k.n = 0 THEN Debounced(k.seen) ELSE Goto("debounce")
  /\ lost' = IF k.n = 0 THEN lost \cup Unseen(k.seen) ELSE lost
  /\ UNCHANGED <<phase, plug, addr, child, devmap, next, events, hub, moves, stray>>

\* A try: a usb_device for the port, then hub_port_reset().
Alloc ==
  /\ At("alloc")
  /\ child' = [child EXCEPT ![Here] = NewChild]
  /\ k' = [k EXCEPT !.pc = "reset", !.r = 1]
  /\ UNCHANGED <<phase, hardware, devmap, next, events, hub, lost, moves, faults, stray>>

PortReset ==
  /\ At("reset")
  /\ SetReset(Target)
  /\ k' = Goto("wait")
  /\ UNCHANGED <<phase, plug, child, devmap, next, events, hub, lost, moves>>

\* The end of connect_change() without a device.
NoDevice ==
  /\ child' = [child EXCEPT ![Here] = None]
  /\ k' = Then("disable")

\* A port that does not hear of it stays on.
hub_port_disable ==
  /\ At("disable")
  /\ ClearFeature(Here, "en")
  /\ stray' = stray \cup {p \in {Here[2]} : port'[p].en}
  /\ k' = NextPort
  /\ UNCHANGED <<phase, plug, addr, child, devmap, next, events, hub, lost, moves>>

\* hub_reset() failed: hub_start_disconnect().  Before, the port of the hub
\* was turned off, by the root hub.
HubLost ==
  /\ usb_disconnect(PlaceOf(k.h))
  /\ lost' = lost \cup {PlaceOf(k.h)}
  /\ k' = Rest
HubOff == HubLost /\ port' = [port EXCEPT ![Target[2]].en = FALSE]

\* hub_port_wait_reset(): -1 is tried again, 1 means that the device is gone.
\* Of the status reads of one reset only the one that ends the wait counts:
\* the last one, if none showed an enabled port.
Address == LET a == NextAddress IN
  /\ devmap' = devmap \cup {a} /\ next' = After(a)
  /\ child' = [child EXCEPT ![Here].addr = a]
WaitReset ==
  /\ At("wait")
  /\ LET s == Status(Target)
         up == Answered(Target[1])
         again == Unanswered(Target[1]) \/ (up /\ s.conn /\ (s.cc \/ ~s.en)) IN
     \/ /\ up /\ s.conn /\ ~s.cc /\ s.en
        /\ k' = [k EXCEPT !.pc = "setaddr", !.r = 0, !.a = 1, !.n = 1]
        /\ IF k.why = "hub" THEN UNCHANGED <<devmap, next, child>> ELSE Address
        /\ UNCHANGED <<port, hub, events, lost>>
     \/ /\ again /\ k.r < RESET_TRIES
        /\ k' = [k EXCEPT !.pc = "reset", !.r = @ + 1]
        /\ UNCHANGED <<devmap, next, child, port, hub, events, lost>>
     \/ /\ (again /\ k.r = RESET_TRIES) \/ (up /\ ~s.conn)
        /\ IF k.why = "hub" THEN HubOff
           ELSE /\ NoDevice /\ UNCHANGED <<devmap, hub, events, port>>
                /\ lost' = IF up /\ ~s.conn THEN lost ELSE lost \cup {Here}
        /\ UNCHANGED next
  /\ UNCHANGED <<phase, plug, addr, moves, stray>>

\* usb_new_device() failed: the address is free again; after the last try the
\* port is disabled.
\* An error path that forgets clear_bit().
Kept == devmap
Freed == devmap \ {child[Here].addr}
NewDeviceFails ==
  /\ devmap' = Freed
  /\ IF k.try < PROBE_TRIES
     THEN /\ k' = [Then("alloc") EXCEPT !.try = k.try + 1]
          /\ child' = [child EXCEPT ![Here].addr = -1]
          /\ UNCHANGED lost
     ELSE NoDevice /\ lost' = lost \cup {Here}
  /\ UNCHANGED <<hub, events, port>>

\* A message to an address: nobody answers, or it or its answer is lost.
Delivered(a) == Reached(a) # {} /\ UNCHANGED faults
Failed(a) == (Reached(a) = {} /\ UNCHANGED faults) \/ Dropped

\* SET_ADDRESS goes to address 0.  When only the answer is lost the device has
\* taken the address and does not hear the retry.
Taken == addr' = [d \in Devices |-> IF d \in Reached(0) THEN child[Target].addr ELSE addr[d]]
SetAddress ==
  /\ At("setaddr")
  /\ \/ /\ Delivered(0) /\ Taken
        /\ k' = Goto("descriptor")
        /\ UNCHANGED <<child, devmap, port, hub, events, lost>>
     \/ /\ \/ Reached(0) = {} /\ UNCHANGED <<faults, addr>>
           \/ Reached(0) # {} /\ Dropped /\ (Taken \/ UNCHANGED addr)
        /\ IF k.why = "hub" THEN HubOff
           ELSE IF k.a < SET_ADDRESS_RETRYS
           THEN /\ k' = [k EXCEPT !.a = @ + 1]
                /\ UNCHANGED <<child, devmap, port, hub, events, lost>>
           ELSE NewDeviceFails
  /\ UNCHANGED <<phase, plug, next, moves, stray>>

\* The first eight bytes of the device descriptor; then the address is set
\* again, to a device that may have taken it.
Descriptor ==
  /\ At("descriptor") /\ k.why = "probe"
  /\ \/ /\ Delivered(child[Here].addr)
        /\ k' = Goto("device")
        /\ UNCHANGED <<child, devmap, port, hub, events, lost>>
     \/ /\ Failed(child[Here].addr)
        /\ IF k.n < NEW_DEVICE_RETRYS
           THEN /\ k' = [k EXCEPT !.pc = "setaddr", !.n = @ + 1, !.a = 1]
                /\ UNCHANGED <<child, devmap, port, hub, events, lost>>
           ELSE NewDeviceFails
  /\ UNCHANGED <<phase, plug, addr, next, moves, stray>>

\* The stages behind it are not tried again.
Stage(here, then) ==
  /\ At(here)
  /\ \/ /\ Delivered(child[Here].addr)
        /\ k' = Goto(then)
        /\ UNCHANGED <<child, devmap, port, hub, events, lost>>
     \/ /\ Failed(child[Here].addr)
        /\ NewDeviceFails
  /\ UNCHANGED <<phase, plug, addr, next, moves, stray>>

usb_get_device_descriptor == Stage("device", "configuration")
usb_get_configuration == Stage("configuration", "configure")
usb_set_configuration == Stage("configure", "bind")

\* The interfaces meet the registered drivers.  A pad's driver asks nothing of
\* the device.
ProbePad ==
  /\ At("bind")
  /\ \E d \in Pads : d \in Reached(child[Here].addr)
                     /\ child' = [child EXCEPT ![Here].drv = d]
  /\ k' = NextPort
  /\ UNCHANGED <<phase, hardware, devmap, next, events, hub, lost, moves, faults, stray>>

\* The hub's descriptor and status, either of which may fail, then its urb.
hub_configure ==
  /\ At("bind")
  /\ Delivered(child[Here].addr) /\ Ext \in Reached(child[Here].addr)
  /\ child' = [child EXCEPT ![Here].drv = Ext]
  /\ hub' = [hub EXCEPT ![Here[2]] = FreshHub]
  /\ k' = Goto("power")
  /\ UNCHANGED <<phase, hardware, devmap, next, events, lost, moves, stray>>

\* A probe that fails leaves a device with its address and without a driver.
ProbeFails ==
  /\ At("bind")
  /\ Failed(child[Here].addr)
  /\ k' = NextPort
  /\ UNCHANGED <<phase, hardware, child, devmap, next, events, hub, lost, moves, stray>>

\* hub_power_on(): the result of the requests is not looked at.
HubPower ==
  /\ At("power")
  /\ \/ /\ Answers(Target[2]) /\ UNCHANGED faults
        /\ port' = [p \in Ports |-> IF OnRoot(p) THEN port[p] ELSE Powered(p)]
     \/ /\ (~Answers(Target[2]) /\ UNCHANGED faults) \/ Dropped
        /\ UNCHANGED port
  /\ k' = IF k.why = "hub" THEN [Rest EXCEPT !.pc = "status", !.h = k.h, !.i = 1] ELSE NextPort
  /\ UNCHANGED <<phase, plug, addr, child, devmap, next, events, hub, lost, moves, stray>>

-----------------------------------------------------------------------------
(* A hub with errors is reset *)

\* hub_reset(): its devices go, the urb is unlinked, the hub's port is reset.
BelowGone ==
  LET gone == PlacesBelow(k.h) IN
  /\ child' = [q \in Places |-> IF q \in gone THEN None ELSE child[q]]
  /\ devmap' = devmap \ AddressesOf(gone)
HubReset ==
  /\ At("hubreset")
  /\ BelowGone
  /\ hub' = [hub EXCEPT ![k.h].urb = FALSE]
  /\ k' = [k EXCEPT !.pc = "reset", !.why = "hub", !.r = 1]
  /\ UNCHANGED <<phase, hardware, next, events, lost, moves, faults, stray>>

\* The rest of usb_physical_reset_device(): the device must be the same one;
\* its configuration is set again and the urb is submitted.
HubBack ==
  /\ At("descriptor") /\ k.why = "hub"
  /\ \/ /\ Answers(k.h) /\ UNCHANGED faults
        /\ hub' = [hub EXCEPT ![k.h] = FreshHub]
        /\ k' = Goto("power")
        /\ UNCHANGED <<child, devmap, events, lost, stray>>
     \/ /\ (~Answers(k.h) /\ UNCHANGED faults) \/ Dropped
        /\ HubLost
        /\ stray' = stray \cup {p \in {k.h} : port[p].en}
  /\ UNCHANGED <<phase, hardware, next, moves>>

-----------------------------------------------------------------------------
(* Start and stop *)

\* The controller starts: the ports of the root hub are powered and the root
\* hub takes the first address.
hc_start ==
  /\ devmap' = {1} /\ next' = After(1)
  /\ port' = [p \in Ports |-> IF OnRoot(p) THEN Powered(p) ELSE port[p]]
usb_register_root_hub == hub' = [hub EXCEPT ![Root] = FreshHub]
BootStartUSB ==
  /\ phase = "off" /\ phase' = "running"
  /\ hc_start /\ usb_register_root_hub
  /\ UNCHANGED <<plug, addr, child, events, k, lost, moves, faults, stray>>

\* The root hub and all below it are disconnected, the controller is reset.
\* The interface of the root hub was registered before the last driver: its
\* removal ends at the generic one, and its hub stays in the lists.
usb_hcd_pci_remove ==
  /\ child' = [pl \in Places |-> None]
  /\ devmap' = devmap \ ({1} \cup AddressesOf(Places))
  /\ hub' = [h \in Hubs |-> IF h = Root THEN hub[h] ELSE NoHub]
  /\ events' = IF Root \in Range(events) THEN <<Root>> ELSE <<>>
ohci_stop == port' = [p \in Ports |-> Dark] /\ addr' = [d \in Devices |-> 0]

\* BootStopUSB(), between two calls of hub_events().
BootStopUSB ==
  /\ phase = "running" /\ At("idle")
  /\ phase' = "stopped"
  /\ usb_hcd_pci_remove /\ ohci_stop
  /\ lost' = {} /\ stray' = {}
  /\ UNCHANGED <<plug, next, k, moves, faults>>

Idle == phase = "stopped" /\ UNCHANGED vars

Init ==
  /\ phase = "off"
  /\ plug \in [Devices -> {NoPort} \cup Range(RootPorts)]
  /\ \A d, e \in Devices : d # e => plug[d] = NoPort \/ plug[d] # plug[e]
  /\ port = [p \in Ports |-> Dark] /\ addr = [d \in Devices |-> 0]
  /\ child = [pl \in Places |-> None]
  /\ devmap = {} /\ next = 1
  /\ events = <<>> /\ hub = [h \in Hubs |-> NoHub]
  /\ k = Rest /\ lost = {} /\ stray = {}
  /\ moves = MaxMoves /\ faults = MaxFaults

Khubd == \/ TakeEvent \/ PortStatus \/ EnableChange \/ ConnectChange \/ Debounce \/ DebounceClear
         \/ Alloc \/ PortReset \/ hub_port_disable \/ WaitReset \/ SetAddress \/ Descriptor
         \/ usb_get_device_descriptor \/ usb_get_configuration \/ usb_set_configuration
         \/ ProbePad \/ hub_configure \/ ProbeFails \/ HubPower \/ HubReset \/ HubBack
Wires == \/ \E d \in Devices : PullOut(d) \/ \E p \in Ports : PlugIn(d, p)
         \/ \E p \in Ports : Noise(p)
Reports == \E h \in Hubs : hub_irq(h) \/ HubErrors(h)

Next == BootStartUSB \/ Khubd \/ Reports \/ Wires \/ BootStopUSB \/ Idle

\* USBGetEvents() is called again and again: the thread goes on, and a timer
\* or the controller reports what a hub has to say.
Spec == Init /\ [][Next]_vars /\ WF_vars(BootStartUSB) /\ WF_vars(Khubd)
        /\ \A h \in Hubs : WF_vars(hub_irq(h)) /\ WF_vars(HubErrors(h))
-----------------------------------------------------------------------------
(* Properties *)

\* A device that keeps an address which nobody has given it or which is free
\* for others (stray), and what hangs below it.
Astray(d) == plug[d] \in stray \/ (~OnRoot(plug[d]) /\ plug[Ext] \in stray)

\* No two devices ever listen to the same address of the bus: a device that
\* was given up, pulled or reset in the middle of anything keeps no address
\* that usb_connect() hands out again, and only one is ever at address 0.  The
\* exceptions are the three ways in which the driver leaves a port on without
\* looking: the request to disable it, or to reset it once more, did not reach
\* an external hub (hub_port_disable, hub_port_reset), or it is the port of a
\* hub that answered no more after hub_reset() had reset it.
AddressesUnique ==
  \A d, e \in Devices :
    d # e /\ Listens(d) /\ Listens(e) /\ ~Astray(d) /\ ~Astray(e) => addr[d] # addr[e]

\* Between two calls of hub_events() the addresses in use are those of the
\* root hub and of the devices in the tree, and stopping gives all back:
\* neither a failed try nor a hub that takes others with it leaks one.
DevmapExact ==
  /\ phase = "running" /\ At("idle") => devmap = {1} \cup AddressesOf(Places)
  /\ phase = "stopped" => devmap = {}

\* Addresses of the bus are neither shared nor leaked, whatever fails.
AddressesExact == AddressesUnique /\ DevmapExact

\* The tree agrees with the wires: a place at a hub that is served and powers
\* the port has a device if something is plugged in, and the same one.
Served(pl) == hub[pl[1]].bound /\ Answers(pl[1]) /\ port[pl[2]].power
Settled(pl) ==
  \/ pl \in lost
  \/ LET here == {d \in Devices : plug[d] = pl[2]} IN
     /\ (child[pl] # None) = (Served(pl) /\ here # {})
     /\ child[pl] # None => \E d \in here : Listens(d) /\ addr[d] = child[pl].addr

\* Whatever comes and goes while the thread is at work, and whichever messages
\* are lost, in the end the tree agrees with the wires at every place.  The
\* exceptions (lost), until the device is pulled, are what the driver gives up:
\* a device that failed in every try, or whose status could not be read while
\* it was debounced, a hub that could not be reset; and what it never sees: a
\* device plugged in, or a port turned off, between reading the status of a
\* port and clearing its change.  (A port that the request to power it did not
\* reach has no device either: it is not served.)
Settles == <>[](phase = "stopped" \/ \A pl \in Places : Settled(pl))
=============================================================================
