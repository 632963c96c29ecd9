------------------------------- MODULE Input -------------------------------
(***************************************************************************)
(* The user's buttons.  Controllers, keyboard and remote are plugged in    *)
(* and pulled; the USB core parses what they say of themselves and finds   *)
(* their drivers (UsbDevice).  The interrupt URB callbacks xpad_irq(),     *)
(* usb_kbd_irq() and xremote_irq() (drivers/usb/sys) write what the        *)
(* devices report into globals, and risefall_xpad_BUTTON() (risefall.c),   *)
(* polled by every menu and dialog, turns them into button presses.        *)
(*                                                                         *)
(* A callback may run between any two steps of a poll: the poll's reads    *)
(* and writes of the keyboard's and of the remote's globals are steps of   *)
(* their own.  The user and the devices are external; a keyboard reports   *)
(* when its keys change, and reports the key that went down first.  A      *)
(* device that is pulled is let go of.                                     *)
(***************************************************************************)
EXTENDS UsbDevice

CONSTANTS Makes,       \* the devices there are to buy, by name
          MakesOf,     \* MakesOf[d]: what may be plugged in as device d
          MaxPlugs,    \* devices plugged in in a behaviour
          Pads,        \* controllers connected
          Buttons,     \* buttons of interest, the same on every device
          Rollover,    \* keys the user holds at once on the keyboard
          MaxPresses,  \* presses in a behaviour
          MaxSlips,    \* reports of the last two kinds of PressTakenOnce
          MaxUrbErrors \* URBs that complete with an error

ASSUME InputAssumption ==
    /\ MaxPlugs \in Nat /\ Rollover \in Nat /\ MaxPresses \in Nat /\ MaxSlips \in Nat
    /\ MaxUrbErrors \in Nat /\ IsFiniteSet(Pads)
    /\ None \notin Buttons

Kbd == "kbd"
Rem == "rem"
Devices == Pads \cup {Kbd, Rem}
NoMatch == [dev |-> None]

VARIABLES root,      \* the interfaces of the root hub, empty before BootStartUSB()
          found,     \* the device that is configured and not yet bound, None
          iface,     \* iface[d]: the interfaces of device d, empty if it is not there
          left,      \* urbs that survived their device: those the interface had
                     \* and those that stayed
          padNum,       \* padNum[p]: how many controllers there were before it
          plugs,
          held,      \* held[p]: buttons down on controller p
          reported,      \* reported[p]: those of them that it has reported
          XPAD_current, xpad_button_history,
          down,      \* keys down on the keyboard, oldest first
          current_keyboard_key, kbdUrb, \* kbdUrb: the keyboard's URB is submitted
          rheld,     \* the key held on the remote, None
          current_remote_key, remotekeyIsRepeat, remoteUrb, \* remoteUrb: its own
          sent,      \* did the remote send a packet of the key held?
          match,     \* where a poll of button b is, if it is past the keyboard
          owed,      \* ghost: presses of each button, and reports of it that
                     \* look like another press, not yet returned by a poll
          presses, slips, urbErrs
usbVars   == <<root, found, iface, left, padNum, plugs>>
padVars   == <<held, reported, XPAD_current, xpad_button_history>>
kbdVars   == <<down, current_keyboard_key, kbdUrb>>
irVars    == <<rheld, current_remote_key, remotekeyIsRepeat, remoteUrb, sent>>
inputVars == <<usbVars, padVars, kbdVars, irVars, match, owed, presses, slips, urbErrs>>

InputInit ==
    /\ root = <<>> /\ found = None /\ left = {} /\ plugs = 0 /\ padNum = [p \in Pads |-> 0]
    /\ iface = [d \in Devices |-> <<>>]
    /\ held = [p \in Pads |-> {}] /\ reported = held
    /\ XPAD_current = {} /\ xpad_button_history = {}
    /\ down = <<>> /\ current_keyboard_key = None /\ kbdUrb = FALSE
    /\ rheld = None /\ current_remote_key = None /\ remotekeyIsRepeat = FALSE
    /\ remoteUrb = FALSE /\ sent = FALSE
    /\ match = NoMatch
    /\ owed = [b \in Buttons |-> 0] /\ presses = 0 /\ slips = 0 /\ urbErrs = 0

-----------------------------------------------------------------------------
(* Devices come and go *)

\* The hub driver and the generic one are registered, then the controller is
\* started and its root hub bound, then the other drivers are registered.
BootStartUSB ==
    /\ root = <<>>
    /\ root' = Interfaced(usb_init, usb_new_device(rh_call_control), FALSE)
    /\ UNCHANGED <<found, iface, left, padNum, plugs, padVars, kbdVars, irVars, match, owed, presses, slips, urbErrs>>

\* A device is read and configured.  One that is refused stays dead.
NewDevice == [m \in DOMAIN Makes |-> usb_new_device(Makes[m])]
PlugIn(d) ==
    /\ root # <<>> /\ iface[d] = <<>> /\ plugs < MaxPlugs
    /\ plugs' = plugs + 1
    /\ \E m \in MakesOf[d] :
          found' = IF NewDevice[m] = Bad THEN None ELSE [d |-> d, m |-> m]
    /\ UNCHANGED <<root, iface, left, padNum, padVars, kbdVars, irVars, match, owed, presses, slips, urbErrs>>

\* The urbs that the drivers of a device keep submitted.
Urbs(fs) == UNION {fs[i].urbs : i \in DOMAIN fs}
Live(p) == Xpad \in Urbs(iface[p])
xpad_num == Cardinality({p \in Pads : Live(p)})
Bound == [m \in DOMAIN Makes |-> [eax \in BOOLEAN |->
             IF NewDevice[m] = Bad THEN <<>> ELSE Interfaced(AllDrivers, NewDevice[m], eax)]]
Bind(eax) ==
    /\ found' = None
    /\ LET fs == Bound[found.m][eax] IN
       /\ iface' = [iface EXCEPT ![found.d] = fs]
       /\ kbdUrb' = IF found.d = Kbd THEN Keyboard \in Urbs(fs) ELSE kbdUrb
       /\ remoteUrb' = IF found.d = Rem THEN Remote \in Urbs(fs) ELSE remoteUrb
       /\ padNum' = [p \in Pads |-> IF p = found.d /\ Xpad \in Urbs(fs) THEN xpad_num ELSE padNum[p]]
    /\ UNCHANGED <<root, left, plugs, padVars, down, current_keyboard_key, rheld,
                   current_remote_key, remotekeyIsRepeat, sent, match, owed, presses, slips, urbErrs>>

\* usb_disconnect(): what a driver leaves submitted comes back as an error.
\* The globals keep what was reported last.
Stays(f) == [of |-> f.urbs, stay |-> usb_device_remove(f).urbs]
Pull(d) ==
    /\ iface[d] # <<>> /\ iface' = [iface EXCEPT ![d] = <<>>]
    /\ left' = left \cup {l \in {Stays(iface[d][i]) : i \in DOMAIN iface[d]} : l.stay # {}}
    /\ held' = [p \in Pads |-> IF p = d THEN {} ELSE held[p]]
    /\ reported' = [p \in Pads |-> IF p = d THEN {} ELSE reported[p]]
    /\ padNum' = [p \in Pads |-> IF p = d THEN 0 ELSE padNum[p]]
    /\ kbdUrb' = (kbdUrb /\ d # Kbd) /\ down' = IF d = Kbd THEN <<>> ELSE down
    /\ remoteUrb' = (remoteUrb /\ d # Rem) /\ rheld' = IF d = Rem THEN None ELSE rheld
    /\ UNCHANGED <<root, found, plugs, XPAD_current, xpad_button_history,
                   current_keyboard_key, current_remote_key, remotekeyIsRepeat, sent,
                   match, owed, presses, slips, urbErrs>>

-----------------------------------------------------------------------------
(* The user.                                                               *)
Press ==
    /\ presses < MaxPresses /\ presses' = presses + 1
    /\ UNCHANGED <<usbVars, match>>
OneMore(S) == [b \in Buttons |-> owed[b] + IF b \in S THEN 1 ELSE 0]

PadPress(p, b) ==
    /\ Live(p) /\ b \notin held[p] /\ held' = [held EXCEPT ![p] = @ \cup {b}]
    /\ Press /\ owed' = OneMore({b})
    /\ UNCHANGED <<reported, XPAD_current, xpad_button_history, kbdVars, irVars, slips, urbErrs>>

PadRelease(p, b) ==
    /\ b \in held[p] /\ held' = [held EXCEPT ![p] = @ \ {b}]
    /\ reported' = [reported EXCEPT ![p] = @ \ {b}]
    /\ UNCHANGED <<usbVars, XPAD_current, xpad_button_history, kbdVars, irVars, match,
                   owed, presses, slips, urbErrs>>

(* usb_kbd_irq() takes byte 2 of the report of keys s, the first one down; *)
(* a URB that failed is not submitted again.  A key that was first already *)
(* is reported again when another one changes.                             *)
FirstKey(s) == IF s = <<>> THEN None ELSE Head(s)
Report(s, pressed) ==
    /\ \/ /\ current_keyboard_key' = IF kbdUrb THEN FirstKey(s) ELSE current_keyboard_key
          /\ owed' = OneMore(pressed \cup IF down # <<>> /\ FirstKey(s) = Head(down)
                                             /\ current_keyboard_key # Head(down) /\ kbdUrb
                                          THEN {Head(down)} ELSE {})
          /\ UNCHANGED <<kbdUrb, urbErrs>>
       \/ /\ kbdUrb /\ urbErrs < MaxUrbErrors /\ urbErrs' = urbErrs + 1
          /\ kbdUrb' = FALSE /\ owed' = OneMore(pressed) /\ UNCHANGED current_keyboard_key
    /\ down' = s

KeyDown(b) ==
    /\ iface[Kbd] # <<>> /\ Len(down) < Rollover /\ \A i \in 1 .. Len(down) : down[i] # b
    /\ Press /\ Report(Append(down, b), {b})
    /\ UNCHANGED <<padVars, irVars, slips>>

KeyUp ==
    /\ down # <<>>
    /\ \E i \in 1 .. Len(down) :
          Report(SubSeq(down, 1, i - 1) \o SubSeq(down, i + 1, Len(down)), {})
    /\ UNCHANGED <<usbVars, padVars, irVars, match, presses, slips>>

RemoteDown(b) ==
    /\ iface[Rem] # <<>> /\ rheld = None /\ rheld' = b /\ sent' = FALSE
    /\ Press /\ owed' = OneMore({b})
    /\ UNCHANGED <<padVars, kbdVars, current_remote_key, remotekeyIsRepeat, remoteUrb, slips, urbErrs>>

RemoteUp ==
    /\ rheld # None /\ rheld' = None
    /\ UNCHANGED <<usbVars, padVars, kbdVars, current_remote_key, remotekeyIsRepeat, remoteUrb, sent,
                   match, owed, presses, slips, urbErrs>>

-----------------------------------------------------------------------------
(* xpad_irq(): the report of any controller replaces the first one's       *)
(* state; the fifth controller and those after it are not heard.  What a   *)
(* controller holds may be hidden by another's report, and looks like      *)
(* another press when it is reported again.                                *)
Slips(occurs) == IF occurs THEN slips < MaxSlips /\ slips' = slips + 1 ELSE UNCHANGED slips
Hides(p) == \E q \in Pads : (held[q] \cap XPAD_current) \ held[p] # {}
xpad_irq(p) ==
    /\ Live(p) /\ padNum[p] \in 0 .. 3 /\ XPAD_current # held[p]
    /\ XPAD_current' = held[p]
    /\ reported' = [reported EXCEPT ![p] = held[p]]
    /\ owed' = OneMore((held[p] \cap reported[p]) \ XPAD_current)
    /\ Slips(Hides(p))
    /\ UNCHANGED <<usbVars, held, xpad_button_history, kbdVars, irVars, match, presses, urbErrs>>

(* xremote_irq(): the first packet of a press and the repetitions differ.  *)
(* A repetition sets the key, then says that it is one; a poll that has    *)
(* seen the flag already, or is about to reset it, takes it for a press.   *)
Mistaken ==
    /\ sent /\ current_remote_key # rheld
    /\ match = [dev |-> "flag", b |-> rheld] \/ match.dev = "cleared"
RemotePacket(repeated) ==
    /\ rheld # None /\ remoteUrb /\ sent' = TRUE
    /\ current_remote_key' = rheld
    /\ remotekeyIsRepeat' = repeated
    /\ owed' = OneMore(IF Mistaken THEN {rheld} ELSE {})
    /\ Slips(Mistaken)
    /\ UNCHANGED <<usbVars, padVars, kbdVars, rheld, remoteUrb, match, presses, urbErrs>>

(* Deviation: repetitions are not told from the first packet.              *)
xremote_irq_blind == RemotePacket(FALSE)

xremote_irq == RemotePacket(sent)

(* A packet that fails or is too short: the URB is not submitted again.    *)
xremote_error ==
    /\ rheld # None /\ remoteUrb /\ urbErrs < MaxUrbErrors
    /\ remoteUrb' = FALSE /\ sent' = TRUE /\ urbErrs' = urbErrs + 1
    /\ UNCHANGED <<usbVars, padVars, kbdVars, rheld, current_remote_key, remotekeyIsRepeat,
                   match, owed, presses, slips>>

-----------------------------------------------------------------------------
(* risefall_xpad_BUTTON(b) looks at the keyboard, at the remote and at the *)
(* controller, and returns 1 for the first that has the button.            *)
OnKbd(b) == current_keyboard_key = b
Rising(b) == b \in XPAD_current /\ b \notin xpad_button_history
Falling(b) == b \notin XPAD_current /\ b \in xpad_button_history

(* A poll of b that is past the keyboard: "kbd" and "remote" found the key *)
(* and will clear it, "flag" has found that the remote's key is not a      *)
(* repetition and will look at the key, "cleared" will reset the flag.     *)
At(dev, b) == match = [dev |-> dev, b |-> b]
GoesTo(dev, b) == match' = [dev |-> dev, b |-> b]
Takes(b) == match' = NoMatch /\ owed' = [owed EXCEPT ![b] = @ - 1]

PollKeyboard(b) ==
    /\ match = NoMatch /\ OnKbd(b) /\ GoesTo("kbd", b)
    /\ UNCHANGED <<usbVars, padVars, kbdVars, irVars, owed, presses, slips, urbErrs>>
PollRemote(b) ==
    /\ match = NoMatch /\ ~OnKbd(b) /\ ~remotekeyIsRepeat /\ GoesTo("flag", b)
    /\ UNCHANGED <<usbVars, padVars, kbdVars, irVars, owed, presses, slips, urbErrs>>
RemoteMatch(b) ==
    /\ At("flag", b) /\ current_remote_key = b /\ GoesTo("remote", b)
    /\ UNCHANGED <<usbVars, padVars, kbdVars, irVars, owed, presses, slips, urbErrs>>

(* "A match occurred, so the event has now been processed": the key found  *)
(* is cleared, even if a callback has replaced it since, and 1 returned.   *)
ClearKeyboard(b) ==
    /\ At("kbd", b) /\ Takes(b)
    /\ current_keyboard_key' = None
    /\ UNCHANGED <<usbVars, padVars, down, kbdUrb, irVars, presses, slips, urbErrs>>
ClearRemote(b) ==
    /\ At("remote", b) /\ GoesTo("cleared", b)
    /\ current_remote_key' = None
    /\ UNCHANGED <<usbVars, padVars, kbdVars, rheld, remotekeyIsRepeat, remoteUrb, sent, owed,
                   presses, slips, urbErrs>>
ClearRepeat(b) ==
    /\ At("cleared", b) /\ Takes(b)
    /\ remotekeyIsRepeat' = FALSE
    /\ UNCHANGED <<usbVars, padVars, kbdVars, rheld, current_remote_key, remoteUrb, sent,
                   presses, slips, urbErrs>>

(* The controller section, reached when neither key matches.               *)
PadEdge(b, released) ==
    /\ \/ Rising(b) /\ Takes(b) /\ xpad_button_history' = xpad_button_history \cup {b}
       \/ ~Rising(b) /\ match' = NoMatch /\ UNCHANGED owed
          /\ xpad_button_history' = IF Falling(b) THEN released ELSE xpad_button_history
    /\ UNCHANGED <<usbVars, held, reported, XPAD_current, kbdVars, irVars, presses, slips, urbErrs>>

(* Deviation: the falling edge is returned but not recorded.               *)
PollPadRisingOnly(b) == PadEdge(b, xpad_button_history)

PollPad(b) == PadEdge(b, xpad_button_history \ {b})

Poll(b) ==
    \/ PollKeyboard(b) \/ PollRemote(b)
    \/ match = NoMatch /\ ~OnKbd(b) /\ remotekeyIsRepeat /\ PollPad(b)
PollOn(b) ==
    \/ ClearKeyboard(b) \/ RemoteMatch(b) \/ ClearRemote(b) \/ ClearRepeat(b)
    \/ At("flag", b) /\ current_remote_key # b /\ PollPad(b)

\* Between configuring and binding a device only callbacks run, which touch
\* neither.
InputNext ==
    IF found # None THEN \E eax \in BOOLEAN : Bind(eax)
    ELSE \/ \E p \in Pads : xpad_irq(p) \/ \E b \in Buttons : PadPress(p, b) \/ PadRelease(p, b)
         \/ \E b \in Buttons : KeyDown(b) \/ RemoteDown(b) \/ Poll(b) \/ PollOn(b)
         \/ BootStartUSB \/ \E d \in Devices : PlugIn(d) \/ Pull(d)
         \/ KeyUp \/ RemoteUp \/ xremote_irq \/ xremote_error

InputSpec == InputInit /\ [][InputNext]_inputVars

(* The menus poll every button again and again and the controllers report  *)
(* their state.  Whoever holds a button need not let it go.                *)
FairInput == InputSpec /\ \A b \in Buttons : SF_inputVars(Poll(b)) /\ WF_inputVars(PollOn(b))
                 /\ \A p \in Pads : WF_inputVars(xpad_irq(p))

-----------------------------------------------------------------------------
(* One press, one event: a press of a button, on whichever device, and     *)
(* however long it is held, is returned by one poll only.  A press that    *)
(* chose a menu item would otherwise also answer the dialog it opens.  The *)
(* drivers can be mistaken in three ways, and each time one more poll at   *)
(* most returns the press: a second key makes the keyboard report the      *)
(* first one again; a second controller hides what the first one holds,    *)
(* and the first one reports it again; and a repetition of the remote      *)
(* comes between a poll's accesses to remotekeyIsRepeat and to the key.    *)
PressTakenOnce == \A b \in Buttons : owed[b] >= 0

(* A button that stays down on the only controller is noticed, and one     *)
(* that stays up while the controller is there is noticed too, so that its *)
(* next press counts.                                                      *)
Alone(p) == padNum[p] \in 0 .. 3 /\ \A q \in Pads \ {p} : ~Live(q)
PadNoticed ==
    \A p \in Pads, b \in Buttons :
        /\ <>[](Alone(p) /\ b \in held[p]) => <>[](b \in xpad_button_history)
        /\ <>[](Alone(p) /\ Live(p) /\ b \notin held[p]) => <>[](b \notin xpad_button_history)

(* Descriptors are understood: a device that is accepted has the interface *)
(* settings, endpoints and extra descriptors its maker put in (plan), each *)
(* where it belongs, however descriptors of other kinds are strewn between *)
(* them; its packet sizes and its name are those of the settings in use;   *)
(* and a description that is cut short or contradicts itself is refused.   *)
LargestOf(eps, n, in) ==
    LET sizes == {0} \cup {ep.max : ep \in {e \in Range(eps) : Number(e) = n /\ IsIn(e) = in}}
    IN CHOOSE x \in sizes : \A y \in sizes : y <= x
AsPlanned(dev, plan) ==
    /\ dev.conf = plan.confs[1]
    /\ LET eps == FlattenSeq([i \in DOMAIN dev.conf.ifs |-> plan.confs[1].ifs[i][1].eps])
       IN \A n \in 1 .. 15 : dev.max.in[n] = LargestOf(eps, n, TRUE)
                              /\ dev.max.out[n] = LargestOf(eps, n, FALSE)
    /\ dev.name.product = plan.name
Understood ==
    found # None => Makes[found.m].plan # None /\ AsPlanned(NewDevice[found.m], Makes[found.m].plan)

(* Drivers get the interfaces that are theirs and no others (plan.drivers, *)
(* for each interface in the order of registration), although              *)
(* my_device_add() goes on after a match.  When several match, each        *)
(* submits its urb, the last one is bound and only its urb goes when the   *)
(* device does; the urb of the others stays.  A keyboard whose probe       *)
(* returned rubbish is not bound, and its urb stays too.                   *)
ServedAs(fs, drivers) ==
    /\ DOMAIN fs = DOMAIN drivers
    /\ \A i \in DOMAIN fs :
          LET before == SelectSeq(drivers[i], LAMBDA drv : drv # Keyboard)
              last(s) == IF s = <<>> THEN None ELSE Last(s)
          IN /\ fs[i].urbs = Range(drivers[i])
             /\ fs[i].bound \in {last(drivers[i])} \cup
                   IF last(drivers[i]) = Keyboard THEN {last(before)} ELSE {}
DevicesServed ==
    /\ Understood
    /\ \A i \in DOMAIN root : root[i].bound = Hub
    /\ found # None => \A eax \in BOOLEAN :
          ServedAs(Bound[found.m][eax], Makes[found.m].plan.drivers)
    /\ \A l \in left : l.of = {Keyboard} \/ l = [of |-> {Xpad, Keyboard}, stay |-> {Xpad}]
=============================================================================
