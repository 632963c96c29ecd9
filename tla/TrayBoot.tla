------------------------------ MODULE TrayBoot ------------------------------
(***************************************************************************)
(* Booting from CD: the loop of DetectSystemCD() (boot/BootFromDevice.c)   *)
(* that polls the drive, the buttons and DVD_TRAY_STATE, and the SMC       *)
(* interrupt handler IntHandlerCSmc() (drivers/pci/BootInterrupts.c) that  *)
(* sets DVD_TRAY_STATE from the interrupt reasons the PIC has collected.   *)
(*                                                                         *)
(* The tray, the disc, the PIC's reason register and the user are          *)
(* external.  The handler is one step: it runs with interrupts off.        *)
(***************************************************************************)
EXTENDS Integers

CONSTANTS MaxTries,   \* detection attempts before the tray opens, 32 in the code
          MaxUser,    \* actions of the user in a behaviour
          MaxErrors   \* reason queries that fail on the SMBus

ASSUME TrayAssumption == MaxTries \in Nat \ {0} /\ MaxUser \in Nat /\ MaxErrors \in Nat

Reasons == {"powerdown", "closed", "opening", "avplug", "avunplug", "button", "closing"}

VARIABLES tray,            \* "open", "closing", "closed", "opening"
          disc,            \* "none", "bad" (nothing bootable), "good"
          reasons,         \* the PIC's interrupt reason register
          DVD_TRAY_STATE,  \* as the handler reports it
          VIDEO_AV_MODE,   \* "plugged" or 0xff, "none"
          fSeenPowerdown,
          pc, tries, cfg,      \* DetectSystemCD(): place, attempt, systems found
          pad,             \* buttons whose press has not been read yet
          told,            \* ghost: what the last tray report was
          users, errs      \* counters of the bounds

hw   == <<tray, disc, reasons>>
smc  == <<DVD_TRAY_STATE, VIDEO_AV_MODE, fSeenPowerdown, told>>
main == <<pc, tries, cfg>>
vars == <<tray, disc, reasons, DVD_TRAY_STATE, VIDEO_AV_MODE, fSeenPowerdown,
          pc, tries, cfg, pad, told, users, errs>>

Init ==
    /\ tray \in {"open", "closed"} /\ disc \in {"none", "bad", "good"}
    /\ reasons = {}
    /\ DVD_TRAY_STATE = "CLOSED"     \* zero-initialised
    /\ VIDEO_AV_MODE = "plugged" /\ fSeenPowerdown = FALSE
    /\ pc = "close" /\ tries = 0 /\ cfg = FALSE
    /\ pad = {} /\ told = "nothing" /\ users = 0 /\ errs = 0

-----------------------------------------------------------------------------
(* The PIC moves the tray on command and reports what the tray does.       *)
Opens(t)  == t \in {"closed", "closing"}
Closes(t) == t \in {"open", "opening"}
TrayCommand(t, r) ==      \* the tray starts moving to t and r is reported
    /\ tray' = t
    /\ reasons' = reasons \cup {r}

DVDTrayEject == IF Opens(tray) THEN TrayCommand("opening", "opening")
                ELSE UNCHANGED <<tray, reasons>>
DVDTrayClose == IF Closes(tray) THEN TrayCommand("closing", "closing")
                ELSE UNCHANGED <<tray, reasons>>

TrayArrives ==
    /\ \/ tray = "opening" /\ tray' = "open" /\ UNCHANGED reasons
       \/ tray = "closing" /\ tray' = "closed" /\ reasons' = reasons \cup {"closed"}
    /\ UNCHANGED <<disc, main, smc, pad, users, errs>>

(* The user.                                                               *)
UserActs ==
    /\ users < MaxUser /\ users' = users + 1
    /\ \/ tray = "open" /\ disc' \in {"none", "bad", "good"} \ {disc}
          /\ UNCHANGED <<tray, reasons, pad>>
       \/ tray = "open" /\ TrayCommand("closing", "closing")     \* pushes it in
          /\ UNCHANGED <<disc, pad>>
       \/ reasons' = reasons \cup {"button"} /\ UNCHANGED <<tray, disc, pad>>
       \/ \E r \in {"avplug", "avunplug", "powerdown"} :
             reasons' = reasons \cup {r} /\ UNCHANGED <<tray, disc, pad>>
       \/ \E b \in {"A", "B"} : pad' = pad \cup {b} /\ UNCHANGED hw
    /\ UNCHANGED <<main, smc, errs>>

(* A press that is released before anyone looked is lost.                  *)
UserReleases ==
    /\ \E b \in pad : pad' = pad \ {b}
    /\ UNCHANGED <<hw, main, smc, users, errs>>

-----------------------------------------------------------------------------
(* IntHandlerCSmc(): the reasons are handled from bit 0 to bit 6.  The     *)
(* button (bit 5) ejects and discards a closing report (bit 6) of the same *)
(* query.                                                                  *)
Reported(r) ==
    IF "closing" \in r THEN "CLOSING"
    ELSE IF "opening" \in r THEN "OPENING"
    ELSE IF "closed" \in r THEN "CLOSED"
    ELSE DVD_TRAY_STATE

(* Deviation: the closing report is handled in spite of the button.        *)
TrayStateAfterNoKill(r) == Reported(r)

Kept(r) == IF "button" \in r THEN r \ {"closing"} ELSE r
TrayStateAfter(r) == Reported(Kept(r))

(* What the handler was told of the tray by a query, if anything.          *)
Told(r) ==
    LET of == Kept(r) \cap {"closed", "opening", "closing"}
    IN  IF of = {} THEN told
        ELSE IF "closing" \in of /\ of # {"closing"} THEN "several" ELSE "one"

Handle(r, pending) ==
    /\ DVD_TRAY_STATE' = TrayStateAfter(r)
    /\ VIDEO_AV_MODE' = IF "avunplug" \in r THEN "none"
                        ELSE IF "avplug" \in r THEN "plugged" ELSE VIDEO_AV_MODE
    /\ fSeenPowerdown' = (fSeenPowerdown \/ "powerdown" \in r)
    /\ IF "button" \in r /\ Opens(tray)
       THEN tray' = "opening" /\ reasons' = pending \cup {"opening"}
       ELSE UNCHANGED tray /\ reasons' = pending
IntHandlerCSmc ==
    /\ reasons # {}
    /\ Handle(reasons, {})
    /\ told' = Told(reasons)
    /\ UNCHANGED <<disc, main, pad, users, errs>>

(* The query fails: ERR_I2C_ERROR_BUS, 0x80000002, is stored in a u8 and   *)
(* its bit 1 is handled as "CDROM tray is now closed".                     *)
SmcBusError ==
    /\ reasons # {} /\ errs < MaxErrors
    /\ errs' = errs + 1
    /\ Handle({"closed"}, reasons)
    /\ told' = "failed"
    /\ UNCHANGED <<disc, main, pad, users>>

-----------------------------------------------------------------------------
(* DetectSystemCD().  A detection finds a system on a good disc in a       *)
(* closed tray.                                                            *)
Found == tray = "closed" /\ disc = "good"

Close ==
    /\ pc = "close" /\ pc' = "detect" /\ tries' = 0
    /\ DVDTrayClose
    /\ UNCHANGED <<disc, smc, cfg, pad, users, errs>>

(* DetectLinuxCD(), DetectReactOSCD(), wait_ms(250).                       *)
DetectUpTo(last) ==
    /\ pc = "detect"
    /\ cfg' = Found
    /\ tries' = tries + 1
    /\ pc' = IF Found THEN "found" ELSE IF tries + 1 < last THEN "detect" ELSE "eject"
    /\ UNCHANGED <<hw, smc, pad, users, errs>>

Detect == DetectUpTo(MaxTries)

Eject ==
    /\ pc = "eject" /\ pc' = "probe"
    /\ DVDTrayEject
    /\ UNCHANGED <<disc, smc, tries, cfg, pad, users, errs>>

(* The inner loop: detect, then look at button A, the tray, the detection  *)
(* and button B, in this order.                                            *)
Probe ==
    /\ pc = "probe" /\ pc' = "look"
    /\ cfg' = Found
    /\ UNCHANGED <<hw, smc, tries, pad, users, errs>>

ButtonPressed ==
    /\ pc = "look" /\ "A" \in pad
    /\ pad' = pad \ {"A"}
    /\ DVDTrayClose
    /\ pc' = IF cfg THEN "found" ELSE "close"
    /\ UNCHANGED <<disc, smc, tries, cfg, users, errs>>

(* Somebody pushed the tray in.                                            *)
SeenClosing ==
    /\ pc = "look" /\ "A" \notin pad /\ DVD_TRAY_STATE = "CLOSING"
    /\ pc' = IF cfg THEN "found" ELSE "close"
    /\ UNCHANGED <<hw, smc, tries, cfg, pad, users, errs>>

SeenSystem ==
    /\ pc = "look" /\ "A" \notin pad /\ DVD_TRAY_STATE # "CLOSING" /\ cfg
    /\ pc' = "found"
    /\ UNCHANGED <<hw, smc, tries, cfg, pad, users, errs>>

ButtonB ==
    /\ pc = "look" /\ "A" \notin pad /\ DVD_TRAY_STATE # "CLOSING" /\ ~cfg /\ "B" \in pad
    /\ pad' = pad \ {"B"}
    /\ DVDTrayClose
    /\ pc' = "cancelled"
    /\ UNCHANGED <<disc, smc, tries, cfg, users, errs>>

(* Neither a button nor the tray: look at the disc once more.              *)
LookAgainTo(place) ==
    /\ pc = "look" /\ pad = {} /\ DVD_TRAY_STATE # "CLOSING" /\ ~cfg
    /\ pc' = place
    /\ UNCHANGED <<hw, smc, tries, cfg, pad, users, errs>>

(* Deviation: the detection is made once, before the loop.                 *)
LookAgainStale == LookAgainTo("look")

LookAgain == LookAgainTo("probe")

DetectSystemCD ==
    Close \/ Detect \/ Eject \/ Probe \/ ButtonPressed \/ SeenClosing
    \/ SeenSystem \/ ButtonB \/ LookAgain

(* BootFromDevice() takes over, or the menu is back.                       *)
Returned == pc \in {"found", "cancelled"} /\ UNCHANGED vars

Next == \/ TrayArrives \/ UserActs \/ UserReleases
        \/ IntHandlerCSmc \/ SmcBusError
        \/ DetectSystemCD \/ Returned

Spec == Init /\ [][Next]_vars

(* The program runs, the interrupt is taken, the tray motor moves.  The    *)
(* user need not do anything.                                              *)
FairSpec == Spec /\ WF_vars(DetectSystemCD) /\ WF_vars(IntHandlerCSmc)
                 /\ WF_vars(TrayArrives)

-----------------------------------------------------------------------------
(* Once the PIC's reports are read, DVD_TRAY_STATE says where the tray is, *)
(* however many reports one query returned.  It is wrong in three ways     *)
(* only: CLOSED before the first report, CLOSED after a failed query, and  *)
(* CLOSING when closing was read together with another report, because bit *)
(* 6 is handled last.  So a tray that somebody pushes in is noticed        *)
(* whatever its report is merged with, and OPENING is never a stale one.   *)
TrayShown == CASE tray = "closing" -> "CLOSING"
           [] tray = "closed"  -> "CLOSED"
           [] OTHER            -> "OPENING"

TrayStateTrue ==
    reasons = {} =>
        \/ DVD_TRAY_STATE = TrayShown
        \/ DVD_TRAY_STATE = "CLOSED"  /\ told \in {"nothing", "failed"}
        \/ DVD_TRAY_STATE = "CLOSING" /\ told = "several"

(* Whoever leaves a good disc in a closed tray gets it booted, unless the  *)
(* loop is cancelled; no report of the tray is needed for it.              *)
GoodDiscBoots ==
    <>[](disc = "good" /\ tray = "closed") => <>(pc \in {"found", "cancelled"})
=============================================================================
