-------------------------------- MODULE Menu --------------------------------
(***************************************************************************)
(* The user interface: IconMenuInit() and IconMenu() with its boot         *)
(* timeout, DrawBootMenu() and BootMenuEntry(), TextMenu() and its nested  *)
(* menus, Confirm() and the actions of the HDD, video and peripherals      *)
(* menus (menu/).                                                          *)
(*                                                                         *)
(* run is the function that is executing, stack the callers that wait for  *)
(* it, innermost last: text menus, LockHdd() or UnlockHdd() waiting for    *)
(* Confirm(), and loops that wait for button A.  With nothing executing,   *)
(* the innermost of them, or else the icon menu, waits for a key.          *)
(***************************************************************************)
EXTENDS Integers, Sequences, SequencesExt

CONSTANTS Bays,      \* icons shown at once, 3 in the code
          Page,      \* items shown at once, 8
          Config,    \* Config[c]: the boot entries of list c, each an item
          Default,   \* Default[c]: index of the entry marked default, 0 if none
          MaxKeys    \* presses in a behaviour

Submenus == {"main", "phy", "video", "hdd", "flash", "reset"}

(* A list that was found is not empty; an entry is booted or opens a list. *)
ASSUME MenuAssumption ==
    /\ DOMAIN Config \cap (Submenus \cup {"confirm", ""}) = {}
    /\ \A c \in DOMAIN Config :
          /\ Len(Config[c]) \in Nat \ {0} /\ DOMAIN Config[c] = 1 .. Len(Config[c])
          /\ Default[c] \in 0 .. Len(Config[c])
          /\ \A i \in DOMAIN Config[c] :
                \/ Config[c][i].do = "boot"
                \/ Config[c][i].do = "draw" /\ Config[c][i].arg \in DOMAIN Config

Item(do, arg) == [do |-> do, arg |-> arg]
NoCall == Item("none", "")
Ret == Item("ret", "")

VARIABLES icons, sel, first,         \* the icon menu; sel is selectedIcon
          ticks, timedOut,           \* ticks: is the timeout still running?
          stack, run,
          breakOutOfMenu, Confirm_Result,
          offer,                     \* "lock", "unlock" or "none" (no drive), fixed by HddMenuInit()
          sec,                       \* is the drive's password set?
          shown, set,                \* captions of the settings, and the settings
          timed,                     \* ghost: selections made by the timeout
          keys
ui   == <<stack, run, breakOutOfMenu, Confirm_Result>>
hdd  == <<offer, sec>>
vid  == <<shown, set>>
icon == <<icons, sel, first, ticks, timedOut, timed>>
menuVars == <<icon, ui, hdd, vid, keys>>

-----------------------------------------------------------------------------
(* What the machine has: CD drives (a disc in them may hold cdcfg), lists  *)
(* on FATX and native partitions, and a hard disk.                         *)
Hardware == [cds : 0 .. 2, cdcfg : DOMAIN Config, fatx : DOMAIN Config \cup {""},
             natives : Seq(DOMAIN Config), disk : BOOLEAN]

(* IconMenuInit(): an icon for each CD drive, for FATX and for each native *)
(* partition with a configuration, then Etherboot and Advanced.            *)
Icons(hw) ==
    [i \in 1 .. hw.cds |-> Item("cd", hw.cdcfg)]
    \o (IF hw.fatx = "" THEN <<>> ELSE <<Item("draw", hw.fatx)>>)
    \o [i \in 1 .. Len(hw.natives) |-> Item("draw", hw.natives[i])]
    \o <<Item("leave", "etherboot"), Item("text", "main")>>

(* The last native partition, or else FATX, is preselected.                *)
Preselected(hw) ==
    IF hw.natives # <<>> THEN hw.cds + (IF hw.fatx = "" THEN 0 ELSE 1) + Len(hw.natives)
    ELSE IF hw.fatx # "" THEN hw.cds + 1 ELSE 1

TvNext == [PAL |-> "USA", USA |-> "Japan", Japan |-> "PAL", Unknown |-> "PAL"]

(* Before the menus are built.                                             *)
MenuInit ==
    /\ icons = <<>> /\ sel = 1 /\ first = 1 /\ ticks = TRUE /\ timedOut = FALSE /\ timed = 0
    /\ stack = <<>> /\ run = NoCall /\ breakOutOfMenu = FALSE /\ Confirm_Result = FALSE
    /\ sec \in BOOLEAN /\ offer = "none" /\ keys = 0
    /\ set = [tv |-> "Unknown", wide |-> FALSE, com |-> TRUE, irq |-> FALSE] /\ shown = set

(* IconMenuInit() with the menus of TextMenuInit(): whether to offer to    *)
(* lock or to unlock the drive is decided here, and tv and wide are what   *)
(* VideoMenuInit() reads.                                                  *)
IconMenuInit(hw, tv, wide) ==
    /\ icons' = Icons(hw) /\ sel' = Preselected(hw)
    /\ offer' = IF ~hw.disk THEN "none" ELSE IF sec THEN "unlock" ELSE "lock"
    /\ set' = [set EXCEPT !.tv = tv, !.wide = wide] /\ shown' = set'
    /\ UNCHANGED <<first, ticks, timedOut, timed, ui, sec, keys>>

-----------------------------------------------------------------------------
(* The items of a text menu.  HddMenuInit() and FlashMenuInit() leave the  *)
(* menu empty where there is no drive of the kind.                         *)
Cds == Cardinality({i \in DOMAIN icons : icons[i].do = "cd"})

TextMenus ==
    [main    |-> <<Item("text", "phy"), Item("text", "video"), Item("text", "hdd"),
                   Item("text", "flash"), Item("text", "reset")>>,
     phy     |-> <<Item("set", "com"), Item("set", "irq")>>,
     video   |-> <<Item("set", "wide"), Item("set", "tv")>>,
     hdd     |-> IF offer = "none" THEN <<>> ELSE <<Item("ask", offer), Item("wait", "password")>>,
     confirm |-> <<Item("answer", "yes"), Item("answer", "no")>>,
     flash   |-> [i \in 1 .. Cds |-> Item("leave", "flash")],
     reset   |-> <<Item("leave", "slow"), Item("leave", "quick"), Item("leave", "off")>>]
MenuItems(m) == IF m \in DOMAIN Config THEN Config[m] ELSE TextMenus[m]

Text(m, at) == [fn |-> "text", m |-> m, sel |-> at, first |-> 1]
Waiting(f) == [fn |-> f, m |-> "", sel |-> 1, first |-> 1]

Push(s, f) == Append(s, f)
Top == Last(stack)
Below == Front(stack)
Call(item) == run' = item
Polls(f) == run = NoCall /\ stack # <<>> /\ Top.fn = f
IconPolls == run = NoCall /\ stack = <<>>
Key == keys < MaxKeys /\ keys' = keys + 1

(* The window after the selection moved past one of its ends.              *)
Window(f, at, shows) == IF at < f THEN f - 1 ELSE IF at = f + shows THEN f + 1 ELSE f

(* IconMenu(): left and right end the timeout, even at the last icon.      *)
IconMoves(stop) ==
    /\ IconPolls /\ Key
    /\ \E d \in {-1, 1} :
          IF sel + d \in 1 .. Len(icons)
          THEN sel' = sel + d /\ first' = Window(first, sel + d, Bays)
          ELSE UNCHANGED <<sel, first>>
    /\ ticks' = stop
    /\ UNCHANGED <<icons, timedOut, timed, ui, hdd, vid>>

(* Deviation: the timeout goes on.                                         *)
IconMoveTimed == IconMoves(ticks)

IconMove == IconMoves(FALSE)

IconChosen ==
    /\ IconPolls /\ Key /\ Call(icons[sel])
    /\ UNCHANGED <<icon, stack, breakOutOfMenu, Confirm_Result, hdd, vid>>

TimeoutMarks(t) ==
    /\ IconPolls /\ ticks
    /\ timedOut' = t /\ timed' = timed + 1
    /\ Call(icons[sel])
    /\ UNCHANGED <<icons, sel, first, ticks, stack, breakOutOfMenu, Confirm_Result, hdd, vid, keys>>

(* Deviation: the icon is selected, but nobody is told it was the timeout. *)
TimeoutUnmarked == TimeoutMarks(FALSE)

Timeout == TimeoutMarks(TRUE)

IconResumesWith(t) ==
    /\ run = Ret /\ stack = <<>>
    /\ ticks' = t /\ timedOut' = FALSE /\ Call(NoCall)
    /\ UNCHANGED <<icons, sel, first, timed, stack, breakOutOfMenu, Confirm_Result, hdd, vid, keys>>

(* "Also disable the timeout to avoid infinite boot loop".                 *)
IconResumes == IconResumesWith(FALSE)

-----------------------------------------------------------------------------
(* TextMenu().                                                             *)
TextMove ==
    /\ Polls("text") /\ Key
    /\ \E d \in {-1, 1} :
          LET at == Top.sel + d IN
          /\ at \in 1 .. Len(MenuItems(Top.m))
          /\ stack' = Push(Below, [Top EXCEPT !.sel = at, !.first = Window(@, at, Page)])
    /\ UNCHANGED <<icon, run, breakOutOfMenu, Confirm_Result, hdd, vid>>

TextChosen ==
    /\ Polls("text") /\ Key /\ MenuItems(Top.m) # <<>> /\ Call(MenuItems(Top.m)[Top.sel])
    /\ UNCHANGED <<icon, stack, breakOutOfMenu, Confirm_Result, hdd, vid>>

(* Any key but B in an empty menu goes through the null selectedMenuItem:  *)
(* it has no effect, or the processor jumps to whatever is there.          *)
TextNoItem ==
    /\ Polls("text") /\ Key /\ MenuItems(Top.m) = <<>>
    /\ run' \in {NoCall, Item("gone", "null item")}
    /\ UNCHANGED <<icon, stack, breakOutOfMenu, Confirm_Result, hdd, vid>>

(* Button B returns to whoever called TextMenu().                          *)
TextLeft ==
    /\ Polls("text") /\ Key
    /\ stack' = Below /\ Call(Ret)
    /\ UNCHANGED <<icon, breakOutOfMenu, Confirm_Result, hdd, vid>>

(* The function of the item returned: quit if it said so, or poll again.   *)
TextResumesWith(flag) ==
    /\ run = Ret /\ stack # <<>> /\ Top.fn = "text"
    /\ IF breakOutOfMenu THEN stack' = Below /\ UNCHANGED run
                         ELSE Call(NoCall) /\ UNCHANGED stack
    /\ breakOutOfMenu' = flag
    /\ UNCHANGED <<icon, Confirm_Result, hdd, vid, keys>>

TextResumes == TextResumesWith(FALSE)

(* AdvancedMenu() and DrawChildTextMenu().                                 *)
OpenText ==
    /\ run.do = "text" /\ stack' = Push(stack, Text(run.arg, 1)) /\ Call(NoCall)
    /\ UNCHANGED <<icon, breakOutOfMenu, Confirm_Result, hdd, vid, keys>>

-----------------------------------------------------------------------------
(* DrawBootMenu(): a single entry is booted, a timeout boots the default   *)
(* or the first, otherwise the user chooses.  (The menu preselects the     *)
(* last entry marked default and the timeout takes the first: the parser   *)
(* marks one at most, BootParser.c:89-95.)                                 *)
Preferred(c) == IF Default[c] = 0 THEN 1 ELSE Default[c]

(* Deviation: the timeout is not considered.                               *)
DrawBootMenuAsks ==
    /\ run.do = "draw"
    /\ LET c == run.arg IN
       IF Len(Config[c]) = 1 THEN Call(Config[c][1]) /\ UNCHANGED stack
       ELSE stack' = Push(stack, Text(c, Preferred(c))) /\ Call(NoCall)
    /\ UNCHANGED <<icon, breakOutOfMenu, Confirm_Result, hdd, vid, keys>>

DrawBootMenu ==
    /\ run.do = "draw"
    /\ LET c == run.arg IN
       IF Len(Config[c]) = 1 \/ timedOut
       THEN /\ Call(Config[c][IF Len(Config[c]) = 1 THEN 1 ELSE Preferred(c)])
            /\ UNCHANGED stack
       ELSE stack' = Push(stack, Text(c, Preferred(c))) /\ Call(NoCall)
    /\ UNCHANGED <<icon, breakOutOfMenu, Confirm_Result, hdd, vid, keys>>

(* PrepareBootFromCD(): a system was found on the disc, or the user        *)
(* cancelled.                                                              *)
PrepareBootFromCD ==
    /\ run.do = "cd" /\ run' \in {Item("draw", run.arg), Ret}
    /\ UNCHANGED <<icon, stack, breakOutOfMenu, Confirm_Result, hdd, vid, keys>>

(* BootFromDevice() and the actions that leave Cromwell come back only     *)
(* when they fail.                                                         *)
Leave ==
    /\ run.do \in {"boot", "leave"} /\ run' \in {Ret, Item("gone", run.arg)}
    /\ UNCHANGED <<icon, stack, breakOutOfMenu, Confirm_Result, hdd, vid, keys>>

-----------------------------------------------------------------------------
(* LockHdd() and UnlockHdd(): ask; Confirm() preselects No.                *)
Ask ==
    /\ run.do = "ask"
    /\ stack' = stack \o <<Waiting(run.arg), Text("confirm", 2)>> /\ Call(NoCall)
    /\ UNCHANGED <<icon, breakOutOfMenu, Confirm_Result, hdd, vid, keys>>

(* Confirm_Yes() and Confirm_No().                                         *)
Answer ==
    /\ run.do = "answer"
    /\ Confirm_Result' = (run.arg = "yes")
    /\ breakOutOfMenu' = TRUE /\ Call(Ret)
    /\ UNCHANGED <<icon, stack, hdd, vid, keys>>

(* Confirm() returned: refused, the password cannot be computed, or the    *)
(* security command is sent, successfully or not, and reported.            *)
Asked == run = Ret /\ stack # <<>> /\ Top.fn \in {"lock", "unlock"}
SecurityChange(password) ==
    /\ Asked
    /\ IF Confirm_Result /\ password
       THEN /\ stack' = Push(Below, Waiting("wait")) /\ Call(NoCall)
            /\ sec' \in {sec, Top.fn = "lock"}
       ELSE stack' = Below /\ UNCHANGED <<run, sec>>
    /\ UNCHANGED <<icon, breakOutOfMenu, Confirm_Result, offer, vid, keys>>

(* DisplayHddPassword() and the end of the other two wait for button A;    *)
(* without a password there is nothing to display.                         *)
Display(password) ==
    /\ run.do = "wait"
    /\ IF password THEN stack' = Push(stack, Waiting("wait")) /\ Call(NoCall)
                   ELSE Call(Ret) /\ UNCHANGED stack
    /\ UNCHANGED <<icon, breakOutOfMenu, Confirm_Result, hdd, vid, keys>>

ButtonA ==
    /\ Polls("wait") /\ Key /\ stack' = Below /\ Call(Ret)
    /\ UNCHANGED <<icon, breakOutOfMenu, Confirm_Result, hdd, vid>>

(* SetWidescreen(), SetVideoStandard(), SetSerialEnabled(), SetSerialIRQ():*)
(* the caption tells what to switch to, or is read back.                   *)
Toggle(com) ==
    /\ run.do = "set" /\ Call(Ret)
    /\ CASE run.arg = "wide" -> /\ shown' = [shown EXCEPT !.wide = ~@]
                                /\ set' = [set EXCEPT !.wide = ~shown.wide]
         [] run.arg = "tv"   -> /\ shown' = [shown EXCEPT !.tv = TvNext[@]]
                                /\ set' = [set EXCEPT !.tv = TvNext[shown.tv]]
         [] run.arg = "com"  -> /\ set' = [set EXCEPT !.com = ~@]
                                /\ shown' = [shown EXCEPT !.com = ~set.com]
         [] run.arg = "irq"  -> /\ set' = [set EXCEPT !.irq = ~@, !.com = com]
                                /\ shown' = [shown EXCEPT !.irq = ~set.irq]
    /\ UNCHANGED <<icon, stack, breakOutOfMenu, Confirm_Result, hdd, keys>>

SetOption == Toggle(set.com)

(* What needs neither the settings nor the password.                       *)
Plain ==
    \/ IconResumes \/ TextResumes \/ OpenText \/ DrawBootMenu \/ PrepareBootFromCD
    \/ Leave \/ Ask \/ Answer

Gone == run.do = "gone" /\ UNCHANGED menuVars
User == IconMove \/ IconChosen \/ TextMove \/ TextChosen \/ TextNoItem \/ TextLeft \/ ButtonA

(* With the bound reached the menu polls for ever.                         *)
Idle == run = NoCall /\ ~(IconPolls /\ ticks) /\ UNCHANGED menuVars

(* The menus by themselves, for any machine and whether or not a password  *)
(* can be computed: every step of a specification that adds what lies      *)
(* around them is one of these, or leaves them alone.                      *)
Shown == icons # <<>>
MenuNext ==
    \/ ~Shown /\ \E hw \in Hardware, tv \in DOMAIN TvNext, wide \in BOOLEAN : IconMenuInit(hw, tv, wide)
    \/ Shown /\ (Plain \/ SetOption \/ Timeout \/ User \/ Gone \/ Idle)
    \/ Shown /\ \E password \in BOOLEAN : SecurityChange(password) \/ Display(password)

MenuSpec == MenuInit /\ [][MenuNext]_menuVars

-----------------------------------------------------------------------------
(* "If anybody has toggled the xpad left/right, disable the timeout", and  *)
(* "avoid infinite boot loop": the timeout selects at most once, and not   *)
(* after the user has used the icon menu.                                  *)
TimeoutOnlyOnce == [][timed' # timed => timed = 0 /\ keys = 0]_menuVars

(* "We should be non-interactive, then": after a timeout nobody is asked   *)
(* which system to boot.                                                   *)
TimeoutAsksNobody ==
    timedOut => \A i \in 1 .. Len(stack) : stack[i].m \notin DOMAIN Config

(* 'Quit the menu' is meant for the dialog that was answered: the flag is  *)
(* never up while a menu polls, and no menu below the dialog sees it.      *)
BreakLeavesDialogOnly ==
    breakOutOfMenu => run = Ret /\ stack # <<>> /\ Top.m = "confirm"

(* The two globals of the menus reach only those they are meant for.       *)
FlagsConfined == TimeoutAsksNobody /\ BreakLeavesDialogOnly
=============================================================================
