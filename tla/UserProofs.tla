--------------------------- MODULE UserProofs ---------------------------
(***************************************************************************)
(* Proofs about what the person at the machine drives: the menus, for      *)
(* every machine and every configuration; in the second part the settings  *)
(* changed there and the EEPROM that keeps them; in the third the tray     *)
(* that an icon of the menu boots from; in the fourth the buttons that     *)
(* drive all of them.  Only the second part rests on another, the first.   *)
(*                                                                         *)
(* The menus: the two globals timedOut and breakOutOfMenu reach only the   *)
(* functions they are meant for, and the timeout selects an icon at most   *)
(* once.  Neither flag says by itself who will read it.  MenuInv adds what *)
(* the functions on the stack and the one that executes can be: the        *)
(* dialog's answers are executed over the dialog only, what an icon or an  *)
(* item of the settings' menus opens is never a list of boot entries, and  *)
(* the icon menu polls with its timer running only before anything was     *)
(* selected.                                                               *)
(***************************************************************************)
EXTENDS Settings, TrayBoot, Input, SequenceTheorems, FiniteSetTheorems, TLAPS

Menus == Submenus \cup {"confirm"} \cup DOMAIN Config

IconItems == [do : {"cd", "draw"}, arg : DOMAIN Config]
             \cup [do : {"leave"}, arg : {"etherboot"}]
             \cup [do : {"text"}, arg : {"main"}]

Options == {"wide", "tv", "com", "irq"}

(* What an item of menu m may do.                                          *)
MenuItem(m, item) ==
    \/ item.do \in {"boot", "leave", "wait"}
    \/ item.do = "set" /\ item.arg \in Options
    \/ item.do = "ask" /\ item.arg \in {"lock", "unlock"}
    \/ item.do = "draw" /\ item.arg \in DOMAIN Config
    \/ item.do = "text" /\ item.arg \in Submenus
    \/ item.do = "answer" /\ m = "confirm"

(* The menus and waiting functions that can be on the stack.               *)
Frames ==
    { f \in [fn : {"text", "lock", "unlock", "wait"}, m : Menus \cup {""},
             sel : Nat \ {0}, first : Int] :
        /\ f.m = "" <=> f.fn # "text"
        /\ f.m # "" => \/ MenuItems(f.m) = <<>>
                       \/ f.sel \in DOMAIN MenuItems(f.m) }

RunKnown ==
    /\ run.do \in {"cd", "draw"} => run.arg \in DOMAIN Config
    /\ run.do = "text" => run.arg \in Submenus
    /\ run.do = "ask" => run.arg \in {"lock", "unlock"}
    /\ run.do = "answer" => stack # <<>> /\ Top.m = "confirm"
    /\ run.do = "set" => run.arg \in Options

TimerFresh == ticks /\ IconPolls => timed = 0 /\ keys = 0

MenuInv ==
    /\ icons \in Seq(IconItems)
    /\ Shown => sel \in 1 .. Len(icons)
    /\ ~Shown => run = NoCall /\ stack = <<>> /\ ~timedOut /\ ~breakOutOfMenu
    /\ offer \in {"none", "lock", "unlock"}
    /\ stack \in Seq(Frames)
    /\ RunKnown
    /\ TimerFresh
    /\ FlagsConfined

-----------------------------------------------------------------------------
(* A frame is pushed on the stack, and the innermost one popped.           *)
LEMMA PushFacts ==
    ASSUME NEW F, NEW s \in Seq(F), NEW f \in F
    PROVE  /\ Push(s, f) \in Seq(F) /\ Push(s, f) # <<>>
           /\ Len(Push(s, f)) = Len(s) + 1 /\ Len(s) \in Nat
           /\ \A i \in 1 .. Len(s) : Push(s, f)[i] = s[i]
           /\ Push(s, f)[Len(s) + 1] = f /\ Last(Push(s, f)) = f
  BY AppendProperties, LenProperties DEF Push, Last

LEMMA PopFacts ==
    ASSUME NEW F, NEW s \in Seq(F), s # <<>>
    PROVE  /\ Front(s) \in Seq(F) /\ Len(Front(s)) = Len(s) - 1
           /\ Len(s) \in Nat \ {0}
           /\ \A i \in 1 .. Len(s) - 1 : Front(s)[i] = s[i]
           /\ Last(s) \in F
  <1> DEFINE len == Len(s) - 1
  <1>1. Len(s) \in Nat /\ Len(s) # 0
    BY LenProperties, EmptySeq
  <1>2. \A i \in 1 .. len : s[i] \in F
    BY <1>1, ElementOfSeq
  <1>3. Last(s) \in F
    BY <1>1, ElementOfSeq DEF Last
  <1>4. len \in Nat
    BY <1>1
  <1> HIDE DEF len
  <1>5. SubSeq(s, 1, len) \in Seq(F)
    BY <1>2, <1>4, SubSeqProperties
  <1>6. Len(SubSeq(s, 1, len)) = len
    BY <1>2, <1>4
  <1>7. \A i \in 1 .. len : SubSeq(s, 1, len)[i] = s[i]
    BY <1>2, <1>4
  <1>8. QED
    BY <1>1, <1>3, <1>5, <1>6, <1>7 DEF Front, len

LEMMA PairIsSeq ==
    ASSUME NEW F, NEW a \in F, NEW b \in F
    PROVE  <<a, b>> \in Seq(F)
  OBVIOUS

(* A function on 1 .. len is a sequence of length len.                         *)
LEMMA FunctionIsSeq ==
    ASSUME NEW S, NEW len \in Nat, NEW s \in [1 .. len -> S]
    PROVE  s \in Seq(S) /\ Len(s) = len
  <1>1. s \in Seq(S)
    BY SeqDef
  <1>2. Len(s) \in Nat /\ DOMAIN s = 1 .. Len(s)
    BY <1>1, LenProperties
  <1>3. 1 .. len = 1 .. Len(s)
    BY <1>2
  <1>4. QED
    BY <1>1, <1>2, <1>3

(* IconMenuInit(): the icons, and the place of the preselected one.        *)
LEMMA IconsLemma ==
    ASSUME NEW mach \in Hardware
    PROVE  /\ Icons(mach) \in Seq(IconItems)
           /\ Preselected(mach) \in 1 .. Len(Icons(mach))
  <1> DEFINE f == IF mach.fatx = "" THEN 0 ELSE 1
             s1 == [i \in 1 .. mach.cds |-> Item("cd", mach.cdcfg)]
             s2 == IF mach.fatx = "" THEN <<>> ELSE <<Item("draw", mach.fatx)>>
             s3 == [i \in 1 .. Len(mach.natives) |-> Item("draw", mach.natives[i])]
             s4 == <<Item("leave", "etherboot"), Item("text", "main")>>
  <1>0. mach.cds \in 0 .. 2 /\ mach.cdcfg \in DOMAIN Config
    BY DEF Hardware
  <1>1. mach.cds \in Nat
    BY <1>0
  <1>a. mach.fatx = "" \/ mach.fatx \in DOMAIN Config
    BY DEF Hardware
  <1>b. mach.natives \in Seq(DOMAIN Config)
    BY DEF Hardware
  <1>2. Len(mach.natives) \in Nat /\ \A i \in 1 .. Len(mach.natives) : mach.natives[i] \in DOMAIN Config
    BY <1>b, LenProperties, ElementOfSeq
  <1>3. s1 \in Seq(IconItems) /\ Len(s1) = mach.cds
    <2>1. Item("cd", mach.cdcfg) \in IconItems
      BY <1>0 DEF IconItems, Item
    <2>2. s1 \in [1 .. mach.cds -> IconItems]
      BY <2>1
    <2>3. QED
      BY <1>1, <2>2, FunctionIsSeq
  <1>4. s2 \in Seq(IconItems) /\ Len(s2) = f
    <2>1. CASE mach.fatx = ""
      BY <2>1, EmptySeq
    <2>2. CASE mach.fatx # ""
      <3>1. Item("draw", mach.fatx) \in IconItems
        BY <1>a, <2>2 DEF IconItems, Item
      <3>2. s2 = <<Item("draw", mach.fatx)>> /\ f = 1
        BY <2>2
      <3> HIDE DEF s2, f
      <3>3. QED
        BY <3>1, <3>2
    <2>3. QED
      BY <2>1, <2>2
  <1>5. s3 \in Seq(IconItems) /\ Len(s3) = Len(mach.natives)
    <2>1. \A i \in 1 .. Len(mach.natives) : Item("draw", mach.natives[i]) \in IconItems
      BY <1>2 DEF IconItems, Item
    <2>2. s3 \in [1 .. Len(mach.natives) -> IconItems]
      BY <2>1
    <2>3. QED
      BY <1>2, <2>2, FunctionIsSeq
  <1>6. s4 \in Seq(IconItems) /\ Len(s4) = 2
    <2>1. Item("leave", "etherboot") \in IconItems /\ Item("text", "main") \in IconItems
      BY DEF IconItems, Item
    <2>2. QED
      BY <2>1
  <1>7. Icons(mach) = ((s1 \o s2) \o s3) \o s4
    BY DEF Icons
  <1> HIDE DEF s1, s2, s3, s4
  <1> DEFINE len == Len(mach.natives)
  <1> HIDE DEF f, len
  <1>8. Len(s1) \in Nat /\ Len(s2) = f /\ Len(s3) = len /\ len \in Nat /\ f \in Nat
    BY <1>1, <1>2, <1>3, <1>4, <1>5 DEF len, f
  <1>9. s1 \o s2 \in Seq(IconItems) /\ Len(s1 \o s2) = Len(s1) + f
    <2>1. s1 \in Seq(IconItems) /\ s2 \in Seq(IconItems)
      BY <1>3, <1>4
    <2>2. s1 \o s2 \in Seq(IconItems)
      BY <2>1, ConcatProperties
    <2>3. Len(s1 \o s2) = Len(s1) + Len(s2)
      BY <2>1, ConcatProperties
    <2>4. QED
      BY <2>2, <2>3, <1>8
  <1>10. /\ (s1 \o s2) \o s3 \in Seq(IconItems)
         /\ Len((s1 \o s2) \o s3) = Len(s1 \o s2) + len
    BY <1>5, <1>8, <1>9, ConcatProperties
  <1>11. Icons(mach) \in Seq(IconItems) /\ Len(Icons(mach)) = Len((s1 \o s2) \o s3) + Len(s4)
    BY <1>6, <1>7, <1>10, ConcatProperties
  <1>12. Len(Icons(mach)) = mach.cds + f + len + 2
    BY <1>1, <1>3, <1>6, <1>8, <1>9, <1>10, <1>11
  <1>13. mach.natives # <<>> => len > 0
    BY <1>b, EmptySeq DEF len
  <1>14. Preselected(mach) \in 1 .. mach.cds + f + len + 2
    <2>1. CASE mach.natives # <<>>
      <3>1. Preselected(mach) = mach.cds + f + len
        BY <2>1 DEF Preselected, f, len
      <3>2. QED
        BY <2>1, <3>1, <1>1, <1>8, <1>13
    <2>2. CASE mach.natives = <<>> /\ mach.fatx # ""
      <3>1. Preselected(mach) = mach.cds + 1 /\ f = 1
        BY <2>2 DEF Preselected, f
      <3>2. QED
        BY <3>1, <1>1, <1>8
    <2>3. CASE mach.natives = <<>> /\ mach.fatx = ""
      <3>1. Preselected(mach) = 1
        BY <2>3 DEF Preselected
      <3>2. QED
        BY <3>1, <1>1, <1>8
    <2>4. QED
      BY <2>1, <2>2, <2>3
  <1>15. QED
    BY <1>11, <1>12, <1>14

(* A list of boot entries has entries, one of which is preferred.          *)
LEMMA ConfigLemma ==
    ASSUME NEW c \in DOMAIN Config
    PROVE  /\ Len(Config[c]) \in Nat
           /\ Len(Config[c]) # 0
           /\ DOMAIN Config[c] = 1 .. Len(Config[c])
           /\ Preferred(c) \in DOMAIN Config[c]
           /\ \A i \in DOMAIN Config[c] :
                 \/ Config[c][i].do = "boot"
                 \/ Config[c][i].do = "draw" /\ Config[c][i].arg \in DOMAIN Config
  <1> DEFINE len == Len(Config[c])
  <1>1. len \in Nat \ {0}
    BY MenuAssumption
  <1>2. DOMAIN Config[c] = 1 .. len
    BY MenuAssumption
  <1>3. Default[c] \in 0 .. len
    BY MenuAssumption
  <1>4. \A i \in DOMAIN Config[c] :
           \/ Config[c][i].do = "boot"
           \/ Config[c][i].do = "draw" /\ Config[c][i].arg \in DOMAIN Config
    BY MenuAssumption
  <1> HIDE DEF len
  <1>5. Preferred(c) \in 1 .. len
    BY <1>1, <1>3 DEF Preferred
  <1>6. QED
    BY <1>1, <1>2, <1>4, <1>5 DEF len

(* Every item of a menu is one that the menu may have.                     *)
LEMMA ItemsLemma ==
    ASSUME icons \in Seq(IconItems), offer \in {"none", "lock", "unlock"},
           NEW m \in Menus
    PROVE  /\ Len(MenuItems(m)) \in Nat
           /\ DOMAIN MenuItems(m) = 1 .. Len(MenuItems(m))
           /\ MenuItems(m) = <<>> \/ 1 \in DOMAIN MenuItems(m)
           /\ \A i \in DOMAIN MenuItems(m) : MenuItem(m, MenuItems(m)[i])
  <1> DEFINE Sound(items) ==
               /\ Len(items) \in Nat
               /\ DOMAIN items = 1 .. Len(items)
               /\ items = <<>> \/ 1 \in DOMAIN items
               /\ \A i \in DOMAIN items : MenuItem(m, items[i])
  <1>0. ASSUME m \in Submenus \cup {"confirm"} PROVE MenuItems(m) = TextMenus[m]
    BY <1>0, MenuAssumption DEF MenuItems
  <1>1. CASE m = "main"
    <2>1. MenuItems(m) = TextMenus.main
      BY <1>1, <1>0 DEF Submenus
    <2>2. Sound(TextMenus.main)
      BY <1>1 DEF TextMenus, Submenus, MenuItem, Item
    <2>3. QED
      BY <2>1, <2>2
  <1>2. CASE m = "phy"
    <2>1. MenuItems(m) = TextMenus.phy
      BY <1>2, <1>0 DEF Submenus
    <2>2. Sound(TextMenus.phy)
      BY <1>2 DEF TextMenus, Submenus, MenuItem, Item, Options
    <2>3. QED
      BY <2>1, <2>2
  <1>3. CASE m = "video"
    <2>1. MenuItems(m) = TextMenus.video
      BY <1>3, <1>0 DEF Submenus
    <2>2. Sound(TextMenus.video)
      BY <1>3 DEF TextMenus, Submenus, MenuItem, Item, Options
    <2>3. QED
      BY <2>1, <2>2
  <1>4. CASE m = "hdd"
    <2>1. MenuItems(m) = TextMenus.hdd
      BY <1>4, <1>0 DEF Submenus
    <2>2. Sound(TextMenus.hdd)
      <3>1. CASE offer = "none"
        <4>1. TextMenus.hdd = <<>>
          BY <3>1 DEF TextMenus
        <4>2. QED
          BY <4>1
      <3>2. CASE offer \in {"lock", "unlock"}
        <4>1. TextMenus.hdd = <<Item("ask", offer), Item("wait", "password")>>
          BY <3>2 DEF TextMenus
        <4>2. QED
          BY <3>2, <4>1 DEF MenuItem, Item
      <3>3. QED
        BY <3>1, <3>2
    <2>3. QED
      BY <2>1, <2>2
  <1>5. CASE m = "confirm"
    <2>1. MenuItems(m) = TextMenus.confirm
      BY <1>5, <1>0 DEF Submenus
    <2>2. Sound(TextMenus.confirm)
      BY <1>5 DEF TextMenus, Submenus, MenuItem, Item
    <2>3. QED
      BY <2>1, <2>2
  <1>6. CASE m = "reset"
    <2>1. MenuItems(m) = TextMenus.reset
      BY <1>6, <1>0 DEF Submenus
    <2>2. Sound(TextMenus.reset)
      BY <1>6 DEF TextMenus, Submenus, MenuItem, Item
    <2>3. QED
      BY <2>1, <2>2
  <1>7. CASE m = "flash"
    <2>1. Cds \in Nat
      <3>1. IsFiniteSet(DOMAIN icons)
        BY LenProperties, FS_Interval
      <3>2. QED
        BY <3>1, FS_Subset, FS_CardinalityType DEF Cds
    <2>2. MenuItems(m) = [i \in 1 .. Cds |-> Item("leave", "flash")]
      BY <1>7, <1>0 DEF TextMenus, Submenus
    <2>3. QED
      BY <2>1, <2>2 DEF MenuItem, Item
  <1>8. CASE m \in DOMAIN Config
    <2>1. MenuItems(m) = Config[m]
      BY <1>8, MenuAssumption DEF MenuItems, Submenus
    <2>2. /\ Len(Config[m]) \in Nat /\ DOMAIN Config[m] = 1 .. Len(Config[m])
          /\ 1 \in DOMAIN Config[m]
      BY <1>8, ConfigLemma
    <2>3. \A i \in DOMAIN Config[m] : MenuItem(m, Config[m][i])
      BY <1>8, ConfigLemma DEF MenuItem
    <2>4. QED
      BY <2>1, <2>2, <2>3
  <1>9. QED
    BY <1>1, <1>2, <1>3, <1>4, <1>5, <1>6, <1>7, <1>8 DEF Menus, Submenus
-----------------------------------------------------------------------------
(* What a step has to show once the menus are there.                       *)
LEMMA StepShows ==
    ASSUME MenuInv, Shown, icons' = icons, offer' = offer,
           sel' \in 1 .. Len(icons), stack' \in Seq(Frames),
           RunKnown', TimerFresh', FlagsConfined'
    PROVE  MenuInv'
  <1>1. Frames' = Frames
    BY DEF Frames, Menus, MenuItems, TextMenus, Cds, Item, Submenus
  <1>2. QED
    BY <1>1 DEF MenuInv, Shown, IconItems

(* Steps that leave the stack and the globals alone.                       *)
LEMMA SameStack ==
    ASSUME MenuInv, Shown, UNCHANGED <<icons, offer, stack, timedOut>>,
           sel' \in 1 .. Len(icons), RunKnown', TimerFresh',
           breakOutOfMenu' => breakOutOfMenu, breakOutOfMenu => run' = Ret
    PROVE  MenuInv'
  <1>1. FlagsConfined'
    BY DEF MenuInv, FlagsConfined, TimeoutAsksNobody, BreakLeavesDialogOnly, Top
  <1>2. stack' \in Seq(Frames)
    BY DEF MenuInv
  <1>3. QED
    BY <1>1, <1>2, StepShows

LEMMA PushOnStack ==
    ASSUME stack \in Seq(Frames), NEW f \in Frames
    PROVE  /\ Push(stack, f) \in Seq(Frames) /\ Push(stack, f) # <<>>
           /\ Len(Push(stack, f)) = Len(stack) + 1
           /\ \A i \in 1 .. Len(stack) : Push(stack, f)[i] = stack[i]
           /\ Push(stack, f)[Len(stack) + 1] = f
  <1>1. Push(stack, f) \in Seq(Frames)
    BY PushFacts
  <1>2. Push(stack, f) # <<>>
    BY PushFacts
  <1>3. Len(Push(stack, f)) = Len(stack) + 1
    BY PushFacts
  <1>4. \A i \in 1 .. Len(stack) : Push(stack, f)[i] = stack[i]
    BY PushFacts
  <1>5. Push(stack, f)[Len(stack) + 1] = f
    BY PushFacts
  <1>6. QED
    BY <1>1, <1>2, <1>3, <1>4, <1>5

(* A frame is pushed: a list of boot entries only if nothing timed out.    *)
LEMMA Pushed ==
    ASSUME MenuInv, Shown, UNCHANGED <<icons, offer, sel, timedOut>>,
           NEW f \in Frames, stack' = Push(stack, f), timedOut => f.m \notin DOMAIN Config,
           run' = NoCall, breakOutOfMenu' = breakOutOfMenu, ~breakOutOfMenu
    PROVE  MenuInv'
  <1>1. /\ stack' \in Seq(Frames) /\ stack' # <<>>
        /\ Len(stack') = Len(stack) + 1 /\ Len(stack) \in Nat
        /\ \A i \in 1 .. Len(stack) : stack'[i] = stack[i]
        /\ stack'[Len(stack) + 1] = f
    <2>1. stack \in Seq(Frames)
      BY DEF MenuInv
    <2>2. Len(stack) \in Nat
      BY <2>1, LenProperties
    <2>3. QED
      BY <2>1, <2>2, PushOnStack
  <1>2. TimeoutAsksNobody'
    <2> SUFFICES ASSUME timedOut, NEW i \in 1 .. Len(stack') PROVE stack'[i].m \notin DOMAIN Config
      BY DEF TimeoutAsksNobody
    <2>1. CASE i \in 1 .. Len(stack)
      BY <2>1, <1>1 DEF MenuInv, FlagsConfined, TimeoutAsksNobody
    <2>2. CASE i = Len(stack) + 1
      BY <2>2, <1>1
    <2>3. QED
      BY <2>1, <2>2, <1>1
  <1>3. BreakLeavesDialogOnly'
    BY DEF BreakLeavesDialogOnly
  <1>4. RunKnown'
    BY DEF RunKnown, NoCall, Item
  <1>5. TimerFresh'
    BY <1>1 DEF TimerFresh, IconPolls
  <1>6. sel' \in 1 .. Len(icons)
    BY DEF MenuInv
  <1>7. QED
    BY <1>1, <1>2, <1>3, <1>4, <1>5, <1>6, StepShows DEF FlagsConfined

(* The innermost frame is popped and its caller resumes.                   *)
LEMMA Popped ==
    ASSUME MenuInv, Shown, UNCHANGED <<icons, offer, sel, timedOut>>,
           stack # <<>>, stack' = Below, run' = Ret, ~breakOutOfMenu'
    PROVE  MenuInv'
  <1>1. /\ stack' \in Seq(Frames) /\ Len(stack') = Len(stack) - 1
        /\ Len(stack) \in Nat
        /\ \A i \in 1 .. Len(stack) - 1 : stack'[i] = stack[i]
    BY PopFacts DEF MenuInv, Below
  <1>2. TimeoutAsksNobody'
    <2> SUFFICES ASSUME timedOut, NEW i \in 1 .. Len(stack') PROVE stack'[i].m \notin DOMAIN Config
      BY DEF TimeoutAsksNobody
    <2>1. i \in 1 .. Len(stack) - 1 /\ i \in 1 .. Len(stack)
      BY <1>1
    <2>2. QED
      BY <2>1, <1>1 DEF MenuInv, FlagsConfined, TimeoutAsksNobody
  <1>3. BreakLeavesDialogOnly'
    BY DEF BreakLeavesDialogOnly
  <1>4. RunKnown'
    BY DEF RunKnown, Ret, Item
  <1>5. TimerFresh'
    BY DEF TimerFresh, IconPolls, NoCall, Ret, Item
  <1>6. sel' \in 1 .. Len(icons)
    BY DEF MenuInv
  <1>7. QED
    BY <1>1, <1>2, <1>3, <1>4, <1>5, <1>6, StepShows DEF FlagsConfined

(* The keys and the timer of the icon menu.                                *)
LEMMA IconSteps ==
    ASSUME MenuInv, Shown, IconMove \/ IconChosen \/ Timeout \/ IconResumes
    PROVE  MenuInv'
  <1>1. sel \in 1 .. Len(icons) /\ Len(icons) \in Nat /\ icons[sel] \in IconItems
    BY LenProperties, ElementOfSeq DEF MenuInv
  <1>2. /\ icons[sel].do \in {"cd", "draw", "leave", "text"}
        /\ icons[sel].do \in {"cd", "draw"} => icons[sel].arg \in DOMAIN Config
        /\ icons[sel].do = "text" => icons[sel].arg \in Submenus
    BY <1>1 DEF IconItems, Submenus
  <1>3. ASSUME run' = icons[sel], stack' = stack PROVE RunKnown' /\ TimerFresh'
    <2>1. RunKnown'
      BY <1>2, <1>3 DEF RunKnown
    <2>2. run' # NoCall
      <3>1. NoCall.do = "none"
        BY DEF NoCall, Item
      <3>2. run'.do # "none"
        BY <1>2, <1>3
      <3>3. QED
        BY <3>1, <3>2
    <2>3. QED
      BY <2>1, <2>2 DEF TimerFresh, IconPolls
  <1>4. CASE IconMove
    <2>1. /\ UNCHANGED <<icons, offer, stack, timedOut, run, breakOutOfMenu>>
          /\ ~ticks' /\ run = NoCall /\ stack = <<>>
      BY <1>4 DEF IconMove, IconMoves, IconPolls, ui, hdd
    <2>2. sel' \in 1 .. Len(icons)
      <3>1. \/ \E d \in {-1, 1} : sel + d \in 1 .. Len(icons) /\ sel' = sel + d
            \/ sel' = sel
        BY <1>4 DEF IconMove, IconMoves
      <3>2. QED
        BY <1>1, <3>1
    <2>3. RunKnown' /\ TimerFresh'
      BY <2>1 DEF RunKnown, TimerFresh, NoCall, Item
    <2>4. breakOutOfMenu => run' = Ret
      BY <2>1 DEF MenuInv, FlagsConfined, BreakLeavesDialogOnly
    <2>5. QED
      BY <2>1, <2>2, <2>3, <2>4, SameStack
  <1>5. CASE IconChosen
    <2>1. /\ UNCHANGED <<icons, offer, stack, timedOut, sel, breakOutOfMenu>>
          /\ run' = icons[sel] /\ run = NoCall /\ stack = <<>>
      BY <1>5 DEF IconChosen, IconPolls, Call, icon, hdd
    <2>2. ~breakOutOfMenu
      BY <2>1 DEF MenuInv, FlagsConfined, BreakLeavesDialogOnly
    <2>3. QED
      BY <1>1, <1>3, <2>1, <2>2, SameStack
  <1>6. CASE Timeout
    <2>1. /\ UNCHANGED <<icons, offer, stack, sel, breakOutOfMenu>>
          /\ run' = icons[sel] /\ run = NoCall /\ stack = <<>>
      BY <1>6 DEF Timeout, TimeoutMarks, IconPolls, Call, hdd
    <2>2. FlagsConfined'
      <3>1. ~breakOutOfMenu'
        BY <2>1 DEF MenuInv, FlagsConfined, BreakLeavesDialogOnly
      <3>2. Len(stack') = 0
        BY <2>1
      <3>3. QED
        BY <3>1, <3>2 DEF FlagsConfined, TimeoutAsksNobody, BreakLeavesDialogOnly
    <2>3. stack' \in Seq(Frames)
      BY <2>1 DEF MenuInv
    <2>4. QED
      BY <1>1, <1>3, <2>1, <2>2, <2>3, StepShows
  <1>7. CASE IconResumes
    <2>1. /\ UNCHANGED <<icons, offer, stack, sel, breakOutOfMenu>>
          /\ ~ticks' /\ ~timedOut' /\ run' = NoCall /\ stack = <<>>
      BY <1>7 DEF IconResumes, IconResumesWith, Call, hdd
    <2>2. FlagsConfined'
      BY <2>1 DEF MenuInv, FlagsConfined, TimeoutAsksNobody, BreakLeavesDialogOnly
    <2>3. RunKnown' /\ TimerFresh'
      BY <2>1 DEF RunKnown, TimerFresh, NoCall, Item
    <2>4. stack' \in Seq(Frames)
      BY <2>1 DEF MenuInv
    <2>5. QED
      BY <1>1, <2>1, <2>2, <2>3, <2>4, StepShows
  <1>8. QED
    BY <1>4, <1>5, <1>6, <1>7

(* The keys of a text menu, and the menu when a function returns to it.    *)
LEMMA TextSteps ==
    ASSUME MenuInv, Shown,
           TextMove \/ TextChosen \/ TextNoItem \/ TextLeft \/ ButtonA \/ TextResumes
    PROVE  MenuInv'
  <1>1. sel \in 1 .. Len(icons)
    BY DEF MenuInv
  <1>2. ASSUME stack # <<>> PROVE Top \in Frames
    BY <1>2, PopFacts DEF MenuInv, Top
  <1>3. ASSUME Polls("text"), MenuItems(Top.m) # <<>>
        PROVE  /\ stack # <<>> /\ Top.m \in Menus /\ ~breakOutOfMenu
               /\ Top.sel \in DOMAIN MenuItems(Top.m)
               /\ Len(MenuItems(Top.m)) \in Nat
               /\ DOMAIN MenuItems(Top.m) = 1 .. Len(MenuItems(Top.m))
               /\ MenuItem(Top.m, MenuItems(Top.m)[Top.sel])
    <2>1. stack # <<>> /\ run = NoCall /\ Top \in Frames /\ Top.fn = "text"
      BY <1>2, <1>3 DEF Polls
    <2>2. Top.m \in Menus \cup {""} /\ Top.m # ""
      BY <2>1 DEF Frames
    <2>3. Top.sel \in DOMAIN MenuItems(Top.m)
      BY <1>3, <2>1, <2>2 DEF Frames
    <2>4. ~breakOutOfMenu
      BY <2>1 DEF MenuInv, FlagsConfined, BreakLeavesDialogOnly, NoCall, Ret, Item
    <2>5. QED
      BY <2>1, <2>2, <2>3, <2>4, ItemsLemma DEF MenuInv
  <1>4. CASE TextMove
    <2>1. PICK d \in {-1, 1} :
             /\ Top.sel + d \in 1 .. Len(MenuItems(Top.m))
             /\ stack' = Push(Below, [Top EXCEPT !.sel = Top.sel + d,
                                      !.first = Window(Top.first, Top.sel + d, Page)])
      BY <1>4 DEF TextMove
    <2>2. /\ UNCHANGED <<icons, offer, sel, timedOut, run, breakOutOfMenu>>
          /\ Polls("text") /\ run = NoCall
      BY <1>4 DEF TextMove, Polls, icon, hdd
    <2>3. MenuItems(Top.m) # <<>>
      BY <2>1
    <2>4. /\ stack # <<>> /\ Top \in Frames /\ Top.m \in Menus
          /\ ~breakOutOfMenu /\ Len(MenuItems(Top.m)) \in Nat
          /\ DOMAIN MenuItems(Top.m) = 1 .. Len(MenuItems(Top.m))
      BY <2>2, <2>3, <1>2, <1>3
    <2> DEFINE at == Top.sel + d
               w == Window(Top.first, at, Page)
               f == [Top EXCEPT !.sel = at, !.first = w]
    <2>5. w \in Int /\ at \in Nat \ {0} /\ at \in DOMAIN MenuItems(Top.m)
      <3>1. Top.first \in Int /\ Top.sel \in Nat \ {0}
        BY <2>4 DEF Frames
      <3>2. at \in Nat \ {0}
        BY <2>1, <2>4, <3>1
      <3>3. at \in DOMAIN MenuItems(Top.m)
        BY <2>1, <2>4
      <3> HIDE DEF at
      <3>4. Window(Top.first, at, Page) \in Int
        BY <3>1 DEF Window
      <3>5. QED
        BY <3>2, <3>3, <3>4
    <2> HIDE DEF w, at
    <2>6. f \in Frames /\ f.m = Top.m
      BY <2>4, <2>5 DEF Frames
    <2> HIDE DEF f
    <2>7. Below \in Seq(Frames)
      BY <2>4, PopFacts DEF MenuInv, Below
    <2>8. /\ stack' \in Seq(Frames) /\ stack' # <<>>
          /\ TimeoutAsksNobody'
      <3>1. stack' = Push(Below, f)
        BY <2>1 DEF f, w, at
      <3>2. /\ Len(stack) \in Nat \ {0} /\ Len(Below) = Len(stack) - 1
            /\ \A i \in 1 .. Len(stack) - 1 : Below[i] = stack[i]
            /\ Top = stack[Len(stack)]
        BY <2>4, PopFacts DEF MenuInv, Below, Top, Last
      <3>3. /\ stack' \in Seq(Frames) /\ stack' # <<>>
            /\ Len(stack') = Len(Below) + 1
            /\ \A i \in 1 .. Len(Below) : stack'[i] = Below[i]
            /\ stack'[Len(Below) + 1] = f
        <4>1. /\ Push(Below, f) \in Seq(Frames) /\ Push(Below, f) # <<>>
              /\ Len(Push(Below, f)) = Len(Below) + 1
              /\ \A i \in 1 .. Len(Below) : Push(Below, f)[i] = Below[i]
              /\ Push(Below, f)[Len(Below) + 1] = f
          BY <2>6, <2>7, PushFacts
        <4>2. QED
          BY <3>1, <4>1, Zenon
      <3>4. ASSUME timedOut, NEW i \in 1 .. Len(stack')
            PROVE  stack'[i].m \notin DOMAIN Config
        <4>1. i \in 1 .. Len(stack) /\ stack'[i].m = stack[i].m
          <5>1. CASE i = Len(stack)
            BY <5>1, <3>2, <3>3, <2>6
          <5>2. CASE i # Len(stack)
            BY <5>2, <3>2, <3>3
          <5>3. QED
            BY <5>1, <5>2
        <4>2. QED
          BY <4>1, <3>4 DEF MenuInv, FlagsConfined, TimeoutAsksNobody
      <3>5. QED
        BY <3>3, <3>4, <2>2 DEF TimeoutAsksNobody
    <2>9. RunKnown' /\ TimerFresh' /\ BreakLeavesDialogOnly'
      BY <2>2, <2>4, <2>8 DEF RunKnown, TimerFresh, IconPolls, NoCall, Item,
                              BreakLeavesDialogOnly
    <2>10. QED
      BY <1>1, <2>2, <2>8, <2>9, StepShows DEF FlagsConfined
  <1>5. CASE TextChosen
    <2>1. /\ UNCHANGED <<icons, offer, sel, timedOut, stack, breakOutOfMenu>>
          /\ Polls("text") /\ MenuItems(Top.m) # <<>>
          /\ run' = MenuItems(Top.m)[Top.sel]
      BY <1>5 DEF TextChosen, Call, icon, hdd
    <2>2. stack # <<>> /\ ~breakOutOfMenu /\ MenuItem(Top.m, run')
      BY <2>1, <1>3
    <2>3. Top' = Top /\ stack' # <<>>
      BY <2>1, <2>2 DEF Top
    <2>4. RunKnown' /\ TimerFresh'
      BY <2>2, <2>3 DEF MenuItem, RunKnown, TimerFresh, IconPolls
    <2>5. QED
      BY <1>1, <2>1, <2>2, <2>4, SameStack
  <1>6. CASE TextNoItem
    <2>1. /\ UNCHANGED <<icons, offer, sel, timedOut, stack, breakOutOfMenu>>
          /\ run = NoCall /\ stack # <<>>
          /\ run' \in {NoCall, Item("gone", "null item")}
      BY <1>6 DEF TextNoItem, Polls, icon, hdd
    <2>2. ~breakOutOfMenu
      BY <2>1 DEF MenuInv, FlagsConfined, BreakLeavesDialogOnly, NoCall, Ret, Item
    <2>3. RunKnown' /\ TimerFresh'
      <3>1. run'.do \in {"none", "gone"}
        <4>1. CASE run' = NoCall
          BY <4>1 DEF NoCall, Item
        <4>2. CASE run' = Item("gone", "null item")
          BY <4>2 DEF Item
        <4>3. QED
          BY <2>1, <4>1, <4>2
      <3>2. QED
        BY <2>1, <3>1 DEF RunKnown, TimerFresh, IconPolls
    <2>4. QED
      BY <1>1, <2>1, <2>2, <2>3, SameStack
  <1>7. CASE TextLeft \/ ButtonA
    <2>1. /\ UNCHANGED <<icons, offer, sel, timedOut, breakOutOfMenu>>
          /\ run = NoCall /\ stack # <<>> /\ stack' = Below /\ run' = Ret
      BY <1>7 DEF TextLeft, ButtonA, Polls, Call, icon, hdd
    <2>2. ~breakOutOfMenu
      BY <2>1 DEF MenuInv, FlagsConfined, BreakLeavesDialogOnly, NoCall, Ret, Item
    <2>3. QED
      BY <2>1, <2>2, Popped
  <1>8. CASE TextResumes
    <2>1. /\ UNCHANGED <<icons, offer, sel, timedOut>>
          /\ run = Ret /\ stack # <<>> /\ ~breakOutOfMenu'
      BY <1>8 DEF TextResumes, TextResumesWith, icon, hdd
    <2>2. CASE breakOutOfMenu
      <3>1. stack' = Below /\ run' = Ret
        BY <2>1, <2>2, <1>8 DEF TextResumes, TextResumesWith
      <3>2. QED
        BY <2>1, <3>1, Popped
    <2>3. CASE ~breakOutOfMenu
      <3>1. stack' = stack /\ run' = NoCall
        BY <2>3, <1>8 DEF TextResumes, TextResumesWith, Call
      <3>2. RunKnown' /\ TimerFresh'
        BY <2>1, <3>1 DEF RunKnown, TimerFresh, IconPolls, NoCall, Item
      <3>3. QED
        BY <1>1, <2>1, <2>3, <3>1, <3>2, SameStack
    <2>4. QED
      BY <2>2, <2>3
  <1>9. QED
    BY <1>4, <1>5, <1>6, <1>7, <1>8

(* A menu is opened: over the others, at an item it has.                   *)
LEMMA OpenedFrame ==
    ASSUME MenuInv, NEW m \in Menus, NEW at \in Nat \ {0},
           MenuItems(m) = <<>> \/ at \in DOMAIN MenuItems(m)
    PROVE  Text(m, at) \in Frames /\ Text(m, at).m = m
  <1>1. m # ""
    BY MenuAssumption DEF Menus, Submenus
  <1>2. Text(m, at).m = m /\ Text(m, at).fn = "text" /\ Text(m, at).sel = at
    BY DEF Text
  <1>3. Text(m, at) \in [fn : {"text", "lock", "unlock", "wait"}, m : Menus \cup {""},
                         sel : Nat \ {0}, first : Int]
    <2> DEFINE M == Menus \cup {""}
               N == Nat \ {0}
    <2>1. at \in N /\ m \in M
      OBVIOUS
    <2> HIDE DEF M, N
    <2>2. Text(m, at) \in [fn : {"text", "lock", "unlock", "wait"}, m : M, sel : N, first : Int]
      BY <2>1 DEF Text
    <2>3. QED
      BY <2>2 DEF M, N
  <1>4. QED
    BY <1>1, <1>2, <1>3 DEF Frames

LEMMA WaitingFrame ==
    ASSUME NEW f \in {"lock", "unlock", "wait"}
    PROVE  Waiting(f) \in Frames /\ Waiting(f).m = ""
  <1>1. Waiting(f).m = "" /\ Waiting(f).fn # "text"
    BY DEF Waiting
  <1>2. Waiting(f) \in [fn : {"text", "lock", "unlock", "wait"}, m : Menus \cup {""},
                        sel : Nat \ {0}, first : Int]
    BY DEF Waiting
  <1>3. QED
    BY <1>1, <1>2 DEF Frames

(* No dialog's answer is pending while a function other than the return    *)
(* from one executes.                                                      *)
LEMMA NoBreak ==
    ASSUME MenuInv, run # Ret
    PROVE  ~breakOutOfMenu
  BY DEF MenuInv, FlagsConfined, BreakLeavesDialogOnly

(* The functions that open menus.                                          *)
LEMMA OpenSteps ==
    ASSUME MenuInv, Shown, OpenText \/ DrawBootMenu \/ Ask
    PROVE  MenuInv'
  <1>1. sel \in 1 .. Len(icons)
    BY DEF MenuInv
  <1>2. run.do \in {"text", "draw", "ask"}
    BY DEF OpenText, DrawBootMenu, Ask
  <1>3. ~breakOutOfMenu
    <2>1. Ret.do = "ret"
      BY DEF Ret, Item
    <2>2. QED
      BY <1>2, <2>1, NoBreak
  <1>4. UNCHANGED <<icons, offer, sel, timedOut, breakOutOfMenu>>
    BY DEF OpenText, DrawBootMenu, Ask, icon, hdd
  <1>5. CASE OpenText
    <2>1. stack' = Push(stack, Text(run.arg, 1)) /\ run' = NoCall
      BY <1>5 DEF OpenText, Call
    <2>2. run.arg \in Submenus /\ run.arg \in Menus
      BY <1>5 DEF OpenText, MenuInv, RunKnown, Menus
    <2>3. MenuItems(run.arg) = <<>> \/ 1 \in DOMAIN MenuItems(run.arg)
      BY <2>2, ItemsLemma DEF MenuInv
    <2>4. Text(run.arg, 1) \in Frames /\ Text(run.arg, 1).m = run.arg
      BY <2>2, <2>3, OpenedFrame
    <2>5. run.arg \notin DOMAIN Config
      BY <2>2, MenuAssumption
    <2>6. QED
      BY <1>3, <1>4, <2>1, <2>4, <2>5, Pushed
  <1>6. CASE DrawBootMenu
    <2> DEFINE c == run.arg
    <2>1. c \in DOMAIN Config /\ c \in Menus /\ MenuItems(c) = Config[c]
      BY <1>6 DEF DrawBootMenu, MenuInv, RunKnown, Menus, MenuItems
    <2>2. 1 \in DOMAIN Config[c] /\ Preferred(c) \in DOMAIN Config[c]
      BY <2>1, ConfigLemma
    <2> HIDE DEF c
    <2>3. CASE Len(Config[c]) = 1 \/ timedOut
      <3>1. PICK i \in DOMAIN Config[c] : run' = Config[c][i] /\ stack' = stack
        <4>1. /\ run' = Config[c][IF Len(Config[c]) = 1 THEN 1 ELSE Preferred(c)]
              /\ stack' = stack
          BY <1>6, <2>3 DEF DrawBootMenu, Call, c
        <4>2. (IF Len(Config[c]) = 1 THEN 1 ELSE Preferred(c)) \in DOMAIN Config[c]
          BY <2>2
        <4>3. QED
          BY <4>1, <4>2
      <3>2. run'.do = "boot" \/ (run'.do = "draw" /\ run'.arg \in DOMAIN Config)
        <4> DEFINE e == Config[c][i]
        <4>1. \/ Config[c][i].do = "boot"
              \/ Config[c][i].do = "draw" /\ Config[c][i].arg \in DOMAIN Config
          BY <2>1, ConfigLemma
        <4>2. run' = e /\ (e.do = "boot" \/ (e.do = "draw" /\ e.arg \in DOMAIN Config))
          BY <3>1, <4>1
        <4> HIDE DEF e
        <4>3. QED
          BY <4>1, <4>2
      <3>3. RunKnown'
        BY <3>2 DEF RunKnown
      <3>4. TimerFresh'
        <4>1. NoCall.do = "none"
          BY DEF NoCall, Item
        <4>2. QED
          BY <3>2, <4>1 DEF TimerFresh, IconPolls
      <3>5. QED
        BY <1>1, <1>3, <1>4, <3>1, <3>3, <3>4, SameStack
    <2>4. CASE ~(Len(Config[c]) = 1 \/ timedOut)
      <3>1. stack' = Push(stack, Text(c, Preferred(c))) /\ run' = NoCall /\ ~timedOut
        BY <1>6, <2>4 DEF DrawBootMenu, Call, c
      <3>2. Preferred(c) \in Nat \ {0}
        BY <2>1, <2>2, ConfigLemma
      <3>3. Text(c, Preferred(c)) \in Frames
        BY <2>1, <2>2, <3>2, OpenedFrame
      <3>4. QED
        BY <1>3, <1>4, <3>1, <3>3, Pushed
    <2>5. QED
      BY <2>3, <2>4
  <1>7. CASE Ask
    <2>1. run.arg \in {"lock", "unlock"}
      BY <1>7 DEF Ask, MenuInv, RunKnown
    <2> DEFINE w == Waiting(run.arg)
               t == Text("confirm", 2)
    <2>2. w \in Frames /\ w.m = ""
      BY <2>1, WaitingFrame
    <2>3. t \in Frames /\ t.m = "confirm"
      <3>1. "confirm" \in Menus /\ "confirm" \notin DOMAIN Config
        BY MenuAssumption DEF Menus
      <3>2. 2 \in DOMAIN MenuItems("confirm")
        BY <3>1 DEF MenuItems, TextMenus
      <3>3. QED
        BY <3>1, <3>2, OpenedFrame
    <2>4. stack' = stack \o <<w, t>> /\ run' = NoCall
      BY <1>7 DEF Ask, Call
    <2> HIDE DEF w, t
    <2>5. stack \in Seq(Frames) /\ <<w, t>> \in Seq(Frames)
      <3>1. <<w, t>> \in Seq(Frames)
        BY <2>2, <2>3, PairIsSeq
      <3>2. QED
        BY <3>1 DEF MenuInv
    <2>6. Len(<<w, t>>) = 2 /\ Len(stack) \in Nat
      BY <2>5, LenProperties
    <2>7. stack' \in Seq(Frames) /\ Len(stack') = Len(stack) + 2
      <3>1. stack \o <<w, t>> \in Seq(Frames)
        BY <2>5, ConcatProperties
      <3>2. Len(stack \o <<w, t>>) = Len(stack) + Len(<<w, t>>)
        BY <2>5, ConcatProperties
      <3>3. QED
        BY <3>1, <3>2, <2>4, <2>6
    <2>8. \A i \in 1 .. Len(stack) + Len(<<w, t>>) :
             stack'[i] = IF i <= Len(stack) THEN stack[i] ELSE <<w, t>>[i - Len(stack)]
      BY <2>4, <2>5, ConcatProperties
    <2>9. TimeoutAsksNobody'
      <3> SUFFICES ASSUME timedOut, NEW i \in 1 .. Len(stack')
                   PROVE  stack'[i].m \notin DOMAIN Config
        BY <1>4 DEF TimeoutAsksNobody
      <3>1. CASE i \in 1 .. Len(stack)
        <4>1. stack'[i] = stack[i]
          BY <3>1, <2>6, <2>8
        <4>2. QED
          BY <3>1, <4>1 DEF MenuInv, FlagsConfined, TimeoutAsksNobody
      <3>2. CASE i \in {Len(stack) + 1, Len(stack) + 2}
        <4>1. stack'[i] \in {w, t}
          BY <3>2, <2>6, <2>8
        <4>2. QED
          BY <4>1, <2>2, <2>3, MenuAssumption
      <3>3. QED
        BY <3>1, <3>2, <2>6, <2>7
    <2>10. stack' # <<>>
      BY <2>6, <2>7
    <2>11. RunKnown' /\ TimerFresh' /\ BreakLeavesDialogOnly'
      BY <1>3, <1>4, <2>4, <2>10 DEF RunKnown, TimerFresh, IconPolls, NoCall, Item,
                                    BreakLeavesDialogOnly
    <2>12. QED
      BY <1>1, <1>4, <2>7, <2>9, <2>11, StepShows DEF FlagsConfined
  <1>8. QED
    BY <1>5, <1>6, <1>7

(* The functions that do not open a menu, or wait for button A.            *)
LEMMA OtherSteps ==
    ASSUME MenuInv, Shown, NEW password \in BOOLEAN,
           PrepareBootFromCD \/ Leave \/ Answer \/ SetOption
              \/ SecurityChange(password) \/ Display(password)
    PROVE  MenuInv'
  <1>1. sel \in 1 .. Len(icons)
    BY DEF MenuInv
  <1>2. NoCall.do = "none" /\ Ret.do = "ret"
    BY DEF NoCall, Ret, Item
  <1>3. ASSUME run'.do \in {"ret", "gone"} PROVE RunKnown' /\ TimerFresh'
    <2>1. run' # NoCall
      BY <1>2, <1>3
    <2>2. QED
      BY <1>3, <2>1 DEF RunKnown, TimerFresh, IconPolls
  <1>4. ASSUME run.do \notin {"ret"} PROVE ~breakOutOfMenu
    BY <1>2, <1>4, NoBreak
  <1>5. CASE PrepareBootFromCD
    <2>1. /\ UNCHANGED <<icons, offer, sel, timedOut, stack, breakOutOfMenu>>
          /\ run.do = "cd" /\ run' \in {Item("draw", run.arg), Ret}
      BY <1>5 DEF PrepareBootFromCD, icon, hdd
    <2>2. run.arg \in DOMAIN Config
      BY <2>1 DEF MenuInv, RunKnown
    <2>3. CASE run' = Item("draw", run.arg)
      <3>1. run'.do = "draw" /\ run'.arg = run.arg
        BY <2>3 DEF Item
      <3>2. run' # NoCall
        BY <3>1, <1>2
      <3>3. RunKnown' /\ TimerFresh'
        BY <2>2, <3>1, <3>2 DEF RunKnown, TimerFresh, IconPolls
      <3>4. QED
        BY <1>1, <1>4, <2>1, <3>3, SameStack
    <2>4. CASE run' = Ret
      BY <1>1, <1>2, <1>3, <1>4, <2>1, <2>4, SameStack
    <2>5. QED
      BY <2>1, <2>3, <2>4
  <1>6. CASE Leave
    <2>1. /\ UNCHANGED <<icons, offer, sel, timedOut, stack, breakOutOfMenu>>
          /\ run.do \in {"boot", "leave"} /\ run' \in {Ret, Item("gone", run.arg)}
      BY <1>6 DEF Leave, icon, hdd
    <2>2. run'.do \in {"ret", "gone"}
      <3>1. Item("gone", run.arg).do = "gone"
        BY DEF Item
      <3>2. QED
        BY <2>1, <3>1, <1>2
    <2>3. QED
      BY <1>1, <1>3, <1>4, <2>1, <2>2, SameStack
  <1>7. CASE Answer
    <2>1. /\ UNCHANGED <<icons, offer, sel, timedOut, stack>>
          /\ run.do = "answer" /\ run' = Ret
      BY <1>7 DEF Answer, Call, icon, hdd
    <2>2. stack # <<>> /\ Top.m = "confirm"
      BY <2>1 DEF MenuInv, RunKnown
    <2>3. FlagsConfined'
      <3>1. TimeoutAsksNobody'
        BY <2>1 DEF MenuInv, FlagsConfined, TimeoutAsksNobody
      <3>2. BreakLeavesDialogOnly'
        BY <2>1, <2>2 DEF BreakLeavesDialogOnly, Top
      <3>3. QED
        BY <3>1, <3>2 DEF FlagsConfined
    <2>4. stack' \in Seq(Frames)
      BY <2>1 DEF MenuInv
    <2>5. QED
      BY <1>1, <1>2, <1>3, <2>1, <2>3, <2>4, StepShows
  <1>8. CASE SetOption
    <2>1. /\ UNCHANGED <<icons, offer, sel, timedOut, stack, breakOutOfMenu>>
          /\ run.do = "set" /\ run' = Ret
      BY <1>8 DEF SetOption, Toggle, Call, icon, hdd
    <2>2. QED
      BY <1>1, <1>2, <1>3, <1>4, <2>1, SameStack
  <1>9. CASE SecurityChange(password)
    <2>1. /\ UNCHANGED <<icons, offer, sel, timedOut, breakOutOfMenu>>
          /\ run = Ret /\ stack # <<>> /\ Top.fn \in {"lock", "unlock"}
      BY <1>9 DEF SecurityChange, Asked, icon
    <2>2. Top \in Frames
      BY <2>1, PopFacts DEF MenuInv, Top
    <2>3. Top.m = "" /\ ~breakOutOfMenu
      BY <2>1, <2>2 DEF Frames, MenuInv, FlagsConfined, BreakLeavesDialogOnly
    <2>4. CASE stack' = Below /\ run' = run
      BY <2>1, <2>3, <2>4, Popped
    <2>5. CASE stack' = Push(Below, Waiting("wait")) /\ run' = NoCall
      <3> DEFINE w == Waiting("wait")
      <3>1. w \in Frames /\ w.m = ""
        BY WaitingFrame
      <3> HIDE DEF w
      <3>2. stack' = Push(Below, w)
        BY <2>5 DEF w
      <3>3. /\ Below \in Seq(Frames) /\ Len(Below) = Len(stack) - 1
            /\ \A i \in 1 .. Len(stack) - 1 : Below[i] = stack[i]
        BY <2>1, PopFacts DEF MenuInv, Below
      <3>4. /\ Push(Below, w) \in Seq(Frames) /\ Push(Below, w) # <<>>
            /\ Len(Push(Below, w)) = Len(Below) + 1
            /\ \A i \in 1 .. Len(Below) : Push(Below, w)[i] = Below[i]
            /\ Push(Below, w)[Len(Below) + 1] = w
        <4>1. w \in Frames /\ Below \in Seq(Frames)
          BY <3>1, <3>3
        <4>2. Push(Below, w) \in Seq(Frames) /\ Push(Below, w) # <<>>
          BY <4>1, PushFacts
        <4>3. Len(Push(Below, w)) = Len(Below) + 1
          BY <4>1, PushFacts
        <4>4. /\ \A i \in 1 .. Len(Below) : Push(Below, w)[i] = Below[i]
              /\ Push(Below, w)[Len(Below) + 1] = w
          BY <4>1, PushFacts
        <4>5. QED
          BY <4>2, <4>3, <4>4
      <3>5. Len(stack) \in Nat
        BY LenProperties DEF MenuInv
      <3>6. ASSUME timedOut, NEW i \in 1 .. Len(stack') PROVE stack'[i].m \notin DOMAIN Config
        <4>1. CASE i = Len(stack)
          <5>1. stack'[i] = w
            BY <4>1, <3>2, <3>3, <3>4, <3>5
          <5>2. QED
            BY <5>1, <3>1, MenuAssumption
        <4>2. CASE i # Len(stack)
          <5>1. i \in 1 .. Len(stack) /\ stack'[i] = stack[i]
            BY <4>2, <3>2, <3>3, <3>4, <3>5
          <5>2. QED
            BY <5>1, <3>6 DEF MenuInv, FlagsConfined, TimeoutAsksNobody
        <4>3. QED
          BY <4>1, <4>2
      <3>7. stack' \in Seq(Frames) /\ stack' # <<>>
        BY <3>2, <3>4
      <3>8. TimeoutAsksNobody' /\ BreakLeavesDialogOnly'
        BY <2>1, <2>3, <3>6 DEF TimeoutAsksNobody, BreakLeavesDialogOnly
      <3>9. RunKnown' /\ TimerFresh'
        BY <1>2, <2>5, <3>7 DEF RunKnown, TimerFresh, IconPolls
      <3>10. offer' = offer
        BY <2>1
      <3>11. QED
        BY <1>1, <2>1, <3>7, <3>8, <3>9, StepShows DEF FlagsConfined
    <2>6. QED
      BY <1>9, <2>4, <2>5 DEF SecurityChange, Call
  <1>10. CASE Display(password)
    <2>1. /\ UNCHANGED <<icons, offer, sel, timedOut, breakOutOfMenu>> /\ run.do = "wait"
      BY <1>10 DEF Display, icon, hdd
    <2>2. ~breakOutOfMenu
      BY <2>1, <1>4
    <2>3. CASE stack' = Push(stack, Waiting("wait")) /\ run' = NoCall
      <3>1. Waiting("wait") \in Frames /\ Waiting("wait").m \notin DOMAIN Config
        <4>1. Waiting("wait") \in Frames /\ Waiting("wait").m = ""
          BY WaitingFrame
        <4>2. QED
          BY <4>1, MenuAssumption
      <3>2. QED
        BY <2>1, <2>2, <2>3, <3>1, Pushed
    <2>4. CASE stack' = stack /\ run' = Ret
      BY <1>1, <1>2, <1>3, <2>1, <2>2, <2>4, SameStack
    <2>5. QED
      BY <1>10, <2>3, <2>4 DEF Display, Call
  <1>11. QED
    BY <1>5, <1>6, <1>7, <1>8, <1>9, <1>10

-----------------------------------------------------------------------------
(* It holds before the menus are built.                                    *)
LEMMA MenuStart ==
    ASSUME MenuInit
    PROVE  MenuInv
  <1>1. /\ icons = <<>> /\ stack = <<>> /\ run = NoCall /\ offer = "none"
        /\ timed = 0 /\ keys = 0 /\ ~timedOut /\ ~breakOutOfMenu
    BY DEF MenuInit
  <1>2. icons \in Seq(IconItems) /\ stack \in Seq(Frames)
    BY <1>1, EmptySeq
  <1>3. RunKnown /\ TimerFresh /\ FlagsConfined
    BY <1>1 DEF RunKnown, NoCall, Item, TimerFresh, FlagsConfined,
                TimeoutAsksNobody, BreakLeavesDialogOnly
  <1>4. QED
    BY <1>1, <1>2, <1>3 DEF MenuInv, Shown

(* Every step of the menus preserves the invariant.                        *)
LEMMA MenuStep ==
    ASSUME MenuInv, [MenuNext]_menuVars
    PROVE  MenuInv'
  <1>1. ASSUME ~Shown, NEW mach \in Hardware, NEW tv \in DOMAIN TvNext,
               NEW wide \in BOOLEAN, IconMenuInit(mach, tv, wide)
        PROVE  MenuInv'
    <2>1. /\ icons' = Icons(mach) /\ sel' = Preselected(mach)
          /\ UNCHANGED <<stack, run, timedOut, breakOutOfMenu, ticks, timed, keys>>
          /\ offer' \in {"none", "lock", "unlock"}
      BY <1>1 DEF IconMenuInit, ui
    <2>2. icons' \in Seq(IconItems) /\ sel' \in 1 .. Len(icons')
      BY <2>1, IconsLemma
    <2>3. /\ stack' = <<>> /\ run' = NoCall /\ ~timedOut' /\ ~breakOutOfMenu'
      BY <1>1, <2>1 DEF MenuInv
    <2>4. stack' \in Seq(Frames')
      BY <2>3, EmptySeq
    <2>5. TimerFresh'
      BY <2>1 DEF MenuInv, TimerFresh, IconPolls
    <2>6. RunKnown' /\ FlagsConfined'
      BY <2>3 DEF RunKnown, NoCall, Item, FlagsConfined, TimeoutAsksNobody,
                  BreakLeavesDialogOnly
    <2>7. QED
      BY <2>1, <2>2, <2>3, <2>4, <2>5, <2>6 DEF MenuInv, IconItems
  <1>2. ASSUME Shown, NEW password \in BOOLEAN, SecurityChange(password) \/ Display(password)
        PROVE  MenuInv'
    BY <1>2, OtherSteps
  <1>3. CASE Shown /\ (IconMove \/ IconChosen \/ Timeout \/ IconResumes)
    BY <1>3, IconSteps
  <1>4. CASE Shown /\ (TextMove \/ TextChosen \/ TextNoItem \/ TextLeft \/ ButtonA \/ TextResumes)
    BY <1>4, TextSteps
  <1>5. CASE Shown /\ (OpenText \/ DrawBootMenu \/ Ask)
    BY <1>5, OpenSteps
  <1>6. CASE Shown /\ (PrepareBootFromCD \/ Leave \/ Answer \/ SetOption)
    BY <1>6, OtherSteps
  <1>7. CASE UNCHANGED menuVars
    <2>1. UNCHANGED <<icons, offer, stack, timedOut, sel, breakOutOfMenu, run, ticks, timed, keys>>
      BY <1>7 DEF menuVars, icon, ui, hdd
    <2>2. Frames' = Frames
      BY <2>1 DEF Frames, Menus, MenuItems, TextMenus, Cds, Item, Submenus
    <2>3. QED
      BY <2>1, <2>2 DEF MenuInv, Shown, IconItems, RunKnown, TimerFresh, IconPolls, Top,
            FlagsConfined, TimeoutAsksNobody, BreakLeavesDialogOnly
  <1>8. QED
    BY <1>1, <1>2, <1>3, <1>4, <1>5, <1>6, <1>7 DEF MenuNext, Plain, User, Gone, Idle

(* The invariant holds in every state of every behaviour.                  *)
LEMMA MenuInvariant == MenuSpec => []MenuInv
  <1>1. MenuInit => MenuInv
    BY MenuStart
  <1>2. MenuInv /\ [MenuNext]_menuVars => MenuInv'
    BY MenuStep
  <1>3. QED
    BY <1>1, <1>2, PTL DEF MenuSpec

(* For every configuration and any nesting of lists and dialogs: after a   *)
(* timeout DrawBootMenu() asks nobody, and the wish to leave a menu is     *)
(* taken by the dialog it was expressed in.                                *)
THEOREM FlagsAlwaysConfined == MenuSpec => []FlagsConfined
  <1>1. MenuInv => FlagsConfined
    BY DEF MenuInv
  <1>2. QED
    BY <1>1, MenuInvariant, PTL

(* The timeout of the icon menu selects at most once, and never after a    *)
(* key was pressed: a boot that fails and returns cannot be repeated.      *)
THEOREM TimeoutFiresOnce == MenuSpec => TimeoutOnlyOnce
  <1>1. MenuInv /\ [MenuNext]_menuVars => [timed' # timed => timed = 0 /\ keys = 0]_menuVars
    <2> SUFFICES ASSUME MenuInv, MenuNext, timed' # timed PROVE timed = 0 /\ keys = 0
      BY DEF menuVars, icon
    <2>1. Timeout
      BY DEF MenuNext, Plain, User, IconMenuInit, IconMove, IconMoves, IconChosen,
         IconResumes, IconResumesWith, TextMove, TextChosen, TextNoItem, TextLeft,
         ButtonA, TextResumes, TextResumesWith, OpenText, DrawBootMenu, Ask,
         PrepareBootFromCD, Leave, Answer, SetOption, Toggle, SecurityChange, Display,
         Gone, Idle, icon, menuVars
    <2>2. QED
      BY <2>1 DEF Timeout, TimeoutMarks, MenuInv, TimerFresh
  <1>2. QED
    BY <1>1, MenuInvariant, PTL DEF MenuSpec, TimeoutOnlyOnce

-----------------------------------------------------------------------------
(***************************************************************************)
(* The captions of the settings, for every content of the EEPROM, every    *)
(* machine and every sequence of keys.                                     *)
(*                                                                         *)
(* CaptionsTrue speaks of the moments at which the video menu or the menu  *)
(* of the peripherals is on the screen, and is not inductive: a setting is *)
(* changed through a caption, and computed from the copy and not from the  *)
(* chip.  CaptionsInv says at every moment that captions and settings are  *)
(* the same, that only a known setting is executed (RunKnown), that chip   *)
(* and copy agree from the moment the copy was made but for the checksums, *)
(* and that the settings are those of the chip once the menus are there.   *)
(***************************************************************************)
OptionValues == [tv : DOMAIN TvNext, wide : BOOLEAN, com : BOOLEAN, irq : BOOLEAN]

IsEeprom(e) ==
    /\ e = [chip |-> e.chip, shadow |-> e.shadow]
    /\ DOMAIN e.chip = Address /\ DOMAIN e.shadow = Address

Synced(e) == \A i \in Address : e.chip[i] = e.shadow[i] \/ InChecksum(i)
HoldsSettings(e, s) == s.tv = Standard(e.chip) /\ s.wide = Wide(e.chip)

CaptionsInv ==
    /\ set \in OptionValues /\ shown = set
    /\ IsEeprom(eeprom)
    /\ stage \in {"eeprom", "video", "backdrop", "menus", "menu"}
    /\ Shown <=> stage = "menu"
    /\ stage # "eeprom" => Synced(eeprom)
    /\ stage = "menu" => HoldsSettings(eeprom, set)

SettingsInv == MenuInv /\ CaptionsInv

-----------------------------------------------------------------------------
(* A checksum has four bytes, whatever it is computed from.                *)
LEMMA CrcLength ==
    ASSUME NEW s, NEW at, NEW len
    PROVE  Len(EepromCRC(s, at, len)) = 4
  <1> DEFINE data == Rotated(BytesOf(s, at, len))
             a == Subtracted(data, len, 0) \div 256
             b == Subtracted(data, len, 1) \div 256
             c == Subtracted(data, len, 2) \div 256
             d == Subtracted(data, len, 3) \div 256
  <1>1. EepromCRC(s, at, len) = <<a, b, c, d>>
    BY DEF EepromCRC, CrcOf
  <1> HIDE DEF a, b, c, d
  <1>2. QED
    BY <1>1

(* A checksum is written to the chip, where the checksums are.             *)
LEMMA SummedFacts ==
    ASSUME NEW e, IsEeprom(e), NEW f, f \in {SummedUser(e), SummedFactory(e)}
    PROVE  /\ IsEeprom(f) /\ f.shadow = e.shadow
           /\ \A i \in Address : InChecksum(i) \/ f.chip[i] = e.chip[i]
  <1>0. \E at \in {Checksum2, Checksum3} : \E crc :
           Len(crc) = 4 /\ f = [e EXCEPT !.chip = Written(e.chip, at, crc)]
    <2>1. CASE f = SummedUser(e)
      <3> DEFINE crc == EepromCRC(e.shadow, TimeZoneBias, 91)
      <3>1. Len(crc) = 4
        BY CrcLength
      <3>2. f = [e EXCEPT !.chip = Written(e.chip, Checksum3, crc)]
        BY <2>1 DEF SummedUser
      <3> HIDE DEF crc
      <3>3. QED
        BY <3>1, <3>2
    <2>2. CASE f = SummedFactory(e)
      <3> DEFINE crc == EepromCRC(e.shadow, SerialNumber, 40)
      <3>1. Len(crc) = 4
        BY CrcLength
      <3>2. f = [e EXCEPT !.chip = Written(e.chip, Checksum2, crc)]
        BY <2>2 DEF SummedFactory
      <3> HIDE DEF crc
      <3>3. QED
        BY <3>1, <3>2
    <2>3. QED
      BY <2>1, <2>2
  <1>a. PICK at \in {Checksum2, Checksum3} :
           \E crc : Len(crc) = 4 /\ f = [e EXCEPT !.chip = Written(e.chip, at, crc)]
    BY <1>0
  <1>1. PICK crc : Len(crc) = 4 /\ f = [e EXCEPT !.chip = Written(e.chip, at, crc)]
    BY <1>a
  <1> DEFINE c == Written(e.chip, at, crc)
  <1>2. at \in Int
    BY DEF Checksum2, Checksum3
  <1>3. /\ DOMAIN c = Address
        /\ \A i \in Address : c[i] = IF i \in at .. at + 3 THEN crc[i - at + 1] ELSE e.chip[i]
    BY <1>1, <1>2 DEF Written
  <1> HIDE DEF c
  <1>4. f = [chip |-> c, shadow |-> e.shadow]
    BY <1>1 DEF c, IsEeprom
  <1>5. \A i \in Address : InChecksum(i) \/ c[i] = e.chip[i]
    BY <1>1, <1>3 DEF InChecksum, Checksum2, Checksum3
  <1>6. QED
    BY <1>3, <1>4, <1>5 DEF IsEeprom

(* The standard is in four bytes of the chip, and each standard has its    *)
(* own.                                                                    *)
LEMMA SameStandard ==
    ASSUME NEW c, NEW d, \A j \in 88 .. 91 : c[j] = d[j]
    PROVE  Standard(c) = Standard(d)
  <1>1. \A i \in 1 .. 4 : c[VideoStandard + i - 1] = d[VideoStandard + i - 1]
    BY DEF VideoStandard
  <1>2. Standards(c) = Standards(d)
    BY <1>1 DEF Standards
  <1>3. QED
    BY <1>2 DEF Standard

LEMMA StandardKnown ==
    ASSUME NEW c
    PROVE  Standard(c) \in DOMAIN TvNext
  <1>1. Standards(c) \subseteq {"USA", "Japan", "PAL"}
    BY DEF Standards, StandardBytes
  <1>2. Standard(c) \in {"USA", "Japan", "PAL", "Unknown"}
    <2>1. CASE Standards(c) = {}
      BY <2>1 DEF Standard
    <2>2. CASE Standards(c) # {}
      <3>1. Standard(c) \in Standards(c)
        BY <2>2 DEF Standard
      <3>2. QED
        BY <1>1, <3>1
    <2>3. QED
      BY <2>1, <2>2
  <1>3. QED
    BY <1>2 DEF TvNext

LEMMA StandardHeld ==
    ASSUME NEW c, NEW s \in {"USA", "Japan", "PAL"},
           \A i \in 1 .. 4 : c[VideoStandard + i - 1] = StandardBytes[s][i]
    PROVE  Standard(c) = s
  <1>1. s \in Standards(c)
    BY DEF Standards, StandardBytes
  <1>2. ASSUME NEW t \in Standards(c) PROVE t = s
    <2>1. t \in {"USA", "Japan", "PAL"} /\ c[VideoStandard + 2 - 1] = StandardBytes[t][2]
      BY DEF Standards, StandardBytes
    <2>2. StandardBytes[t][2] = StandardBytes[s][2]
      BY <2>1
    <2>3. /\ StandardBytes["USA"][2] = 1 /\ StandardBytes["Japan"][2] = 2
          /\ StandardBytes["PAL"][2] = 3
      BY DEF StandardBytes
    <2>4. QED
      BY <2>1, <2>2, <2>3
  <1>3. Standards(c) = {s}
    BY <1>1, <1>2
  <1>4. QED
    BY <1>3 DEF Standard

(* EepromSetWidescreen(): chip and copy change alike, and nothing else     *)
(* than the flag and a checksum.                                           *)
LEMMA WidescreenSet ==
    ASSUME NEW e, IsEeprom(e), Synced(e), NEW enable \in BOOLEAN,
           NEW f, f = EepromSetWidescreen(e, enable)
    PROVE  /\ IsEeprom(f) /\ Synced(f)
           /\ Wide(f.chip) = enable /\ Standard(f.chip) = Standard(e.chip)
  <1> DEFINE b == IF enable THEN 1 ELSE 0
             bytes == <<b>>
             g == WithFlags(e, b)
             c == Written(e.chip, VideoFlags2, bytes)
             d == Written(e.shadow, VideoFlags2, bytes)
  <1>1. Len(bytes) = 1 /\ bytes[1] = b /\ b \in {0, 1} /\ (b % 2 = 1) = enable
    OBVIOUS
  <1>2. g = [chip |-> c, shadow |-> d]
    BY DEF WithFlags
  <1>3. f \in {SummedUser(g), SummedFactory(g)}
    BY DEF EepromSetWidescreen
  <1> HIDE DEF b, bytes, g
  <1>4. /\ DOMAIN c = Address /\ DOMAIN d = Address
        /\ \A i \in Address : c[i] = IF i = 150 THEN b ELSE e.chip[i]
        /\ \A i \in Address : d[i] = IF i = 150 THEN b ELSE e.shadow[i]
    BY <1>1 DEF VideoFlags2, Written
  <1> HIDE DEF c, d
  <1>5. IsEeprom(g)
    BY <1>2, <1>4 DEF IsEeprom
  <1>6. /\ IsEeprom(f) /\ f.shadow = d
        /\ \A i \in Address : InChecksum(i) \/ f.chip[i] = c[i]
    BY <1>2, <1>3, <1>5, SummedFacts
  <1>7. Synced(f)
    BY <1>4, <1>6 DEF Synced
  <1>8. Wide(f.chip) = enable
    <2>1. 150 \in Address /\ ~InChecksum(150)
      BY DEF Address, InChecksum, Checksum2, Checksum3
    <2>2. f.chip[150] = b
      BY <2>1, <1>4, <1>6
    <2>3. QED
      BY <2>2, <1>1 DEF Wide, VideoFlags2
  <1>9. Standard(f.chip) = Standard(e.chip)
    <2>1. ASSUME NEW j \in 88 .. 91 PROVE f.chip[j] = e.chip[j]
      <3>1. j \in Address /\ ~InChecksum(j) /\ j # 150
        BY DEF Address, InChecksum, Checksum2, Checksum3
      <3>2. f.chip[j] = c[j] /\ c[j] = e.chip[j]
        BY <3>1, <1>4, <1>6
      <3>3. QED
        BY <3>2
    <2>2. QED
      BY <2>1, SameStandard
  <1>10. QED
    BY <1>6, <1>7, <1>8, <1>9

(* EepromSetVideoStandard(): likewise the four bytes of the standard.      *)
LEMMA StandardSet ==
    ASSUME NEW e, IsEeprom(e), Synced(e), NEW s \in {"USA", "Japan", "PAL"},
           NEW f, f = EepromSetVideoStandard(e, s)
    PROVE  /\ IsEeprom(f) /\ Synced(f)
           /\ Standard(f.chip) = s /\ Wide(f.chip) = Wide(e.chip)
  <1> DEFINE bytes == StandardBytes[s]
             g == WithStandard(e, s)
             c == Written(e.chip, VideoStandard, bytes)
             d == Written(e.shadow, VideoStandard, bytes)
  <1>1. Len(bytes) = 4
    BY DEF StandardBytes
  <1>2. g = [chip |-> c, shadow |-> d]
    BY DEF WithStandard
  <1>3. f \in {SummedUser(g), SummedFactory(g)}
    BY DEF EepromSetVideoStandard
  <1> HIDE DEF bytes, g
  <1>4. /\ DOMAIN c = Address /\ DOMAIN d = Address
        /\ \A i \in Address : c[i] = IF i \in 88 .. 91 THEN bytes[i - 88 + 1] ELSE e.chip[i]
        /\ \A i \in Address : d[i] = IF i \in 88 .. 91 THEN bytes[i - 88 + 1] ELSE e.shadow[i]
    BY <1>1 DEF VideoStandard, Written
  <1> HIDE DEF c, d
  <1>5. IsEeprom(g)
    BY <1>2, <1>4 DEF IsEeprom
  <1>6. /\ IsEeprom(f) /\ f.shadow = d
        /\ \A i \in Address : InChecksum(i) \/ f.chip[i] = c[i]
    BY <1>2, <1>3, <1>5, SummedFacts
  <1>7. Synced(f)
    BY <1>4, <1>6 DEF Synced
  <1>8. Standard(f.chip) = s
    <2>1. \A i \in 1 .. 4 : f.chip[88 + i - 1] = bytes[i]
      <3> SUFFICES ASSUME NEW i \in 1 .. 4 PROVE f.chip[88 + i - 1] = bytes[i]
        OBVIOUS
      <3> DEFINE j == 88 + i - 1
      <3>1. j \in 88 .. 91 /\ j - 88 + 1 = i /\ j \in Address /\ ~InChecksum(j)
        BY DEF Address, InChecksum, Checksum2, Checksum3
      <3> HIDE DEF j
      <3>2. f.chip[j] = bytes[i]
        BY <3>1, <1>4, <1>6
      <3>3. QED
        BY <3>2 DEF j
    <2>2. QED
      BY <2>1, StandardHeld DEF bytes, VideoStandard
  <1>9. Wide(f.chip) = Wide(e.chip)
    <2>1. 150 \in Address /\ ~InChecksum(150)
      BY DEF Address, InChecksum, Checksum2, Checksum3
    <2>2. f.chip[150] = e.chip[150]
      BY <2>1, <1>4, <1>6
    <2>3. QED
      BY <2>2 DEF Wide, VideoFlags2
  <1>10. QED
    BY <1>6, <1>7, <1>8, <1>9

(* The functions of the settings keep captions and settings together, and  *)
(* change no other setting of the television than the one they are for.    *)
LEMMA OptionSet ==
    ASSUME set \in OptionValues, shown = set, run.arg \in Options, SetOption
    PROVE  /\ set' \in OptionValues /\ shown' = set'
           /\ run.arg = "wide" \/ set'.wide = set.wide
           /\ run.arg = "tv" \/ set'.tv = set.tv
           /\ run.arg = "tv" => set'.tv \in {"USA", "Japan", "PAL"}
  <1> USE DEF SetOption, Toggle, OptionValues
  <1>1. CASE run.arg = "wide"
    <2>1. shown' = [set EXCEPT !.wide = ~@] /\ set' = [set EXCEPT !.wide = ~set.wide]
      BY <1>1
    <2>2. QED
      BY <2>1, <1>1
  <1>2. CASE run.arg = "tv"
    <2>1. shown' = [set EXCEPT !.tv = TvNext[@]] /\ set' = [set EXCEPT !.tv = TvNext[set.tv]]
      BY <1>2
    <2>2. TvNext[set.tv] \in {"USA", "Japan", "PAL"} /\ TvNext[set.tv] \in DOMAIN TvNext
      BY DEF TvNext
    <2>3. QED
      BY <2>1, <2>2, <1>2
  <1>3. CASE run.arg = "com"
    <2>1. shown' = [set EXCEPT !.com = ~set.com] /\ set' = [set EXCEPT !.com = ~@]
      BY <1>3
    <2>2. QED
      BY <2>1, <1>3
  <1>4. CASE run.arg = "irq"
    <2>1. shown' = [set EXCEPT !.irq = ~set.irq] /\ set' = [set EXCEPT !.irq = ~@, !.com = set.com]
      BY <1>4
    <2>2. QED
      BY <2>1, <1>4
  <1>5. QED
    BY <1>1, <1>2, <1>3, <1>4 DEF Options

-----------------------------------------------------------------------------
(* Every step is a step of the menus, or leaves them alone.                *)
LEMMA SettingsStepIsMenuStep ==
    ASSUME SettingsInv, [SettingsNext]_settingsVars
    PROVE  [MenuNext]_menuVars
  <1>1. ASSUME NEW mach \in Hardware, StartMenusOn(mach) PROVE MenuNext
    <2>1. ~Shown
      BY <1>1 DEF StartMenusOn, SettingsInv, CaptionsInv
    <2>2. IconMenuInit(mach, Standard(eeprom.shadow), Wide(eeprom.shadow))
      BY <1>1 DEF StartMenusOn
    <2>3. Standard(eeprom.shadow) \in DOMAIN TvNext
      BY StandardKnown
    <2>4. Wide(eeprom.shadow) \in BOOLEAN
      BY DEF Wide
    <2>5. QED
      BY <2>1, <2>2, <2>3, <2>4 DEF MenuNext
  <1>2. ASSUME stage = "menu" PROVE Shown
    BY <1>2 DEF SettingsInv, CaptionsInv
  <1>3. CASE SettingsNext
    BY <1>1, <1>2, <1>3 DEF SettingsNext, CopyEeprom, Goes, StoreOption, MenuNext
  <1>4. CASE UNCHANGED settingsVars
    BY <1>4 DEF settingsVars
  <1>5. QED
    BY <1>3, <1>4

(* The copy is made, and nothing shown yet.                                *)
LEMMA StartupSteps ==
    ASSUME SettingsInv,
           CopyEeprom \/ Goes("video", "backdrop") \/ Goes("backdrop", "menus")
    PROVE  CaptionsInv'
  <1>1. UNCHANGED menuVars
    BY DEF CopyEeprom, Goes
  <1>2. UNCHANGED <<set, shown, icons>>
    BY <1>1 DEF menuVars, vid, icon
  <1>3. CASE CopyEeprom
    <2> DEFINE copy == BootEepromReadEntireEEPROM(eeprom.chip)
    <2>1. eeprom' = [chip |-> eeprom.chip, shadow |-> copy]
      BY <1>3 DEF CopyEeprom, SettingsInv, CaptionsInv, IsEeprom
    <2>2. DOMAIN copy = Address /\ \A i \in Address : copy[i] = eeprom.chip[i]
      BY DEF BootEepromReadEntireEEPROM
    <2> HIDE DEF copy
    <2>3. IsEeprom(eeprom)' /\ Synced(eeprom)'
      BY <2>1, <2>2 DEF IsEeprom, Synced, SettingsInv, CaptionsInv
    <2>4. stage = "eeprom" /\ stage' = "video"
      BY <1>3 DEF CopyEeprom
    <2>5. QED
      BY <1>2, <2>3, <2>4 DEF SettingsInv, CaptionsInv, Shown, OptionValues
  <1>4. CASE Goes("video", "backdrop") \/ Goes("backdrop", "menus")
    <2>1. /\ stage \in {"video", "backdrop"} /\ stage' \in {"backdrop", "menus"}
          /\ eeprom' = eeprom
      BY <1>4 DEF Goes
    <2>2. QED
      BY <1>2, <2>1 DEF SettingsInv, CaptionsInv, Shown, OptionValues, Synced, IsEeprom
  <1>5. QED
    BY <1>3, <1>4

(* The captions are taken from the copy, which agrees with the chip where  *)
(* the settings are.                                                       *)
LEMMA MenusStart ==
    ASSUME SettingsInv, NEW mach \in Hardware, StartMenusOn(mach)
    PROVE  CaptionsInv'
  <1> DEFINE tv == Standard(eeprom.shadow)
             wide == Wide(eeprom.shadow)
  <1>1. /\ stage = "menus" /\ stage' = "menu" /\ eeprom' = eeprom
        /\ icons' = Icons(mach) /\ shown' = set'
        /\ set' = [set EXCEPT !.tv = tv, !.wide = wide]
    BY DEF StartMenusOn, IconMenuInit
  <1>2. tv \in DOMAIN TvNext /\ wide \in BOOLEAN
    BY StandardKnown DEF Wide
  <1>3. Synced(eeprom) /\ IsEeprom(eeprom) /\ set \in OptionValues
    BY <1>1 DEF SettingsInv, CaptionsInv
  <1>4. tv = Standard(eeprom.chip)
    <2>1. \A j \in 88 .. 91 : eeprom.shadow[j] = eeprom.chip[j]
      BY <1>3 DEF Synced, Address, InChecksum, Checksum2, Checksum3
    <2>2. QED
      BY <2>1, SameStandard
  <1>5. wide = Wide(eeprom.chip)
    <2>1. 150 \in Address /\ ~InChecksum(150)
      BY DEF Address, InChecksum, Checksum2, Checksum3
    <2>2. eeprom.shadow[150] = eeprom.chip[150]
      BY <2>1, <1>3 DEF Synced
    <2>3. QED
      BY <2>2 DEF Wide, VideoFlags2
  <1> HIDE DEF tv, wide
  <1>6. set' \in OptionValues /\ set'.tv = tv /\ set'.wide = wide
    BY <1>1, <1>2, <1>3 DEF OptionValues
  <1>7. Icons(mach) # <<>>
    <2>1. Icons(mach) \in Seq(IconItems) /\ Preselected(mach) \in 1 .. Len(Icons(mach))
      BY IconsLemma
    <2>2. QED
      BY <2>1
  <1>8. QED
    BY <1>1, <1>3, <1>4, <1>5, <1>6, <1>7 DEF CaptionsInv, Shown, HoldsSettings, Synced, IsEeprom,
                                             OptionValues

(* A setting is stored.                                                    *)
LEMMA OptionStored ==
    ASSUME SettingsInv, stage = "menu", StoreOption
    PROVE  CaptionsInv'
  <1>1. /\ set \in OptionValues /\ shown = set /\ IsEeprom(eeprom) /\ Synced(eeprom)
        /\ HoldsSettings(eeprom, set) /\ Shown
    BY DEF SettingsInv, CaptionsInv
  <1>2. run.arg \in Options /\ SetOption /\ stage' = stage
    BY DEF StoreOption, SetOption, Toggle, SettingsInv, MenuInv, RunKnown
  <1>3. /\ set' \in OptionValues /\ shown' = set'
        /\ run.arg = "wide" \/ set'.wide = set.wide
        /\ run.arg = "tv" \/ set'.tv = set.tv
        /\ run.arg = "tv" => set'.tv \in {"USA", "Japan", "PAL"}
    BY <1>1, <1>2, OptionSet
  <1>4. Shown'
    BY <1>1, <1>2 DEF SetOption, Toggle, icon, Shown
  <1>5. IsEeprom(eeprom') /\ Synced(eeprom') /\ HoldsSettings(eeprom', set')
    <2>1. CASE run.arg = "wide"
      <3>1. eeprom' = EepromSetWidescreen(eeprom, set'.wide) /\ set'.wide \in BOOLEAN
        BY <2>1, <1>3 DEF StoreOption, OptionValues
      <3>2. /\ IsEeprom(eeprom') /\ Synced(eeprom') /\ Wide(eeprom'.chip) = set'.wide
            /\ Standard(eeprom'.chip) = Standard(eeprom.chip)
        BY <3>1, <1>1, WidescreenSet
      <3>3. QED
        BY <3>2, <2>1, <1>1, <1>3 DEF HoldsSettings
    <2>2. CASE run.arg = "tv"
      <3>1. eeprom' = EepromSetVideoStandard(eeprom, set'.tv)
        BY <2>2 DEF StoreOption
      <3>2. /\ IsEeprom(eeprom') /\ Synced(eeprom') /\ Standard(eeprom'.chip) = set'.tv
            /\ Wide(eeprom'.chip) = Wide(eeprom.chip)
        BY <3>1, <2>2, <1>1, <1>3, StandardSet
      <3>3. QED
        BY <3>2, <2>2, <1>1, <1>3 DEF HoldsSettings
    <2>3. CASE run.arg \notin {"wide", "tv"}
      <3>1. eeprom' = eeprom
        BY <2>3 DEF StoreOption
      <3>2. QED
        BY <3>1, <2>3, <1>1, <1>3 DEF HoldsSettings
    <2>4. QED
      BY <2>1, <2>2, <2>3
  <1>6. QED
    BY <1>2, <1>3, <1>4, <1>5 DEF CaptionsInv, IsEeprom, Synced, HoldsSettings, OptionValues

(* The other steps of the menus have nothing to do with the settings.      *)
LEMMA OtherMenuSteps ==
    ASSUME SettingsInv, UNCHANGED <<stage, eeprom>>, NEW password \in BOOLEAN,
           \/ Plain \/ Timeout \/ User \/ Gone \/ Idle
           \/ SecurityChange(password) \/ Display(password)
    PROVE  CaptionsInv'
  <1>1. UNCHANGED <<icons, set, shown>>
    BY DEF Plain, User, IconMove, IconMoves, IconChosen, IconResumes, IconResumesWith,
       TextMove, TextChosen, TextNoItem, TextLeft, ButtonA, TextResumes, TextResumesWith,
       OpenText, DrawBootMenu, Ask, Answer, PrepareBootFromCD, Leave, Timeout, TimeoutMarks,
       SecurityChange, Display, Gone, Idle, icon, vid, menuVars
  <1>2. QED
    BY <1>1 DEF SettingsInv, CaptionsInv, Shown, OptionValues, IsEeprom, Synced, HoldsSettings

LEMMA CaptionsInvariant == SettingsSpec => []SettingsInv
  <1>1. (\E content \in [Address -> 0 .. 255] : SettingsInit(content)) => SettingsInv
    <2> SUFFICES ASSUME NEW content \in [Address -> 0 .. 255], SettingsInit(content)
                 PROVE  SettingsInv
      OBVIOUS
    <2>1. MenuInit /\ stage = "eeprom"
      BY DEF SettingsInit
    <2>2. MenuInv
      BY <2>1, MenuStart
    <2>3. set \in OptionValues /\ shown = set /\ icons = <<>>
      BY <2>1 DEF MenuInit, OptionValues, TvNext
    <2>4. IsEeprom(eeprom)
      BY DEF SettingsInit, IsEeprom
    <2>5. QED
      BY <2>1, <2>2, <2>3, <2>4 DEF SettingsInv, CaptionsInv, Shown
  <1>2. SettingsInv /\ [SettingsNext]_settingsVars => SettingsInv'
    <2> SUFFICES ASSUME SettingsInv, [SettingsNext]_settingsVars PROVE SettingsInv'
      OBVIOUS
    <2>1. MenuInv'
      BY SettingsStepIsMenuStep, MenuStep DEF SettingsInv
    <2>2. CaptionsInv'
      <3>1. CASE CopyEeprom \/ Goes("video", "backdrop") \/ Goes("backdrop", "menus")
        BY <3>1, StartupSteps
      <3>2. CASE \E mach \in Hardware : StartMenusOn(mach)
        BY <3>2, MenusStart
      <3>3. CASE stage = "menu" /\ StoreOption
        BY <3>3, OptionStored
      <3>4. CASE /\ stage = "menu" /\ UNCHANGED <<stage, eeprom>>
                 /\ \/ Plain \/ Timeout \/ User \/ Gone \/ Idle
                    \/ \E password \in BOOLEAN : SecurityChange(password) \/ Display(password)
        BY <3>4, OtherMenuSteps
      <3>5. CASE UNCHANGED settingsVars
        <4>1. UNCHANGED <<icons, set, shown, stage, eeprom>>
          BY <3>5 DEF settingsVars, menuVars, icon, vid
        <4>2. QED
          BY <4>1 DEF SettingsInv, CaptionsInv, Shown, OptionValues, IsEeprom, Synced,
                      HoldsSettings
      <3>6. QED
        BY <3>1, <3>2, <3>3, <3>4, <3>5 DEF SettingsNext
    <2>3. QED
      BY <2>1, <2>2 DEF SettingsInv
  <1>3. QED
    BY <1>1, <1>2, PTL DEF SettingsSpec

(* The menus with the EEPROM behind them are the menus: what is proved of  *)
(* MenuSpec, which lets IconMenuInit() read any settings, holds with those *)
(* that were read.                                                         *)
THEOREM SettingsKeepMenus == SettingsSpec => MenuSpec
  <1>1. (\E content \in [Address -> 0 .. 255] : SettingsInit(content)) => MenuInit
    BY DEF SettingsInit
  <1>2. SettingsInv /\ [SettingsNext]_settingsVars => [MenuNext]_menuVars
    BY SettingsStepIsMenuStep
  <1>3. QED
    BY <1>1, <1>2, CaptionsInvariant, PTL DEF SettingsSpec, MenuSpec

(* Whatever the EEPROM held, however often the settings are changed and in *)
(* whatever order: what VideoMenuInit() wrote, and SetWidescreen() and     *)
(* SetVideoStandard() rewrote, is what the chip holds, and the copy that   *)
(* the next checksum is computed from is the chip's content.               *)
THEOREM CaptionsAlwaysTrue == SettingsSpec => []CaptionsTrue
  <1>1. SettingsInv => CaptionsTrue
    BY DEF SettingsInv, CaptionsInv, CaptionsTrue, HoldsSettings, Synced
  <1>2. QED
    BY <1>1, CaptionsInvariant, PTL

-----------------------------------------------------------------------------
(***************************************************************************)
(* The SMC handler tells the truth about the tray, for every number of     *)
(* detection attempts, of user actions and of failed reason queries.       *)
(*                                                                         *)
(* TrayStateTrue speaks of states without a pending reason only, and is    *)
(* not inductive.  TrayInv adds what holds while reasons are pending: the  *)
(* report of the tray's last movement is among them (LastReported), and a  *)
(* tray that comes back in after it was reported opening is reported       *)
(* closing too (BackReported), so that the handler, which goes through the *)
(* reports in the order of their bits, ends with a false one only where    *)
(* closing is among several.                                               *)
(***************************************************************************)
TrayReports == {"closed", "opening", "closing"}

TypeOK ==
    /\ tray \in {"open", "closing", "closed", "opening"}
    /\ reasons \subseteq Reasons
    /\ DVD_TRAY_STATE \in {"OPENING", "CLOSING", "CLOSED"}
    /\ told \in {"nothing", "one", "several", "failed"}

(* The report that goes with a place of the tray.                          *)
ReportOf(t) == IF t = "closing" THEN "closing"
               ELSE IF t = "closed" THEN "closed" ELSE "opening"

LastReported == reasons \cap TrayReports # {} => ReportOf(tray) \in reasons

BackReported == "opening" \in reasons /\ tray \in {"closing", "closed"} => "closing" \in reasons

StateTrue ==
    reasons \cap TrayReports = {} =>
        \/ DVD_TRAY_STATE = TrayShown
        \/ DVD_TRAY_STATE = "CLOSED"  /\ told \in {"nothing", "failed"}
        \/ DVD_TRAY_STATE = "CLOSING" /\ told = "several"

TrayInv == TypeOK /\ LastReported /\ BackReported /\ StateTrue

-----------------------------------------------------------------------------
LEMMA InitEstablishes == Init => TrayInv
  <1> SUFFICES ASSUME Init PROVE TrayInv
    OBVIOUS
  <1>1. TypeOK
    BY DEF Init, TypeOK, Reasons
  <1>2. LastReported /\ BackReported /\ StateTrue
    BY DEF Init, LastReported, BackReported, StateTrue, TrayShown, TrayReports
  <1>3. QED
    BY <1>1, <1>2 DEF TrayInv

(* DVDTrayEject() and DVDTrayClose(), which the program calls, and the user *)
(* who pushes the tray: the movement and its report come together.         *)
LEMMA CommandKeeps ==
    ASSUME TrayInv, UNCHANGED smc,
           \/ UNCHANGED <<tray, reasons>>
           \/ TrayCommand("opening", "opening")
           \/ TrayCommand("closing", "closing")
    PROVE  TrayInv'
  BY DEF TrayInv, TypeOK, LastReported, BackReported, StateTrue, TrayShown, TrayReports, Reasons,
         ReportOf, TrayCommand, smc

LEMMA EjectMoves == DVDTrayEject => \/ UNCHANGED <<tray, reasons>>
                                    \/ TrayCommand("opening", "opening")
  BY DEF DVDTrayEject

LEMMA CloseMoves == DVDTrayClose => \/ UNCHANGED <<tray, reasons>>
                                    \/ TrayCommand("closing", "closing")
  BY DEF DVDTrayClose

(* The handler.  Without a tray report that it keeps, DVD_TRAY_STATE stays  *)
(* and so does the tray, or the button has sent the tray out and a report  *)
(* is pending; with one, the highest bit decides.                          *)
LEMMA HandlerKeeps ==
    ASSUME TrayInv, IntHandlerCSmc
    PROVE  TrayInv'
  <1> DEFINE T == reasons \cap TrayReports
             of == Kept(reasons) \cap {"closed", "opening", "closing"}
  <1>1. /\ reasons \subseteq Reasons /\ tray' \in {tray, "opening"}
        /\ reasons' \subseteq {"opening"}
        /\ \/ reasons' = {} /\ tray' = tray /\ ~("button" \in reasons /\ Opens(tray))
           \/ "button" \in reasons /\ reasons' = {"opening"} /\ tray' = "opening"
        /\ DVD_TRAY_STATE' = Reported(Kept(reasons))
        /\ told' = Told(reasons)
    BY DEF TrayInv, TypeOK, IntHandlerCSmc, Handle, TrayStateAfter
  <1>2. /\ DVD_TRAY_STATE' \in {"OPENING", "CLOSING", "CLOSED"}
        /\ told' \in {"nothing", "one", "several", "failed"}
    BY <1>1 DEF TrayInv, TypeOK, Reported, Told
  <1>3. TypeOK'
    BY <1>1, <1>2 DEF TrayInv, TypeOK, Reasons
  <1>4. LastReported' /\ BackReported'
    BY <1>1 DEF LastReported, BackReported, TrayReports, ReportOf
  <1>5. ASSUME reasons' \cap TrayReports = {}
        PROVE  StateTrue'
    <2>1. reasons' = {} /\ tray' = tray /\ ~("button" \in reasons /\ Opens(tray))
      BY <1>1, <1>5 DEF TrayReports
    <2>2. TrayShown' = TrayShown
      BY <2>1 DEF TrayShown
    <2>3. CASE T = {}
      <3>1. of = {}
        BY <2>3 DEF Kept, TrayReports
      <3>2. DVD_TRAY_STATE' = DVD_TRAY_STATE /\ told' = told
        BY <1>1, <3>1 DEF Reported, Told
      <3>3. QED
        BY <2>2, <2>3, <3>2 DEF TrayInv, StateTrue
    <2>4. CASE T # {}
      <3>1. ReportOf(tray) \in reasons
        BY <2>4 DEF TrayInv, LastReported
      <3>2. CASE "button" \in reasons
        <4>1. tray \in {"open", "opening"} /\ "opening" \in reasons
          BY <2>1, <3>1, <3>2 DEF TrayInv, TypeOK, Opens, ReportOf
        <4>2. DVD_TRAY_STATE' = "OPENING"
          BY <1>1, <3>2, <4>1 DEF Kept, Reported
        <4>3. QED
          BY <2>2, <4>1, <4>2 DEF StateTrue, TrayShown
      <3>3. CASE "button" \notin reasons
        <4>1. Kept(reasons) = reasons /\ of = T
          BY <3>3 DEF Kept, TrayReports
        <4>2. CASE "closing" \in reasons
          <5>1. DVD_TRAY_STATE' = "CLOSING"
            BY <1>1, <4>1, <4>2 DEF Reported
          <5>2. CASE of = {"closing"}
            BY <2>2, <3>1, <4>1, <5>1, <5>2
               DEF StateTrue, TrayShown, ReportOf, TrayInv, TypeOK, TrayReports
          <5>3. CASE of # {"closing"}
            <6>1. told' = "several"
              BY <1>1, <4>1, <4>2, <5>3 DEF Told, TrayReports
            <6>2. QED
              BY <5>1, <6>1 DEF StateTrue
          <5>4. QED
            BY <5>2, <5>3
        <4>3. CASE "closing" \notin reasons /\ "opening" \in reasons
          <5>1. DVD_TRAY_STATE' = "OPENING" /\ tray \in {"open", "opening"}
            BY <1>1, <4>1, <4>3 DEF Reported, TrayInv, TypeOK, BackReported
          <5>2. QED
            BY <2>2, <5>1 DEF StateTrue, TrayShown
        <4>4. CASE "closing" \notin reasons /\ "opening" \notin reasons
          <5>1. tray = "closed" /\ "closed" \in reasons
            BY <3>1, <4>4 DEF ReportOf, TrayInv, TypeOK
          <5>2. DVD_TRAY_STATE' = "CLOSED"
            BY <1>1, <4>1, <4>4, <5>1 DEF Reported
          <5>3. QED
            BY <2>2, <5>1, <5>2 DEF StateTrue, TrayShown
        <4>5. QED
          BY <4>2, <4>3, <4>4
      <3>4. QED
        BY <3>2, <3>3
    <2>5. QED
      BY <2>3, <2>4
  <1>6. StateTrue'
    BY <1>5 DEF StateTrue
  <1>7. QED
    BY <1>3, <1>4, <1>6 DEF TrayInv

LEMMA StepKeeps == TrayInv /\ [Next]_vars => TrayInv'
  <1> SUFFICES ASSUME TrayInv, [Next]_vars PROVE TrayInv'
    OBVIOUS
  <1> USE DEF hw, smc, main
  <1>1. CASE TrayArrives
    BY <1>1 DEF TrayArrives, TrayInv, TypeOK, LastReported, BackReported, StateTrue, TrayShown,
                TrayReports, Reasons, ReportOf
  <1>2. CASE UserActs
    <2>1. UNCHANGED smc
      BY <1>2 DEF UserActs
    <2>2. CASE TrayCommand("closing", "closing")
      BY <2>1, <2>2, CommandKeeps
    <2>3. CASE UNCHANGED <<tray, reasons>>
      BY <2>1, <2>3, CommandKeeps
    <2>4. ASSUME NEW r \in {"button", "avplug", "avunplug", "powerdown"},
                 reasons' = reasons \cup {r}, UNCHANGED tray
          PROVE  TrayInv'
      BY <2>1, <2>4 DEF TrayInv, TypeOK, LastReported, BackReported, StateTrue, TrayShown,
                        TrayReports, Reasons, ReportOf
    <2>5. QED
      BY <1>2, <2>2, <2>3, <2>4 DEF UserActs
  <1>3. CASE UserReleases
    BY <1>3, CommandKeeps DEF UserReleases
  <1>4. CASE IntHandlerCSmc
    BY <1>4, HandlerKeeps
  <1>5. CASE SmcBusError
    BY <1>5 DEF SmcBusError, Handle, TrayInv, TypeOK, LastReported, BackReported, StateTrue,
                TrayStateAfter, Kept, Reported
  <1>6. CASE Close
    BY <1>6, CloseMoves, CommandKeeps DEF Close
  <1>7. CASE Detect
    BY <1>7, CommandKeeps DEF Detect, DetectUpTo
  <1>8. CASE Eject
    BY <1>8, EjectMoves, CommandKeeps DEF Eject
  <1>9. CASE Probe
    BY <1>9, CommandKeeps DEF Probe
  <1>10. CASE ButtonPressed
    BY <1>10, CloseMoves, CommandKeeps DEF ButtonPressed
  <1>11. CASE SeenClosing
    BY <1>11, CommandKeeps DEF SeenClosing
  <1>12. CASE SeenSystem
    BY <1>12, CommandKeeps DEF SeenSystem
  <1>13. CASE ButtonB
    BY <1>13, CloseMoves, CommandKeeps DEF ButtonB
  <1>14. CASE LookAgain
    BY <1>14, CommandKeeps DEF LookAgain, LookAgainTo
  <1>15. CASE UNCHANGED vars
    BY <1>15, CommandKeeps DEF vars
  <1>16. QED
    BY <1>1, <1>2, <1>3, <1>4, <1>5, <1>6, <1>7, <1>8, <1>9, <1>10, <1>11, <1>12, <1>13, <1>14,
       <1>15 DEF Next, DetectSystemCD, Returned

(* DVD_TRAY_STATE, from which DetectSystemCD() learns that somebody pushed *)
(* the tray in, agrees with the tray whenever no report is pending,        *)
(* however the reports were merged; it is wrong only in the three ways     *)
(* TrayStateTrue names.                                                    *)
THEOREM TrayStateAlwaysTrue == Spec => []TrayStateTrue
  <1>1. TrayInv => TrayStateTrue
    BY DEF TrayInv, StateTrue, TrayStateTrue
  <1>2. QED
    BY InitEstablishes, StepKeeps, <1>1, PTL DEF Spec

(* A report of the tray is never lost: as long as any is pending, the one  *)
(* of the tray's last movement is.                                         *)
THEOREM LastMovementReported == Spec => []LastReported
  <1>1. TrayInv => LastReported
    BY DEF TrayInv
  <1>2. QED
    BY InitEstablishes, StepKeeps, <1>1, PTL DEF Spec

-----------------------------------------------------------------------------
(***************************************************************************)
(* No press is taken twice, however the callbacks of the input drivers and *)
(* the polls of the menus interleave.                                      *)
(*                                                                         *)
(* PressTakenOnce only counts what was returned.  PressInv adds where the  *)
(* presses that were not returned yet are: each device has places in which *)
(* a press can still be found by a poll (the key it reported and the match *)
(* that will clear it, a key that waits behind the first one, a key held   *)
(* whose first packet has not come, a rising edge seen or to be reported), *)
(* and every occupied place of a button is a press of that button, or one  *)
(* of the reports that look like another press.                            *)
(***************************************************************************)
OneIf(occupied) == IF occupied THEN 1 ELSE 0

KbdHolds(b) == current_keyboard_key = b \/ At("kbd", b)
WaitsBehind(b) == \E i \in 2 .. Len(down) : down[i] = b
KbdOwes(b) == OneIf(KbdHolds(b)) + OneIf(WaitsBehind(b))

PollIs(dev) == \E b \in Buttons : At(dev, b)
Findable(b) ==
    /\ current_remote_key = b
    /\ \/ PollIs("cleared")
       \/ ~PollIs("remote") /\ (~remotekeyIsRepeat \/ At("flag", b))
InHand(b) == At("remote", b) \/ At("cleared", b)
PacketToCome(b) == rheld = b /\ ~sent
RemoteOwes(b) == OneIf(InHand(b)) + OneIf(Findable(b)) + OneIf(PacketToCome(b))

Unreported(b) == {p \in Pads : b \in held[p] /\ b \notin reported[p]}
PadOwes(b) == OneIf(Rising(b)) + Cardinality(Unreported(b))

Matched == match = NoMatch \/ \E dev \in {"kbd", "flag", "remote", "cleared"} : PollIs(dev)

PressTypes ==
    /\ held \in [Pads -> SUBSET Buttons] /\ reported \in [Pads -> SUBSET Buttons]
    /\ down \in Seq(Buttons) /\ \A i, j \in 1 .. Len(down) : down[i] = down[j] => i = j
    /\ rheld \in Buttons \cup {None} /\ sent \in BOOLEAN /\ remotekeyIsRepeat \in BOOLEAN
    /\ Matched
    /\ owed \in [Buttons -> Int]

PressInv ==
    /\ PressTypes
    /\ \A b \in Buttons : owed[b] >= KbdOwes(b) + RemoteOwes(b) + PadOwes(b)

-----------------------------------------------------------------------------
(* What a device owes is fixed by what its driver and the poll have written. *)
LEMMA KbdOwesAlike ==
    ASSUME UNCHANGED <<current_keyboard_key, down, match>>, NEW b \in Buttons
    PROVE  KbdOwes(b)' = KbdOwes(b)
  BY DEF KbdOwes, KbdHolds, WaitsBehind, At

LEMMA RemoteOwesAlike ==
    ASSUME UNCHANGED <<current_remote_key, remotekeyIsRepeat, rheld, sent, match>>,
           NEW b \in Buttons
    PROVE  RemoteOwes(b)' = RemoteOwes(b)
  BY DEF RemoteOwes, InHand, Findable, PollIs, At, PacketToCome

LEMMA PadOwesAlike ==
    ASSUME UNCHANGED padVars, NEW b \in Buttons
    PROVE  PadOwes(b)' = PadOwes(b)
  BY DEF PadOwes, Rising, Unreported, padVars

LEMMA UnreportedFinite ==
    ASSUME NEW b \in Buttons
    PROVE  /\ IsFiniteSet(Unreported(b)) /\ Cardinality(Unreported(b)) \in Nat
           /\ IsFiniteSet(Unreported(b)') /\ Cardinality(Unreported(b)') \in Nat
  <1>1. Unreported(b) \in SUBSET Pads /\ Unreported(b)' \in SUBSET Pads /\ IsFiniteSet(Pads)
    BY InputAssumption DEF Unreported
  <1>2. IsFiniteSet(Unreported(b)) /\ IsFiniteSet(Unreported(b)')
    BY <1>1, FS_Subset
  <1>3. QED
    BY <1>2, FS_CardinalityType

LEMMA OwesTypes ==
    ASSUME NEW b \in Buttons
    PROVE  /\ KbdOwes(b) \in 0 .. 2 /\ RemoteOwes(b) \in 0 .. 3 /\ PadOwes(b) \in Nat
           /\ KbdOwes(b)' \in 0 .. 2 /\ RemoteOwes(b)' \in 0 .. 3 /\ PadOwes(b)' \in Nat
  <1>1. KbdOwes(b) \in 0 .. 2 /\ RemoteOwes(b) \in 0 .. 3
    BY DEF KbdOwes, RemoteOwes, OneIf
  <1>2. KbdOwes(b)' \in 0 .. 2 /\ RemoteOwes(b)' \in 0 .. 3
    BY DEF KbdOwes, RemoteOwes, OneIf
  <1>3. PadOwes(b) \in Nat /\ PadOwes(b)' \in Nat
    BY UnreportedFinite DEF PadOwes, OneIf
  <1>4. QED
    BY <1>1, <1>2, <1>3

(* A controller that has one place more or less.                           *)
LEMMA OneMoreUnreported ==
    ASSUME NEW b \in Buttons, NEW p \in Pads,
           Unreported(b)' \in SUBSET (Unreported(b) \cup {p})
    PROVE  Cardinality(Unreported(b)') <= Cardinality(Unreported(b)) + 1
  <1> USE UnreportedFinite
  <1>1. /\ IsFiniteSet(Unreported(b) \cup {p})
        /\ Cardinality(Unreported(b) \cup {p}) =
             IF p \in Unreported(b) THEN Cardinality(Unreported(b)) ELSE Cardinality(Unreported(b)) + 1
    BY FS_AddElement
  <1>2. Cardinality(Unreported(b)') <= Cardinality(Unreported(b) \cup {p})
    BY <1>1, FS_Subset
  <1>3. Cardinality(Unreported(b) \cup {p}) \in Nat
    BY <1>1, FS_CardinalityType
  <1>4. QED
    BY <1>1, <1>2, <1>3

LEMMA NoMoreUnreported ==
    ASSUME NEW b \in Buttons, Unreported(b)' \in SUBSET Unreported(b)
    PROVE  Cardinality(Unreported(b)') <= Cardinality(Unreported(b))
  BY UnreportedFinite, FS_Subset

LEMMA OneLessUnreported ==
    ASSUME NEW b \in Buttons, NEW p \in Unreported(b),
           Unreported(b)' \in SUBSET (Unreported(b) \ {p})
    PROVE  Cardinality(Unreported(b)') + 1 <= Cardinality(Unreported(b))
  <1>1. /\ IsFiniteSet(Unreported(b) \ {p})
        /\ Cardinality(Unreported(b) \ {p}) = Cardinality(Unreported(b)) - 1
    BY UnreportedFinite, FS_RemoveElement
  <1>2. Cardinality(Unreported(b)') <= Cardinality(Unreported(b) \ {p})
    BY <1>1, FS_Subset
  <1>3. QED
    BY <1>1, <1>2, UnreportedFinite

-----------------------------------------------------------------------------
(* What is counted covers what the devices owe more: a press or a report   *)
(* that looks like one adds to both, an event that is returned takes from  *)
(* both.                                                                   *)
LEMMA Counted ==
    ASSUME PressInv, NEW S, owed' = OneMore(S),
           \A x \in Buttons :
              KbdOwes(x)' + RemoteOwes(x)' + PadOwes(x)'
                 <= KbdOwes(x) + RemoteOwes(x) + PadOwes(x) + OneIf(x \in S)
    PROVE  /\ owed' \in [Buttons -> Int]
           /\ \A x \in Buttons : owed'[x] >= (KbdOwes(x) + RemoteOwes(x) + PadOwes(x))'
  <1>1. owed \in [Buttons -> Int]
    BY DEF PressInv, PressTypes
  <1>2. owed' \in [Buttons -> Int]
    BY <1>1 DEF OneMore
  <1>3. ASSUME NEW x \in Buttons
        PROVE  owed'[x] >= (KbdOwes(x) + RemoteOwes(x) + PadOwes(x))'
    <2>1. owed'[x] = owed[x] + OneIf(x \in S) /\ owed[x] \in Int
      BY <1>1 DEF OneMore, OneIf
    <2>2. owed[x] >= KbdOwes(x) + RemoteOwes(x) + PadOwes(x)
      BY DEF PressInv
    <2>3. KbdOwes(x)' + RemoteOwes(x)' + PadOwes(x)'
             <= KbdOwes(x) + RemoteOwes(x) + PadOwes(x) + OneIf(x \in S)
      OBVIOUS
    <2>4. OneIf(x \in S) \in 0 .. 1
      BY DEF OneIf
    <2>5. QED
      BY <2>1, <2>2, <2>3, <2>4, OwesTypes
  <1>4. QED
    BY <1>2, <1>3

LEMMA PressReturned ==
    ASSUME PressInv, NEW b \in Buttons, owed' = [owed EXCEPT ![b] = @ - 1],
           \A x \in Buttons :
              KbdOwes(x)' + RemoteOwes(x)' + PadOwes(x)' + OneIf(x = b)
                 <= KbdOwes(x) + RemoteOwes(x) + PadOwes(x)
    PROVE  /\ owed' \in [Buttons -> Int]
           /\ \A x \in Buttons : owed'[x] >= (KbdOwes(x) + RemoteOwes(x) + PadOwes(x))'
  <1>1. owed \in [Buttons -> Int]
    BY DEF PressInv, PressTypes
  <1>2. owed' \in [Buttons -> Int]
    BY <1>1
  <1>3. ASSUME NEW x \in Buttons
        PROVE  owed'[x] >= (KbdOwes(x) + RemoteOwes(x) + PadOwes(x))'
    <2>1. owed'[x] = owed[x] - OneIf(x = b) /\ owed[x] \in Int
      BY <1>1 DEF OneIf
    <2>2. owed[x] >= KbdOwes(x) + RemoteOwes(x) + PadOwes(x)
      BY DEF PressInv
    <2>3. KbdOwes(x)' + RemoteOwes(x)' + PadOwes(x)' + OneIf(x = b)
             <= KbdOwes(x) + RemoteOwes(x) + PadOwes(x)
      OBVIOUS
    <2>4. OneIf(x = b) \in 0 .. 1
      BY DEF OneIf
    <2>5. QED
      BY <2>1, <2>2, <2>3, <2>4, OwesTypes
  <1>4. QED
    BY <1>2, <1>3

(* A callback or a release moves a press or forgets it.                    *)
LEMMA NotMore ==
    ASSUME PressInv, UNCHANGED owed,
           \A x \in Buttons :
              KbdOwes(x)' + RemoteOwes(x)' + PadOwes(x)' <= KbdOwes(x) + RemoteOwes(x) + PadOwes(x)
    PROVE  /\ owed' \in [Buttons -> Int]
           /\ \A x \in Buttons : owed'[x] >= (KbdOwes(x) + RemoteOwes(x) + PadOwes(x))'
  <1>1. owed \in [Buttons -> Int]
    BY DEF PressInv, PressTypes
  <1>2. ASSUME NEW x \in Buttons
        PROVE  owed'[x] >= (KbdOwes(x) + RemoteOwes(x) + PadOwes(x))'
    <2>1. owed'[x] = owed[x] /\ owed[x] \in Int
      BY <1>1
    <2>2. owed[x] >= KbdOwes(x) + RemoteOwes(x) + PadOwes(x)
      BY DEF PressInv
    <2>3. KbdOwes(x)' + RemoteOwes(x)' + PadOwes(x)' <= KbdOwes(x) + RemoteOwes(x) + PadOwes(x)
      OBVIOUS
    <2>4. QED
      BY <2>1, <2>2, <2>3, OwesTypes
  <1>3. QED
    BY <1>1, <1>2

-----------------------------------------------------------------------------
(* Plugging, binding and pulling: what is held is let go of, and the       *)
(* globals stay.                                                           *)
LEMMA DeviceSteps ==
    ASSUME PressInv,
           \/ BootStartUSB
           \/ \E d \in Devices : PlugIn(d) \/ Pull(d)
           \/ \E eax \in BOOLEAN : Bind(eax)
    PROVE  PressInv'
  <1>1. CASE BootStartUSB \/ (\E d \in Devices : PlugIn(d)) \/ (\E eax \in BOOLEAN : Bind(eax))
    <2>1. UNCHANGED <<padVars, down, current_keyboard_key, rheld, current_remote_key,
                      remotekeyIsRepeat, sent, match, owed>>
      BY <1>1 DEF BootStartUSB, PlugIn, Bind, padVars, kbdVars, irVars
    <2>2. \A b \in Buttons : /\ KbdOwes(b)' = KbdOwes(b) /\ RemoteOwes(b)' = RemoteOwes(b)
                             /\ PadOwes(b)' = PadOwes(b)
      BY <2>1, KbdOwesAlike, RemoteOwesAlike, PadOwesAlike
    <2>3. QED
      BY <2>1, <2>2 DEF PressInv, PressTypes, Matched, PollIs, At, padVars
  <1>2. ASSUME NEW d \in Devices, Pull(d)
        PROVE  PressInv'
    <2>1. /\ held' = [p \in Pads |-> IF p = d THEN {} ELSE held[p]]
          /\ reported' = [p \in Pads |-> IF p = d THEN {} ELSE reported[p]]
          /\ down' = IF d = Kbd THEN <<>> ELSE down
          /\ rheld' = IF d = Rem THEN None ELSE rheld
          /\ UNCHANGED <<XPAD_current, xpad_button_history, current_keyboard_key,
                         current_remote_key, remotekeyIsRepeat, sent, match, owed>>
      BY <1>2 DEF Pull
    <2>2. /\ held' \in [Pads -> SUBSET Buttons] /\ reported' \in [Pads -> SUBSET Buttons]
          /\ rheld' \in Buttons \cup {None} /\ sent' \in BOOLEAN
          /\ remotekeyIsRepeat' \in BOOLEAN /\ owed' \in [Buttons -> Int]
      BY <2>1 DEF PressInv, PressTypes
    <2>3. Matched'
      BY <2>1 DEF PressInv, PressTypes, Matched, PollIs, At
    <2>4. down' \in Seq(Buttons) /\ \A i, j \in 1 .. Len(down') : down'[i] = down'[j] => i = j
      BY <2>1 DEF PressInv, PressTypes
    <2>5. ASSUME NEW b \in Buttons
          PROVE  owed'[b] >= (KbdOwes(b) + RemoteOwes(b) + PadOwes(b))'
      <3>1. KbdHolds(b)' = KbdHolds(b) /\ (WaitsBehind(b)' => WaitsBehind(b))
        BY <2>1 DEF KbdHolds, WaitsBehind, At
      <3>2. KbdOwes(b)' <= KbdOwes(b)
        BY <3>1 DEF KbdOwes, OneIf
      <3>3. /\ InHand(b)' = InHand(b) /\ Findable(b)' = Findable(b)
        BY <2>1 DEF InHand, Findable, PollIs, At
      <3>4. PacketToCome(b)' => PacketToCome(b)
        BY <2>1, InputAssumption DEF PacketToCome
      <3>5. RemoteOwes(b)' <= RemoteOwes(b)
        BY <3>3, <3>4 DEF RemoteOwes, OneIf
      <3>6. Unreported(b)' \in SUBSET Unreported(b)
        BY <2>1 DEF Unreported
      <3>7. Rising(b)' = Rising(b)
        BY <2>1 DEF Rising
      <3>8. PadOwes(b)' <= PadOwes(b)
        BY <3>6, <3>7, NoMoreUnreported, UnreportedFinite DEF PadOwes, OneIf
      <3>9. owed'[b] = owed[b] /\ owed[b] \in Int /\ owed[b] >= KbdOwes(b) + RemoteOwes(b) + PadOwes(b)
        BY <2>1 DEF PressInv, PressTypes
      <3>10. QED
        BY <3>2, <3>5, <3>8, <3>9, OwesTypes
    <2>6. QED
      BY <2>2, <2>3, <2>4, <2>5 DEF PressInv, PressTypes
  <1>3. QED
    BY <1>1, <1>2

-----------------------------------------------------------------------------
(* The controllers: their buttons, xpad_irq() and the third part of a poll. *)
LEMMA PadPressed ==
    ASSUME PressInv, NEW p \in Pads, NEW b \in Buttons, PadPress(p, b)
    PROVE  PressInv'
  <1>1. /\ held' = [held EXCEPT ![p] = @ \cup {b}] /\ owed' = OneMore({b})
        /\ UNCHANGED <<reported, XPAD_current, xpad_button_history, kbdVars, irVars, match>>
    BY DEF PadPress, Press
  <1>2. held' \in [Pads -> SUBSET Buttons] /\ Matched'
    BY <1>1 DEF PressInv, PressTypes, Matched, PollIs, At
  <1>3. ASSUME NEW x \in Buttons
        PROVE  KbdOwes(x)' + RemoteOwes(x)' + PadOwes(x)'
                 <= KbdOwes(x) + RemoteOwes(x) + PadOwes(x) + OneIf(x \in {b})
    <2>1. KbdOwes(x)' = KbdOwes(x) /\ RemoteOwes(x)' = RemoteOwes(x)
      BY <1>1, KbdOwesAlike, RemoteOwesAlike DEF kbdVars, irVars
    <2>2. Rising(x)' = Rising(x)
      BY <1>1 DEF Rising
    <2>3. CASE x = b
      <3>1. Unreported(x)' \in SUBSET (Unreported(x) \cup {p})
        BY <1>1, <2>3 DEF Unreported, PressInv, PressTypes
      <3>2. PadOwes(x)' <= PadOwes(x) + 1
        BY <2>2, <3>1, OneMoreUnreported, UnreportedFinite DEF PadOwes, OneIf
      <3>3. QED
        BY <2>1, <2>3, <3>2, OwesTypes DEF OneIf
    <2>4. CASE x # b
      <3>1. Unreported(x)' \in SUBSET Unreported(x)
        BY <1>1, <2>4 DEF Unreported, PressInv, PressTypes
      <3>2. PadOwes(x)' <= PadOwes(x)
        BY <2>2, <3>1, NoMoreUnreported, UnreportedFinite DEF PadOwes, OneIf
      <3>3. QED
        BY <2>1, <2>4, <3>2, OwesTypes DEF OneIf
    <2>5. QED
      BY <2>3, <2>4
  <1>4. /\ owed' \in [Buttons -> Int]
        /\ \A x \in Buttons : owed'[x] >= (KbdOwes(x) + RemoteOwes(x) + PadOwes(x))'
    BY <1>1, <1>3, Counted
  <1>5. QED
    BY <1>1, <1>2, <1>4 DEF PressInv, PressTypes, kbdVars, irVars

LEMMA PadReleased ==
    ASSUME PressInv, NEW p \in Pads, NEW b \in Buttons, PadRelease(p, b)
    PROVE  PressInv'
  <1>1. /\ held' = [held EXCEPT ![p] = @ \ {b}] /\ reported' = [reported EXCEPT ![p] = @ \ {b}]
        /\ UNCHANGED <<XPAD_current, xpad_button_history, kbdVars, irVars, match, owed>>
    BY DEF PadRelease
  <1>2. /\ held' \in [Pads -> SUBSET Buttons] /\ reported' \in [Pads -> SUBSET Buttons]
        /\ Matched'
    BY <1>1 DEF PressInv, PressTypes, Matched, PollIs, At
  <1>3. ASSUME NEW x \in Buttons
        PROVE  KbdOwes(x)' + RemoteOwes(x)' + PadOwes(x)' <= KbdOwes(x) + RemoteOwes(x) + PadOwes(x)
    <2>1. KbdOwes(x)' = KbdOwes(x) /\ RemoteOwes(x)' = RemoteOwes(x)
      BY <1>1, KbdOwesAlike, RemoteOwesAlike DEF kbdVars, irVars
    <2>2. Unreported(x)' \in SUBSET Unreported(x)
      BY <1>1 DEF Unreported, PressInv, PressTypes
    <2>3. Rising(x)' = Rising(x)
      BY <1>1 DEF Rising
    <2>4. PadOwes(x)' <= PadOwes(x)
      BY <2>2, <2>3, NoMoreUnreported, UnreportedFinite DEF PadOwes, OneIf
    <2>5. QED
      BY <2>1, <2>4, OwesTypes
  <1>4. /\ owed' \in [Buttons -> Int]
        /\ \A x \in Buttons : owed'[x] >= (KbdOwes(x) + RemoteOwes(x) + PadOwes(x))'
    BY <1>1, <1>3, NotMore
  <1>5. QED
    BY <1>1, <1>2, <1>4 DEF PressInv, PressTypes, kbdVars, irVars

(* A report makes every edge that was to come one that has come; what was  *)
(* reported before and hidden since is counted once more.                  *)
LEMMA PadReports ==
    ASSUME PressInv, NEW p \in Pads, xpad_irq(p)
    PROVE  PressInv'
  <1> DEFINE S == (held[p] \cap reported[p]) \ XPAD_current
  <1>1. /\ XPAD_current' = held[p] /\ reported' = [reported EXCEPT ![p] = held[p]]
        /\ owed' = OneMore(S)
        /\ UNCHANGED <<held, xpad_button_history, kbdVars, irVars, match>>
    BY DEF xpad_irq
  <1>2. reported' \in [Pads -> SUBSET Buttons] /\ Matched'
    BY <1>1 DEF PressInv, PressTypes, Matched, PollIs, At
  <1>3. ASSUME NEW x \in Buttons
        PROVE  KbdOwes(x)' + RemoteOwes(x)' + PadOwes(x)'
                 <= KbdOwes(x) + RemoteOwes(x) + PadOwes(x) + OneIf(x \in S)
    <2>1. KbdOwes(x)' = KbdOwes(x) /\ RemoteOwes(x)' = RemoteOwes(x)
      BY <1>1, KbdOwesAlike, RemoteOwesAlike DEF kbdVars, irVars
    <2>2. Unreported(x)' \in SUBSET (Unreported(x) \ {p})
      BY <1>1 DEF Unreported, PressInv, PressTypes
    <2>3. CASE x \in held[p] /\ x \notin reported[p]
      <3>1. p \in Unreported(x)
        BY <2>3 DEF Unreported
      <3>2. Cardinality(Unreported(x)') + 1 <= Cardinality(Unreported(x))
        BY <2>2, <3>1, OneLessUnreported
      <3>3. PadOwes(x)' <= PadOwes(x)
        BY <3>2, UnreportedFinite DEF PadOwes, OneIf
      <3>4. QED
        BY <2>1, <3>3, OwesTypes DEF OneIf
    <2>4. CASE x \in held[p] /\ x \in reported[p] /\ x \notin XPAD_current
      <3>1. Cardinality(Unreported(x)') <= Cardinality(Unreported(x))
        BY <2>2, NoMoreUnreported
      <3>2. PadOwes(x)' <= PadOwes(x) + 1 /\ x \in S
        BY <2>4, <3>1, UnreportedFinite DEF PadOwes, OneIf
      <3>3. QED
        BY <2>1, <3>2, OwesTypes DEF OneIf
    <2>5. CASE x \notin held[p] \/ x \in XPAD_current
      <3>1. Cardinality(Unreported(x)') <= Cardinality(Unreported(x))
        BY <2>2, NoMoreUnreported
      <3>2. Rising(x)' => Rising(x)
        BY <1>1, <2>5 DEF Rising
      <3>3. PadOwes(x)' <= PadOwes(x)
        BY <3>1, <3>2, UnreportedFinite DEF PadOwes, OneIf
      <3>4. QED
        BY <2>1, <3>3, OwesTypes DEF OneIf
    <2>6. QED
      BY <2>3, <2>4, <2>5
  <1>4. /\ owed' \in [Buttons -> Int]
        /\ \A x \in Buttons : owed'[x] >= (KbdOwes(x) + RemoteOwes(x) + PadOwes(x))'
    BY <1>1, <1>3, Counted
  <1>5. QED
    BY <1>1, <1>2, <1>4 DEF PressInv, PressTypes, kbdVars, irVars

(* The poll reached the controllers because the remote's key is a          *)
(* repetition, or is not the button's.                                     *)
LEMMA PadPolled ==
    ASSUME PressInv, NEW b \in Buttons, PollPad(b),
           match = NoMatch \/ (At("flag", b) /\ current_remote_key # b)
    PROVE  PressInv'
  <1>1. UNCHANGED <<held, reported, XPAD_current, kbdVars, irVars>> /\ match' = NoMatch
    BY DEF PollPad, PadEdge, Takes
  <1>2. \A dev \in {"kbd", "flag", "remote", "cleared"}, x \in Buttons : ~At(dev, x)'
    BY <1>1 DEF At, NoMatch
  <1>3. \A dev \in {"kbd", "remote", "cleared"}, x \in Buttons : ~At(dev, x)
    BY DEF At, NoMatch
  <1>4. ASSUME NEW x \in Buttons
        PROVE  KbdOwes(x)' = KbdOwes(x) /\ RemoteOwes(x)' <= RemoteOwes(x)
    <2>1. KbdHolds(x)' = KbdHolds(x) /\ WaitsBehind(x)' = WaitsBehind(x)
      BY <1>1, <1>2, <1>3 DEF KbdHolds, WaitsBehind, kbdVars
    <2>2. ~InHand(x)' /\ ~PollIs("remote")' /\ ~PollIs("cleared")' /\ ~At("flag", x)'
      BY <1>2 DEF InHand, PollIs
    <2>3. ~PollIs("remote")
      BY <1>3 DEF PollIs
    <2>4. Findable(x)' => Findable(x)
      BY <1>1, <2>2, <2>3 DEF Findable, irVars
    <2>5. PacketToCome(x)' = PacketToCome(x)
      BY <1>1 DEF PacketToCome, irVars
    <2>6. QED
      BY <2>1, <2>2, <2>4, <2>5 DEF KbdOwes, RemoteOwes, OneIf
  <1>5. \A x \in Buttons : Unreported(x)' = Unreported(x)
    BY <1>1 DEF Unreported
  <1>6. CASE /\ Rising(b) /\ owed' = [owed EXCEPT ![b] = @ - 1]
             /\ xpad_button_history' = xpad_button_history \cup {b}
    <2>1. ASSUME NEW x \in Buttons
          PROVE  PadOwes(x)' + OneIf(x = b) <= PadOwes(x)
      <3>1. IF x = b THEN Rising(x) /\ ~Rising(x)' ELSE Rising(x)' = Rising(x)
        BY <1>1, <1>6 DEF Rising
      <3>2. QED
        BY <1>5, <3>1, UnreportedFinite DEF PadOwes, OneIf
    <2>2. /\ owed' \in [Buttons -> Int]
          /\ \A x \in Buttons : owed'[x] >= (KbdOwes(x) + RemoteOwes(x) + PadOwes(x))'
      <3>1. ASSUME NEW x \in Buttons
            PROVE  KbdOwes(x)' + RemoteOwes(x)' + PadOwes(x)' + OneIf(x = b)
                     <= KbdOwes(x) + RemoteOwes(x) + PadOwes(x)
        BY <1>4, <2>1, OwesTypes DEF OneIf
      <3>2. QED
        BY <1>6, <3>1, PressReturned
    <2>3. QED
      BY <1>1, <2>2 DEF PressInv, PressTypes, Matched, kbdVars, irVars
  <1>7. CASE /\ UNCHANGED owed /\ ~Rising(b)
             /\ xpad_button_history' = IF Falling(b) THEN xpad_button_history \ {b}
                                       ELSE xpad_button_history
    <2>1. ASSUME NEW x \in Buttons
          PROVE  KbdOwes(x)' + RemoteOwes(x)' + PadOwes(x)' <= KbdOwes(x) + RemoteOwes(x) + PadOwes(x)
      <3>1. Rising(x)' => Rising(x)
        BY <1>1, <1>7 DEF Rising, Falling
      <3>2. PadOwes(x)' <= PadOwes(x)
        BY <1>5, <3>1, UnreportedFinite DEF PadOwes, OneIf
      <3>3. QED
        BY <1>4, <3>2, OwesTypes
    <2>2. /\ owed' \in [Buttons -> Int]
          /\ \A x \in Buttons : owed'[x] >= (KbdOwes(x) + RemoteOwes(x) + PadOwes(x))'
      BY <1>7, <2>1, NotMore
    <2>3. QED
      BY <1>1, <2>2 DEF PressInv, PressTypes, Matched, kbdVars, irVars
  <1>8. QED
    BY <1>6, <1>7 DEF PollPad, PadEdge, Takes

-----------------------------------------------------------------------------
(* The keyboard: a key that goes down is named in the report or waits      *)
(* behind the first one, which is counted again if the report names it     *)
(* again; when the first one goes up the one behind it is named.           *)
Again(s) == IF down # <<>> /\ FirstKey(s) = Head(down) /\ current_keyboard_key # Head(down) /\ kbdUrb
            THEN {Head(down)} ELSE {}

LEMMA KeyReported ==
    ASSUME NEW s, NEW S, Report(s, S)
    PROVE  /\ down' = s
           /\ \/ /\ current_keyboard_key' = FirstKey(s) /\ kbdUrb
                 /\ owed' = OneMore(S \cup Again(s))
              \/ UNCHANGED current_keyboard_key /\ owed' = OneMore(S)
              \/ UNCHANGED current_keyboard_key /\ owed' = OneMore(S \cup Again(s))
  BY DEF Report, Again

LEMMA KeyWentDown ==
    ASSUME PressInv, NEW b \in Buttons, KeyDown(b)
    PROVE  PressInv'
  <1> DEFINE s == Append(down, b)
  <1>1. /\ Report(s, {b})
        /\ \A i \in 1 .. Len(down) : down[i] # b
        /\ UNCHANGED <<padVars, irVars, match>>
    BY DEF KeyDown, Press
  <1>2. /\ down \in Seq(Buttons) /\ Len(down) \in Nat
        /\ \A i, j \in 1 .. Len(down) : down[i] = down[j] => i = j
    BY LenProperties DEF PressInv, PressTypes
  <1>3. /\ s \in Seq(Buttons) /\ s # <<>> /\ Len(s) = Len(down) + 1
        /\ \A i \in 1 .. Len(down) : s[i] = down[i]
        /\ s[Len(down) + 1] = b
    BY <1>2, AppendProperties
  <1>4. \A i, j \in 1 .. Len(s) : s[i] = s[j] => i = j
    BY <1>1, <1>2, <1>3
  <1>5. /\ down = <<>> => FirstKey(s) = b /\ Len(down) = 0
        /\ down # <<>> => FirstKey(s) = Head(down) /\ Len(down) >= 1
    <2>1. FirstKey(s) = s[1]
      BY <1>3 DEF FirstKey
    <2>2. CASE down = <<>>
      BY <1>3, <2>1, <2>2
    <2>3. CASE down # <<>>
      <3>1. Len(down) >= 1 /\ Head(down) = down[1]
        BY <1>2, <2>3
      <3>2. QED
        BY <1>2, <1>3, <2>1, <2>3, <3>1
    <2>4. QED
      BY <2>2, <2>3
  <1>6. down' = s
    BY <1>1, KeyReported
  <1>7. PICK S : /\ S = {b} \/ S = {b} \cup Again(s)
                 /\ owed' = OneMore(S)
                 /\ \/ UNCHANGED current_keyboard_key
                    \/ current_keyboard_key' = FirstKey(s) /\ S = {b} \cup Again(s) /\ kbdUrb
    BY <1>1, KeyReported
  <1>8. ASSUME NEW x \in Buttons
        PROVE  KbdOwes(x)' <= KbdOwes(x) + OneIf(x \in S)
    <2>1. WaitsBehind(x)' => WaitsBehind(x) \/ (x = b /\ down # <<>>)
      <3>1. SUFFICES ASSUME NEW i \in 2 .. Len(s), s[i] = x
                     PROVE  WaitsBehind(x) \/ (x = b /\ down # <<>>)
        BY <1>6 DEF WaitsBehind
      <3>2. CASE i \in 1 .. Len(down)
        BY <1>2, <1>3, <3>1, <3>2 DEF WaitsBehind
      <3>3. CASE i = Len(down) + 1
        BY <1>2, <1>3, <1>5, <3>1, <3>3
      <3>4. QED
        BY <1>2, <1>3, <3>1, <3>2, <3>3
    <2>2. CASE down = <<>>
      <3>1. ~WaitsBehind(x)'
        BY <1>3, <1>5, <1>6, <2>2 DEF WaitsBehind
      <3>2. x # b /\ KbdHolds(x)' => KbdHolds(x)
        BY <1>1, <1>5, <1>7, <2>2 DEF KbdHolds, At
      <3>3. b \in S
        BY <1>7
      <3>4. QED
        BY <3>1, <3>2, <3>3 DEF KbdOwes, OneIf
    <2>3. CASE down # <<>>
      <3>1. Head(down) # b /\ Head(down) = down[1] /\ b \in S
        BY <1>1, <1>2, <1>5, <1>7, <2>3
      <3>2. KbdHolds(x)' /\ ~KbdHolds(x) => x \in S /\ x = Head(down)
        BY <1>1, <1>5, <1>7, <2>3 DEF KbdHolds, At, Again
      <3>3. QED
        BY <2>1, <3>1, <3>2 DEF KbdOwes, OneIf
    <2>4. QED
      BY <2>2, <2>3
  <1>9. ASSUME NEW x \in Buttons
        PROVE  KbdOwes(x)' + RemoteOwes(x)' + PadOwes(x)'
                 <= KbdOwes(x) + RemoteOwes(x) + PadOwes(x) + OneIf(x \in S)
    <2>1. PadOwes(x)' = PadOwes(x) /\ RemoteOwes(x)' = RemoteOwes(x)
      BY <1>1, PadOwesAlike, RemoteOwesAlike DEF irVars
    <2>2. QED
      BY <1>8, <2>1, OwesTypes DEF OneIf
  <1>10. /\ owed' \in [Buttons -> Int]
         /\ \A x \in Buttons : owed'[x] >= (KbdOwes(x) + RemoteOwes(x) + PadOwes(x))'
    BY <1>7, <1>9, Counted
  <1>11. QED
    BY <1>1, <1>3, <1>4, <1>6, <1>10 DEF PressInv, PressTypes, Matched, PollIs, At, padVars, irVars

(* The keys that are left when the i-th one goes up.                       *)
LEMMA KeysLeft ==
    ASSUME NEW ks \in Seq(Buttons), NEW i \in 1 .. Len(ks)
    PROVE  LET s == SubSeq(ks, 1, i - 1) \o SubSeq(ks, i + 1, Len(ks))
           IN  /\ s \in Seq(Buttons) /\ Len(s) = Len(ks) - 1
               /\ \A j \in 1 .. Len(s) : s[j] = IF j < i THEN ks[j] ELSE ks[j + 1]
  <1> DEFINE u == SubSeq(ks, 1, i - 1)
             v == SubSeq(ks, i + 1, Len(ks))
             w == u \o v
  <1>1. Len(ks) \in Nat /\ \A j \in 1 .. Len(ks) : ks[j] \in Buttons
    BY LenProperties, ElementOfSeq
  <1>2. /\ u \in Seq(Buttons) /\ Len(u) = i - 1
        /\ \A j \in 1 .. i - 1 : u[j] = ks[j]
    BY <1>1, SubSeqProperties
  <1>3. /\ v \in Seq(Buttons) /\ Len(v) = Len(ks) - i
        /\ \A j \in 1 .. Len(ks) - i : v[j] = ks[i + j]
    <2>1. \A j \in i + 1 .. Len(ks) : ks[j] \in Buttons
      BY <1>1
    <2>2. i + 1 \in Int /\ Len(ks) \in Int
      BY <1>1
    <2>3. /\ v \in Seq(Buttons)
          /\ Len(v) = IF i + 1 <= Len(ks) THEN Len(ks) - (i + 1) + 1 ELSE 0
          /\ \A j \in 1 .. Len(ks) - (i + 1) + 1 : v[j] = ks[(i + 1) + j - 1]
      BY <2>1, <2>2, SubSeqProperties
    <2>4. QED
      BY <1>1, <2>3
  <1>4. /\ w \in Seq(Buttons) /\ Len(w) = Len(u) + Len(v)
        /\ \A j \in 1 .. Len(u) + Len(v) : w[j] = IF j <= Len(u) THEN u[j] ELSE v[j - Len(u)]
    BY <1>2, <1>3, ConcatProperties
  <1> HIDE DEF u, v, w
  <1>5. Len(u) + Len(v) = Len(ks) - 1
    BY <1>1, <1>2, <1>3
  <1>6. ASSUME NEW j \in 1 .. Len(ks) - 1
        PROVE  w[j] = IF j < i THEN ks[j] ELSE ks[j + 1]
    <2>1. CASE j < i
      <3>1. j \in 1 .. i - 1 /\ j \in 1 .. Len(u) + Len(v) /\ j <= Len(u)
        BY <1>1, <1>2, <1>5, <2>1
      <3>2. w[j] = u[j] /\ u[j] = ks[j]
        BY <1>2, <1>4, <3>1
      <3>3. QED
        BY <2>1, <3>2
    <2>2. CASE j >= i
      <3>1. j - (i - 1) \in 1 .. Len(ks) - i /\ ~(j <= i - 1)
        BY <1>1, <2>2
      <3>2. w[j] = v[j - (i - 1)]
        BY <1>2, <1>4, <1>5, <3>1
      <3>3. v[j - (i - 1)] = ks[i + (j - (i - 1))] /\ i + (j - (i - 1)) = j + 1
        BY <1>1, <1>3, <3>1
      <3>4. QED
        BY <2>2, <3>2, <3>3
    <2>3. QED
      BY <1>1, <2>1, <2>2
  <1>7. QED
    BY <1>4, <1>5, <1>6 DEF u, v, w

LEMMA KeyWentUp ==
    ASSUME PressInv, KeyUp
    PROVE  PressInv'
  <1>1. PICK i \in 1 .. Len(down) :
           Report(SubSeq(down, 1, i - 1) \o SubSeq(down, i + 1, Len(down)), {})
    BY DEF KeyUp
  <1> DEFINE s == SubSeq(down, 1, i - 1) \o SubSeq(down, i + 1, Len(down))
  <1>2. UNCHANGED <<padVars, irVars, match>> /\ down # <<>>
    BY DEF KeyUp
  <1>3. /\ down \in Seq(Buttons) /\ Len(down) \in Nat
        /\ \A k, j \in 1 .. Len(down) : down[k] = down[j] => k = j
        /\ \A j \in 1 .. Len(down) : down[j] \in Buttons
    BY LenProperties, ElementOfSeq DEF PressInv, PressTypes
  <1>4. /\ s \in Seq(Buttons) /\ Len(s) = Len(down) - 1
        /\ \A j \in 1 .. Len(s) : s[j] = IF j < i THEN down[j] ELSE down[j + 1]
    BY <1>3, KeysLeft
  <1> HIDE DEF s
  <1>5. \A k, j \in 1 .. Len(s) : s[k] = s[j] => k = j
    BY <1>3, <1>4
  <1>6. /\ Head(down) = down[1]
        /\ s = <<>> => FirstKey(s) = None
        /\ s # <<>> => FirstKey(s) = s[1] /\ Len(s) >= 1
    <2>1. s # <<>> => Head(s) = s[1] /\ Len(s) >= 1
      BY <1>4
    <2>2. Head(down) = down[1]
      BY <1>2, <1>3
    <2>3. QED
      BY <2>1, <2>2 DEF FirstKey
  <1>7. down' = s /\ \E S : /\ S = {} \/ S = Again(s)
                            /\ owed' = OneMore(S)
                            /\ \/ UNCHANGED current_keyboard_key
                               \/ current_keyboard_key' = FirstKey(s) /\ S = Again(s) /\ kbdUrb
    <2>1. Report(s, {})
      BY <1>1 DEF s
    <2>2. {} \cup Again(s) = Again(s)
      OBVIOUS
    <2>3. QED
      BY <2>1, <2>2, KeyReported
  <1>8. PICK S : /\ S = {} \/ S = Again(s)
                 /\ owed' = OneMore(S)
                 /\ \/ UNCHANGED current_keyboard_key
                    \/ current_keyboard_key' = FirstKey(s) /\ S = Again(s) /\ kbdUrb
    BY <1>7
  <1>9. ASSUME NEW x \in Buttons
        PROVE  KbdOwes(x)' <= KbdOwes(x) + OneIf(x \in S)
    <2>1. \A j \in 2 .. Len(s) : s[j] = x => WaitsBehind(x)
      BY <1>3, <1>4 DEF WaitsBehind
    <2>2. WaitsBehind(x)' => WaitsBehind(x)
      BY <1>7, <2>1 DEF WaitsBehind
    <2>3. CASE UNCHANGED current_keyboard_key
      BY <1>2, <2>2, <2>3 DEF KbdOwes, KbdHolds, At, OneIf
    <2>4. CASE current_keyboard_key' = FirstKey(s) /\ S = Again(s) /\ kbdUrb
      <3>1. CASE s = <<>>
        <4>1. KbdHolds(x)' => KbdHolds(x)
          BY <1>2, <1>6, <2>4, <3>1, InputAssumption DEF KbdHolds, At
        <4>2. QED
          BY <2>2, <4>1 DEF KbdOwes, OneIf
      <3>2. CASE s # <<>> /\ i = 1
        <4>1. s[1] = down[2] /\ Len(down) >= 2
          BY <1>3, <1>4, <1>6, <3>2
        <4>2. x = s[1] => WaitsBehind(x) /\ ~WaitsBehind(x)'
          <5>1. x = s[1] => WaitsBehind(x)
            BY <1>3, <4>1 DEF WaitsBehind
          <5>2. x = s[1] => \A j \in 2 .. Len(s) : s[j] # x
            BY <1>3, <1>4, <1>5, <1>6, <3>2
          <5>3. QED
            BY <1>7, <5>1, <5>2 DEF WaitsBehind
        <4>3. x # s[1] => (KbdHolds(x)' => KbdHolds(x))
          BY <1>2, <1>6, <2>4, <3>2 DEF KbdHolds, At
        <4>4. QED
          BY <2>2, <4>2, <4>3 DEF KbdOwes, OneIf
      <3>3. CASE s # <<>> /\ i # 1
        <4>1. FirstKey(s) = Head(down)
          BY <1>3, <1>4, <1>6, <3>3
        <4>2. KbdHolds(x)' /\ ~KbdHolds(x) => x \in S
          BY <1>2, <2>4, <4>1 DEF KbdHolds, At, Again
        <4>3. QED
          BY <2>2, <4>2 DEF KbdOwes, OneIf
      <3>4. QED
        BY <3>1, <3>2, <3>3
    <2>5. QED
      BY <1>8, <2>3, <2>4
  <1>10. ASSUME NEW x \in Buttons
         PROVE  KbdOwes(x)' + RemoteOwes(x)' + PadOwes(x)'
                  <= KbdOwes(x) + RemoteOwes(x) + PadOwes(x) + OneIf(x \in S)
    <2>1. PadOwes(x)' = PadOwes(x) /\ RemoteOwes(x)' = RemoteOwes(x)
      BY <1>2, PadOwesAlike, RemoteOwesAlike DEF irVars
    <2>2. QED
      BY <1>9, <2>1, OwesTypes DEF OneIf
  <1>11. /\ owed' \in [Buttons -> Int]
         /\ \A x \in Buttons : owed'[x] >= (KbdOwes(x) + RemoteOwes(x) + PadOwes(x))'
    BY <1>8, <1>10, Counted
  <1>12. QED
    BY <1>2, <1>4, <1>5, <1>7, <1>11
    DEF PressInv, PressTypes, Matched, PollIs, At, padVars, irVars

-----------------------------------------------------------------------------
(* The remote: the first packet of a press makes its key one that a poll   *)
(* finds; a repetition hides the key that is there, unless a poll is in    *)
(* one of the two windows, where it is counted once more.                  *)
LEMMA RemoteKeyDown ==
    ASSUME PressInv, NEW b \in Buttons, RemoteDown(b)
    PROVE  PressInv'
  <1>1. /\ owed' = OneMore({b}) /\ rheld = None /\ rheld' = b /\ sent' = FALSE
        /\ UNCHANGED <<padVars, kbdVars, current_remote_key, remotekeyIsRepeat, match>>
    BY DEF RemoteDown, Press
  <1>2. ASSUME NEW x \in Buttons
        PROVE  KbdOwes(x)' + RemoteOwes(x)' + PadOwes(x)'
                 <= KbdOwes(x) + RemoteOwes(x) + PadOwes(x) + OneIf(x \in {b})
    <2>1. PadOwes(x)' = PadOwes(x) /\ KbdOwes(x)' = KbdOwes(x)
      BY <1>1, PadOwesAlike, KbdOwesAlike DEF kbdVars
    <2>2. /\ InHand(x)' = InHand(x) /\ Findable(x)' = Findable(x)
          /\ PacketToCome(x)' => x = b
      BY <1>1 DEF InHand, Findable, PollIs, At, PacketToCome
    <2>3. RemoteOwes(x)' <= RemoteOwes(x) + OneIf(x \in {b})
      BY <2>2 DEF RemoteOwes, OneIf
    <2>4. QED
      BY <2>1, <2>3, OwesTypes DEF OneIf
  <1>3. /\ owed' \in [Buttons -> Int]
        /\ \A x \in Buttons : owed'[x] >= (KbdOwes(x) + RemoteOwes(x) + PadOwes(x))'
    BY <1>1, <1>2, Counted
  <1>4. QED
    BY <1>1, <1>3 DEF PressInv, PressTypes, Matched, PollIs, At, padVars, kbdVars

LEMMA RemotePackets ==
    ASSUME PressInv, xremote_irq
    PROVE  PressInv'
  <1> DEFINE S == IF Mistaken THEN {rheld} ELSE {}
  <1>1. /\ current_remote_key' = rheld /\ remotekeyIsRepeat' = sent /\ sent' = TRUE
        /\ owed' = OneMore(S) /\ rheld # None /\ sent \in BOOLEAN
        /\ UNCHANGED <<padVars, kbdVars, rheld, match>>
    BY DEF xremote_irq, RemotePacket, PressInv, PressTypes
  <1>2. ASSUME NEW x \in Buttons
        PROVE  RemoteOwes(x)' <= RemoteOwes(x) + OneIf(x \in S)
    <2> \A dev, y : At(dev, y)' = At(dev, y)
      BY <1>1 DEF At
    <2>1. InHand(x)' = InHand(x) /\ ~PacketToCome(x)'
      BY <1>1 DEF InHand, PacketToCome
    <2>2. CASE ~sent
      <3>1. Findable(x)' => PacketToCome(x)
        BY <1>1, <2>2 DEF Findable, PacketToCome
      <3>2. QED
        BY <2>1, <3>1 DEF RemoteOwes, OneIf
    <2>3. CASE sent
      <3>1. ASSUME Findable(x)', ~Findable(x)
            PROVE  x \in S
        <4>1. x = rheld
          BY <1>1, <3>1 DEF Findable
        <4>2. PollIs("cleared") \/ (~PollIs("remote") /\ At("flag", x))
          BY <1>1, <2>3, <3>1 DEF Findable, PollIs
        <4>3. current_remote_key # rheld
          BY <3>1, <4>1, <4>2 DEF Findable
        <4>4. match.dev = "cleared" \/ match = [dev |-> "flag", b |-> rheld]
          BY <4>1, <4>2 DEF PollIs, At
        <4>5. Mistaken
          BY <2>3, <4>3, <4>4 DEF Mistaken
        <4>6. QED
          BY <4>1, <4>5
      <3>2. QED
        BY <2>1, <3>1 DEF RemoteOwes, OneIf
    <2>4. QED
      BY <2>2, <2>3
  <1>3. ASSUME NEW x \in Buttons
        PROVE  KbdOwes(x)' + RemoteOwes(x)' + PadOwes(x)'
                 <= KbdOwes(x) + RemoteOwes(x) + PadOwes(x) + OneIf(x \in S)
    <2>1. PadOwes(x)' = PadOwes(x) /\ KbdOwes(x)' = KbdOwes(x)
      BY <1>1, PadOwesAlike, KbdOwesAlike DEF kbdVars
    <2>2. QED
      BY <1>2, <2>1, OwesTypes DEF OneIf
  <1>4. /\ owed' \in [Buttons -> Int]
        /\ \A x \in Buttons : owed'[x] >= (KbdOwes(x) + RemoteOwes(x) + PadOwes(x))'
    BY <1>1, <1>3, Counted
  <1>5. QED
    BY <1>1, <1>4 DEF PressInv, PressTypes, Matched, PollIs, At, padVars, kbdVars

LEMMA RemoteLeaves ==
    ASSUME PressInv, xremote_error \/ RemoteUp
    PROVE  PressInv'
  <1>1. /\ UNCHANGED <<padVars, kbdVars, current_remote_key, remotekeyIsRepeat, match, owed>>
        /\ rheld' = None \/ (rheld' = rheld /\ sent')
        /\ rheld' \in Buttons \cup {None} /\ sent' \in BOOLEAN
    BY DEF xremote_error, RemoteUp, PressInv, PressTypes
  <1>2. ASSUME NEW x \in Buttons
        PROVE  KbdOwes(x)' + RemoteOwes(x)' + PadOwes(x)' <= KbdOwes(x) + RemoteOwes(x) + PadOwes(x)
    <2>1. PadOwes(x)' = PadOwes(x) /\ KbdOwes(x)' = KbdOwes(x)
      BY <1>1, PadOwesAlike, KbdOwesAlike DEF kbdVars
    <2>2. InHand(x)' = InHand(x) /\ Findable(x)' = Findable(x) /\ ~PacketToCome(x)'
      BY <1>1, InputAssumption DEF InHand, Findable, PollIs, At, PacketToCome
    <2>3. RemoteOwes(x)' <= RemoteOwes(x)
      BY <2>2 DEF RemoteOwes, OneIf
    <2>4. QED
      BY <2>1, <2>3, OwesTypes
  <1>3. /\ owed' \in [Buttons -> Int]
        /\ \A x \in Buttons : owed'[x] >= (KbdOwes(x) + RemoteOwes(x) + PadOwes(x))'
    BY <1>1, <1>2, NotMore
  <1>4. QED
    BY <1>1, <1>3 DEF PressInv, PressTypes, Matched, PollIs, At, padVars, kbdVars

-----------------------------------------------------------------------------
(* A poll on its way: it stands for the key it has found; what the         *)
(* callbacks put in that key's place before it is cleared is cleared with  *)
(* it and never returned.                                                  *)
LEMMA PollStarts ==
    ASSUME PressInv, NEW b \in Buttons, PollKeyboard(b) \/ PollRemote(b) \/ RemoteMatch(b)
    PROVE  PressInv'
  <1>1. UNCHANGED <<padVars, kbdVars, irVars, owed>>
    BY DEF PollKeyboard, PollRemote, RemoteMatch
  <1>2. \/ match = NoMatch /\ OnKbd(b) /\ At("kbd", b)'
        \/ match = NoMatch /\ ~remotekeyIsRepeat /\ At("flag", b)'
        \/ At("flag", b) /\ current_remote_key = b /\ At("remote", b)'
    BY DEF PollKeyboard, PollRemote, RemoteMatch, GoesTo, At
  <1>3. Matched'
    BY <1>2 DEF Matched, PollIs
  <1>4. ASSUME NEW x \in Buttons
        PROVE  KbdOwes(x)' + RemoteOwes(x)' + PadOwes(x)' <= KbdOwes(x) + RemoteOwes(x) + PadOwes(x)
    <2>1. PadOwes(x)' = PadOwes(x) /\ PacketToCome(x)' = PacketToCome(x)
          /\ WaitsBehind(x)' = WaitsBehind(x)
      BY <1>1, PadOwesAlike DEF PacketToCome, WaitsBehind, irVars, kbdVars
    <2>2. CASE match = NoMatch
      <3>1. \A dev \in {"kbd", "flag", "remote", "cleared"}, y \in Buttons : ~At(dev, y)
        BY <2>2 DEF At, NoMatch
      <3>2. \A y \in Buttons : ~At("remote", y)' /\ ~At("cleared", y)'
        BY <1>2, <3>1 DEF At
      <3>3. KbdHolds(x)' => KbdHolds(x)
        BY <1>1, <1>2, <3>1 DEF KbdHolds, OnKbd, At, kbdVars
      <3>4. ~InHand(x)' /\ (Findable(x)' => Findable(x))
        BY <1>1, <1>2, <3>1, <3>2 DEF InHand, Findable, PollIs, At, irVars
      <3>5. KbdOwes(x)' <= KbdOwes(x) /\ RemoteOwes(x)' <= RemoteOwes(x)
        BY <2>1, <3>3, <3>4 DEF KbdOwes, RemoteOwes, OneIf
      <3>6. QED
        BY <2>1, <3>5, OwesTypes
    <2>3. CASE At("flag", b) /\ current_remote_key = b /\ At("remote", b)'
      <3>1. \A y \in Buttons : ~At("kbd", y) /\ ~At("remote", y) /\ ~At("cleared", y)
        BY <2>3 DEF At
      <3>2. \A y \in Buttons : ~At("kbd", y)' /\ ~At("cleared", y)'
        BY <2>3 DEF At
      <3>3. KbdHolds(x)' => KbdHolds(x)
        BY <1>1, <3>2 DEF KbdHolds, kbdVars
      <3>4. ~Findable(x)' /\ (InHand(x)' => x = b)
        BY <2>3, <3>2 DEF Findable, InHand, PollIs, At
      <3>5. Findable(b)
        BY <2>3, <3>1 DEF Findable, PollIs
      <3>6. KbdOwes(x)' <= KbdOwes(x) /\ RemoteOwes(x)' <= RemoteOwes(x)
        BY <2>1, <3>3, <3>4, <3>5 DEF KbdOwes, RemoteOwes, OneIf
      <3>7. QED
        BY <2>1, <3>6, OwesTypes
    <2>4. QED
      BY <1>2, <2>2, <2>3
  <1>5. /\ owed' \in [Buttons -> Int]
        /\ \A x \in Buttons : owed'[x] >= (KbdOwes(x) + RemoteOwes(x) + PadOwes(x))'
    BY <1>1, <1>4, NotMore
  <1>6. QED
    BY <1>1, <1>3, <1>5 DEF PressInv, PressTypes, padVars, kbdVars, irVars

LEMMA KeyboardCleared ==
    ASSUME PressInv, NEW b \in Buttons, ClearKeyboard(b)
    PROVE  PressInv'
  <1>1. /\ At("kbd", b) /\ match' = NoMatch /\ owed' = [owed EXCEPT ![b] = @ - 1]
        /\ current_keyboard_key' = None
        /\ UNCHANGED <<padVars, down, irVars>>
    BY DEF ClearKeyboard, Takes
  <1>2. \A dev \in {"kbd", "flag", "remote", "cleared"}, x \in Buttons : ~At(dev, x)'
    BY <1>1 DEF At, NoMatch
  <1>3. \A dev \in {"flag", "remote", "cleared"}, x \in Buttons : ~At(dev, x)
    BY <1>1 DEF At
  <1>4. ASSUME NEW x \in Buttons
        PROVE  KbdOwes(x)' + RemoteOwes(x)' + PadOwes(x)' + OneIf(x = b)
                 <= KbdOwes(x) + RemoteOwes(x) + PadOwes(x)
    <2>1. /\ PadOwes(x)' = PadOwes(x) /\ PacketToCome(x)' = PacketToCome(x)
          /\ WaitsBehind(x)' = WaitsBehind(x)
      BY <1>1, PadOwesAlike DEF PacketToCome, WaitsBehind, irVars
    <2>2. ~KbdHolds(x)' /\ (x = b => KbdHolds(x))
      BY <1>1, <1>2, InputAssumption DEF KbdHolds
    <2>3. InHand(x)' = InHand(x) /\ Findable(x)' = Findable(x)
      BY <1>1, <1>2, <1>3 DEF InHand, Findable, PollIs, irVars
    <2>4. KbdOwes(x)' + OneIf(x = b) <= KbdOwes(x) /\ RemoteOwes(x)' = RemoteOwes(x)
      BY <2>1, <2>2, <2>3 DEF KbdOwes, RemoteOwes, OneIf
    <2>5. QED
      BY <2>1, <2>4, OwesTypes DEF OneIf
  <1>5. /\ owed' \in [Buttons -> Int]
        /\ \A x \in Buttons : owed'[x] >= (KbdOwes(x) + RemoteOwes(x) + PadOwes(x))'
    BY <1>1, <1>4, PressReturned
  <1>6. QED
    BY <1>1, <1>5 DEF PressInv, PressTypes, Matched, padVars, irVars

LEMMA RemoteCleared ==
    ASSUME PressInv, NEW b \in Buttons, ClearRemote(b)
    PROVE  PressInv'
  <1>1. /\ At("remote", b) /\ At("cleared", b)' /\ current_remote_key' = None
        /\ UNCHANGED <<padVars, kbdVars, rheld, remotekeyIsRepeat, sent, owed>>
    BY DEF ClearRemote, GoesTo, At
  <1>2. Matched'
    BY <1>1 DEF Matched, PollIs
  <1>3. ASSUME NEW x \in Buttons
        PROVE  KbdOwes(x)' + RemoteOwes(x)' + PadOwes(x)' <= KbdOwes(x) + RemoteOwes(x) + PadOwes(x)
    <2>1. /\ PadOwes(x)' = PadOwes(x) /\ PacketToCome(x)' = PacketToCome(x)
      BY <1>1, PadOwesAlike DEF PacketToCome
    <2>2. KbdOwes(x)' = KbdOwes(x)
      BY <1>1 DEF KbdOwes, KbdHolds, WaitsBehind, At, kbdVars
    <2>3. ~Findable(x)'
      BY <1>1, InputAssumption DEF Findable
    <2>4. InHand(x)' => InHand(x)
      BY <1>1 DEF InHand, At
    <2>5. RemoteOwes(x)' <= RemoteOwes(x)
      BY <2>1, <2>3, <2>4 DEF RemoteOwes, OneIf
    <2>6. QED
      BY <2>1, <2>2, <2>5, OwesTypes
  <1>4. /\ owed' \in [Buttons -> Int]
        /\ \A x \in Buttons : owed'[x] >= (KbdOwes(x) + RemoteOwes(x) + PadOwes(x))'
    BY <1>1, <1>3, NotMore
  <1>5. QED
    BY <1>1, <1>2, <1>4 DEF PressInv, PressTypes, padVars, kbdVars

LEMMA RepeatCleared ==
    ASSUME PressInv, NEW b \in Buttons, ClearRepeat(b)
    PROVE  PressInv'
  <1>1. /\ At("cleared", b) /\ match' = NoMatch /\ owed' = [owed EXCEPT ![b] = @ - 1]
        /\ remotekeyIsRepeat' = FALSE
        /\ UNCHANGED <<padVars, kbdVars, rheld, current_remote_key, sent>>
    BY DEF ClearRepeat, Takes
  <1>2. \A dev \in {"kbd", "flag", "remote", "cleared"}, x \in Buttons : ~At(dev, x)'
    BY <1>1 DEF At, NoMatch
  <1>3. ASSUME NEW x \in Buttons
        PROVE  KbdOwes(x)' + RemoteOwes(x)' + PadOwes(x)' + OneIf(x = b)
                 <= KbdOwes(x) + RemoteOwes(x) + PadOwes(x)
    <2>1. /\ PadOwes(x)' = PadOwes(x) /\ PacketToCome(x)' = PacketToCome(x)
      BY <1>1, PadOwesAlike DEF PacketToCome
    <2>2. ~At("kbd", x)
      BY <1>1 DEF At
    <2>3. KbdOwes(x)' = KbdOwes(x)
      BY <1>1, <1>2, <2>2 DEF KbdOwes, KbdHolds, WaitsBehind, kbdVars
    <2>4. ~InHand(x)' /\ (x = b => InHand(x))
      BY <1>1, <1>2 DEF InHand
    <2>5. Findable(x)' => Findable(x)
      BY <1>1 DEF Findable, PollIs
    <2>6. RemoteOwes(x)' + OneIf(x = b) <= RemoteOwes(x)
      BY <2>1, <2>4, <2>5 DEF RemoteOwes, OneIf
    <2>7. QED
      BY <2>1, <2>3, <2>6, OwesTypes DEF OneIf
  <1>4. /\ owed' \in [Buttons -> Int]
        /\ \A x \in Buttons : owed'[x] >= (KbdOwes(x) + RemoteOwes(x) + PadOwes(x))'
    BY <1>1, <1>3, PressReturned
  <1>5. QED
    BY <1>1, <1>4 DEF PressInv, PressTypes, Matched, padVars, kbdVars

-----------------------------------------------------------------------------
LEMMA PressInit == InputInit => PressInv
  <1> SUFFICES ASSUME InputInit PROVE PressInv
    OBVIOUS
  <1>1. /\ held = [p \in Pads |-> {}] /\ reported = held
        /\ XPAD_current = {} /\ xpad_button_history = {}
        /\ down = <<>> /\ current_keyboard_key = None
        /\ rheld = None /\ current_remote_key = None /\ remotekeyIsRepeat = FALSE /\ sent = FALSE
        /\ match = NoMatch /\ owed = [b \in Buttons |-> 0]
    BY DEF InputInit
  <1>2. \A dev \in {"kbd", "flag", "remote", "cleared"}, b \in Buttons : ~At(dev, b)
    BY <1>1 DEF At, NoMatch
  <1>3. ASSUME NEW b \in Buttons
        PROVE  owed[b] >= KbdOwes(b) + RemoteOwes(b) + PadOwes(b)
    <2>1. /\ ~KbdHolds(b) /\ ~InHand(b) /\ ~Findable(b) /\ ~PacketToCome(b)
      BY <1>1, <1>2, InputAssumption DEF KbdHolds, InHand, Findable, PacketToCome
    <2>2. ~WaitsBehind(b)
      BY <1>1 DEF WaitsBehind
    <2>3. ~Rising(b) /\ Unreported(b) = {}
      BY <1>1 DEF Rising, Unreported
    <2>4. Cardinality(Unreported(b)) = 0
      BY <2>3, FS_EmptySet
    <2>5. QED
      BY <1>1, <2>1, <2>2, <2>3, <2>4 DEF KbdOwes, RemoteOwes, PadOwes, OneIf
  <1>4. /\ held \in [Pads -> SUBSET Buttons] /\ reported \in [Pads -> SUBSET Buttons]
        /\ owed \in [Buttons -> Int] /\ down \in Seq(Buttons) /\ Len(down) = 0
    BY <1>1
  <1>5. \A i, j \in 1 .. Len(down) : down[i] = down[j] => i = j
    <2>1. 1 .. Len(down) = {}
      BY <1>4
    <2>2. QED
      BY <2>1
  <1>6. rheld \in Buttons \cup {None} /\ sent \in BOOLEAN /\ remotekeyIsRepeat \in BOOLEAN /\ Matched
    BY <1>1 DEF Matched
  <1>7. PressTypes
    BY <1>4, <1>5, <1>6 DEF PressTypes
  <1>8. QED
    BY <1>3, <1>7 DEF PressInv

LEMMA PressNext ==
    ASSUME PressInv, [InputNext]_inputVars
    PROVE  PressInv'
  <1>1. CASE \E eax \in BOOLEAN : Bind(eax)
    BY <1>1, DeviceSteps
  <1>2. CASE \E p \in Pads : xpad_irq(p) \/ \E b \in Buttons : PadPress(p, b) \/ PadRelease(p, b)
    BY <1>2, PadReports, PadPressed, PadReleased
  <1>3. CASE \E b \in Buttons : KeyDown(b) \/ RemoteDown(b)
    BY <1>3, KeyWentDown, RemoteKeyDown
  <1>4. ASSUME NEW b \in Buttons, Poll(b)
        PROVE  PressInv'
    <2>1. \/ PollKeyboard(b) \/ PollRemote(b)
          \/ match = NoMatch /\ PollPad(b)
      BY <1>4 DEF Poll
    <2>2. QED
      BY <2>1, PollStarts, PadPolled
  <1>5. ASSUME NEW b \in Buttons, PollOn(b)
        PROVE  PressInv'
    <2>1. \/ ClearKeyboard(b) \/ RemoteMatch(b) \/ ClearRemote(b) \/ ClearRepeat(b)
          \/ At("flag", b) /\ current_remote_key # b /\ PollPad(b)
      BY <1>5 DEF PollOn
    <2>2. QED
      BY <2>1, KeyboardCleared, PollStarts, RemoteCleared, RepeatCleared, PadPolled
  <1>6. CASE BootStartUSB \/ \E d \in Devices : PlugIn(d) \/ Pull(d)
    BY <1>6, DeviceSteps
  <1>7. CASE KeyUp
    BY <1>7, KeyWentUp
  <1>8. CASE RemoteUp \/ xremote_irq \/ xremote_error
    BY <1>8, RemotePackets, RemoteLeaves
  <1>9. CASE UNCHANGED inputVars
    <2>1. UNCHANGED <<padVars, down, current_keyboard_key, rheld, current_remote_key,
                      remotekeyIsRepeat, sent, match, owed>>
      BY <1>9 DEF inputVars, kbdVars, irVars
    <2>2. \A b \in Buttons : /\ KbdOwes(b)' = KbdOwes(b) /\ RemoteOwes(b)' = RemoteOwes(b)
                             /\ PadOwes(b)' = PadOwes(b)
      BY <2>1, KbdOwesAlike, RemoteOwesAlike, PadOwesAlike
    <2>3. QED
      BY <2>1, <2>2 DEF PressInv, PressTypes, Matched, PollIs, At, padVars
  <1>10. QED
    BY <1>1, <1>2, <1>3, <1>4, <1>5, <1>6, <1>7, <1>8, <1>9 DEF InputNext

(* One press, one event: for any devices and any number of controllers,    *)
(* plugged in and pulled as often as one likes, any keys held at once, any *)
(* number of presses, of reports and of failed ones, no poll of            *)
(* risefall_xpad_BUTTON() returns a press that was returned before, but    *)
(* for the reports PressTakenOnce counts as another press.                 *)
THEOREM PressesTakenOnce == InputSpec => []PressTakenOnce
  <1>1. PressInv => PressTakenOnce
    <2> SUFFICES ASSUME PressInv, NEW b \in Buttons PROVE owed[b] >= 0
      BY DEF PressTakenOnce
    <2>1. owed[b] \in Int /\ owed[b] >= KbdOwes(b) + RemoteOwes(b) + PadOwes(b)
      BY DEF PressInv, PressTypes
    <2>2. QED
      BY <2>1, OwesTypes
  <1>2. PressInv /\ [InputNext]_inputVars => PressInv'
    BY PressNext
  <1>3. QED
    BY <1>1, <1>2, PressInit, PTL DEF InputSpec
=============================================================================
