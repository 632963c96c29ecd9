------------------------------ MODULE UsbQueue ------------------------------
(***************************************************************************)
(* The life of a USB request (URB) from submission to giveback: the        *)
(* checks of usb_submit_urb(), the request lists of the host controller    *)
(* core (core/hcd.c), the OHCI driver's endpoint and transfer descriptors  *)
(* (host/ohci-q.c, host/ohci-hcd.c) and the controller that works on them  *)
(* at the same time.                                                       *)
(*                                                                         *)
(* The driver's lock macros are empty and its interrupt handler is called  *)
(* by polling (linuxwrapper.c), so the driver is one thread of control;    *)
(* what runs beside it is the controller: it retires transfer descriptors  *)
(* whenever an endpoint is on its schedule, collects them in a done queue  *)
(* it writes back at a frame boundary, and may still be at work on an      *)
(* endpoint that was taken off the schedule until the next frame.          *)
(*                                                                         *)
(* Every endpoint of this system carries one URB at a time - the input     *)
(* drivers resubmit theirs, control messages are sent one after the other  *)
(* - so an endpoint descriptor is named by its URB.                        *)
(***************************************************************************)
EXTENDS Integers, Sequences, FiniteSets, SequencesExt

CONSTANTS
  IntUrb,      \* the interrupt URBs of the input devices
  Ctl,         \* the URB of usb_control_msg()
  Interval,    \* [IntUrb -> periods], divisors of NUM_INTS
  Eager,       \* URBs resubmitted whatever their status (xpad_irq)
  Unbindable,  \* URBs of the driver whose probe may seem to fail (usb_kbd_probe)
  NUM_INTS,    \* branches of the periodic schedule
  Polls,       \* polls of my_wait_for_completion() before it gives up
  CtlTds,      \* TDs of a control message: SETUP, maybe DATA, STATUS
  MaxDrift,    \* bound on how far the load of a branch falls below 0
  None

Urb == IntUrb \cup {Ctl}

ASSUME UrbAssumption ==
  /\ Ctl \notin IntUrb /\ None \notin Urb
  /\ NUM_INTS \in Nat \ {0} /\ Polls \in Nat \ {0, 1} /\ CtlTds \in {2, 3} /\ MaxDrift \in Nat
  /\ Interval \in [IntUrb -> 1 .. NUM_INTS]
  /\ \A u \in IntUrb : NUM_INTS % Interval[u] = 0
  /\ Eager \subseteq IntUrb /\ Unbindable \subseteq IntUrb

VARIABLES
  o,      \* the driver's data: URBs, endpoint descriptors, schedules
  hc,     \* the controller: done queue, HCCA done head, error, frame
  irq,    \* ohci_irq(): where it is and the done list it works through
  main    \* the code below which the handler is polled

vars == <<o, hc, irq, main>>

Branch == 0 .. NUM_INTS - 1

\* TDs of a URB: a report is one.
Length(u) == IF u = Ctl THEN CtlTds ELSE 1

FreshUrb == [status |-> "none", hcpriv |-> FALSE, del |-> FALSE, cnt |-> 0,
             spliced |-> FALSE, done |-> FALSE,
             bound |-> FALSE, freed |-> FALSE]

\* list: the TDs on td_list, in their order; head: hwHeadP; tds: TDs marked
\* TD_DONE; bad, cc: the TD the controller retired with an error, and which.
FreshEd == [state |-> "none", skip |-> FALSE, halt |-> FALSE, dequeue |-> FALSE, list |-> {},
            head |-> 1, tds |-> {}, bad |-> 0, cc |-> "ok"]

---------------------------------------------------------------------------
(* The schedules.  The periodic tree: the first endpoint of each branch,   *)
(* its load, and of each endpoint the next one and its lowest branch.      *)

Dev(s, u, d) == [s EXCEPT !.dev[u] = d]

\* The least loaded branch of the period; the bound of 90% of a frame is far
\* from what the ports of the machine can hold.
balance(tree, u) ==
  CHOOSE i \in 0 .. Interval[u] - 1 :
    /\ \A j \in 0 .. Interval[u] - 1 : tree.load[i] <= tree.load[j]
    /\ \A j \in 0 .. i - 1 : tree.load[j] > tree.load[i]

\* periodic[i] and ed_next: where a link is, and what it leads to.
Link == Branch \cup IntUrb
Follow(tree, p) == IF p \in Branch THEN tree.periodic[p] ELSE tree.next[p]
Relink(tree, p, u) == IF p \in Branch THEN [tree EXCEPT !.periodic[p] = u] ELSE [tree EXCEPT !.next[p] = u]

\* Mutant: no order on a branch.
PlaceOfUnsorted(tree, i, u) ==
  LET walk[p \in Link] ==
        LET here == Follow(tree, p) IN IF here = None \/ here = u THEN p ELSE walk[here]
  IN  walk[i]

\* The link at which u stands or, when it is not there, at which it belongs:
\* slow endpoints before fast ones.
PlaceOf(tree, i, u) ==
  LET walk[p \in Link] ==
        LET here == Follow(tree, p)
        IN  IF here = None \/ here = u \/ Interval[u] > Interval[here] THEN p ELSE walk[here]
  IN  walk[i]

OnBranch(tree, u) == {i \in Branch : i >= tree.branch[u] /\ (i - tree.branch[u]) % Interval[u] = 0}

periodic_link(tree, u) ==
  FoldLeft(LAMBDA t, i :
             LET p == PlaceOf(t, i, u)
                 linked == IF Follow(t, p) = u THEN t
                           ELSE Relink([t EXCEPT !.next[u] = Follow(t, p)], p, u)
             IN  [linked EXCEPT !.load[i] = @ + 1],
           tree, SetToSortSeq(OnBranch(tree, u), <))

\* The unlinking walk stops only at u or at the end; the load is taken off even
\* when u was not found. MaxDrift bounds how far it may sink that way.
periodic_unlink(tree, u) ==
  FoldLeft(LAMBDA t, i :
             LET walk[p \in Link] == IF Follow(t, p) \in {None, u} THEN p ELSE walk[Follow(t, p)]
                 p == walk[i]
                 cut == IF Follow(t, p) = u THEN Relink(t, p, t.next[u]) ELSE t
             IN  [cut EXCEPT !.load[i] = IF @ > -MaxDrift THEN @ - 1 ELSE @],
           tree, SetToSortSeq(OnBranch(tree, u), <))

\* A branch is chosen; what an endpoint off the tree was linked to is of no more use.
Placed(tree, u) == [tree EXCEPT !.next[u] = None, !.branch[u] = balance(tree, u)]
Unplaced(tree, u) == [tree EXCEPT !.next[u] = None, !.branch[u] = 0]

\* An idle endpoint without TDs.
Emptied(s, u) == [s EXCEPT !.ed[u] = [FreshEd EXCEPT !.state = "IDLE"], !.tree = Unplaced(@, u)]

ed_schedule(s, u) ==
  LET t == [s EXCEPT !.ed[u].state = "OPER"]
  IN  IF u = Ctl THEN [t EXCEPT !.ctl = TRUE, !.cle = @ \/ (~s.ctl /\ s.rm = <<>>)]
      ELSE [t EXCEPT !.tree = periodic_link(Placed(@, u), u)]

\* Off the schedule.
Descheduled(s, u) ==
  LET t == [s EXCEPT !.ed[u].skip = TRUE]
  IN  IF u = Ctl THEN [t EXCEPT !.ctl = FALSE, !.cle = FALSE] ELSE [t EXCEPT !.tree = periodic_unlink(@, u)]

ed_deschedule(s, u) ==
  IF s.ed[u].state = "OPER" THEN Emptied(Descheduled(s, u), u) ELSE Descheduled(s, u)

\* On the schedule the controller walks.
Scheduled(s, u) ==
  IF u = Ctl THEN s.ctl /\ s.cle
  ELSE \E i \in Branch :
         LET reach[p \in Link] == Follow(s.tree, p) # None
                                  /\ (Follow(s.tree, p) = u \/ reach[Follow(s.tree, p)])
         IN  reach[i]

start_urb_unlink(s, u) ==
  LET t == ed_deschedule([s EXCEPT !.ed[u] = [@ EXCEPT !.dequeue = TRUE, !.state = "UNLINK"]], u)
  IN  [t EXCEPT !.rm = <<u>> \o @, !.tick = @ \cup {u}]

---------------------------------------------------------------------------
(* Submission.                                                             *)

\* The endpoint descriptor exists from the first URB on.
ed_get(s, u) == IF s.ed[u].state = "none" THEN [s EXCEPT !.ed[u] = [FreshEd EXCEPT !.state = "IDLE"]] ELSE s

td_submit_urb(s, u) ==
  [s EXCEPT !.urb[u] = [@ EXCEPT !.hcpriv = TRUE, !.cnt = 0, !.del = FALSE],
            !.ed[u] = [@ EXCEPT !.list = 1 .. Length(u), !.head = 1,
                                !.tds = {}, !.bad = 0, !.cc = "ok"]]

ohci_urb_enqueue(s, u) ==
  LET t == ed_get(s, u)
  IN  td_submit_urb(IF t.ed[u].state = "IDLE" THEN ed_schedule(t, u) ELSE t, u)

\* usb_submit_urb() refuses a URB in use, of a device that left or of a halted
\* endpoint, hcd_submit_urb() one for a controller that died.
Accepts(s, u) == ~s.urb[u].hcpriv /\ s.dev[u] = "here" /\ ~s.disabled

usb_submit_urb(s, u) ==
  IF Accepts(s, u) THEN ohci_urb_enqueue([s EXCEPT !.urb[u].status = "prog"], u)
  ELSE IF ~s.urb[u].hcpriv /\ s.dev[u] \in {"here", "halted"} THEN [s EXCEPT !.urb[u].status = "prog"]
  ELSE s

---------------------------------------------------------------------------
(* Giveback.                                                               *)

\* The drivers' completion functions: xpad_irq() submits again whatever the
\* status, the others only after a good report; usb_api_blocking_completion().
complete(s, u) ==
  IF u = Ctl THEN [s EXCEPT !.urb[u].done = TRUE]
  ELSE IF u \in Eager \/ s.urb[u].status = "ok" THEN usb_submit_urb(s, u) ELSE s

\* A spliced completion calls the original one first. The status of a URB that
\* is not submitted again is of no more use.
usb_hcd_giveback_urb(s, u) ==
  LET t == complete([s EXCEPT !.urb[u].spliced = FALSE], u)
      b == t.urb[u]
  IN  [t EXCEPT !.urb[u] = [b EXCEPT !.done = b.done \/ s.urb[u].spliced,
                                     !.status = IF b.hcpriv THEN b.status ELSE "none"]]

finish_urb(s, u) ==
  LET b == s.urb[u]
  IN  usb_hcd_giveback_urb(
        [s EXCEPT !.urb[u] = [b EXCEPT !.hcpriv = FALSE, !.cnt = 0, !.del = FALSE,
                                       !.status = IF b.status = "prog" THEN "ok" ELSE b.status]], u)

\* The TDs in S, of which at most one failed.
td_done(s, u, S) ==
  LET t == [s EXCEPT !.ed[u].list = @ \ S, !.urb[u].cnt = @ + Cardinality(S)]
  IN  IF s.ed[u].bad \notin S THEN t
      ELSE [t EXCEPT !.urb[u].status = IF @ = "prog" THEN "err" ELSE @,
                     !.dev[u] = IF s.ed[u].cc = "stall" /\ u # Ctl /\ @ = "here" THEN "halted" ELSE @]

Finished(s, u) == s.urb[u].cnt = Length(u)

---------------------------------------------------------------------------
(* Unlinking.                                                              *)

ohci_urb_dequeue(s, u) ==
  IF s.disabled THEN finish_urb(s, u)
  ELSE LET t == [s EXCEPT !.urb[u].del = TRUE]
       IN  IF s.ed[u].state = "OPER" THEN start_urb_unlink(t, u) ELSE t

\* Only a URB in progress is unlinked; the caller then waits for its splice.
Unlinks(s, u) == s.urb[u].hcpriv /\ s.urb[u].status = "prog"

hcd_unlink_urb(s, u) ==
  ohci_urb_dequeue(
    [s EXCEPT !.urb[u] = [@ EXCEPT !.spliced = TRUE, !.status = "enoent", !.done = FALSE]], u)

\* Shut the endpoint's URB down, unless it is being returned already.
hcd_endpoint_disable(s, u) ==
  IF Unlinks(s, u) THEN ohci_urb_dequeue([s EXCEPT !.urb[u].status = "shutdown"], u) ELSE s

\* The endpoint is freed or, when it is not idle and empty, forgotten.
ohci_endpoint_disable(s, u) == [s EXCEPT !.ed[u] = FreshEd, !.tree = Unplaced(@, u), !.dev[u] = "none"]

---------------------------------------------------------------------------
(* ohci_irq(), polled.                                                     *)

\* What ed_halted() adds to the done list: the TDs behind the one that halted
\* its endpoint, as if they were done, the last one first.
LastTd(S) == CHOOSE i \in S : \A j \in S : j <= i
LaterTds(s, td) == {j \in s.ed[td[1]].list : j > td[2]}
Behind(s, td) ==
  LET S == LaterTds(s, td)
  IN  IF S = {} THEN <<>>
      ELSE IF Cardinality(S) = 1 THEN <<<<td[1], LastTd(S)>>>>
      ELSE <<<<td[1], LastTd(S)>>, <<td[1], LastTd(S \ {LastTd(S)})>>>>

ed_halted(s, td) ==
  LET u == td[1]
  IN  [s EXCEPT !.ed[u] = [@ EXCEPT !.skip = TRUE, !.halt = FALSE, !.head = Length(u) + 1,
                                    !.tds = s.ed[u].tds \cup LaterTds(s, td)]]

Halts(s, td) == s.ed[td[1]].bad = td[2] /\ s.ed[td[1]].halt

\* One round of dl_reverse_done_list(): the controller's list has the last TD
\* first; the driver's gets the first one first, a halting TD followed by those
\* behind it.
Marked(s, td) == [s EXCEPT !.ed[td[1]].tds = @ \cup {td[2]}]
dl_reverse_done_list(s, td) == IF Halts(s, td) THEN ed_halted(Marked(s, td), td) ELSE Marked(s, td)
Reversed(s, td, list) == <<td>> \o ((IF Halts(s, td) THEN Behind(s, td) ELSE <<>>) \o list)

\* Mutant: an endpoint that failed stays skipped.
UnskipNot(s, u) == s

\* An endpoint goes on once nothing of the request that failed is left.
FirstTd(S) == CHOOSE i \in S : \A j \in S : i <= j
Unskip(s, u) ==
  IF ~s.ed[u].dequeue /\ FirstTd(s.ed[u].list) \notin s.ed[u].tds
  THEN [s EXCEPT !.ed[u].skip = FALSE] ELSE s

\* One round of dl_done_list().
dl_done_list(s, td) ==
  LET u == td[1]
      t == td_done(s, u, {td[2]})
      f == IF Finished(t, u) THEN finish_urb(t, u) ELSE t
  IN  IF f.ed[u].list = {} THEN ed_deschedule(f, u) ELSE Unskip(f, u)

\* One endpoint of finish_unlinks(): if its URB was to go, its TDs are taken off
\* and the URB returned; a URB submitted meanwhile goes on.
Unlinked(s, u, q) ==
  LET all == td_done(s, u, s.ed[u].list)
  IN  [(IF Finished(all, u) THEN finish_urb(all, u) ELSE all)
         EXCEPT !.stale = @ \/ \E k \in 1 .. Len(q) : q[k][1] = u]
Resumed(s, u) ==
  [s EXCEPT !.ed[u] = [@ EXCEPT !.state = "IDLE", !.skip = FALSE, !.dequeue = FALSE, !.halt = FALSE]]
\* The list without its member u.
TakenOff(rm, u) == RemoveAt(rm, CHOOSE k \in DOMAIN rm : rm[k] = u)

finish_unlinks(s, u, q) ==
  LET cut == [s EXCEPT !.rm = TakenOff(@, u)]
      fin == IF s.urb[u].del THEN Unlinked(cut, u, q) ELSE cut
  IN  IF fin.ed[u].list = {} THEN Emptied(fin, u)
      ELSE IF s.disabled THEN Resumed(fin, u)
      ELSE ed_schedule(Resumed(fin, u), u)

\* The control list goes on once nothing waits to be unlinked.
Reenable(s) == [s EXCEPT !.cle = @ \/ (s.ctl /\ s.rm = <<>> /\ ~s.disabled)]

Idle == [pc |-> "off", in |-> <<>>, list |-> <<>>, wait |-> {}, wdh |-> FALSE]

\* The loops of schedule_timeout() and wait_for_completion() poll a number of
\* times, that of ohci_endpoint_disable() and the timer tick for ever; between
\* two polls a millisecond or more, a frame, goes by.  schedule_timeout() polls
\* ten times more than it is told, and again from its start after a wakeup that
\* is not the caller's: such a wait is one with more Polls.
Counts == main.pc \in {"msg", "unlink"}
Waiting ==
  \/ main.pc = "idle"
  \/ Counts /\ main.n > 0 /\ ~o.urb[main.u].done
  \/ main.pc = "disable" /\ o.ed[main.u].state = "UNLINK" /\ ~o.disabled

Polling == irq.pc = "off" /\ main.frame /\ Waiting

\* Mutant: no poll is counted.
PolledForever == [main EXCEPT !.frame = main.pc = "idle"]

Polled == [main EXCEPT !.n = IF Counts THEN @ - 1 ELSE @, !.frame = main.pc = "idle"]

\* A poll finds WDH, an error or endpoints to unlink, or nothing at all.
Interrupt == ~o.disabled /\ (hc.wdh \/ hc.ue \/ o.rm # <<>>)

PollNothing == Polling /\ Counts /\ ~Interrupt /\ main' = Polled /\ UNCHANGED <<o, hc, irq>>

\* The done queue is taken from the HCCA; irq.in is what is left of it.
IrqEnter ==
  /\ Polling /\ Interrupt
  /\ o' = [o EXCEPT !.disabled = @ \/ hc.ue]
  /\ irq' = [Idle EXCEPT !.pc = "done", !.in = hc.head, !.wdh = hc.wdh]
  /\ hc' = [hc EXCEPT !.head = <<>>, !.ue = FALSE,
                      !.q = IF hc.ue THEN <<>> ELSE @]
  /\ UNCHANGED main

IrqReverse ==
  /\ irq.pc = "done" /\ irq.in # <<>>
  /\ LET td == Last(irq.in)
     IN  /\ o' = dl_reverse_done_list(o, td)
         /\ irq' = [irq EXCEPT !.in = Front(@), !.list = Reversed(o, td, @)]
  /\ UNCHANGED <<hc, main>>

IrqDone ==
  /\ irq.pc = "done" /\ irq.in = <<>> /\ irq.list # <<>>
  /\ o' = dl_done_list(o, Head(irq.list))
  /\ irq' = [irq EXCEPT !.list = Tail(@)]
  /\ UNCHANGED <<hc, main>>

\* The frame number is read once.
IrqUnlinks ==
  /\ irq.pc = "done" /\ irq.in = <<>> /\ irq.list = <<>>
  /\ irq' = [irq EXCEPT !.pc = "unlinks", !.wait = IF o.disabled THEN {} ELSE o.tick]
  /\ UNCHANGED <<o, hc, main>>

\* The first endpoint on the list that the controller has let go of.
Due(u) ==
  \E k \in DOMAIN o.rm : /\ o.rm[k] = u /\ u \notin irq.wait
                         /\ \A j \in 1 .. k - 1 : o.rm[j] \in irq.wait

IrqUnlink(u) ==
  /\ irq.pc = "unlinks" /\ Due(u)
  /\ o' = finish_unlinks(o, u, hc.q \o hc.head)
  /\ UNCHANGED <<hc, irq, main>>

\* The end of finish_unlinks(), the acknowledgement and, when the controller
\* died in this call, usb_hc_died().
IrqEnd ==
  /\ irq.pc = "unlinks" /\ ToSet(o.rm) \subseteq irq.wait
  /\ o' = IF o.disabled
          THEN [o EXCEPT !.urb = [u \in Urb |-> IF o.urb[u].hcpriv /\ o.urb[u].status = "prog"
                                                THEN [o.urb[u] EXCEPT !.status = "shutdown"] ELSE o.urb[u]]]
          ELSE Reenable(o)
  /\ hc' = [hc EXCEPT !.wdh = @ /\ ~irq.wdh]
  /\ irq' = Idle
  /\ main' = Polled

---------------------------------------------------------------------------
(* The controller.                                                         *)

\* It works on an endpoint that is on the schedule and not skipped, or that was
\* taken off it in this frame. Only an interrupt endpoint's stall is told apart
\* from other errors (td_done).
HcRetire(u) ==
  LET e == o.ed[u]
  IN  /\ ~o.disabled /\ ~hc.ue /\ ~e.halt /\ e.head <= Length(u) /\ e.list # {}
      /\ (Scheduled(o, u) /\ ~e.skip) \/ u \in o.tick
      /\ \E cc \in {"ok", "err"} \cup (IF u = Ctl THEN {} ELSE {"stall"}) :
           o' = [o EXCEPT !.ed[u] = [e EXCEPT !.head = e.head + 1, !.halt = cc # "ok",
                                              !.bad = IF cc = "ok" THEN 0 ELSE e.head, !.cc = cc]]
      /\ hc' = [hc EXCEPT !.q = Append(@, <<u, e.head>>)]
      /\ UNCHANGED <<irq, main>>

\* The last TD of a URB and one that failed are reported at the next frame, the
\* others up to six frames later (DI).
Urgent == \E k \in 1 .. Len(hc.q) :
            LET td == hc.q[k] IN td[2] = Length(td[1]) \/ o.ed[td[1]].bad = td[2]

\* A frame begins: the done queue is written back if the last one was taken.
HcFrame ==
  /\ \E writeback \in BOOLEAN :
       /\ writeback => hc.q # <<>> /\ ~hc.wdh
       /\ ~writeback => hc.q = <<>> \/ hc.wdh \/ ~Urgent
       /\ hc' = IF writeback THEN [hc EXCEPT !.head = hc.q, !.q = <<>>, !.wdh = TRUE] ELSE hc
  /\ o' = [o EXCEPT !.tick = {}]
  /\ main' = [main EXCEPT !.frame = TRUE]
  /\ UNCHANGED irq

\* An unrecoverable error.
HcError ==
  /\ ~o.disabled /\ ~hc.ue /\ hc' = [hc EXCEPT !.ue = TRUE]
  /\ UNCHANGED <<o, irq, main>>

---------------------------------------------------------------------------
(* The code that starts and ends requests.                                 *)

AtRest == main.pc = "idle" /\ irq.pc = "off"

\* probe() of a driver; whether it is seen as bound is left open for the one
\* that returns no value.
Probe(u) ==
  /\ AtRest /\ o.dev[u] = "none"
  /\ \E b \in (IF u \in Unbindable THEN BOOLEAN ELSE {TRUE}) :
       o' = usb_submit_urb(Dev([o EXCEPT !.urb[u] = [FreshUrb EXCEPT !.bound = b]], u, "here"), u)
  /\ UNCHANGED <<hc, irq, main>>

\* What is left of a URB once it is freed.
usb_free_urb(s, u) ==
  [s EXCEPT !.urb[u] = IF @.hcpriv THEN [@ EXCEPT !.freed = TRUE, !.bound = FALSE]
                       ELSE [FreshUrb EXCEPT !.freed = TRUE]]

\* usb_unlink_urb() and what the caller does next: wait, or free the URB.
UnlinkThen(s, u, next) ==
  IF Unlinks(s, u)
  THEN o' = hcd_unlink_urb(s, u) /\ main' = [pc |-> "unlink", u |-> u, n |-> Polls, frame |-> TRUE]
  ELSE /\ o' = usb_free_urb(s, u)
       /\ main' = [pc |-> next, u |-> IF next = "idle" THEN None ELSE u, n |-> 0, frame |-> TRUE]

\* Mutant: the device still counts as attached.
LeaveLate(s, u) == s

\* The device leaves the tree first, so that nothing can be submitted for it.
Leave(s, u) == Dev(s, u, "gone")

\* usb_disconnect() up to the driver's disconnect().
Disconnect(u) ==
  /\ AtRest /\ o.dev[u] \in {"here", "halted"}
  /\ IF o.urb[u].bound THEN UnlinkThen(Leave(o, u), u, "kill")
     ELSE o' = Leave(o, u) /\ main' = [pc |-> "kill", u |-> u, n |-> 0, frame |-> TRUE]
  /\ UNCHANGED <<hc, irq>>

\* my_wait_for_completion() ends: the URB came back, or the polls ran out. It
\* waits after every poll, the last one too.
UnlinkReturns ==
  /\ main.pc = "unlink" /\ irq.pc = "off" /\ main.frame /\ (o.urb[main.u].done \/ main.n = 0)
  /\ o' = usb_free_urb(o, main.u)
  /\ main' = [main EXCEPT !.pc = IF main.u = Ctl THEN "idle" ELSE "kill", !.n = 0, !.frame = TRUE,
                          !.u = IF @ = Ctl THEN None ELSE @]
  /\ UNCHANGED <<hc, irq>>

DisableEndpoint ==
  /\ main.pc = "kill" /\ irq.pc = "off"
  /\ o' = hcd_endpoint_disable(o, main.u)
  /\ main' = [main EXCEPT !.pc = "disable"]
  /\ UNCHANGED <<hc, irq>>

EndpointDisabled ==
  /\ main.pc = "disable" /\ irq.pc = "off" /\ (o.disabled \/ o.ed[main.u].state # "UNLINK")
  /\ o' = ohci_endpoint_disable(o, main.u)
  /\ main' = [pc |-> "idle", u |-> None, n |-> 0, frame |-> TRUE]
  /\ UNCHANGED <<hc, irq>>

\* usb_control_msg(): submit and wait.
ControlMsg ==
  /\ AtRest
  /\ LET s == usb_submit_urb([o EXCEPT !.urb[Ctl] = FreshUrb], Ctl)
     IN  /\ o' = IF s.urb[Ctl].hcpriv THEN s ELSE usb_free_urb(s, Ctl)
         /\ main' = IF s.urb[Ctl].hcpriv THEN [pc |-> "msg", u |-> Ctl, n |-> Polls, frame |-> TRUE] ELSE main
  /\ UNCHANGED <<hc, irq>>

\* usb_start_wait_urb() after the wait: done, or out of time and the URB is
\* unlinked unless its status says that it was returned.
MsgReturns ==
  /\ main.pc = "msg" /\ irq.pc = "off" /\ (o.urb[Ctl].done \/ main.n = 0)
  /\ IF ~o.urb[Ctl].done /\ o.urb[Ctl].status = "prog"
     THEN UnlinkThen(o, Ctl, "idle")
     ELSE o' = usb_free_urb(o, Ctl) /\ main' = [pc |-> "idle", u |-> None, n |-> 0, frame |-> TRUE]
  /\ UNCHANGED <<hc, irq>>

---------------------------------------------------------------------------

Init ==
  /\ o = [urb |-> [u \in Urb |-> [FreshUrb EXCEPT !.freed = TRUE]], ed |-> [u \in Urb |-> FreshEd],
          dev |-> [u \in Urb |-> IF u = Ctl THEN "here" ELSE "none"],
          tree |-> [periodic |-> [i \in Branch |-> None], load |-> [i \in Branch |-> 0],
                    next |-> [u \in Urb |-> None], branch |-> [u \in Urb |-> 0]], rm |-> <<>>,
          tick |-> {}, ctl |-> FALSE, cle |-> FALSE, disabled |-> FALSE, stale |-> FALSE]
  /\ hc = [q |-> <<>>, head |-> <<>>, wdh |-> FALSE, ue |-> FALSE]
  /\ irq = Idle
  /\ main = [pc |-> "idle", u |-> None, n |-> 0, frame |-> TRUE]

IrqStep == IrqEnter \/ IrqReverse \/ IrqDone \/ IrqUnlinks \/ (\E u \in Urb : IrqUnlink(u)) \/ IrqEnd
MainStep == UnlinkReturns \/ DisableEndpoint \/ EndpointDisabled \/ MsgReturns \/ PollNothing

\* A TD that was freed while the controller still had it ends the model: its
\* memory is read as something else.
Next ==
  /\ ~o.stale
  /\ \/ IrqStep \/ MainStep \/ ControlMsg \/ HcFrame \/ HcError
     \/ \E u \in Urb : HcRetire(u)
     \/ \E u \in IntUrb : Probe(u) \/ Disconnect(u)

\* Weak fairness of the handler, of a poll that is due and of the code after a
\* wait, each written as the condition under which it can run and which only it
\* ends; frames begin.
PollDue == Polling /\ (Interrupt \/ Counts)
Resumes == irq.pc = "off" /\ main.pc # "idle" /\ ~Waiting /\ (main.pc = "unlink" => main.frame)

Fairness ==
  /\ []<>(irq.pc = "off" \/ o.stale) /\ []<>(~PollDue \/ o.stale) /\ []<>(~Resumes \/ o.stale)
  /\ WF_vars(~o.stale /\ HcFrame)

Spec == Init /\ [][Next]_vars /\ Fairness

---------------------------------------------------------------------------
(* Properties.                                                             *)

InDone(u) == \E td \in ToSet(hc.q) \cup ToSet(hc.head) \cup ToSet(irq.in) \cup ToSet(irq.list) : td[1] = u

\* A URB the drivers wait for is always where something will return it: on the
\* schedule and not skipped, on the list of endpoints to unlink, in a done
\* queue, or held back until the control list is enabled again
\* (ed_schedule, dl_done_list, finish_unlinks).
NoLostUrb ==
  ~o.stale /\ ~o.disabled => \A u \in Urb : o.urb[u].hcpriv =>
    \/ Scheduled(o, u) /\ ~o.ed[u].skip
    \/ u \in ToSet(o.rm)
    \/ InDone(u)
    \/ u = Ctl /\ o.ctl /\ (o.rm # <<>> \/ irq.pc # "off")

\* No URB is freed while the host controller driver still has it, however the
\* unlink raced its completion (hcd_unlink_urb, usb_start_wait_urb,
\* my_wait_for_completion gives up after 100 polls).
FreedIsReturned ==
  ~o.stale /\ ~o.disabled => \A u \in Urb : o.urb[u].freed => ~o.urb[u].hcpriv

\* The periodic tree: the chain of every branch holds exactly the operational
\* endpoints of that branch, slow ones first (periodic_link, periodic_unlink).
TreeSound ==
  ~o.stale /\ ~o.disabled => \A i \in Branch :
    LET chain[p \in Link] ==
          IF Follow(o.tree, p) = None THEN <<>> ELSE <<Follow(o.tree, p)>> \o chain[Follow(o.tree, p)]
        c == chain[i]
    IN  /\ ToSet(c) = {u \in IntUrb : o.ed[u].state = "OPER" /\ i \in OnBranch(o.tree, u)}
        /\ \A k \in 1 .. Len(c) - 1 : Interval[c[k]] >= Interval[c[k + 1]]

\* A control message returns, answered or not, and so does a disconnect: no
\* loop waits for an interrupt that does not come.
WaitsEnd == []<>(main.pc = "idle" \/ o.stale)
=============================================================================
