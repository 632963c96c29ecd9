---------------------------- MODULE SmBusProofs ----------------------------
(***************************************************************************)
(* Proof that the SMBus transfers serve whom they are made for, for every  *)
(* set of devices and requests and any number of retries, interrupts and   *)
(* bus errors.                                                             *)
(*                                                                         *)
(* The controller's registers are shared without a lock.  What saves the   *)
(* interrupt handler is that it spins until the bus is free and that the   *)
(* main program stands still while it runs; what saves an undisturbed call *)
(* of the main program is that the handler did not run.  SmBusInv says so  *)
(* of the context that owns the controller (Owns): the registers hold its  *)
(* request as far as it has written them, the transfer in flight is its    *)
(* own, and the done bit it polls speaks of that transfer.                 *)
(***************************************************************************)
EXTENDS SmBus, TLAPS

Places ==
    {"idle", "spin", "addr", "reg", "data", "clear", "wipe", "kick", "poll", "fetch"}
Requests == [rw : {"r", "w"}, dev : Devs, reg : Regs, val : Vals]

TypeOK ==
    /\ who \in Ctx
    /\ pc \in [Ctx -> Places]
    /\ op \in [Ctx -> Requests \cup {NoOp}]
    /\ ret \in [Ctx -> [ok : BOOLEAN, val : Vals]]
    /\ port \in Requests
    /\ flight \in Requests \cup {NoOp}
    /\ mem \in [Devs \X Regs -> Vals]
    /\ status \subseteq {"done", "error"}
    /\ seen \in [Ctx -> SUBSET {"done", "error"}]
    /\ disturbed \in BOOLEAN

(* The handler is in a call only while it runs, and the main program is in *)
(* an undisturbed call only while the handler does not run.                *)
OneOwner ==
    /\ pc["isr"] # "idle" => who = "isr"
    /\ pc["main"] # "idle" /\ ~disturbed => who = "main"

Owns(c) == pc[c] # "idle" /\ (c = "main" => ~disturbed)

(* Whose request the registers, or the transfer in flight, hold.           *)
Addresses(r, o) == r.dev = o.dev /\ r.rw = o.rw
Holds(r, o) == Addresses(r, o) /\ r.reg = o.reg /\ (o.rw = "w" => r.val = o.val)

(* What the request of context c wants is there.                           *)
Result(c) ==
    IF op[c].rw = "r" THEN port.val = mem[<<op[c].dev, op[c].reg>>]
                      ELSE mem[<<op[c].dev, op[c].reg>>] = op[c].val

Progress(c) ==
    /\ pc[c] \in {"addr", "reg", "data", "clear", "wipe", "kick", "fetch"} => flight = NoOp
    /\ pc[c] \in {"reg", "data", "clear", "wipe", "kick"} => Addresses(port, op[c])
    /\ pc[c] = "data" => port.reg = op[c].reg /\ op[c].rw = "w"
    /\ pc[c] \in {"clear", "wipe", "kick"} => Holds(port, op[c])
    /\ pc[c] = "wipe" => seen[c] = status
    /\ pc[c] = "kick" => status = {}
    /\ pc[c] = "poll" /\ flight # NoOp => status = {} /\ Holds(flight, op[c])
    /\ pc[c] = "poll" /\ "done" \in status => Result(c)
    /\ pc[c] = "fetch" => Result(c)

InCall(c) == pc[c] # "idle" => op[c] \in Requests

SmBusInv ==
    /\ TypeOK
    /\ OneOwner
    /\ \A c \in Ctx : InCall(c)
    /\ \A c \in Ctx : Owns(c) => Progress(c)

-----------------------------------------------------------------------------
LEMMA NoOpIsNoRequest == NoOp \notin Requests
  BY DEF NoOp, Requests

LEMMA InitSmBus == Init => SmBusInv
  <1> SUFFICES ASSUME Init PROVE SmBusInv
    OBVIOUS
  <1> USE SmBusAssumption
  <1>1. (CHOOSE d \in Devs : TRUE) \in Devs /\ (CHOOSE r \in Regs : TRUE) \in Regs
        /\ (CHOOSE v \in Vals : TRUE) \in Vals
    OBVIOUS
  <1>2. TypeOK
    BY <1>1 DEF Init, TypeOK, Ctx, Places, Requests
  <1>3. OneOwner /\ \A c \in Ctx : InCall(c) /\ ~Owns(c)
    BY DEF Init, OneOwner, InCall, Owns, Ctx
  <1> QED
    BY <1>2, <1>3 DEF SmBusInv

(* Only the context that executes moves, and no other one owns the         *)
(* controller then.                                                        *)
LEMMA OnlyOwner ==
    ASSUME SmBusInv, NEW c \in Ctx, who = c, NEW d \in Ctx, d # c
    PROVE  ~Owns(d)
  BY DEF SmBusInv, OneOwner, Owns, Ctx

-----------------------------------------------------------------------------
(* The steps of a context.                                                 *)
LEMMA BeginKeeps ==
    ASSUME SmBusInv, NEW c \in Ctx, NEW o \in Requests, Begin(c, o),
           disturbed' \in BOOLEAN, c = "isr" => disturbed' = disturbed,
           c = "main" => ~disturbed'
    PROVE  SmBusInv'
  <1> USE DEF Ctx
  <1>1. TypeOK'
    BY DEF SmBusInv, TypeOK, Begin, At, Goto, Places
  <1>2. OneOwner'
    BY DEF SmBusInv, TypeOK, OneOwner, Begin, At, Goto
  <1>3. \A d \in Ctx : InCall(d)'
    BY DEF SmBusInv, TypeOK, InCall, Begin, At, Goto
  <1>4. ASSUME NEW d \in Ctx, Owns(d)' PROVE Progress(d)'
    <2>1. CASE d = c
      BY <2>1 DEF SmBusInv, TypeOK, Progress, Begin, At, Goto
    <2>2. CASE d # c
      <3>1. ~Owns(d)'
        BY <2>2 DEF SmBusInv, TypeOK, OneOwner, Owns, Begin, At, Goto
      <3> QED
        BY <3>1, <1>4
    <2> QED
      BY <2>1, <2>2
  <1> QED
    BY <1>1, <1>2, <1>3, <1>4 DEF SmBusInv

LEMMA StepTypes ==
    ASSUME SmBusInv, NEW c \in Ctx, Step(c)
    PROVE  /\ TypeOK' /\ who = c /\ who' = c /\ disturbed' = disturbed
           /\ \A d \in Ctx : InCall(d)'
           /\ \A d \in Ctx : d # c => pc'[d] = pc[d] /\ op'[d] = op[d]
  <1> USE DEF Ctx
  <1> TypeOK /\ pc[c] \in Places /\ \A d \in Ctx : InCall(d)
    BY DEF SmBusInv, TypeOK
  <1>1. CASE Spin(c)
    BY <1>1 DEF TypeOK, InCall, Spin, NoSpin, At, Goto, Places
  <1>2. CASE SetAddr(c)
    <2>1. op[c] \in Requests
      BY <1>2 DEF InCall, SetAddr, Attempt, At
    <2>2. port' \in Requests
      BY <1>2, <2>1 DEF TypeOK, SetAddr, Attempt, Requests
    <2> QED
      BY <1>2, <2>2 DEF TypeOK, InCall, SetAddr, Attempt, At, Goto, Places
  <1>3. CASE GiveUp(c)
    <2>1. ret' \in [Ctx -> [ok : BOOLEAN, val : Vals]]
      BY <1>3 DEF TypeOK, GiveUp
    <2> QED
      BY <1>3, <2>1 DEF TypeOK, InCall, GiveUp, At, Goto, Places
  <1>4. CASE SetReg(c)
    <2>1. op[c] \in Requests
      BY <1>4 DEF InCall, SetReg, At
    <2>2. port' \in Requests
      BY <1>4, <2>1 DEF TypeOK, SetReg, Requests
    <2> QED
      BY <1>4, <2>2 DEF TypeOK, InCall, SetReg, At, Goto, Places
  <1>4a. CASE SetData(c)
    <2>1. op[c] \in Requests
      BY <1>4a DEF InCall, SetData, At
    <2>2. port' \in Requests
      BY <1>4a, <2>1 DEF TypeOK, SetData, Requests
    <2> QED
      BY <1>4a, <2>2 DEF TypeOK, InCall, SetData, At, Goto, Places
  <1>4b. CASE ReadStatus(c)
    <2>1. seen' \in [Ctx -> SUBSET {"done", "error"}]
      BY <1>4b DEF TypeOK, ReadStatus
    <2> QED
      BY <1>4b, <2>1 DEF TypeOK, InCall, ReadStatus, At, Goto, Places
  <1>5. CASE Clear(c)
    <2>1. seen' \in [Ctx -> SUBSET {"done", "error"}] /\ status' \subseteq {"done", "error"}
      BY <1>5 DEF TypeOK, Clear
    <2> QED
      BY <1>5, <2>1 DEF TypeOK, InCall, Clear, At, Goto, Places
  <1>6. CASE Kick(c)
    BY <1>6 DEF TypeOK, InCall, Kick, At, Goto, Places
  <1>7. CASE Poll(c)
    BY <1>7 DEF TypeOK, InCall, Poll, At, Goto, Places
  <1>8. CASE Fetch(c)
    <2>1. ret' \in [Ctx -> [ok : BOOLEAN, val : Vals]]
      BY <1>8 DEF TypeOK, Fetch, Requests
    <2> QED
      BY <1>8, <2>1 DEF TypeOK, InCall, Fetch, At, Goto, Places
  <1> QED
    BY <1>1, <1>2, <1>3, <1>4, <1>5, <1>6, <1>7, <1>8, <1>4a, <1>4b DEF Step

LEMMA StepProgress ==
    ASSUME SmBusInv, NEW c \in Ctx, Step(c), Owns(c)
    PROVE  pc'[c] = "idle" \/ Progress(c)'
  <1> USE DEF Ctx
  <1> TypeOK /\ Progress(c) /\ op[c] \in Requests
    BY DEF SmBusInv, InCall, Owns
  <1> USE NoOpIsNoRequest
  <1>1. CASE Spin(c)
    BY <1>1 DEF TypeOK, Progress, Spin, NoSpin, At, Goto
  <1>2. CASE SetAddr(c)
    <2>1. Addresses(port', op[c])
      BY <1>2 DEF TypeOK, SetAddr, Attempt, Requests, Addresses
    <2> QED
      BY <1>2, <2>1 DEF TypeOK, Progress, SetAddr, Attempt, At, Goto
  <1>3. CASE GiveUp(c)
    BY <1>3 DEF TypeOK, GiveUp, At, Goto
  <1>4. CASE SetReg(c)
    <2>1. Addresses(port, op[c]) /\ flight = NoOp
      BY <1>4 DEF Progress, SetReg, At
    <2>2. Addresses(port', op[c]) /\ port'.reg = op[c].reg
      BY <1>4, <2>1 DEF TypeOK, SetReg, Requests, Addresses
    <2>3. CASE op[c].rw = "w"
      BY <1>4, <2>1, <2>2, <2>3 DEF TypeOK, Progress, SetReg, At, Goto
    <2>4. CASE op[c].rw # "w"
      BY <1>4, <2>1, <2>2, <2>4 DEF TypeOK, Progress, Holds, SetReg, At, Goto
    <2> QED
      BY <2>3, <2>4
  <1>4a. CASE SetData(c)
    <2>1. /\ Addresses(port, op[c]) /\ flight = NoOp
          /\ port.reg = op[c].reg /\ op[c].rw = "w"
      BY <1>4a DEF Progress, SetData, At
    <2>2. Holds(port', op[c])
      BY <1>4a, <2>1 DEF TypeOK, SetData, Requests, Addresses, Holds
    <2> QED
      BY <1>4a, <2>1, <2>2 DEF TypeOK, Progress, Holds, SetData, At, Goto
  <1>4b. CASE ReadStatus(c)
    <2>1. flight = NoOp /\ Holds(port, op[c]) /\ Addresses(port, op[c])
      BY <1>4b DEF Progress, Holds, ReadStatus, At
    <2>2. seen'[c] = status /\ pc'[c] = "wipe"
      BY <1>4b DEF TypeOK, ReadStatus, Goto
    <2> QED
      BY <1>4b, <2>1, <2>2 DEF Progress, Holds, Addresses, ReadStatus
  <1>5. CASE Clear(c)
    <2>1. flight = NoOp /\ Holds(port, op[c]) /\ status' = {}
      BY <1>5 DEF Progress, Clear, At
    <2>2. pc'[c] = "kick"
      BY <1>5 DEF TypeOK, Clear, Goto
    <2> QED
      BY <1>5, <2>1, <2>2 DEF Progress, Holds, Addresses, Clear
  <1>6. CASE Kick(c)
    <2>1. flight = NoOp /\ Holds(port, op[c]) /\ status = {}
      BY <1>6 DEF Progress, Kick, At
    <2> QED
      BY <1>6, <2>1 DEF TypeOK, Progress, Kick, At, Goto
  <1>7. CASE Poll(c)
    <2>1. flight = NoOp /\ ("done" \in status => Result(c))
      BY <1>7 DEF TypeOK, Progress, Poll, At
    <2>2. Result(c)' = Result(c)
      BY <1>7 DEF Result, Poll
    <2> QED
      BY <1>7, <2>1, <2>2 DEF TypeOK, Progress, Poll, At, Goto
  <1>8. CASE Fetch(c)
    BY <1>8 DEF TypeOK, Fetch, At, Goto
  <1> QED
    BY <1>1, <1>2, <1>3, <1>4, <1>5, <1>6, <1>7, <1>8, <1>4a, <1>4b DEF Step

LEMMA StepKeeps ==
    ASSUME SmBusInv, NEW c \in Ctx, Step(c)
    PROVE  SmBusInv'
  <1> USE DEF Ctx
  <1>1. /\ TypeOK' /\ who = c /\ who' = c /\ disturbed' = disturbed
        /\ \A d \in Ctx : InCall(d)'
        /\ \A d \in Ctx : d # c => pc'[d] = pc[d] /\ op'[d] = op[d]
    BY StepTypes
  <1>2. OneOwner'
    BY <1>1 DEF SmBusInv, OneOwner
  <1>3. pc[c] # "idle"
    BY DEF Step, Spin, NoSpin, SetAddr, Attempt, GiveUp, SetReg, SetData, ReadStatus, Clear,
           Kick, Poll, Fetch, At
  <1>4. ASSUME NEW d \in Ctx, Owns(d)' PROVE Progress(d)'
    <2>1. d = c
      BY <1>1, <1>4, OnlyOwner DEF Owns
    <2>2. Owns(c)
      BY <1>1, <1>3, <1>4, <2>1 DEF Owns
    <2> QED
      BY <1>4, <2>1, <2>2, StepProgress DEF Owns
  <1> QED
    BY <1>1, <1>2, <1>4 DEF SmBusInv

-----------------------------------------------------------------------------
(* The controller ends the transfer in flight: if a context that owns the  *)
(* controller waits for it, it is that context's transfer.                 *)
LEMMA CompleteKeeps ==
    ASSUME SmBusInv, Complete PROVE SmBusInv'
  <1> USE DEF Ctx
  <1> TypeOK
    BY DEF SmBusInv
  <1>1. flight \in Requests /\ <<flight.dev, flight.reg>> \in Devs \X Regs
    BY DEF TypeOK, Complete, Requests
  <1>2. mem' \in [Devs \X Regs -> Vals] /\ port' \in Requests
    BY <1>1 DEF TypeOK, Complete, Requests
  <1>3. TypeOK'
    BY <1>2 DEF TypeOK, Complete
  <1>4. OneOwner' /\ \A c \in Ctx : InCall(c)'
    BY DEF SmBusInv, OneOwner, InCall, Complete
  <1>5. ASSUME NEW c \in Ctx, Owns(c)' PROVE Progress(c)'
    <2>1. Owns(c) /\ Progress(c) /\ op[c] \in Requests /\ flight # NoOp
      BY <1>5 DEF SmBusInv, InCall, Owns, Complete
    <2>2. pc[c] \in {"spin", "poll"}
      BY <2>1 DEF TypeOK, Progress, Owns, Places
    <2>3. CASE pc[c] = "spin"
      BY <2>3 DEF Progress, Complete
    <2>4. CASE pc[c] = "poll"
      <3>1. Holds(flight, op[c])
        BY <2>1, <2>4 DEF Progress
      <3>2. Result(c)'
        <4>1. CASE flight.rw = "w"
          <5>1. mem'[<<flight.dev, flight.reg>>] = flight.val
            BY <1>1, <4>1 DEF Complete, TypeOK
          <5> QED
            BY <3>1, <4>1, <5>1 DEF Result, Holds, Addresses, Complete
        <4>2. CASE flight.rw # "w"
          <5>1. port'.val = mem[<<flight.dev, flight.reg>>] /\ mem' = mem
            BY <1>1, <4>2 DEF Complete, TypeOK, Requests
          <5>2. op[c].rw = "r"
            BY <2>1, <3>1, <4>2 DEF Holds, Addresses, Requests
          <5> QED
            BY <3>1, <5>1, <5>2 DEF Result, Holds, Addresses, Complete
        <4> QED
          BY <4>1, <4>2
      <3> QED
        BY <2>4, <3>2 DEF Progress, Complete
    <2> QED
      BY <2>2, <2>3, <2>4
  <1> QED
    BY <1>3, <1>4, <1>5 DEF SmBusInv

LEMMA FaultKeeps ==
    ASSUME SmBusInv, Fault PROVE SmBusInv'
  <1> USE DEF Ctx
  <1>1. TypeOK'
    BY DEF SmBusInv, TypeOK, Fault
  <1>2. OneOwner' /\ \A c \in Ctx : InCall(c)'
    BY DEF SmBusInv, OneOwner, InCall, Fault
  <1>3. ASSUME NEW c \in Ctx, Owns(c)' PROVE Progress(c)'
    <2>1. Owns(c) /\ Progress(c) /\ flight # NoOp
      BY <1>3 DEF SmBusInv, Owns, Fault
    <2>2. pc[c] \in {"spin", "poll"}
      BY <2>1 DEF SmBusInv, TypeOK, Progress, Owns, Places
    <2>3. "done" \in status' => "done" \in status /\ pc[c] # "poll"
      BY <2>1 DEF Progress, Fault
    <2> QED
      BY <2>1, <2>2, <2>3 DEF Progress, Fault
  <1> QED
    BY <1>1, <1>2, <1>3 DEF SmBusInv

(* The handler starts and ends between two calls of its own; its start     *)
(* disturbs a call of the main program.                                    *)
LEMMA SwitchKeeps ==
    ASSUME SmBusInv, Interrupt \/ Iret PROVE SmBusInv'
  <1> USE DEF Ctx
  <1>1. TypeOK' /\ pc' = pc /\ op' = op /\ pc["isr"] = "idle"
    BY DEF SmBusInv, TypeOK, OneOwner, Interrupt, Iret, At
  <1>2. OneOwner'
    BY <1>1 DEF SmBusInv, TypeOK, OneOwner, Interrupt, Iret, At
  <1>3. \A c \in Ctx : InCall(c)'
    BY <1>1 DEF SmBusInv, InCall
  <1>4. ASSUME NEW c \in Ctx, Owns(c)' PROVE Progress(c)'
    <2>1. c = "main" /\ Owns(c)
      BY <1>1, <1>4 DEF SmBusInv, TypeOK, Owns, Interrupt, Iret
    <2> QED
      BY <2>1 DEF SmBusInv, Progress, Result, Interrupt, Iret
  <1> QED
    BY <1>1, <1>2, <1>3, <1>4 DEF SmBusInv

LEMMA NextKeeps == SmBusInv /\ [Next]_vars => SmBusInv'
  <1> SUFFICES ASSUME SmBusInv, [Next]_vars PROVE SmBusInv'
    OBVIOUS
  <1> MainOps \cup IsrOps \cup {Query} \subseteq Requests
    BY SmBusAssumption DEF Requests
  <1>1. ASSUME NEW o \in MainOps, BeginMain(o) PROVE SmBusInv'
    BY <1>1, BeginKeeps DEF BeginMain, Ctx
  <1>2. ASSUME NEW o \in IsrOps \cup {Query}, BeginIsr(o) PROVE SmBusInv'
    BY <1>2, BeginKeeps DEF BeginIsr, Ctx, SmBusInv, TypeOK
  <1>3. CASE UNCHANGED vars
    BY <1>3 DEF vars, SmBusInv, TypeOK, OneOwner, InCall, Owns, Progress, Result
  <1> QED
    BY <1>1, <1>2, <1>3, StepKeeps, CompleteKeeps, FaultKeeps, SwitchKeeps DEF Next

(* The owner of the controller is one, its registers and the transfer in   *)
(* flight are its own (WriteToSMBus, ReadfromSMBus).                       *)
THEOREM SmBusInvariant == Spec => []SmBusInv
  BY InitSmBus, NextKeeps, PTL DEF Spec

(* A call that an interrupt did not disturb returns success only if the    *)
(* register was read, or written, as asked; the interrupt handler's calls  *)
(* always do, whatever transfer they interrupted.                          *)
THEOREM TransfersAlwaysServed == Spec => TransfersServed
  <1>1. ASSUME SmBusInv, [Next]_vars, NEW c \in Ctx, Returns(c),
               c = "main" => ~disturbed
        PROVE  Served(c)
    <2> USE DEF Ctx
    <2>1. TypeOK
      BY <1>1 DEF SmBusInv
    <2>2. Owns(c) /\ Progress(c)
      BY <1>1 DEF SmBusInv, Owns, Returns
    <2>3. GiveUp(c) \/ Fetch(c)
      <3>1. pc' # pc /\ pc[c] # "idle" /\ pc'[c] = "idle" /\ pc \in [Ctx -> Places]
        BY <1>1, <2>1 DEF Returns, TypeOK
      <3>2. ASSUME NEW d \in Ctx, Step(d) PROVE GiveUp(c) \/ Fetch(c)
        <4>1. d = c
          BY <1>1, <3>1, <3>2, StepTypes
        <4> QED
          BY <3>1, <3>2, <4>1 DEF Step, Spin, NoSpin, SetAddr, Attempt, SetReg, SetData,
             ReadStatus, Clear, Kick, Poll, At, Goto
      <3>3. ~(\E o \in MainOps : BeginMain(o)) /\ ~(\E o \in IsrOps \cup {Query} : BeginIsr(o))
        BY <3>1 DEF BeginMain, BeginIsr, Begin, At, Goto
      <3>4. ~Complete /\ ~Fault /\ ~Interrupt /\ ~Iret /\ ~UNCHANGED vars
        BY <3>1 DEF Complete, Fault, Interrupt, Iret, vars
      <3> QED
        BY <1>1, <3>2, <3>3, <3>4 DEF Next
    <2>4. CASE GiveUp(c)
      BY <2>1, <2>4 DEF Served, GiveUp, TypeOK
    <2>5. CASE Fetch(c)
      <3>1. Result(c) /\ ret'[c].val = port.val
        BY <2>1, <2>2, <2>5 DEF Progress, Fetch, At, TypeOK
      <3> QED
        BY <2>5, <3>1 DEF Served, Result, Fetch
    <2> QED
      BY <2>3, <2>4, <2>5
  <1>2. SmBusInv /\ [Next]_vars =>
          [\A c \in Ctx : Returns(c) /\ (c = "main" => ~disturbed) => Served(c)]_vars
    BY <1>1
  <1> QED
    BY <1>2, SmBusInvariant, PTL DEF Spec, TransfersServed
=============================================================================
