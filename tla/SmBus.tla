------------------------------- MODULE SmBus -------------------------------
(***************************************************************************)
(* WriteToSMBus() and ReadfromSMBus() of drivers/pci/i2cio.c over the      *)
(* registers of the SMBus controller, which the main program and the SMC   *)
(* interrupt handler share without a lock.  Each access to a controller    *)
(* register is a step; the handler may run between any two steps of the    *)
(* main program and runs to its iret.                                      *)
(*                                                                         *)
(* The controller is external: it copies its address, register and data    *)
(* registers when the command register is written, keeps the busy bit set  *)
(* while the transfer runs and then sets the done bit or an error bit.     *)
(***************************************************************************)
EXTENDS Integers, FiniteSets

CONSTANTS Devs, Regs, Vals,   \* SMBus devices, their registers, byte values
          MainOps, IsrOps,    \* the requests the two contexts make
          Query,              \* the handler's first: what is the interrupt's reason
          Retries,            \* nRetriesToLive, 50 in the code
          IsrTransfers,       \* transfers one run of the handler makes at most
          MaxIsr,             \* interrupts in a behaviour
          MaxErrors           \* transfers that fail in a behaviour

ASSUME SmBusAssumption ==
    /\ Devs # {} /\ Regs # {} /\ Vals # {}
    /\ Retries \in Nat \ {0} /\ IsrTransfers \in Nat \ {0} /\ MaxIsr \in Nat /\ MaxErrors \in Nat
    /\ MainOps \cup IsrOps \cup {Query} \subseteq
          [rw : {"r", "w"}, dev : Devs, reg : Regs, val : Vals]

Ctx == {"main", "isr"}
NoOp == [rw |-> "-"]

VARIABLES who,      \* the context the processor runs
          op,       \* the request of each context, NoOp outside a call
          pc,       \* where each context is
          tries,    \* attempts left after the current one
          ret,      \* what the last call of each context returned
          port,     \* the controller's address, register and data registers
          status,   \* the controller's done and error bits
          seen,     \* the status bits each context has read and will write back
          flight,   \* the transfer in progress, NoOp when the bus is free
          mem,      \* the devices' registers
          disturbed,\* ghost: the handler ran since the main program's call began
          left,     \* transfers the running handler may still make
          isrs, errs \* counters of the bounds

vars == <<who, op, pc, tries, ret, port, status, seen, flight, mem, disturbed, left, isrs, errs>>

Init ==
    /\ who = "main"
    /\ op = [c \in Ctx |-> NoOp]
    /\ pc = [c \in Ctx |-> "idle"]
    /\ tries = [c \in Ctx |-> 0]
    /\ ret = [c \in Ctx |-> [ok |-> TRUE, val |-> CHOOSE v \in Vals : TRUE]]
    /\ port \in [rw : {"w"}, dev : {CHOOSE d \in Devs : TRUE},
                 reg : {CHOOSE r \in Regs : TRUE}, val : {CHOOSE v \in Vals : TRUE}]
    /\ status = {}
    /\ seen = [c \in Ctx |-> {}]
    /\ flight = NoOp
    /\ mem \in [Devs \X Regs -> {CHOOSE v \in Vals : TRUE}]
    /\ disturbed = FALSE
    /\ left = 0 /\ isrs = 0 /\ errs = 0

At(c, from) == who = c /\ pc[c] = from
Goto(c, to) == pc' = [pc EXCEPT ![c] = to]

-----------------------------------------------------------------------------
(* A call begins: the retry counter.                                       *)
Begin(c, o) ==
    /\ At(c, "idle") /\ Goto(c, "spin")
    /\ op' = [op EXCEPT ![c] = o]
    /\ tries' = [tries EXCEPT ![c] = Retries]
    /\ UNCHANGED <<who, ret, port, status, seen, flight, mem, isrs, errs>>

BeginMain(o) ==
    Begin("main", o) /\ disturbed' = FALSE /\ UNCHANGED left

(* The handler queries the PIC first and then, as the reason wants it,     *)
(* writes to the PIC, or reads the AV pack and sets the encoder again.     *)
BeginIsr(o) ==
    /\ left > 0 /\ (left = IsrTransfers => o = Query)
    /\ left' = left - 1
    /\ Begin("isr", o) /\ UNCHANGED disturbed

(* Deviation: the busy bit is not waited for.                              *)
NoSpin(c) ==
    /\ At(c, "spin") /\ Goto(c, "addr")
    /\ UNCHANGED <<who, op, tries, ret, port, status, seen, flight, mem, disturbed, left, isrs, errs>>

(* "spin while bus busy with any master traffic".                          *)
Spin(c) == NoSpin(c) /\ flight = NoOp

(* One attempt begins: the retry counter and the address register.         *)
Attempt(c) ==
    /\ At(c, "addr") /\ Goto(c, "reg")
    /\ tries' = [tries EXCEPT ![c] = @ - 1]
    /\ port' = [port EXCEPT !.dev = op[c].dev, !.rw = op[c].rw]
    /\ UNCHANGED <<who, op, ret, status, seen, flight, mem, disturbed, left, isrs, errs>>

(* while(nRetriesToLive--).                                                *)
SetAddr(c) == tries[c] > 0 /\ Attempt(c)

(* No attempt left: ERR_I2C_ERROR_BUS.                                     *)
GiveUp(c) ==
    /\ At(c, "addr") /\ tries[c] = 0 /\ Goto(c, "idle")
    /\ ret' = [ret EXCEPT ![c] = [ok |-> FALSE, val |-> @.val]]
    /\ op' = [op EXCEPT ![c] = NoOp]
    /\ UNCHANGED <<who, tries, port, status, seen, flight, mem, disturbed, left, isrs, errs>>

(* The register number; a write gives its data next.                       *)
SetReg(c) ==
    /\ At(c, "reg") /\ Goto(c, IF op[c].rw = "w" THEN "data" ELSE "clear")
    /\ port' = [port EXCEPT !.reg = op[c].reg]
    /\ UNCHANGED <<who, op, tries, ret, status, seen, flight, mem, disturbed, left, isrs, errs>>

SetData(c) ==
    /\ At(c, "data") /\ Goto(c, "clear")
    /\ port' = [port EXCEPT !.val = op[c].val]
    /\ UNCHANGED <<who, op, tries, ret, status, seen, flight, mem, disturbed, left, isrs, errs>>

(* "clear down all preexisting errors": the status is read, and the bits   *)
(* that were set are written back, which clears these and no others.       *)
ReadStatus(c) ==
    /\ At(c, "clear") /\ Goto(c, "wipe")
    /\ seen' = [seen EXCEPT ![c] = status]
    /\ UNCHANGED <<who, op, tries, ret, port, status, flight, mem, disturbed, left, isrs, errs>>

Clear(c) ==
    /\ At(c, "wipe") /\ Goto(c, "kick")
    /\ status' = status \ seen[c]
    /\ seen' = [seen EXCEPT ![c] = {}]       \* temp is dead from here on
    /\ UNCHANGED <<who, op, tries, ret, port, flight, mem, disturbed, left, isrs, errs>>

(* The command register starts the transfer; a busy controller ignores it. *)
Kick(c) ==
    /\ At(c, "kick") /\ Goto(c, "poll")
    /\ flight' = IF flight = NoOp THEN port ELSE flight
    /\ UNCHANGED <<who, op, tries, ret, port, status, seen, mem, disturbed, left, isrs, errs>>

(* Deviation: the poll loop looks at the done bit only.                    *)
PollDoneOnly(c) ==
    /\ At(c, "poll") /\ "done" \in status
    /\ Goto(c, "fetch")
    /\ UNCHANGED <<who, op, tries, ret, port, status, seen, flight, mem, disturbed, left, isrs, errs>>

(* while((b&0x36)==0), then done, or wait_us(1) and another attempt.       *)
Poll(c) ==
    /\ At(c, "poll") /\ status # {}
    /\ Goto(c, IF "done" \in status THEN "fetch" ELSE "addr")
    /\ UNCHANGED <<who, op, tries, ret, port, status, seen, flight, mem, disturbed, left, isrs, errs>>

(* Success: a read takes the data register.                                *)
Fetch(c) ==
    /\ At(c, "fetch") /\ Goto(c, "idle")
    /\ ret' = [ret EXCEPT ![c] = [ok |-> TRUE, val |-> port.val]]
    /\ op' = [op EXCEPT ![c] = NoOp]
    /\ UNCHANGED <<who, tries, port, status, seen, flight, mem, disturbed, left, isrs, errs>>

-----------------------------------------------------------------------------
(* The controller finishes a transfer, or reports an error.                *)
Complete ==
    /\ flight # NoOp
    /\ flight' = NoOp
    /\ status' = status \cup {"done"}
    /\ IF flight.rw = "w"
       THEN /\ mem' = [mem EXCEPT ![<<flight.dev, flight.reg>>] = flight.val]
            /\ UNCHANGED port
       ELSE /\ port' = [port EXCEPT !.val = mem[<<flight.dev, flight.reg>>]]
            /\ UNCHANGED mem
    /\ UNCHANGED <<who, op, pc, tries, ret, seen, disturbed, left, isrs, errs>>

Fault ==
    /\ flight # NoOp /\ errs < MaxErrors
    /\ flight' = NoOp
    /\ errs' = errs + 1
    /\ status' = status \cup {"error"}
    /\ UNCHANGED <<who, op, pc, tries, ret, port, seen, mem, disturbed, left, isrs>>

(* The SMC interrupt.  disturbed records that it fell inside a call of the *)
(* main program.                                                           *)
Interrupt ==
    /\ who = "main" /\ isrs < MaxIsr
    /\ who' = "isr"
    /\ isrs' = isrs + 1
    /\ left' = IsrTransfers
    /\ disturbed' = (disturbed \/ pc["main"] # "idle")
    /\ UNCHANGED <<op, pc, tries, ret, port, status, seen, flight, mem, errs>>

Iret ==
    /\ At("isr", "idle")
    /\ left < IsrTransfers         \* the handler has queried the PIC
    /\ who' = "main"
    /\ UNCHANGED <<op, pc, tries, ret, port, status, seen, flight, mem, disturbed, left, isrs, errs>>

Step(c) ==
    \/ Spin(c) \/ SetAddr(c) \/ GiveUp(c) \/ SetReg(c) \/ SetData(c)
    \/ ReadStatus(c) \/ Clear(c) \/ Kick(c) \/ Poll(c) \/ Fetch(c)

Next ==
    \/ \E o \in MainOps : BeginMain(o)
    \/ \E o \in IsrOps \cup {Query} : BeginIsr(o)
    \/ \E c \in Ctx : Step(c)
    \/ Complete \/ Fault
    \/ Interrupt \/ Iret

(* The processor keeps executing and the controller finishes what it       *)
(* started.                                                                *)
Spec == Init /\ [][Next]_vars
FairSpec == Spec /\ WF_vars(Step("main")) /\ WF_vars(Step("isr"))
                 /\ WF_vars(Complete) /\ WF_vars(Iret)
                 /\ WF_vars(\E o \in IsrOps \cup {Query} : BeginIsr(o))

-----------------------------------------------------------------------------
(* What a call that returned success to context c has done.                *)
Served(c) ==
    ret'[c].ok =>
        IF op[c].rw = "r" THEN ret'[c].val = mem[<<op[c].dev, op[c].reg>>]
                          ELSE mem[<<op[c].dev, op[c].reg>>] = op[c].val

Returns(c) == pc[c] # "idle" /\ pc'[c] = "idle"

(* The interrupt handler's transfers are its own, whatever transfer of the *)
(* main program it interrupted, and so are the main program's when no      *)
(* interrupt fell inside the call: a successful read returns the register  *)
(* it asked for and a successful write has reached its register.           *)
TransfersServed ==
    [][\A c \in Ctx : Returns(c) /\ (c = "main" => ~disturbed) => Served(c)]_vars

(* No call hangs: neither the busy wait, the poll loop nor the retries,    *)
(* even when the handler overwrote the status the main program polls.      *)
CallsReturn == \A c \in Ctx : pc[c] # "idle" ~> pc[c] = "idle"
=============================================================================
