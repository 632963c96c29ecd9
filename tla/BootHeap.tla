------------------------------ MODULE BootHeap ------------------------------
(***************************************************************************)
(* The memory manager of lib/misc/BootLibrary.c: malloc() and free() over  *)
(* t_malloc() and t_free(), which keep one byte per 16 KB sector of the    *)
(* heap in the table memsmall[].  malloc() and free() run in the main      *)
(* program and in interrupt handlers (a USB or SMC interrupt allocates     *)
(* through the USB stack or through the video mode switch), and protect    *)
(* the table with cli and sti alone.                                       *)
(*                                                                         *)
(* A call is split where an interrupt could fall: entering the critical    *)
(* section, the scan of the table, the update of the table with the sti.   *)
(***************************************************************************)
EXTENDS Integers, FiniteSets

CONSTANTS NSectors,  \* sectors of the heap, 0x400 in the code
          MaxBytes,  \* largest request t_malloc accepts, 5 MB in the code
          MaxDepth,  \* nesting of interrupt handlers over the main program
          Sizes      \* the sizes malloc() is called with

ASSUME HeapAssumption ==
    /\ NSectors \in Nat /\ NSectors > 1
    /\ MaxBytes \in Nat /\ MaxBytes >= 65536
    /\ MaxDepth \in Nat
    /\ Sizes \subseteq Nat

SectorBytes == 16384                 \* 0x4000

(* The table: the sectors of the heap and, behind them, the entries that a *)
(* run starting in the heap's last sectors reaches.                        *)
TableTop == NSectors + MaxBytes \div SectorBytes
Entries  == 0 .. TableTop
Marks    == {"00", "AA", "FE", "DC", "BA", "B8", "BB", "CC", "FF"}

VARIABLES memsmall,  \* the sector table
          live,      \* ghost: the blocks handed out and not given to free()
          stuck,     \* ghost: entries still marked although their block was freed
          lowptr,    \* ghost: a caller holds the pointer 0x100 of a failed malloc()
          intr,      \* the processor's interrupt flag
          depth,     \* 0 in the main program, k inside k nested handlers
          call       \* the malloc() or free() in progress at each depth

vars == <<memsmall, live, stuck, lowptr, intr, depth, call>>

-----------------------------------------------------------------------------
(* Sizes.  malloc() adds room for its header and rounds down to 256 bytes; *)
(* t_malloc() takes 1 sector, 4 sectors or a counted run.                  *)

Rounded(size) == (size + 512) - ((size + 512) % 256)

(* Deviation: the run is not rounded up to the sector that holds its tail. *)
SectorsForTruncated(bytes) ==
    IF bytes < 16384 + 1 THEN 1
    ELSE IF bytes < 65536 + 1 THEN 4
    ELSE bytes \div SectorBytes

SectorsFor(bytes) ==
    IF bytes < 16384 + 1 THEN 1
    ELSE IF bytes < 65536 + 1 THEN 4
    ELSE (bytes \div SectorBytes) + 1

Accepted(bytes) == bytes < MaxBytes + 1

(* The byte t_malloc() writes at offset i of a block of n sectors.         *)
Pattern(n, i) ==
    IF n = 1 THEN "AA"
    ELSE IF n = 4
         THEN IF i = 0 THEN "FE" ELSE IF i = 1 THEN "DC"
              ELSE IF i = 2 THEN "BA" ELSE "B8"
    ELSE IF i = 0 \/ i = n - 1 THEN "BB"
    ELSE IF i = 1 \/ i = n - 2 THEN "CC" ELSE "FF"

Span(at, n) == at .. (at + n - 1)

Fits(at, n) == \A i \in Span(at, n) : memsmall[i] = "00"

(* t_malloc()'s scan: the lowest sector of the heap at which the run fits. *)
FirstFit(at, n) ==
    /\ Fits(at, n)
    /\ \A r \in 1 .. at - 1 : ~Fits(r, n)

-----------------------------------------------------------------------------
(* t_free(): which entries it clears for a block at sector s.  A counted   *)
(* run is recognised by BB CC FF FF and cleared up to the first CC BB.     *)

Is64K(s) == /\ memsmall[s] = "FE" /\ memsmall[s + 1] = "DC"
            /\ memsmall[s + 2] = "BA" /\ memsmall[s + 3] = "B8"

IsRun(s) == /\ memsmall[s] = "BB" /\ memsmall[s + 1] = "CC"
            /\ memsmall[s + 2] = "FF" /\ memsmall[s + 3] = "FF"

IsEnd(c) == memsmall[c] = "CC" /\ memsmall[c + 1] = "BB"

NoEnd(s, c) == \A d \in s .. c : ~IsEnd(d)

RunCleared(s) ==
    { c \in s .. NSectors :
        \/ c < NSectors /\ NoEnd(s, c - 1)
        \/ c > s /\ IsEnd(c - 1) /\ NoEnd(s, c - 2) }

(* Deviation: a 64 KB block is not recognised.                             *)
ClearedNo64K(s) ==
    IF memsmall[s] = "AA" THEN {s}
    ELSE IF IsRun(s) THEN RunCleared(s)
    ELSE {}

Cleared(s) ==
    IF memsmall[s] = "AA" THEN {s}
    ELSE IF Is64K(s) THEN s .. s + 3
    ELSE IF IsRun(s) THEN RunCleared(s)
    ELSE {}

-----------------------------------------------------------------------------
Idle == [pc |-> "idle", at |-> 0, len |-> 0, size |-> 0]

Running(pc) == call[depth].pc = pc

StartWith(reserved) ==
    /\ memsmall = [i \in Entries |-> IF i = 0 THEN reserved ELSE "00"]
    /\ live = {}
    /\ stuck = {}
    /\ lowptr = FALSE
    /\ intr = TRUE
    /\ depth = 0
    /\ call = [k \in 0 .. MaxDepth |-> Idle]

(* MemoryManagementInitialization(): the table is zeroed and its own       *)
(* sector reserved.                                                        *)
Init == StartWith("FF")

(* The running program enters malloc() or free(), leaving the interrupt    *)
(* flag at flag.                                                           *)
Enter(flag, pc, at, len, size) ==
    /\ Running("idle")
    /\ intr' = flag
    /\ call' = [call EXCEPT ![depth] =
                  [pc |-> pc, at |-> at, len |-> len, size |-> size]]
    /\ UNCHANGED <<memsmall, live, stuck, lowptr, depth>>

(* Deviation: no cli.                                                      *)
MallocEnterOpen(size) == Enter(intr, "scan", 0, 0, size)

(* malloc(), cli.                                                          *)
MallocEnter(size) == Enter(FALSE, "scan", 0, 0, size)

(* t_malloc(), the scan of the entries up to limit.                        *)
ScanUpTo(limit) ==
    /\ Running("scan")
    /\ LET size  == call[depth].size
           bytes == Rounded(size)
           n     == SectorsFor(bytes)
           To(pc, at, len) ==
             call' = [call EXCEPT ![depth] =
                        [pc |-> pc, at |-> at, len |-> len, size |-> size]]
       IN  \/ /\ Accepted(bytes)
              /\ \E at \in 1 .. limit : FirstFit(at, n) /\ To("mark", at, n)
           \/ /\ Accepted(bytes) => \A at \in 1 .. limit : ~Fits(at, n)
              /\ To("fail", 0, 0)
    /\ UNCHANGED <<memsmall, live, stuck, lowptr, intr, depth>>

MallocScan == ScanUpTo(NSectors - 1)

(* t_malloc(), the marks; malloc(), the header and sti.                    *)
MallocMark ==
    /\ Running("mark")
    /\ LET c == call[depth]
       IN  /\ memsmall' = [i \in Entries |->
                             IF i \in Span(c.at, c.len)
                             THEN Pattern(c.len, i - c.at) ELSE memsmall[i]]
           /\ live' = live \cup {[at |-> c.at, len |-> c.len, size |-> c.size]}
    /\ intr' = TRUE
    /\ call' = [call EXCEPT ![depth] = Idle]
    /\ UNCHANGED <<stuck, lowptr, depth>>

(* t_malloc() returned 0 and malloc() does not look: the header goes to    *)
(* address 0xf8 and the caller gets the pointer 0x100.                     *)
MallocFail ==
    /\ Running("fail")
    /\ lowptr' = TRUE
    /\ intr' = TRUE
    /\ call' = [call EXCEPT ![depth] = Idle]
    /\ UNCHANGED <<memsmall, live, stuck, depth>>

(* free() of a block, cli and the check of the header.                     *)
FreeEnter(b) == Enter(FALSE, "free", b.at, b.len, b.size)

(* t_free() and sti.                                                       *)
FreeClear ==
    /\ Running("free")
    /\ LET c   == call[depth]
           clr == Cleared(c.at)
       IN  /\ memsmall' = [i \in Entries |->
                             IF i \in clr THEN "00" ELSE memsmall[i]]
           /\ live' = live \ {[at |-> c.at, len |-> c.len, size |-> c.size]}
           /\ stuck' = stuck \cup (Span(c.at, c.len) \ clr)
    /\ intr' = TRUE
    /\ call' = [call EXCEPT ![depth] = Idle]
    /\ UNCHANGED <<lowptr, depth>>

(* A free() that leaves the heap as it is.                                 *)
FreeNothing(flag) ==
    /\ Running("idle")
    /\ intr' = flag
    /\ UNCHANGED <<memsmall, live, stuck, depth, call>>

(* free(NULL): cli, then the early return.                                 *)
FreeNull == FreeNothing(FALSE) /\ UNCHANGED lowptr

(* free() of a pointer whose header has no magic number: cli, sti.         *)
FreeForeign == FreeNothing(TRUE) /\ UNCHANGED lowptr

(* free() of the pointer of a failed malloc(): the header at 0xf8 is       *)
(* valid and t_free(0) looks up an entry far behind the table.             *)
FreeLow == FreeNothing(TRUE) /\ lowptr /\ lowptr' = FALSE

(* An interrupt gate: the flag is cleared on entry and restored by iret.   *)
Interrupt ==
    /\ intr
    /\ depth < MaxDepth
    /\ depth' = depth + 1
    /\ intr' = FALSE
    /\ UNCHANGED <<memsmall, live, stuck, lowptr, call>>

Iret ==
    /\ depth > 0
    /\ Running("idle")
    /\ depth' = depth - 1
    /\ intr' = TRUE
    /\ UNCHANGED <<memsmall, live, stuck, lowptr, call>>

Next ==
    \/ \E size \in Sizes : MallocEnter(size)
    \/ MallocScan
    \/ MallocMark
    \/ MallocFail
    \/ \E b \in live : FreeEnter(b)
    \/ FreeClear
    \/ FreeNull
    \/ FreeForeign
    \/ FreeLow
    \/ Interrupt
    \/ Iret

Spec == Init /\ [][Next]_vars

-----------------------------------------------------------------------------
Blocks == [at : 1 .. NSectors - 1, len : 1 .. TableTop, size : Nat]

(* Every variable has its type: in particular the sector table holds only  *)
(* the marks t_malloc() writes and no block reaches behind the table.      *)
TypeOK ==
    /\ memsmall \in [Entries -> Marks]
    /\ live \subseteq Blocks
    /\ stuck \subseteq Entries
    /\ lowptr \in BOOLEAN
    /\ intr \in BOOLEAN
    /\ depth \in 0 .. MaxDepth
    /\ call \in [0 .. MaxDepth ->
                   [pc : {"idle", "scan", "mark", "fail", "free"},
                    at : 0 .. NSectors - 1, len : 0 .. TableTop, size : Nat]]

(* No two blocks that malloc() handed out share a sector, whatever calls   *)
(* the main program and the handlers interleave.                           *)
BlocksDisjoint ==
    \A b, c \in live :
        b # c => Span(b.at, b.len) \cap Span(c.at, c.len) = {}

(* A block holds its header and more bytes than malloc() was asked for: a  *)
(* loader may put a NUL behind a file it read into a block of its size.    *)
BlockHoldsRequest ==
    \A b \in live : 256 + b.size < b.len * SectorBytes

(* What t_malloc() wrote for a block is still there when the block is      *)
(* freed: no other call has touched its entries.                           *)
MarksIntact ==
    \A b \in live : \A i \in Span(b.at, b.len) :
        memsmall[i] = Pattern(b.len, i - b.at)

(* free() loses sectors in two cases only: a run of five, which ends in    *)
(* CC BB before t_free()'s BB CC FF FF can match, and the part of a run    *)
(* that lies behind the heap's last sector.                                *)
OnlyFivesAndOverrunsStick ==
    \A i \in stuck :
        \/ i >= NSectors
        \/ \E s \in (i - 4) .. i :
              /\ s \in 1 .. NSectors
              /\ \A k \in 0 .. 4 : memsmall[s + k] = Pattern(5, k)

(* No sector is lost unaccounted for, and none is free that is in use: an  *)
(* entry is marked exactly when it is the table's own, belongs to a live   *)
(* block, or was left behind by a free() in one of those two cases.        *)
TableAccounted ==
    /\ \A i \in Entries :
          memsmall[i] # "00" <=>
              \/ i = 0
              \/ \E b \in live : i \in Span(b.at, b.len)
              \/ i \in stuck
    /\ OnlyFivesAndOverrunsStick

(* A handler interrupts neither malloc() nor free() inside its critical    *)
(* section, so that at most one call in the whole machine is inside.       *)
CriticalSectionsExclude ==
    /\ \A k \in 0 .. MaxDepth : k # depth => call[k].pc = "idle"
    /\ call[depth].pc # "idle" => ~intr

(* free() of one block changes no entry of another live block and malloc() *)
(* takes only free ones.                                                   *)
OthersUntouched ==
    [][\A b \in live \cap live' : \A i \in Span(b.at, b.len) :
          memsmall'[i] = memsmall[i]]_vars

(* The allocator implements the pool its callers rely on.                  *)
Pool == INSTANCE BlockPool WITH
            Sectors <- 1 .. TableTop, SectorSize <- SectorBytes, blocks <- live

ImplementsPool == Pool!Spec

=============================================================================
