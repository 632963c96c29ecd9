--------------------------- MODULE BootHeapProofs ---------------------------
(***************************************************************************)
(* Proofs about the memory manager for every heap size, every nesting      *)
(* depth of interrupt handlers and every set of request sizes.             *)
(*                                                                         *)
(* Disjointness alone is not inductive: that free() stays inside its block *)
(* follows from the marks in the table, that malloc()'s run is still free  *)
(* when it is marked follows from the exclusion of critical sections, and  *)
(* both are carried together in HeapInv.                                   *)
(***************************************************************************)
EXTENDS BootHeap, TLAPS

(* A block or a pending run has the length t_malloc() computes.            *)
Sized(at, len, size) ==
    /\ at \in 1 .. NSectors - 1
    /\ size \in Nat
    /\ Accepted(Rounded(size))
    /\ len = SectorsFor(Rounded(size))

BlocksSized == \A b \in live : Sized(b.at, b.len, b.size)

(* What the call inside its critical section has established.              *)
CallConsistent ==
    LET c == call[depth]
    IN  /\ c.pc = "mark" => Sized(c.at, c.len, c.size) /\ Fits(c.at, c.len)
        /\ c.pc = "free" =>
              [at |-> c.at, len |-> c.len, size |-> c.size] \in live

HeapInv ==
    /\ TypeOK
    /\ CriticalSectionsExclude
    /\ BlocksSized
    /\ MarksIntact
    /\ BlocksDisjoint
    /\ CallConsistent

-----------------------------------------------------------------------------
(* malloc()'s and t_malloc()'s rounding: a run is 1, 4 or at least 5       *)
(* sectors long, stays inside the table and holds the header and more than *)
(* the request.                                                            *)
LEMMA RoundingLemma ==
    ASSUME NEW size \in Nat, Accepted(Rounded(size))
    PROVE  LET n == SectorsFor(Rounded(size))
           IN  /\ n \in Nat
               /\ n = 1 \/ n = 4 \/ n >= 5
               /\ n <= (MaxBytes \div SectorBytes) + 1
               /\ 256 + size < n * SectorBytes
  <1> DEFINE r == Rounded(size)
  <1>1. r \in Nat /\ r > size + 256 /\ r <= size + 512
    BY DEF Rounded
  <1>2. MaxBytes \in Nat /\ MaxBytes >= 65536 /\ r <= MaxBytes
    BY <1>1, HeapAssumption DEF Accepted
  <1> HIDE DEF r
  <1>3. QED
    BY <1>1, <1>2 DEF SectorsFor, SectorBytes, r

(* A sized run lies inside the table.                                      *)
LEMMA SpanInTable ==
    ASSUME NEW at, NEW len, NEW size, Sized(at, len, size)
    PROVE  /\ at \in Nat /\ len \in Nat /\ len \in 1 .. TableTop
           /\ Span(at, len) \subseteq Entries
           /\ at + 3 \in Entries /\ at + 2 \in Entries
           /\ at + 1 \in Entries /\ at \in Entries
  <1>1. /\ len \in Nat /\ (len = 1 \/ len = 4 \/ len >= 5)
        /\ len <= (MaxBytes \div SectorBytes) + 1
    BY RoundingLemma DEF Sized
  <1>2. /\ NSectors \in Nat /\ NSectors > 1
        /\ MaxBytes \div SectorBytes \in Nat /\ MaxBytes \div SectorBytes >= 4
    BY HeapAssumption DEF SectorBytes
  <1>3. at \in Nat /\ at >= 1 /\ at <= NSectors - 1
    BY <1>2 DEF Sized
  <1> DEFINE q == MaxBytes \div SectorBytes
  <1> HIDE DEF q
  <1>4. q \in Nat /\ q >= 4 /\ len <= q + 1
    BY <1>1, <1>2 DEF q
  <1>5. TableTop = NSectors + q
    BY DEF TableTop, q
  <1>6. QED
    BY <1>1, <1>2, <1>3, <1>4, <1>5 DEF Span, Entries

(* t_free() clears only entries of the block it is given, as long as the   *)
(* block's marks are intact.                                               *)
LEMMA ClearedInside ==
    ASSUME NEW at, NEW len, NEW size, Sized(at, len, size),
           \A i \in Span(at, len) : memsmall[i] = Pattern(len, i - at)
    PROVE  Cleared(at) \subseteq Span(at, len)
  <1>1. /\ at \in Nat /\ len \in Nat /\ NSectors \in Nat
        /\ at < NSectors /\ (len = 1 \/ len = 4 \/ len >= 5)
    BY RoundingLemma, SpanInTable, HeapAssumption DEF Sized
  <1>2. CASE len = 1
    <2>1. memsmall[at] = "AA"
      BY <1>1, <1>2 DEF Span, Pattern
    <2>2. QED
      BY <1>1, <1>2, <2>1 DEF Cleared, Span
  <1>3. CASE len = 4
    <2>1. memsmall[at] = "FE"
      BY <1>1, <1>3 DEF Span, Pattern
    <2>2. Cleared(at) = at .. at + 3 \/ Cleared(at) = {}
      BY <2>1 DEF Cleared, IsRun
    <2>3. QED
      BY <1>1, <1>3, <2>2 DEF Span
  <1>4. CASE len >= 5
    <2>1. memsmall[at] = "BB"
      BY <1>1, <1>4 DEF Span, Pattern
    <2>2. /\ memsmall[at + len - 2] = "CC"
          /\ memsmall[at + len - 1] = "BB"
      <3>1. at + len - 2 \in Span(at, len) /\ at + len - 1 \in Span(at, len)
        BY <1>1, <1>4 DEF Span
      <3>2. /\ (at + len - 2) - at = len - 2
            /\ (at + len - 1) - at = len - 1
        BY <1>1, <1>4
      <3>3. /\ Pattern(len, len - 2) = "CC"
            /\ Pattern(len, len - 1) = "BB"
        BY <1>1, <1>4 DEF Pattern
      <3>4. QED
        BY <3>1, <3>2, <3>3
    <2>3. IsEnd(at + len - 2)
      BY <2>2, <1>1, <1>4 DEF IsEnd
    <2>4. ASSUME NEW c \in RunCleared(at) PROVE c \in Span(at, len)
      <3>1. c \in Nat /\ at <= c
        BY <1>1 DEF RunCleared
      <3>2. c <= at + len - 1
        <4>1. CASE NoEnd(at, c - 1)
          BY <4>1, <3>1, <2>3, <1>1, <1>4 DEF NoEnd
        <4>2. CASE c > at /\ NoEnd(at, c - 2)
          BY <4>2, <3>1, <2>3, <1>1, <1>4 DEF NoEnd
        <4>3. QED
          BY <4>1, <4>2 DEF RunCleared
      <3>3. QED
        BY <3>1, <3>2, <1>1 DEF Span
    <2>5. QED
      BY <2>1, <2>4 DEF Cleared, Is64K
  <1>5. QED
    BY <1>1, <1>2, <1>3, <1>4
-----------------------------------------------------------------------------
(* The initial table of MemoryManagementInitialization() satisfies the     *)
(* invariant.                                                              *)
LEMMA InitHeapInv == Init => HeapInv
  <1> SUFFICES ASSUME Init PROVE HeapInv
    OBVIOUS
  <1>1. NSectors \in Nat /\ NSectors > 1 /\ MaxDepth \in Nat
    BY HeapAssumption
  <1>2. TypeOK
    <2>1. 0 \in 0 .. NSectors - 1 /\ 0 \in 0 .. TableTop /\ 0 \in 0 .. MaxDepth
      BY HeapAssumption DEF TableTop, SectorBytes
    <2>2. memsmall \in [Entries -> Marks]
      BY DEF Init, StartWith, Marks
    <2>3. QED
      BY <2>1, <2>2 DEF Init, StartWith, TypeOK, Idle
  <1>3. CriticalSectionsExclude
    BY <1>1 DEF Init, StartWith, CriticalSectionsExclude, Idle
  <1>4. BlocksSized /\ MarksIntact /\ BlocksDisjoint
    BY DEF Init, StartWith, BlocksSized, MarksIntact, BlocksDisjoint
  <1>5. CallConsistent
    BY <1>1 DEF Init, StartWith, CallConsistent, Idle
  <1>6. QED
    BY <1>2, <1>3, <1>4, <1>5 DEF HeapInv

(* The steps that leave the table and the blocks alone.                    *)
LEMMA QuietStep ==
    ASSUME HeapInv,
           UNCHANGED <<memsmall, live>>,
           TypeOK', CriticalSectionsExclude', CallConsistent'
    PROVE  HeapInv'
  BY DEF HeapInv, BlocksSized, MarksIntact, BlocksDisjoint

(* malloc() marks a run that was free when it was scanned and still is.    *)
LEMMA MarkStep ==
    ASSUME HeapInv, MallocMark
    PROVE  HeapInv'
  <1> DEFINE c == call[depth]
             nb == [at |-> c.at, len |-> c.len, size |-> c.size]
  <1>1. /\ depth \in 0 .. MaxDepth /\ depth \in Nat
        /\ Sized(c.at, c.len, c.size) /\ Fits(c.at, c.len)
    BY HeapAssumption DEF HeapInv, TypeOK, CallConsistent, MallocMark, Running
  <1>2. /\ c.at \in Nat /\ c.len \in 1 .. TableTop /\ c.size \in Nat
        /\ c.at \in 1 .. NSectors - 1
        /\ Span(c.at, c.len) \subseteq Entries
    BY <1>1, SpanInTable DEF Sized
  <1>3. /\ live' = live \cup {nb}
        /\ memsmall' = [i \in Entries |->
                          IF i \in Span(c.at, c.len)
                          THEN Pattern(c.len, i - c.at) ELSE memsmall[i]]
        /\ intr' = TRUE /\ depth' = depth
        /\ call' = [call EXCEPT ![depth] = Idle]
        /\ stuck' = stuck /\ lowptr' = lowptr
    BY DEF MallocMark
  <1>4. \A b \in live : /\ Span(b.at, b.len) \subseteq Entries
                        /\ Span(b.at, b.len) \cap Span(c.at, c.len) = {}
    <2> SUFFICES ASSUME NEW b \in live
                 PROVE  /\ Span(b.at, b.len) \subseteq Entries
                        /\ Span(b.at, b.len) \cap Span(c.at, c.len) = {}
      OBVIOUS
    <2>1. Sized(b.at, b.len, b.size)
      BY DEF HeapInv, BlocksSized
    <2>2. Span(b.at, b.len) \subseteq Entries
      BY <2>1, SpanInTable
    <2>3. ASSUME NEW i \in Span(b.at, b.len) PROVE memsmall[i] # "00"
      <3>1. memsmall[i] = Pattern(b.len, i - b.at)
        BY DEF HeapInv, MarksIntact
      <3>2. QED
        BY <3>1 DEF Pattern
    <2>4. QED
      BY <2>2, <2>3, <1>1 DEF Fits
  <1>5. TypeOK'
    <2>1. \A n, i : Pattern(n, i) \in Marks
      BY DEF Pattern, Marks
    <2>2. memsmall' \in [Entries -> Marks]
      BY <2>1, <1>3 DEF HeapInv, TypeOK
    <2>3. live' \subseteq Blocks
      BY <1>2, <1>3 DEF HeapInv, TypeOK, Blocks
    <2>4. call' \in [0 .. MaxDepth ->
                   [pc : {"idle", "scan", "mark", "fail", "free"},
                    at : 0 .. NSectors - 1, len : 0 .. TableTop, size : Nat]]
      <3>1. 0 \in 0 .. NSectors - 1 /\ 0 \in 0 .. TableTop
        BY HeapAssumption DEF TableTop, SectorBytes
      <3>2. QED
        BY <3>1, <1>3 DEF HeapInv, TypeOK, Idle
    <2>5. QED
      BY <2>2, <2>3, <2>4, <1>3 DEF HeapInv, TypeOK
  <1>6. CriticalSectionsExclude' /\ CallConsistent'
    BY <1>1, <1>3 DEF HeapInv, TypeOK, CriticalSectionsExclude,
                      CallConsistent, Idle
  <1>7. BlocksSized'
    BY <1>1, <1>3 DEF HeapInv, BlocksSized, Sized, Accepted
  <1>8. MarksIntact'
    <2> SUFFICES ASSUME NEW b \in live', NEW i \in Span(b.at, b.len)
                 PROVE  memsmall'[i] = Pattern(b.len, i - b.at)
      BY DEF MarksIntact, Span
    <2>1. CASE b = nb
      BY <2>1, <1>2, <1>3
    <2>2. CASE b \in live
      <3>1. i \in Entries /\ i \notin Span(c.at, c.len)
        BY <2>2, <1>4
      <3>2. memsmall[i] = Pattern(b.len, i - b.at)
        BY <2>2 DEF HeapInv, MarksIntact
      <3>3. QED
        BY <3>1, <3>2, <1>3
    <2>3. QED
      BY <2>1, <2>2, <1>3
  <1>9. BlocksDisjoint'
    <2>1. ASSUME NEW x \in live', NEW y \in live', x # y
          PROVE  Span(x.at, x.len) \cap Span(y.at, y.len) = {}
      <3>1. CASE x \in live /\ y \in live
        BY <2>1, <3>1 DEF HeapInv, BlocksDisjoint
      <3>2. CASE x = nb /\ y \in live
        BY <3>2, <1>4
      <3>3. CASE y = nb /\ x \in live
        BY <3>3, <1>4
      <3>4. QED
        BY <2>1, <3>1, <3>2, <3>3, <1>3
    <2>2. QED
      BY <2>1 DEF BlocksDisjoint, Span
  <1>10. QED
    BY <1>5, <1>6, <1>7, <1>8, <1>9 DEF HeapInv

(* free() clears nothing outside the block it is given.                    *)
LEMMA ClearStep ==
    ASSUME HeapInv, FreeClear
    PROVE  HeapInv'
  <1> DEFINE c == call[depth]
             ob == [at |-> c.at, len |-> c.len, size |-> c.size]
  <1>1. /\ depth \in 0 .. MaxDepth /\ depth \in Nat /\ ob \in live
    BY HeapAssumption DEF HeapInv, TypeOK, CallConsistent, FreeClear, Running
  <1>2. Sized(ob.at, ob.len, ob.size)
    BY <1>1 DEF HeapInv, BlocksSized
  <1>3. Cleared(c.at) \subseteq Span(c.at, c.len)
    <2>1. \A i \in Span(ob.at, ob.len) : memsmall[i] = Pattern(ob.len, i - ob.at)
      BY <1>1 DEF HeapInv, MarksIntact
    <2>2. QED
      BY <1>2, <2>1, ClearedInside
  <1>4. Span(c.at, c.len) \subseteq Entries
    BY <1>2, SpanInTable
  <1>5. /\ live' = live \ {ob}
        /\ memsmall' = [i \in Entries |->
                          IF i \in Cleared(c.at) THEN "00" ELSE memsmall[i]]
        /\ stuck' = stuck \cup (Span(c.at, c.len) \ Cleared(c.at))
        /\ intr' = TRUE /\ depth' = depth /\ lowptr' = lowptr
        /\ call' = [call EXCEPT ![depth] = Idle]
    BY DEF FreeClear
  <1>6. TypeOK'
    <2>1. memsmall' \in [Entries -> Marks] /\ stuck' \subseteq Entries
      BY <1>4, <1>5 DEF HeapInv, TypeOK, Marks
    <2>2. call' \in [0 .. MaxDepth ->
                   [pc : {"idle", "scan", "mark", "fail", "free"},
                    at : 0 .. NSectors - 1, len : 0 .. TableTop, size : Nat]]
      <3>1. 0 \in 0 .. NSectors - 1 /\ 0 \in 0 .. TableTop
        BY HeapAssumption DEF TableTop, SectorBytes
      <3>2. QED
        BY <3>1, <1>5 DEF HeapInv, TypeOK, Idle
    <2>3. QED
      BY <2>1, <2>2, <1>5 DEF HeapInv, TypeOK
  <1>7. CriticalSectionsExclude' /\ CallConsistent'
    BY <1>1, <1>5 DEF HeapInv, TypeOK, CriticalSectionsExclude,
                      CallConsistent, Idle
  <1>8. BlocksSized' /\ BlocksDisjoint'
    BY <1>5 DEF HeapInv, BlocksSized, BlocksDisjoint
  <1>9. MarksIntact'
    <2> SUFFICES ASSUME NEW b \in live', NEW i \in Span(b.at, b.len)
                 PROVE  memsmall'[i] = Pattern(b.len, i - b.at)
      BY DEF MarksIntact, Span
    <2>1. b \in live /\ b # ob
      BY <1>5
    <2>2. Span(b.at, b.len) \cap Span(ob.at, ob.len) = {}
      BY <2>1, <1>1 DEF HeapInv, BlocksDisjoint
    <2>3. i \in Entries
      BY <2>1, SpanInTable DEF HeapInv, BlocksSized
    <2>4. memsmall[i] = Pattern(b.len, i - b.at)
      BY <2>1 DEF HeapInv, MarksIntact
    <2>5. QED
      BY <2>2, <2>3, <2>4, <1>3, <1>5
  <1>10. QED
    BY <1>6, <1>7, <1>8, <1>9 DEF HeapInv
(* Every step of the program preserves the invariant.                      *)
LEMMA NextHeapInv == HeapInv /\ [Next]_vars => HeapInv'
  <1> SUFFICES ASSUME HeapInv, [Next]_vars PROVE HeapInv'
    OBVIOUS
  <1> DEFINE Calls == [0 .. MaxDepth ->
                   [pc : {"idle", "scan", "mark", "fail", "free"},
                    at : 0 .. NSectors - 1, len : 0 .. TableTop, size : Nat]]
  <1>0. /\ depth \in 0 .. MaxDepth /\ MaxDepth \in Nat /\ Sizes \subseteq Nat
        /\ NSectors \in Nat /\ NSectors > 1 /\ call \in Calls
        /\ 0 \in 0 .. NSectors - 1 /\ 0 \in 0 .. TableTop
    BY HeapAssumption DEF HeapInv, TypeOK, TableTop, SectorBytes
  <1> HIDE DEF Calls
  <1>1. ASSUME NEW size \in Sizes, MallocEnter(size) PROVE HeapInv'
    <2>1. call' \in Calls
      BY <1>0, <1>1 DEF MallocEnter, Enter, Calls
    <2>2. TypeOK'
      BY <1>1, <2>1 DEF MallocEnter, Enter, HeapInv, TypeOK, Calls
    <2>3. CriticalSectionsExclude' /\ CallConsistent'
      BY <1>0, <1>1 DEF MallocEnter, Enter, HeapInv, CriticalSectionsExclude,
                        CallConsistent, Calls
    <2>4. QED
      BY <1>1, <2>2, <2>3, QuietStep DEF MallocEnter, Enter
  <1>2. CASE MallocScan
    <2> DEFINE bytes == Rounded(call[depth].size)
               n     == SectorsFor(bytes)
    <2>1. call[depth].size \in Nat
      BY <1>0 DEF Calls
    <2>2. CASE /\ Accepted(bytes)
               /\ \E at \in 1 .. NSectors - 1 :
                     /\ FirstFit(at, n)
                     /\ call' = [call EXCEPT ![depth] =
                                   [pc |-> "mark", at |-> at, len |-> n,
                                    size |-> call[depth].size]]
      <3>1. PICK at \in 1 .. NSectors - 1 :
                     /\ FirstFit(at, n)
                     /\ call' = [call EXCEPT ![depth] =
                                   [pc |-> "mark", at |-> at, len |-> n,
                                    size |-> call[depth].size]]
        BY <2>2
      <3>2. Sized(at, n, call[depth].size)
        BY <2>1, <2>2 DEF Sized
      <3>3. n \in 0 .. TableTop /\ at \in 0 .. NSectors - 1
        BY <3>2, SpanInTable, <1>0
      <3> HIDE DEF n
      <3>4. call' \in Calls
        BY <3>1, <3>3, <2>1, <1>0 DEF Calls
      <3>5. TypeOK'
        BY <1>2, <3>4 DEF MallocScan, ScanUpTo, HeapInv, TypeOK, Calls
      <3>6. CriticalSectionsExclude' /\ CallConsistent'
        <4>1. depth' = depth /\ intr' = intr /\ memsmall' = memsmall
          BY <1>2 DEF MallocScan, ScanUpTo
        <4>2. call'[depth] = [pc |-> "mark", at |-> at, len |-> n,
                              size |-> call[depth].size]
          BY <3>1, <1>0 DEF Calls
        <4>3. \A i \in Span(at, n) : memsmall'[i] = "00"
          BY <3>1, <4>1 DEF FirstFit, Fits
        <4>4. CriticalSectionsExclude'
          BY <1>0, <1>2, <3>1, <4>1 DEF HeapInv, CriticalSectionsExclude,
             Calls, MallocScan, ScanUpTo, Running
        <4>5. QED
          BY <4>1, <4>2, <4>3, <4>4, <3>2 DEF CallConsistent, Fits, Span, Sized
      <3>7. QED
        BY <1>2, <3>5, <3>6, QuietStep DEF MallocScan, ScanUpTo
    <2>3. CASE call' = [call EXCEPT ![depth] =
                          [pc |-> "fail", at |-> 0, len |-> 0,
                           size |-> call[depth].size]]
      <3>1. call' \in Calls
        BY <2>1, <2>3, <1>0 DEF Calls
      <3>2. TypeOK'
        BY <1>2, <3>1 DEF MallocScan, ScanUpTo, HeapInv, TypeOK, Calls
      <3>3. CriticalSectionsExclude' /\ CallConsistent'
        BY <1>0, <1>2, <2>3 DEF MallocScan, ScanUpTo, Running, HeapInv,
           CriticalSectionsExclude, CallConsistent, Calls
      <3>4. QED
        BY <1>2, <3>2, <3>3, QuietStep DEF MallocScan, ScanUpTo
    <2>4. QED
      BY <1>2, <2>2, <2>3 DEF MallocScan, ScanUpTo
  <1>3. CASE MallocMark
    BY <1>3, MarkStep
  <1>4. CASE MallocFail
    <2>1. call' \in Calls
      BY <1>0, <1>4 DEF MallocFail, Calls, Idle
    <2>2. TypeOK'
      BY <1>4, <2>1 DEF MallocFail, HeapInv, TypeOK, Calls
    <2>3. CriticalSectionsExclude' /\ CallConsistent'
      BY <1>0, <1>4 DEF MallocFail, HeapInv, CriticalSectionsExclude,
                        CallConsistent, Calls, Idle
    <2>4. QED
      BY <1>4, <2>2, <2>3, QuietStep DEF MallocFail
  <1>5. ASSUME NEW b \in live, FreeEnter(b) PROVE HeapInv'
    <2>1. b \in Blocks
      BY DEF HeapInv, TypeOK
    <2>2. call' \in Calls
      BY <1>0, <1>5, <2>1 DEF FreeEnter, Enter, Calls, Blocks
    <2>3. TypeOK'
      BY <1>5, <2>2 DEF FreeEnter, Enter, HeapInv, TypeOK, Calls
    <2>4. [at |-> b.at, len |-> b.len, size |-> b.size] = b
      BY <2>1 DEF Blocks
    <2>5. CriticalSectionsExclude' /\ CallConsistent'
      BY <1>0, <1>5, <2>4 DEF FreeEnter, Enter, HeapInv, CriticalSectionsExclude,
                        CallConsistent, Calls
    <2>6. QED
      BY <1>5, <2>3, <2>5, QuietStep DEF FreeEnter, Enter
  <1>6. CASE FreeClear
    BY <1>6, ClearStep
  <1>7. CASE FreeNull \/ FreeForeign \/ FreeLow
    <2>1. TypeOK'
      BY <1>7 DEF FreeNull, FreeForeign, FreeLow, FreeNothing, HeapInv, TypeOK
    <2>2. CriticalSectionsExclude' /\ CallConsistent'
      BY <1>7 DEF FreeNull, FreeForeign, FreeLow, FreeNothing, Running, HeapInv,
                  CriticalSectionsExclude, CallConsistent
    <2>3. QED
      BY <1>7, <2>1, <2>2, QuietStep DEF FreeNull, FreeForeign, FreeLow, FreeNothing
  <1>8. CASE Interrupt
    <2>1. depth' \in 0 .. MaxDepth /\ depth' # depth
      BY <1>0, <1>8 DEF Interrupt
    <2>2. TypeOK'
      BY <1>8, <2>1 DEF Interrupt, HeapInv, TypeOK
    <2>3. CriticalSectionsExclude' /\ CallConsistent'
      BY <1>0, <1>8, <2>1 DEF Interrupt, HeapInv, CriticalSectionsExclude,
                              CallConsistent
    <2>4. QED
      BY <1>8, <2>2, <2>3, QuietStep DEF Interrupt
  <1>9. CASE Iret
    <2>1. depth' \in 0 .. MaxDepth /\ depth' # depth
      BY <1>0, <1>9 DEF Iret
    <2>2. TypeOK'
      BY <1>9, <2>1 DEF Iret, HeapInv, TypeOK
    <2>3. CriticalSectionsExclude' /\ CallConsistent'
      BY <1>0, <1>9, <2>1 DEF Iret, Running, HeapInv, CriticalSectionsExclude,
                              CallConsistent
    <2>4. QED
      BY <1>9, <2>2, <2>3, QuietStep DEF Iret
  <1>10. CASE UNCHANGED vars
    BY <1>10 DEF vars, HeapInv, TypeOK, CriticalSectionsExclude, BlocksSized,
         MarksIntact, BlocksDisjoint, CallConsistent, Fits
  <1>11. QED
    BY <1>1, <1>2, <1>3, <1>4, <1>5, <1>6, <1>7, <1>8, <1>9, <1>10 DEF Next

(* The heap invariant holds in every state of every behaviour.             *)
LEMMA HeapInvariant == Spec => []HeapInv
  BY InitHeapInv, NextHeapInv, PTL DEF Spec

-----------------------------------------------------------------------------
(* The sector table and the blocks always have their types: no mark, block *)
(* or pending call leaves the table.                                       *)
THEOREM TypeCorrect == Spec => []TypeOK
  <1>1. HeapInv => TypeOK
    BY DEF HeapInv
  <1>2. QED
    BY <1>1, HeapInvariant, PTL

(* malloc() never hands out a sector twice, for every heap size and every  *)
(* nesting of interrupt handlers that allocate and free.                   *)
THEOREM NoSharedSector == Spec => []BlocksDisjoint
  <1>1. HeapInv => BlocksDisjoint
    BY DEF HeapInv
  <1>2. QED
    BY <1>1, HeapInvariant, PTL

(* At most one malloc() or free() is inside its critical section.          *)
THEOREM MutualExclusion == Spec => []CriticalSectionsExclude
  <1>1. HeapInv => CriticalSectionsExclude
    BY DEF HeapInv
  <1>2. QED
    BY <1>1, HeapInvariant, PTL

(* Every block is large enough for its header and for more than the        *)
(* requested bytes.                                                        *)
THEOREM RoomForRequest == Spec => []BlockHoldsRequest
  <1>1. HeapInv => BlockHoldsRequest
    BY RoundingLemma DEF HeapInv, BlocksSized, Sized, BlockHoldsRequest
  <1>2. QED
    BY <1>1, HeapInvariant, PTL

(* The marks of a live block are the ones t_malloc() wrote.                *)
THEOREM MarksKept == Spec => []MarksIntact
  <1>1. HeapInv => MarksIntact
    BY DEF HeapInv
  <1>2. QED
    BY <1>1, HeapInvariant, PTL
(* The allocator implements the pool of disjoint blocks its callers rely   *)
(* on: MallocMark is Alloc, FreeClear is Release, and every other step     *)
(* leaves the blocks alone.                                                *)
THEOREM HeapImplementsPool == Spec => ImplementsPool
  <1>1. Init => Pool!Init
    BY DEF Init, StartWith, Pool!Init
  <1>2. HeapInv /\ HeapInv' /\ [Next]_vars => [Pool!Next]_live
    <2> SUFFICES ASSUME HeapInv, HeapInv', [Next]_vars, live' # live
                 PROVE  Pool!Next
      OBVIOUS
    <2>1. CASE MallocMark
      <3> DEFINE c == call[depth]
                 nb == [at |-> c.at, len |-> c.len, size |-> c.size]
      <3>1. live' = live \cup {nb} /\ nb \notin live
        BY <2>1 DEF MallocMark
      <3>2. Sized(nb.at, nb.len, nb.size)
        BY <2>1 DEF HeapInv, CallConsistent, MallocMark, Running
      <3>3. 256 + nb.size < nb.len * SectorBytes
        BY <3>2, RoundingLemma DEF Sized
      <3>4. Pool!SectorsOf(nb) \subseteq 1 .. TableTop
        <4>1. /\ nb.at \in Nat /\ nb.len \in Nat
              /\ Span(nb.at, nb.len) \subseteq Entries
          <5> HIDE DEF nb
          <5>1. QED
            BY <3>2, SpanInTable
        <4>2. nb.at >= 1
          BY <3>2, HeapAssumption DEF Sized
        <4>3. QED
          BY <4>1, <4>2 DEF Pool!SectorsOf, Span, Entries
      <3>5. \A d \in live : Pool!SectorsOf(nb) \cap Pool!SectorsOf(d) = {}
        <4> SUFFICES ASSUME NEW d \in live
                     PROVE  Pool!SectorsOf(nb) \cap Pool!SectorsOf(d) = {}
          OBVIOUS
        <4>1. nb \in live' /\ d \in live' /\ nb # d
          BY <3>1
        <4>2. \A x, y \in live' : x # y =>
                 (x.at .. (x.at + x.len - 1)) \cap (y.at .. (y.at + y.len - 1)) = {}
          BY DEF HeapInv, BlocksDisjoint, Span
        <4>3. QED
          BY <4>1, <4>2 DEF Pool!SectorsOf
      <3>6. nb \in live'
        BY <3>1
      <3> HIDE DEF nb
      <3>7. Pool!Alloc
        BY <3>1, <3>3, <3>4, <3>5, <3>6 DEF Pool!Alloc
      <3>8. QED
        BY <3>7 DEF Pool!Next
    <2>2. CASE FreeClear
      <3> DEFINE c == call[depth]
                 ob == [at |-> c.at, len |-> c.len, size |-> c.size]
      <3>1. ob \in live /\ live' = live \ {ob}
        BY <2>2 DEF HeapInv, CallConsistent, FreeClear, Running
      <3> HIDE DEF ob
      <3>2. QED
        BY <3>1 DEF Pool!Next, Pool!Release
    <2>3. QED
      BY <2>1, <2>2 DEF Next, vars, MallocEnter, Enter, MallocScan, ScanUpTo, MallocFail, FreeEnter, Enter,
         FreeNull, FreeForeign, FreeLow, FreeNothing, Interrupt, Iret
  <1>3. QED
    BY <1>1, <1>2, HeapInvariant, PTL DEF Spec, ImplementsPool, Pool!Spec

(* No step of malloc() or free() changes an entry of a block that stays    *)
(* live.                                                                   *)
THEOREM NeighboursUntouched == Spec => OthersUntouched
  <1>1. HeapInv /\ HeapInv' =>
          \A b \in live \cap live' : \A i \in Span(b.at, b.len) :
             memsmall'[i] = memsmall[i]
    BY DEF HeapInv, MarksIntact, Span
  <1>2. QED
    BY <1>1, HeapInvariant, PTL DEF OthersUntouched
-----------------------------------------------------------------------------
(* The accounting of the sectors.  TableAccounted says where a five left   *)
(* behind begins; that it is never partly reused follows only when all its *)
(* entries are known to be stuck and no stuck entry is a live block's.     *)
EntriesAccounted ==
    \A i \in Entries :
       memsmall[i] # "00" <=>
           \/ i = 0
           \/ \E b \in live : i \in Span(b.at, b.len)
           \/ i \in stuck

StuckApart == \A b \in live : Span(b.at, b.len) \cap stuck = {}

StuckFive(s) == /\ Span(s, 5) \subseteq stuck
                /\ \A k \in 0 .. 4 : memsmall[s + k] = Pattern(5, k)

StuckKnown ==
    \A i \in stuck :
       i >= NSectors \/ \E s \in 1 .. NSectors : i \in Span(s, 5) /\ StuckFive(s)

TableInv == EntriesAccounted /\ StuckApart /\ StuckKnown

(* t_free() clears the whole of a block that is not a run of five, up to   *)
(* the end of the heap, and nothing of a run of five.                      *)
LEMMA ClearedWhole ==
    ASSUME NEW at, NEW len, NEW size, Sized(at, len, size),
           \A i \in Span(at, len) : memsmall[i] = Pattern(len, i - at)
    PROVE  /\ len # 5 => \A i \in Span(at, len) : i < NSectors \/ len = 4
                                                  => i \in Cleared(at)
           /\ len = 5 => Cleared(at) = {}
  <1>1. /\ at \in Nat /\ len \in Nat /\ NSectors \in Nat
        /\ at < NSectors /\ (len = 1 \/ len = 4 \/ len >= 5)
    BY RoundingLemma, SpanInTable, HeapAssumption DEF Sized
  <1>2. \A k \in 0 .. len - 1 : memsmall[at + k] = Pattern(len, k)
    <2> SUFFICES ASSUME NEW k \in 0 .. len - 1
                 PROVE  memsmall[at + k] = Pattern(len, k)
      OBVIOUS
    <2>1. at + k \in Span(at, len) /\ (at + k) - at = k
      BY <1>1 DEF Span
    <2>2. QED
      BY <2>1
  <1>3. CASE len = 1
    <2>1. memsmall[at + 0] = "AA"
      BY <1>1, <1>2, <1>3 DEF Pattern
    <2>2. QED
      BY <1>1, <1>3, <2>1 DEF Cleared, Span
  <1>4. CASE len = 4
    <2>1. /\ memsmall[at + 0] = "FE" /\ memsmall[at + 1] = "DC"
          /\ memsmall[at + 2] = "BA" /\ memsmall[at + 3] = "B8"
      BY <1>1, <1>2, <1>4 DEF Pattern
    <2>2. QED
      BY <1>1, <1>4, <2>1 DEF Cleared, Is64K, Span
  <1>5. CASE len = 5
    <2>1. memsmall[at + 0] = "BB" /\ memsmall[at + 3] = "CC"
      BY <1>1, <1>2, <1>5 DEF Pattern
    <2>2. QED
      BY <1>1, <1>5, <2>1 DEF Cleared, Is64K, IsRun
  <1>6. CASE len > 5
    <2>1. /\ memsmall[at + 0] = "BB" /\ memsmall[at + 1] = "CC"
          /\ memsmall[at + 2] = "FF" /\ memsmall[at + 3] = "FF"
      BY <1>1, <1>2, <1>6 DEF Pattern
    <2>2. Cleared(at) = RunCleared(at)
      BY <1>1, <2>1 DEF Cleared, Is64K, IsRun
    <2>3. ASSUME NEW k \in 0 .. len - 3 PROVE ~IsEnd(at + k)
      <3>1. /\ memsmall[at + k] = Pattern(len, k)
            /\ memsmall[at + (k + 1)] = Pattern(len, k + 1)
        BY <1>1, <1>2
      <3>2. ~(Pattern(len, k) = "CC" /\ Pattern(len, k + 1) = "BB")
        BY <1>1, <1>6 DEF Pattern
      <3>3. at + (k + 1) = (at + k) + 1
        BY <1>1
      <3>4. QED
        BY <3>1, <3>2, <3>3 DEF IsEnd
    <2>4. ASSUME NEW d \in Int, at <= d, d <= at + len - 3 PROVE ~IsEnd(d)
      <3>1. d - at \in 0 .. len - 3 /\ at + (d - at) = d
        BY <1>1, <2>4
      <3>2. QED
        BY <3>1, <2>3
    <2>5. IsEnd(at + len - 2)
      <3>1. /\ memsmall[at + (len - 2)] = "CC"
            /\ memsmall[at + (len - 1)] = "BB"
        <4>1. Pattern(len, len - 2) = "CC" /\ Pattern(len, len - 1) = "BB"
          BY <1>1, <1>6 DEF Pattern
        <4>2. len - 2 \in 0 .. len - 1 /\ len - 1 \in 0 .. len - 1
          BY <1>1, <1>6
        <4>3. QED
          BY <4>1, <4>2, <1>2
      <3>2. at + (len - 2) = at + len - 2 /\ at + (len - 1) = at + len - 2 + 1
        BY <1>1
      <3>3. QED
        BY <3>1, <3>2 DEF IsEnd
    <2>6. ASSUME NEW i \in Span(at, len), i < NSectors
          PROVE  i \in RunCleared(at)
      <3>1. i \in Int /\ at <= i /\ i <= at + len - 1
        BY <1>1 DEF Span
      <3>2. CASE i <= at + len - 2
        <4>1. NoEnd(at, i - 1)
          BY <1>1, <3>1, <3>2, <2>4 DEF NoEnd
        <4>2. QED
          BY <1>1, <3>1, <4>1, <2>6 DEF RunCleared
      <3>3. CASE i = at + len - 1
        <4>1. NoEnd(at, i - 2)
          BY <1>1, <3>1, <3>3, <2>4 DEF NoEnd
        <4>2. IsEnd(i - 1) /\ i > at
          <5>1. i - 1 = at + len - 2 /\ i > at
            BY <1>1, <1>6, <3>3
          <5>2. QED
            BY <5>1, <2>5
        <4>3. QED
          BY <1>1, <3>1, <4>1, <4>2, <2>6 DEF RunCleared
      <3>4. QED
        BY <1>1, <3>1, <3>2, <3>3
    <2>7. QED
      BY <1>6, <2>2, <2>6
  <1>7. QED
    BY <1>1, <1>3, <1>4, <1>5, <1>6

(* A new block takes free entries: no stuck one, and not the table's own.  *)
LEMMA MarkAccounts ==
    ASSUME HeapInv, TableInv, MallocMark
    PROVE  TableInv'
  <1> DEFINE c == call[depth]
             S == Span(c.at, c.len)
             nb == [at |-> c.at, len |-> c.len, size |-> c.size]
  <1>1. Sized(c.at, c.len, c.size) /\ Fits(c.at, c.len)
    BY DEF HeapInv, CallConsistent, MallocMark, Running
  <1>2. S \subseteq Entries /\ 0 \notin S
    BY <1>1, SpanInTable, HeapAssumption DEF Sized, Span
  <1>3. /\ live' = live \cup {nb} /\ stuck' = stuck
        /\ \A i \in Entries : memsmall'[i] =
              IF i \in S THEN Pattern(c.len, i - c.at) ELSE memsmall[i]
    BY DEF MallocMark
  <1>4. \A i \in S : memsmall[i] = "00" /\ memsmall'[i] # "00"
    <2>1. \A n, i : Pattern(n, i) # "00"
      BY DEF Pattern
    <2>2. QED
      BY <1>1, <1>2, <1>3, <2>1 DEF Fits
  <1>5. S \cap stuck = {} /\ stuck \subseteq Entries
    BY <1>2, <1>4 DEF HeapInv, TypeOK, TableInv, EntriesAccounted
  <1>6. nb.at = c.at /\ nb.len = c.len
    OBVIOUS
  <1> HIDE DEF S, nb
  <1>7. Span(nb.at, nb.len) = S
    BY <1>6 DEF S
  <1>8. EntriesAccounted'
    <2> SUFFICES ASSUME NEW i \in Entries
                 PROVE  memsmall'[i] # "00" <=>
                           \/ i = 0
                           \/ \E b \in live' : i \in Span(b.at, b.len)
                           \/ i \in stuck'
      BY DEF EntriesAccounted, Entries, TableTop, Span
    <2>1. CASE i \in S
      BY <2>1, <1>3, <1>4, <1>7
    <2>2. CASE i \notin S
      <3>1. memsmall'[i] = memsmall[i]
        BY <2>2, <1>3
      <3>2. (\E b \in live' : i \in Span(b.at, b.len)) <=>
            (\E b \in live : i \in Span(b.at, b.len))
        BY <2>2, <1>3, <1>7
      <3>3. QED
        BY <3>1, <3>2, <1>3 DEF TableInv, EntriesAccounted
    <2>3. QED
      BY <2>1, <2>2
  <1>9. StuckApart'
    <2>1. \A b \in live' : Span(b.at, b.len) \cap stuck' = {}
      BY <1>3, <1>5, <1>7 DEF TableInv, StuckApart
    <2>2. QED
      BY <2>1 DEF StuckApart, Span
  <1>10. StuckKnown'
    <2> SUFFICES ASSUME NEW i \in stuck, ~(i >= NSectors)
                 PROVE  \E s \in 1 .. NSectors :
                           i \in Span(s, 5) /\ StuckFive(s)'
      BY <1>3 DEF StuckKnown, Span
    <2>1. PICK s \in 1 .. NSectors : i \in Span(s, 5) /\ StuckFive(s)
      BY DEF TableInv, StuckKnown
    <2>2. \A k \in 0 .. 4 : memsmall'[s + k] = memsmall[s + k]
      <3>1. \A k \in 0 .. 4 : s + k \in Span(s, 5)
        BY HeapAssumption DEF Span
      <3>2. \A k \in 0 .. 4 : s + k \in Entries /\ s + k \notin S
        BY <3>1, <2>1, <1>5 DEF StuckFive
      <3>3. QED
        BY <3>2, <1>3
    <2>3. StuckFive(s)'
      BY <2>1, <2>2, <1>3 DEF StuckFive, Span, Pattern
    <2>4. QED
      BY <2>1, <2>3
  <1>11. QED
    BY <1>8, <1>9, <1>10 DEF TableInv

(* A freed block's entries are cleared or become stuck, and a run of five  *)
(* becomes stuck as a whole.                                               *)
LEMMA ClearAccounts ==
    ASSUME HeapInv, TableInv, FreeClear
    PROVE  TableInv'
  <1> DEFINE c == call[depth]
             S == Span(c.at, c.len)
             K == Cleared(c.at)
             ob == [at |-> c.at, len |-> c.len, size |-> c.size]
  <1>1. ob \in live /\ ob.at = c.at /\ ob.len = c.len /\ ob.size = c.size
    BY DEF HeapInv, CallConsistent, FreeClear, Running
  <1>2. /\ Sized(c.at, c.len, c.size)
        /\ \A i \in S : memsmall[i] = Pattern(c.len, i - c.at)
    <2>1. Sized(ob.at, ob.len, ob.size)
      BY <1>1 DEF HeapInv, BlocksSized
    <2>2. \A i \in Span(ob.at, ob.len) : memsmall[i] = Pattern(ob.len, i - ob.at)
      BY <1>1 DEF HeapInv, MarksIntact
    <2>3. QED
      BY <2>1, <2>2
  <1>3. S \subseteq Entries /\ 0 \notin S /\ c.at \in 1 .. NSectors
    BY <1>2, SpanInTable, HeapAssumption DEF Sized, Span
  <1>4. K \subseteq S
    BY <1>2, ClearedInside
  <1>5. /\ c.len # 5 => \A i \in S : i < NSectors \/ c.len = 4 => i \in K
        /\ c.len = 5 => K = {}
    BY <1>2, ClearedWhole
  <1>6. /\ live' = live \ {ob} /\ stuck' = stuck \cup (S \ K)
        /\ \A i \in Entries : memsmall'[i] = IF i \in K THEN "00" ELSE memsmall[i]
    BY DEF FreeClear
  <1>7. \A b \in live' : Span(b.at, b.len) \cap S = {}
    <2> SUFFICES ASSUME NEW b \in live' PROVE Span(b.at, b.len) \cap S = {}
      OBVIOUS
    <2>1. b \in live /\ b # ob
      BY <1>6
    <2>2. Span(b.at, b.len) \cap Span(ob.at, ob.len) = {}
      BY <2>1, <1>1 DEF HeapInv, BlocksDisjoint
    <2>3. QED
      BY <2>2, <1>1
  <1>8. S \cap stuck = {} /\ stuck \subseteq Entries
    <2>1. Span(ob.at, ob.len) \cap stuck = {}
      BY <1>1 DEF TableInv, StuckApart
    <2>2. QED
      BY <2>1, <1>1 DEF HeapInv, TypeOK
  <1>9. \A i \in S : memsmall[i] # "00"
    BY <1>2 DEF Pattern
  <1>10. Span(ob.at, ob.len) = S
    BY <1>1
  <1>11. \A k \in 0 .. 4 : c.len = 5 =>
            /\ c.at + k \in S
            /\ memsmall[c.at + k] = Pattern(5, k)
    <2> SUFFICES ASSUME NEW k \in 0 .. 4, c.len = 5
                 PROVE  c.at + k \in S /\ memsmall[c.at + k] = Pattern(5, k)
      OBVIOUS
    <2>1. c.at \in Nat
      BY <1>3, HeapAssumption
    <2>2. c.at + k \in S /\ (c.at + k) - c.at = k
      BY <2>1 DEF Span
    <2>3. QED
      BY <2>2, <1>2
  <1>12. c.len = 5 => S = Span(c.at, 5)
    OBVIOUS
  <1> DEFINE a == c.at
             n == c.len
  <1>13. a \in 1 .. NSectors
    BY <1>3
  <1>14. /\ n # 5 => \A i \in S : i < NSectors \/ n = 4 => i \in K
         /\ n = 5 => K = {}
         /\ n = 5 => S = Span(a, 5)
         /\ \A k \in 0 .. 4 : n = 5 => a + k \in S /\ memsmall[a + k] = Pattern(5, k)
    BY <1>5, <1>11, <1>12
  <1> HIDE DEF S, K, ob, a, n, c
  <1>15. EntriesAccounted'
    <2> SUFFICES ASSUME NEW i \in Entries
                 PROVE  memsmall'[i] # "00" <=>
                           \/ i = 0
                           \/ \E b \in live' : i \in Span(b.at, b.len)
                           \/ i \in stuck'
      BY DEF EntriesAccounted, Entries, TableTop, Span
    <2>1. CASE i \in K
      BY <2>1, <1>3, <1>4, <1>6, <1>7, <1>8
    <2>2. CASE i \in S \ K
      BY <2>2, <1>6, <1>9
    <2>3. CASE i \notin S
      <3>1. memsmall'[i] = memsmall[i]
        BY <2>3, <1>4, <1>6
      <3>2. (\E b \in live' : i \in Span(b.at, b.len)) <=>
            (\E b \in live : i \in Span(b.at, b.len))
        BY <2>3, <1>6, <1>10
      <3>3. QED
        BY <2>3, <3>1, <3>2, <1>6 DEF TableInv, EntriesAccounted
    <2>4. QED
      BY <2>1, <2>2, <2>3
  <1>16. StuckApart'
    <2>1. \A b \in live' : Span(b.at, b.len) \cap stuck' = {}
      BY <1>6, <1>7 DEF TableInv, StuckApart
    <2>2. QED
      BY <2>1 DEF StuckApart, Span
  <1>17. StuckKnown'
    <2> SUFFICES ASSUME NEW i \in stuck', ~(i >= NSectors)
                 PROVE  \E s \in 1 .. NSectors :
                           i \in Span(s, 5) /\ StuckFive(s)'
      BY DEF StuckKnown, Span
    <2>1. CASE i \in stuck
      <3>1. PICK s \in 1 .. NSectors : i \in Span(s, 5) /\ StuckFive(s)
        BY <2>1 DEF TableInv, StuckKnown
      <3>2. \A k \in 0 .. 4 : s + k \in Span(s, 5)
        BY HeapAssumption DEF Span
      <3>3. \A k \in 0 .. 4 : s + k \in Entries /\ s + k \notin K
        BY <3>1, <3>2, <1>4, <1>8 DEF StuckFive
      <3>4. \A k \in 0 .. 4 : memsmall'[s + k] = memsmall[s + k]
        BY <3>3, <1>6
      <3>5. StuckFive(s)'
        BY <3>1, <3>4, <1>6 DEF StuckFive, Span, Pattern
      <3>6. QED
        BY <3>1, <3>5
    <2>2. CASE i \in S \ K
      <3>1. i \in Int /\ NSectors \in Nat /\ i < NSectors
        BY <2>2, <1>3, HeapAssumption DEF Entries, TableTop, SectorBytes
      <3>2. n = 5
        BY <2>2, <3>1, <1>14
      <3>3. K = {} /\ S = Span(a, 5) /\ S \subseteq stuck'
        BY <3>2, <1>14, <1>6
      <3>4. \A k \in 0 .. 4 : memsmall'[a + k] = Pattern(5, k)
        BY <3>2, <3>3, <1>14, <1>6, <1>3
      <3>5. PICK s \in 1 .. NSectors : s = a
        BY <1>13
      <3>6. StuckFive(s)'
        BY <3>3, <3>4, <3>5 DEF StuckFive, Span, Pattern
      <3>7. QED
        BY <2>2, <3>3, <3>5, <3>6
    <2>3. QED
      BY <2>1, <2>2, <1>6
  <1>18. QED
    BY <1>15, <1>16, <1>17 DEF TableInv

(* The accounting holds in every state.                                    *)
LEMMA TableInvariant == Spec => []TableInv
  <1>1. Init => TableInv
    <2> SUFFICES ASSUME Init PROVE TableInv
      OBVIOUS
    <2>1. live = {} /\ stuck = {}
      BY DEF Init, StartWith
    <2>2. \A i \in Entries : memsmall[i] = IF i = 0 THEN "FF" ELSE "00"
      BY DEF Init, StartWith
    <2>3. QED
      BY <2>1, <2>2 DEF TableInv, EntriesAccounted, StuckApart, StuckKnown
  <1>2. HeapInv /\ TableInv /\ [Next]_vars => TableInv'
    <2> SUFFICES ASSUME HeapInv, TableInv, [Next]_vars PROVE TableInv'
      OBVIOUS
    <2>1. ASSUME UNCHANGED <<memsmall, live, stuck>> PROVE TableInv'
      BY <2>1 DEF TableInv, EntriesAccounted, StuckApart, StuckKnown, StuckFive,
                  Entries, TableTop, Span
    <2>2. CASE MallocMark
      BY <2>2, MarkAccounts
    <2>3. CASE FreeClear
      BY <2>3, ClearAccounts
    <2>4. CASE MallocScan
      BY <2>4, <2>1 DEF MallocScan, ScanUpTo
    <2>5. CASE ~(MallocMark \/ FreeClear \/ MallocScan)
      BY <2>5, <2>1 DEF Next, vars, MallocEnter, Enter, MallocFail, FreeEnter,
         FreeNull, FreeForeign, FreeLow, FreeNothing, Interrupt, Iret
    <2>6. QED
      BY <2>2, <2>3, <2>4, <2>5
  <1>3. QED
    BY <1>1, <1>2, HeapInvariant, PTL DEF Spec

(* For every heap size: an entry of the table is marked exactly when a     *)
(* live block owns it or t_free() could not recognise what was there, and  *)
(* that happens to runs of five and behind the end of the heap only.       *)
THEOREM SectorsAccounted == Spec => []TableAccounted
  <1>1. TableInv => TableAccounted
    <2> SUFFICES ASSUME TableInv PROVE OnlyFivesAndOverrunsStick
      BY DEF TableInv, EntriesAccounted, TableAccounted
    <2>1. ASSUME NEW i \in stuck, NEW s \in 1 .. NSectors, i \in Span(s, 5)
          PROVE  s \in (i - 4) .. i
      BY <2>1, HeapAssumption DEF Span
    <2>2. QED
      BY <2>1 DEF TableInv, StuckKnown, StuckFive, OnlyFivesAndOverrunsStick
  <1>2. QED
    BY <1>1, TableInvariant, PTL

=============================================================================
