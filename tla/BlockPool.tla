------------------------------ MODULE BlockPool ------------------------------
(***************************************************************************)
(* What the callers of malloc() and free() rely on: a pool that hands out  *)
(* blocks of memory which share no sector with each other, each with room  *)
(* for a header of 256 bytes and for more bytes than were asked for, and   *)
(* takes them back one by one.  Where a block lies is the pool's choice.   *)
(***************************************************************************)
EXTENDS Integers

CONSTANTS Sectors,      \* the sectors the pool may use
          SectorSize    \* bytes of a sector

VARIABLE blocks         \* the blocks handed out

SectorsOf(b) == b.at .. (b.at + b.len - 1)

Init == blocks = {}

Alloc ==
    \E b \in blocks' :
        /\ 256 + b.size < b.len * SectorSize
        /\ SectorsOf(b) \subseteq Sectors
        /\ \A c \in blocks : SectorsOf(b) \cap SectorsOf(c) = {}
        /\ blocks' = blocks \cup {b}

Release == \E b \in blocks : blocks' = blocks \ {b}

Next == Alloc \/ Release

Spec == Init /\ [][Next]_blocks
=============================================================================
