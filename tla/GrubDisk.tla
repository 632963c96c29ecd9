------------------------------ MODULE GrubDisk ------------------------------
(***************************************************************************)
(* The disk layer of the GRUB file reader (fs/grub/disk_io.c): reading     *)
(* sectors, walking the partition tables, block lists, and the generic     *)
(* open and read calls.  The code is sequential and works on globals, so   *)
(* every function is an operator from the globals, a record g, to the      *)
(* globals it leaves; g.ret is what the function returned and g.buf the    *)
(* buffer it filled.                                                       *)
(*                                                                         *)
(* A disk d is [at |-> function from sectors to SECTOR_SIZE bytes, bad |-> *)
(* the sectors the drive fails to read now].  A byte is a record with a    *)
(* field k, its kind; a structure of the code that lies inside one sector  *)
(* (a partition table, a super block, an inode) is one such byte.          *)
(***************************************************************************)
EXTENDS Integers, Sequences, SequencesExt, FiniteSets

CONSTANTS SECTOR_SIZE,      \* bytes of a sector, 512
          MAXINT,           \* 0x7FFFFFFF
          MAX_LINK_COUNT,   \* symbolic links followed for one path, 5
          PATH_MAX          \* room for a path with its links, 1024

ASSUME SectorAssumption == SECTOR_SIZE \in Nat \ {0} /\ MAXINT \in Nat

PC_SLICE_MAX == 4
BSD_LABEL_SECTOR == 1
NoPart == 255               \* 0xFF: no slice, or no BSD partition, chosen

PC_SLICE_TYPE_NONE == "none"
Extended == {"extended", "w95ext", "linuxext"}
IsFat(type) == type \in {<<"fat", "none">>, <<"bsd", "msdos">>}

\* The bytes of a sector nobody has written, and of a buffer nobody has filled.
Blank == [k |-> "blank"]

Err(g, e) == [g EXCEPT !.errnum = e, !.ret = 0]
Return(g, r) == [g EXCEPT !.ret = r]

-----------------------------------------------------------------------------
(* Reading sectors *)

ByteAt(d, sector, p) == d.at[sector + (p \div SECTOR_SIZE)][(p % SECTOR_SIZE) + 1]

Readable(d, s) == s \in DOMAIN d.at /\ s \notin d.bad

\* Sector by sector; an error that is already pending stops it at once, and a
\* sector that cannot be read sets errnum but is reported as success: what is
\* left of the buffer keeps its old bytes.
rawread(d, g, sector, off, len, old) ==
    LET lost == {p \in 0..(len - 1) : ~Readable(d, sector + ((off + p) \div SECTOR_SIZE))}
        got == IF lost = {} THEN len ELSE CHOOSE p \in lost : \A q \in lost : p <= q
    IN  IF len <= 0 THEN [g EXCEPT !.ret = 1, !.buf = old]
        ELSE IF g.errnum # "none" THEN [g EXCEPT !.ret = 0, !.buf = old]
        ELSE [g EXCEPT !.ret = 1,
                       !.errnum = IF got = len THEN "none" ELSE "read",
                       !.buf = [i \in 1..len |->
                                  IF i <= got THEN ByteAt(d, sector, off + i - 1)
                                  ELSE IF i <= Len(old) THEN old[i] ELSE Blank]]

\* Inside the partition only.
devread(d, g, sector, off, len, old) ==
    IF sector < 0 \/ sector + ((off + len - 1) \div SECTOR_SIZE) >= g.part_length
    THEN [Err(g, "outside_part") EXCEPT !.buf = old]
    ELSE rawread(d, g, g.part_start + sector, off, len, old)

-----------------------------------------------------------------------------
(* The partition tables *)

Table(buf) == IF buf # <<>> /\ buf[1].k = "table" THEN buf[1]
              ELSE [k |-> "table", sig |-> FALSE, mag |-> FALSE, slots |-> <<>>, parts |-> <<>>]

next_bsd_partition(d, g) ==
    LET first == g.bsd = NoPart
        Chosen(r, label) ==
            LET from == IF first THEN 0 ELSE g.bsd + 1
                used == {i \in from..(Len(label.parts) - 1) : label.parts[i + 1].type # "none"}
                i == CHOOSE j \in used : \A m \in used : j <= m
                part == label.parts[i + 1]
            IN  IF r.ret = 0 THEN r
                ELSE IF first /\ ~label.mag THEN Err(r, "bad_part_table")
                ELSE IF used = {} THEN Err(r, "no_part")
                ELSE [r EXCEPT !.ret = 1, !.type = <<r.type[1], part.type>>, !.bsd = i,
                               !.part_start = part.start, !.part_length = part.len]
        InBuffer(r) == Chosen(r, Table(r.buf))
    IN  IF ~first THEN InBuffer(Return(g, 1))
        ELSE IF g.part_length < BSD_LABEL_SECTOR + 1 THEN Err(g, "bad_part_table")
        ELSE InBuffer(rawread(d, g, g.part_start + BSD_LABEL_SECTOR, 0, SECTOR_SIZE, g.buf))

\* The first extended entry of a table leads to the next table of the chain.
RECURSIVE next_pc_slice(_, _)
next_pc_slice(d, g0) ==
    LET first == g0.slice = NoPart
        g == IF first THEN [g0 EXCEPT !.offset = 0, !.ext = 0, !.entry = -1, !.slice = -1] ELSE g0
        Linked(r, slots) ==
            LET links == {i \in 1..PC_SLICE_MAX : slots[i].type \in Extended}
                to == r.ext + slots[CHOOSE i \in links : \A j \in links : i <= j].start
            IN  IF links = {} THEN [Err(r, "no_part") EXCEPT !.entry = PC_SLICE_MAX]
                ELSE next_pc_slice(d, [r EXCEPT !.offset = to, !.entry = -1,
                                                !.ext = IF r.ext = 0 THEN to ELSE r.ext])
        Slice(r, s) ==
            [r EXCEPT !.ret = 1, !.entry = @ + 1, !.bsd = NoPart, !.type = <<s.type, "none">>,
                      !.slice = IF @ < PC_SLICE_MAX \/ s.type \notin Extended \cup {PC_SLICE_TYPE_NONE}
                                THEN @ + 1 ELSE @,
                      !.part_start = r.offset + s.start, !.part_length = s.len]
        Walk(r, table) ==
            IF r.ret = 0 THEN [r EXCEPT !.slice = g0.slice]
            ELSE IF ~table.sig THEN [Err(r, "bad_part_table") EXCEPT !.slice = g0.slice]
            ELSE IF r.entry + 1 = PC_SLICE_MAX THEN Linked(r, table.slots)
            ELSE Slice(r, table.slots[r.entry + 2])
        InBuffer(r) == Walk(r, Table(r.buf))
    IN  InBuffer(rawread(d, g, g.offset, 0, SECTOR_SIZE, g.buf))

\* The Xbox drives are 0 and 1, without the hard disk bit 0x80: a BSD label is
\* looked for in every slice, and its absence is an error to be ignored.
next_partition(d, g, dest) ==
    LET Else(b) == IF b.ret = 1 \/ (dest.bsd # NoPart /\ dest.slice \in {NoPart, b.slice}) THEN b
                   ELSE next_pc_slice(d, [b EXCEPT !.errnum = "none"])
    IN  Else(next_bsd_partition(d, [g EXCEPT !.type[1] = IF g.type = <<"none", "none">> THEN "bsd" ELSE @]))

RECURSIVE SeekPartition(_, _, _)
SeekPartition(d, g, dest) ==
    LET Wanted(n) == /\ n.type # <<"none", "none">>
                     /\ dest.slice \in {NoPart, n.slice}
                     /\ dest.bsd = n.bsd
        On(n) == IF n.ret = 0 \/ Wanted(n) THEN n ELSE SeekPartition(d, n, dest)
    IN  On(next_partition(d, g, dest))

\* What get_diskinfo() says of the drive is its number of sectors.
real_open_partition(d, g, dest) ==
    LET whole == [g EXCEPT !.type = <<"none", "none">>, !.part_start = 0,
                           !.part_length = Cardinality(DOMAIN d.at),
                           !.slice = NoPart, !.bsd = NoPart]
    IN  IF dest = [slice |-> NoPart, bsd |-> NoPart] THEN Return(whole, 1)
        ELSE SeekPartition(d, whole, dest)

-----------------------------------------------------------------------------
(* Files named by a list of blocks *)

\* "a+n,b+m 5": blocks a..a+n-1, then b..b+m-1, of which the first 5 bytes.  A
\* number alone must not exceed what the blocks before it hold.
RECURSIVE ParseBlocks(_, _, _)
ParseBlocks(g, name, list) ==
    LET h == Head(name)
    IN  IF name = <<>> THEN [g EXCEPT !.list = list]
        ELSE IF "num" \in DOMAIN h
        THEN IF h.num = 0 \/ h.num > g.filemax THEN Err(g, "bad_filename")
             ELSE [g EXCEPT !.filemax = h.num, !.list = list]
        ELSE IF h.len = 0 THEN Err(g, "bad_filename")
        ELSE ParseBlocks([g EXCEPT !.filemax = @ + h.len * SECTOR_SIZE, !.fsys = "none"],
                         Tail(name), Append(list, h))

OpenBlocks(g, name) ==
    LET Opened(p) == IF p.errnum # "none" THEN Return(p, 0)
                     ELSE [p EXCEPT !.block_file = TRUE, !.cur = [pos |-> 0, item |-> 1, blk |-> 0],
                                    !.ret = 1]
    IN  Opened(ParseBlocks([g EXCEPT !.filemax = 0], name, <<>>))

\* Run the cursor up to filepos.
RECURSIVE RunUp(_, _, _)
RunUp(list, cur, pos) ==
    IF pos <= cur.pos THEN cur
    ELSE IF pos - (cur.pos - (cur.pos % SECTOR_SIZE)) >= SECTOR_SIZE
    THEN LET last == cur.blk + 1 >= list[cur.item].len
         IN  RunUp(list, [pos |-> cur.pos + SECTOR_SIZE,
                          item |-> IF last THEN cur.item + 1 ELSE cur.item,
                          blk |-> IF last THEN 0 ELSE cur.blk + 1], pos)
    ELSE [cur EXCEPT !.pos = pos]

RECURSIVE ReadBlocks(_, _, _, _)
ReadBlocks(d, g, len, out) ==
    LET from == IF g.filepos < g.cur.pos THEN [pos |-> 0, item |-> 1, blk |-> 0] ELSE g.cur
        off == g.filepos % SECTOR_SIZE
        On(r, c, size) == ReadBlocks(d, [r EXCEPT !.cur = c, !.filepos = @ + size], len - size, out \o r.buf)
        At(c) == LET room == (g.list[c.item].len - c.blk) * SECTOR_SIZE - off
                     size == IF room > len THEN len ELSE room
                 IN  On(devread(d, g, g.list[c.item].start + c.blk, off, size, <<>>), c, size)
    IN  IF len = 0 \/ g.errnum # "none"
        THEN [g EXCEPT !.ret = IF g.errnum # "none" THEN 0 ELSE Len(out), !.buf = out]
        ELSE At(RunUp(g.list, from, g.filepos))

\* What grub_read() makes of the length it is asked for.
Clamped(g, len) == IF len < 0 \/ len > g.filemax - g.filepos THEN g.filemax - g.filepos ELSE len
=============================================================================
