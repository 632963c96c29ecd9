------------------------------- MODULE Ufs2Fs -------------------------------
(***************************************************************************)
(* UFS2 volumes as GRUB reads them (fs/grub/fsys_ufs2.c).  g.fs holds the  *)
(* super block, the inode and the map buffer: mapblock is the sector of    *)
(* the indirect block in it, mapoff and mapsize the part of that block.  A *)
(* block address is 64 bits wide, two of the code's int: it takes two      *)
(* bytes here, and an int one.  A fragment is a sector.                    *)
(***************************************************************************)
EXTENDS GrubDisk

CONSTANTS NDADDR,          \* direct blocks of an inode, 12
          MAPBUF_LEN,      \* bytes of the map buffer, 8192
          SblockTry        \* SBLOCKSEARCH: the byte offsets tried, in order

ROOTINO == 2
SizeofInt == 1
SizeofAddr == 2
Bsize(g) == g.fs.sb.bsize * SECTOR_SIZE
NINDIR(g) == Bsize(g) \div SizeofAddr

RECURSIVE SuperBlock(_, _, _)
SuperBlock(d, g, try) ==
    LET Tried(r) == IF r.ret = 1 /\ r.buf[1].k = "ufs2" THEN r ELSE SuperBlock(d, r, Tail(try))
    IN  IF try = <<>> THEN Return(g, 0)
        ELSE IF Head(try) + 1 > g.part_length THEN SuperBlock(d, g, Tail(try))
        ELSE Tried(devread(d, g, 0, Head(try), 1, <<Blank>>))

ufs2_mount(d, g) ==
    LET Found(r) == IF r.ret = 0 THEN r
                    ELSE [r EXCEPT !.fs = [k |-> "ufs2", sb |-> r.buf[1], inode |-> Blank, map |-> <<>>,
                                           mapblock |-> -1, mapoff |-> -1, mapsize |-> -1]]
    IN  IF g.type \notin {<<"none", "none">>, <<"bsd", "ffs">>} THEN Return(g, 0)
        ELSE Found(SuperBlock(d, g, SblockTry))

\* The 64 bits from int i of the buffer: an address only if they are its halves.
Address64(buf, i) ==
    IF i >= 0 /\ i + 1 < Len(buf) /\ buf[i + 1].k = "addr" /\ buf[i + 2].k = "addr"
       /\ buf[i + 1].n = buf[i + 2].n /\ buf[i + 1].half = 0 /\ buf[i + 2].half = 1
    THEN buf[i + 1].n ELSE 0

\* The indirect block is read again unless it is the one in the buffer; a block
\* larger than the buffer is read in part, from the address wanted.
LoadMap(d, g, b) ==
    LET bnum == g.fs.inode.ib
        want == (b - NDADDR) % NINDIR(g)
        part == MAPBUF_LEN < Bsize(g)
        size == IF part THEN MAPBUF_LEN ELSE Bsize(g)
        off == IF ~part THEN 0
               ELSE IF want + MAPBUF_LEN > Bsize(g) THEN (Bsize(g) - MAPBUF_LEN) \div SizeofInt
               ELSE want
        Filled(r) ==
            IF r.ret = 0
            THEN [Err(r, "fsys_corrupt") EXCEPT !.fs.mapblock = -1, !.fs.mapoff = -1, !.fs.mapsize = -1]
            ELSE [r EXCEPT !.fs.map = r.buf, !.fs.mapblock = bnum, !.fs.mapoff = off, !.fs.mapsize = size]
    IN  IF bnum = g.fs.mapblock /\ ~(g.fs.mapoff <= bnum /\ bnum <= g.fs.mapoff + g.fs.mapsize)
        THEN Return(g, 1)
        ELSE Filled(devread(d, g, bnum, off * SizeofInt, size, g.fs.map))

block_map(d, g, b) ==
    LET Mapped(m) ==
            Return(m, IF m.ret = 0 THEN -1
                      ELSE Address64(m.fs.map, SizeofAddr * (((b - NDADDR) % NINDIR(m)) - m.fs.mapoff)))
    IN  IF b < NDADDR THEN Return(g, g.fs.inode.db[b + 1]) ELSE Mapped(LoadMap(d, g, b))

RECURSIVE ufs2_read(_, _, _, _)
ufs2_read(d, g, len, out) ==
    LET off == g.filepos % Bsize(g)
        size == IF Bsize(g) - off > len THEN len ELSE Bsize(g) - off
        Done(x) == [x EXCEPT !.ret = IF x.errnum = "none" THEN Len(out) ELSE 0, !.buf = out]
        On(r) == ufs2_read(d, [r EXCEPT !.filepos = @ + size], len - size, out \o r.buf)
        At(m) == IF m.ret < 0 THEN Done(m) ELSE On(devread(d, m, m.ret, off, size, <<>>))
    IN  IF len = 0 \/ g.errnum # "none" THEN Done(g) ELSE At(block_map(d, g, g.filepos \div Bsize(g)))

\* A block of the directory is read when its first entry is reached.
RECURSIVE FindDirect(_, _, _, _, _)
FindDirect(d, g, name, loc, block) ==
    LET off == loc % Bsize(g)
        Look(h, now, dp) == IF dp.k # "dirent" THEN Err(h, "fsys_corrupt")
                            ELSE IF dp.inode # 0 /\ dp.name = name THEN Return(h, dp.inode)
                            ELSE FindDirect(d, h, name, loc + dp.rec, now)
        Within(h, now) == Look(h, now, now[off + 1])
        Block(r) == IF r.ret = 0 THEN Err(r, "fsys_corrupt") ELSE Within(r, r.buf)
        At(m) == IF m.ret < 0 THEN Err(m, "fsys_corrupt")
                 ELSE Block(devread(d, m, m.ret, 0, Bsize(g), block))
    IN  IF loc >= g.fs.inode.size THEN Err(g, "file_not_found")
        ELSE IF off # 0 THEN Within(g, block)
        ELSE At(block_map(d, g, loc \div Bsize(g)))

RECURSIVE UfsWalk(_, _, _, _)
UfsWalk(d, g, ino, path) ==
    LET Down(f) == IF f.ret = 0 THEN f ELSE UfsWalk(d, f, f.ret, Tail(path))
        At(n, i) == IF path = <<>>
                    THEN IF i.mode # "reg" THEN Err(n, "bad_filetype")
                         ELSE [n EXCEPT !.filemax = i.size, !.ret = 1,
                                        !.fsmax = (NDADDR + NINDIR(n)) * Bsize(n)]
                    ELSE IF i.size = 0 \/ i.mode # "dir" THEN Err(n, "bad_filetype")
                    ELSE Down(FindDirect(d, n, Head(path), 0, <<>>))
        Inode(r, i) == IF r.ret = 0 \/ i.k # "inode" THEN Return(r, 0) ELSE At([r EXCEPT !.fs.inode = i], i)
        Loaded(r) == Inode(r, r.buf[1])
    IN  Loaded(devread(d, g, g.fs.sb.itable + (ino \div SECTOR_SIZE), ino % SECTOR_SIZE, 1, <<Blank>>))

ufs2_dir(d, g, path) == UfsWalk(d, g, ROOTINO, path)
=============================================================================
