------------------------------- MODULE Ext2Fs -------------------------------
(***************************************************************************)
(* Ext2 and ext3 volumes as GRUB reads them (fs/grub/fsys_ext2fs.c).  g.fs *)
(* holds the super block, the INODE buffer, and the two buffers of block   *)
(* addresses: mapblock1 says which of the three indirect blocks db1 holds, *)
(* mapblock2 which block db2 holds (-1: none).  An address, an inode, a    *)
(* group descriptor and a directory entry take one byte each; a symbolic   *)
(* link holds the names of its path, after "/" when it is absolute; the    *)
(* paths asked for are absolute, and come without it.                      *)
(***************************************************************************)
EXTENDS GrubDisk

CONSTANT EXT2_NDIR_BLOCKS   \* 12

SBLOCK == 2
WHICH_SUPER == 1
EXT2_ROOT_INO == 2

BlockSize(g) == g.fs.sb.bsize * SECTOR_SIZE

ext2fs_mount(d, g) ==
    LET Super(r) == IF r.ret = 0 \/ r.buf[1].k # "ext2" THEN Return(r, 0)
                    ELSE [r EXCEPT !.ret = 1,
                                   !.fs = [k |-> "ext2", sb |-> r.buf[1], inode |-> Blank, table |-> <<>>,
                                           mapblock1 |-> -1, mapblock2 |-> -1, db1 |-> <<>>, db2 |-> <<>>]]
    IN  IF g.type \notin {<<"none", "none">>, <<"linux", "none">>, <<"raid", "none">>,
                          <<"bsd", "ext2">>, <<"bsd", "other">>}
           \/ g.part_length < SBLOCK + 1
        THEN Return(g, 0)
        ELSE Super(devread(d, g, SBLOCK, 0, 1, <<Blank>>))

\* A file system block.  An error of the drive comes back as success, and is
\* caught by the next read, which does nothing while errnum is set.
ext2_rdfsb(d, g, block, old) ==
    devread(d, g, block * g.fs.sb.bsize, 0, BlockSize(g), old)

Address(db, i) == IF i < Len(db) /\ db[i + 1].k = "addr" THEN db[i + 1].n ELSE 0

\* Whatever indirect block is in db1 is taken for the one of this level.
AnyMap(d, g, level) ==
    LET Filled(r) == IF r.ret = 0 THEN Err(r, "fsys_corrupt")
                     ELSE [r EXCEPT !.fs.db1 = r.buf, !.fs.mapblock1 = level]
    IN  IF g.fs.mapblock1 # -1 THEN Return(g, 1)
        ELSE Filled(ext2_rdfsb(d, g, g.fs.inode.block[EXT2_NDIR_BLOCKS + level], g.fs.db1))

\* Make db1 the indirect block of this level, and db2 the block n.
FirstMap(d, g, level) ==
    LET Filled(r) == IF r.ret = 0 THEN Err(r, "fsys_corrupt")
                     ELSE [r EXCEPT !.fs.db1 = r.buf, !.fs.mapblock1 = level]
    IN  IF g.fs.mapblock1 = level THEN Return(g, 1)
        ELSE Filled(ext2_rdfsb(d, g, g.fs.inode.block[EXT2_NDIR_BLOCKS + level], g.fs.db1))

SecondMap(d, g, n) ==
    LET Filled(r) == IF r.ret = 0 THEN Err(r, "fsys_corrupt") ELSE [r EXCEPT !.fs.db2 = r.buf]
    IN  Filled(ext2_rdfsb(d, g, n, g.fs.db2))

\* The block of the file system where block l of the file is, as ret; -1 with
\* an error.
ext2fs_block_map(d, g, l) ==
    LET a == BlockSize(g)                      \* addresses in a block
        l1 == l - EXT2_NDIR_BLOCKS
        l2 == l1 - a
        l3 == l2 - a * a
        Failed(r) == Return(r, -1)
        Single(m) == IF m.ret = 0 THEN Failed(m) ELSE Return(m, Address(m.fs.db1, l1))
        Double2(s, bnum) == IF s.ret = 0 THEN Failed(s)
                            ELSE [s EXCEPT !.fs.mapblock2 = bnum, !.ret = Address(s.fs.db2, l2 % a)]
        Double1(m, bnum) == Double2(IF bnum = m.fs.mapblock2 THEN Return(m, 1) ELSE SecondMap(d, m, bnum), bnum)
        Double(m) == IF m.ret = 0 THEN Failed(m) ELSE Double1(m, Address(m.fs.db1, l2 \div a))
        Triple2(t) == IF t.ret = 0 THEN Failed(t) ELSE Return(t, Address(t.fs.db2, l3 % a))
        Triple1(s) == IF s.ret = 0 THEN Failed(s)
                      ELSE Triple2(SecondMap(d, s, Address(s.fs.db2, (l3 \div a) % a)))
        Triple(m) == IF m.ret = 0 THEN Failed(m)
                     ELSE Triple1(SecondMap(d, m, Address(m.fs.db1, l3 \div (a * a))))
    IN  IF l1 < 0 THEN Return(g, g.fs.inode.block[l + 1])
        ELSE IF l2 < 0 THEN Single(FirstMap(d, g, 1))
        ELSE IF l3 < 0 THEN Double(FirstMap(d, g, 2))
        ELSE Triple(FirstMap(d, [g EXCEPT !.fs.mapblock2 = -1], 3))

RECURSIVE ext2fs_read(_, _, _, _)
ext2fs_read(d, g, len, out) ==
    LET off == g.filepos % BlockSize(g)
        size == IF BlockSize(g) - off > len THEN len ELSE BlockSize(g) - off
        Done(x) == [x EXCEPT !.ret = IF x.errnum = "none" THEN Len(out) ELSE 0, !.buf = out]
        On(r) == ext2fs_read(d, [r EXCEPT !.filepos = @ + size], len - size, out \o r.buf)
        At(m) == IF m.ret < 0 THEN Done(m) ELSE On(devread(d, m, m.ret * m.fs.sb.bsize, off, size, <<>>))
    IN  IF len <= 0 THEN Done(g) ELSE At(ext2fs_block_map(d, g, g.filepos \div BlockSize(g)))

-----------------------------------------------------------------------------
(* Looking a path up *)

\* The inode is copied to the front of its block of the inode table; the maps of
\* the inode before it are forgotten.  Where the block cannot be read the bytes
\* of the one before it are taken, with errnum set.
LoadInode(d, g, ino) ==
    LET sb == g.fs.sb
        group == (ino - 1) \div sb.ipg
        Kept(r, inode) == IF r.ret = 0 \/ inode.k # "inode" THEN Return(r, 0)
                          ELSE [r EXCEPT !.ret = 1, !.fs.inode = inode, !.fs.table = [r.buf EXCEPT ![1] = inode],
                                         !.fs.mapblock1 = -1, !.fs.mapblock2 = -1]
        InBlock(r) == Kept(r, r.buf[((ino - 1) % BlockSize(g)) + 1])
        InTable(gd, table) == IF gd.ret = 0 \/ table.k # "addr" THEN Return(gd, 0)
                              ELSE InBlock(ext2_rdfsb(d, gd, table.n + (((ino - 1) % sb.ipg) \div BlockSize(g)),
                                                g.fs.table))
        OfGroup(gd) == InTable(gd, gd.buf[(group % BlockSize(g)) + 1])
    IN  OfGroup(ext2_rdfsb(d, g, WHICH_SUPER + (group \div BlockSize(g)) + sb.first, <<>>))

\* The number of the inode of that name in the directory, as ret; 0 with an error.
RECURSIVE FindDirent(_, _, _, _)
FindDirent(d, g, name, loc) ==
    LET Look(r, dp) == IF r.ret = 0 \/ dp.k # "dirent" THEN Err(r, "fsys_corrupt")
                       ELSE IF dp.inode # 0 /\ dp.name = name THEN [r EXCEPT !.fs.db2 = r.buf, !.ret = dp.inode]
                       ELSE FindDirent(d, [r EXCEPT !.fs.db2 = r.buf], name, loc + dp.rec)
        InBlock(r) == Look(r, r.buf[(loc % BlockSize(g)) + 1])
        At(m) == IF m.ret < 0 THEN Err(m, "fsys_corrupt")
                 ELSE InBlock(ext2_rdfsb(d, [m EXCEPT !.fs.mapblock2 = -1], m.ret, m.fs.db2))
    IN  IF loc >= g.fs.inode.size THEN Err(g, "file_not_found")
        ELSE At(ext2fs_block_map(d, g, loc \div BlockSize(g)))

Names(buf) == [i \in 1..Len(buf) |-> IF buf[i].k = "name" THEN buf[i].name ELSE "?"]

\* What a symbolic link says: from its blocks, or from the inode itself when
\* the link has no block beyond those of its attributes.
ReadLink(d, g) ==
    LET i == g.fs.inode
        h == [g EXCEPT !.filemax = i.size]
        fast == i.blocks = IF i.acl THEN i.aclblocks ELSE 0
        Whole(r) == [r EXCEPT !.filepos = 0, !.buf = Names(r.buf)]
    IN  IF fast THEN [h EXCEPT !.ret = i.size, !.buf = i.link]
        ELSE Whole(ext2fs_read(d, h, Clamped(h, i.size), <<>>))

RECURSIVE Ext2Walk(_, _, _, _, _, _)
Ext2Walk(d, g, ino, updir, path, links) ==
    LET rest == IF path # <<>> /\ Head(path) = "/" THEN Tail(path) ELSE path
        Via(l, to, dir) == Ext2Walk(d, l, dir, dir, to, links + 1)
        Linked(l, to) == IF l.ret = 0 THEN l ELSE Via(l, to, IF Head(to) = "/" THEN EXT2_ROOT_INO ELSE updir)
        Link(l) == Linked(l, l.buf \o path)
        Down(f) == IF f.ret = 0 THEN f ELSE Ext2Walk(d, f, f.ret, ino, Tail(rest), links)
        At(n, i) ==
            IF n.ret = 0 THEN n
            ELSE IF i.mode = "link"
            THEN IF links + 1 > MAX_LINK_COUNT THEN Err(n, "symlink_loop")
                 ELSE IF i.size + Len(path) > PATH_MAX - 2 THEN Err([n EXCEPT !.filemax = i.size], "filelength")
                 ELSE Link(ReadLink(d, n))
            ELSE IF path = <<>>
            THEN IF i.mode # "reg" THEN Err(n, "bad_filetype") ELSE [n EXCEPT !.filemax = i.size, !.ret = 1]
            ELSE IF i.size = 0 \/ i.mode # "dir" THEN Err(n, "bad_filetype")
            ELSE Down(FindDirent(d, n, Head(rest), 0))
        Loaded(n) == At(n, n.fs.inode)
    IN  Loaded(LoadInode(d, g, ino))

ext2fs_dir(d, g, path) == Ext2Walk(d, g, EXT2_ROOT_INO, EXT2_ROOT_INO, path, 0)
=============================================================================
