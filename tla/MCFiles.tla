------------------------------ MODULE MCFiles ------------------------------
(* Small volumes of every kind for Files, each with what it is meant to     *)
(* hold, laid out as the tools that make them lay them out.                 *)
EXTENDS Files

D(f, i) == [k |-> "data", f |-> f, i |-> i]
Content(f, n) == [i \in 1..n |-> D(f, i)]
Empty(n) == [s \in 0..(n - 1) |-> <<Blank, Blank>>]
\* The bytes of q over the sectors from s on.
Over(s, q) == [t \in s..(s + ((Len(q) + 1) \div 2) - 1) |->
                 LET i == 2 * (t - s) IN <<q[i + 1], IF i + 2 <= Len(q) THEN q[i + 2] ELSE Blank>>]
One(s, b) == Over(s, <<b>>)
Stack(fs) == [s \in UNION {DOMAIN fs[i] : i \in 1..Len(fs)} |->
                fs[CHOOSE i \in 1..Len(fs) : s \in DOMAIN fs[i]
                      /\ \A j \in (i + 1)..Len(fs) : s \notin DOMAIN fs[j]][s]]
Shift(at, by) == [s \in {t + by : t \in DOMAIN at} |-> at[s - by]]

None == [type |-> "none", start |-> 0, len |-> 0]
Slot1(type, start, len) == [type |-> type, start |-> start, len |-> len]
Mbr(slots) == [k |-> "table", sig |-> TRUE, mag |-> FALSE, slots |-> slots, parts |-> <<>>]
Label(parts) == [k |-> "table", sig |-> FALSE, mag |-> TRUE, slots |-> <<>>, parts |-> parts]
Dest(slice, b) == [slice |-> slice, bsd |-> b]
Block0 == <<[start |-> 0, len |-> 1]>>

\* Disks whose partitions are told apart by their first sector.
Partitioned(n, tables, where) ==
    LET at == Stack(<<[s \in 0..(n - 1) |-> <<D("s", 2 * s), D("s", 2 * s + 1)>>]>> \o tables)
    IN  [kind |-> "disk", at |-> at, failing |-> 0..(n - 1),
         files |-> [nm \in {[dest |-> w, blocks |-> Block0] : w \in DOMAIN where} |-> at[where[nm.dest]]],
         paths |-> {[dest |-> Dest(i, NoPart), blocks |-> Block0] : i \in 0..5}
                     \cup {[dest |-> Dest(i, b), blocks |-> Block0] : i \in {0, NoPart}, b \in 0..2}]

DiskExtended ==
    Partitioned(14,
        <<One(0, Mbr(<<Slot1("fat", 2, 2), Slot1("extended", 6, 8), None, Slot1("linux", 4, 2)>>)),
          One(6, Mbr(<<Slot1("linux", 2, 2), Slot1("linuxext", 4, 4), None, None>>)),
          One(10, Mbr(<<None, Slot1("fat", 2, 2), None, None>>))>>,
        (Dest(0, NoPart) :> 2) @@ (Dest(1, NoPart) :> 6) @@ (Dest(3, NoPart) :> 4)
          @@ (Dest(4, NoPart) :> 8) @@ (Dest(5, NoPart) :> 12))

DiskLabelled ==
    Partitioned(12,
        <<One(0, Mbr(<<Slot1("bsd", 2, 6), None, Slot1("linux", 8, 2), None>>)),
          One(3, Label(<<Slot1("ffs", 4, 2), None, Slot1("ext2", 6, 2)>>)),
          One(9, Mbr(<<None, None, None, None>>))>>,
        (Dest(0, NoPart) :> 2) @@ (Dest(2, NoPart) :> 8) @@ (Dest(0, 0) :> 4) @@ (Dest(0, 2) :> 6))

\* A file system in partition 0 of a disk, from sector 2 on.
InPartition(type, fs, files, paths) ==
    LET n == Cardinality(DOMAIN fs)
        at == Stack(<<Empty(n + 2), One(0, Mbr(<<Slot1(type, 2, n), None, None, None>>)), Shift(fs, 2)>>)
        Named(p) == [dest |-> Dest(0, NoPart), path |-> p]
    IN  [kind |-> "disk", at |-> at, failing |-> DOMAIN at,
         files |-> [nm \in {Named(p) : p \in DOMAIN files} |-> files[nm.path]],
         paths |-> {Named(p) : p \in paths}]

-----------------------------------------------------------------------------
(* FAT *)

EndMark == [k |-> "entry", what |-> "end"]
Deleted == [k |-> "entry", what |-> "deleted"]
Long(id, final, sum, part) == [k |-> "entry", what |-> "long", id |-> id, last |-> final, sum |-> sum, part |-> part]
Short(what, sum, name, cluster, size) ==
    [k |-> "entry", what |-> what, sum |-> sum, short |-> name, cluster |-> cluster, size |-> size]

\* size nibbles of each entry, packed two to a byte.
Packed(fat, size) ==
    LET Nib(i) == (fat[(i \div size) + 1] \div 16^(i % size)) % 16
        n == Len(fat) * size
    IN  [b \in 1..(n \div 2) |-> [k |-> "nibbles", n |-> <<Nib(2 * b - 2), Nib(2 * b - 1)>>]]

\* The kernel in the clusters of chain, its directory entries at entries of the
\* root, a directory in cluster 2 with the file of cluster 3.
FatVolume(size, clusters, chain, entries) ==
    LET eof == FatEof[size] + 7
        fat == [i \in 1..clusters |->
                  IF i = 1 THEN (eof - (eof % 256)) + 248 ELSE IF i = 2 THEN eof
                  ELSE IF \E j \in 1..(Len(chain) - 1) : chain[j] = i - 1
                  THEN chain[(CHOOSE j \in 1..(Len(chain) - 1) : chain[j] = i - 1) + 1]
                  ELSE IF i - 1 = 4 /\ size = 8 THEN 5
                  ELSE IF i - 1 \in {2, 3, 5} \cup {chain[Len(chain)]} THEN eof ELSE 0]
        packed == Packed(fat, size)
        fatsects == (Len(packed) + 1) \div 2
        rootsects == IF size = 8 THEN 0 ELSE 2
        data == 1 + fatsects + rootsects
        Cl(c) == data + c - 2
        bpb == [k |-> "bpb", bytes_per_sect |-> SECTOR_SIZE, sects_per_clust |-> 1, reserved |-> 1,
                num_fats |-> 1, dir_entries |-> 2 * rootsects, sectors |-> data + clusters - 2,
                fat_length |-> IF size = 8 THEN 0 ELSE fatsects, fat32_length |-> fatsects,
                active |-> -1, root_cluster |-> 4, media |-> 240]
        root == entries \o <<Short("dir", 9, <<"d">>, 2, 0)>>
        kernel == Content("k", 2 * Len(chain) - 1)
    IN  Stack(<<Empty(data + clusters - 2 + FAT_CACHE_SIZE), One(0, bpb), Over(1, packed),
                Over(IF size = 8 THEN Cl(4) ELSE 1 + fatsects, root),
                Over(Cl(2), <<Short("file", 8, <<"c">>, 3, 2), EndMark>>),
                Over(Cl(3), Content("c", 2))>>
              \o [j \in 1..Len(chain) |->
                    Over(Cl(chain[j]), SubSeq(kernel, 2 * j - 1, IF j = Len(chain) THEN 2 * j - 1 ELSE 2 * j))])

KernelEntries == <<Long(2, TRUE, 7, "nel"), Long(1, FALSE, 7, "ker")>>
FatFiles(len) == (<<<<"k">>>> :> Content("k", len)) @@ (<<<<"d">>, <<"c">>>> :> Content("c", 2))
FatPaths == {<<<<"k">>>>, <<<<"ker", "nel">>>>, <<<<"d">>, <<"c">>>>, <<<<"d">>>>, <<<<"x">>>>}
Alias(files) == files @@ (<<<<"ker", "nel">>>> :> files[<<<<"k">>>>])

Fat12 == InPartition("fat", FatVolume(3, 8, <<5, 7, 6>>, KernelEntries \o <<Short("file", 7, <<"k">>, 5, 5)>>),
                     Alias(FatFiles(5)), FatPaths)
Fat12Stale == InPartition("fat", FatVolume(3, 8, <<7, 5>>, <<Long(1, TRUE, 6, "ker"), Deleted,
                                                            Short("file", 7, <<"k">>, 7, 3)>>),
                          FatFiles(3), FatPaths)
Fat16 == InPartition("fat", FatVolume(4, 10, <<9, 8, 5, 6>>, KernelEntries \o <<Short("file", 7, <<"k">>, 9, 7)>>),
                     Alias(FatFiles(7)), FatPaths)
Fat32 == InPartition("fat", FatVolume(8, 8, <<7, 6>>, KernelEntries \o <<Short("file", 7, <<"k">>, 7, 3)>>),
                     Alias(FatFiles(3)), FatPaths)

-----------------------------------------------------------------------------
(* Ext2: blocks of one sector, two addresses each; inodes 1 to 4 in group 0 *)

Addr(n) == [k |-> "addr", n |-> n]
Map(b, m, n) == b :> <<Addr(m), Addr(n)>>
Inode(mode, size, block) ==
    [k |-> "inode", mode |-> mode, size |-> size, block |-> block, blocks |-> size, acl |-> FALSE,
     aclblocks |-> 0, link |-> <<>>]
FastLink(to) == [Inode("link", Len(to), <<0, 0, 0, 0>>) EXCEPT !.blocks = 1, !.acl = TRUE, !.aclblocks = 1, !.link = to]
Dirent(name, inode, rec) == [k |-> "dirent", name |-> name, inode |-> inode, rec |-> rec]
Names1(q) == [i \in 1..Len(q) |-> [k |-> "name", name |-> q[i]]]
\* The bytes of a file over the blocks listed, two to a block.
Spread(q, blocks) == Stack([j \in 1..Len(blocks) |->
                        Over(blocks[j], SubSeq(q, 2 * j - 1, IF 2 * j > Len(q) THEN Len(q) ELSE 2 * j))])

Ext2Volume ==
    Stack(<<Empty(35),
        One(2, [k |-> "ext2", bsize |-> 1, ipg |-> 4, first |-> 2]),
        Map(3, 4, 6),
        Over(4, <<Blank, Inode("dir", 6, <<8, 9, 0, 0>>), Inode("reg", 17, <<12, 13, 16, 23>>),
                  Inode("dir", 2, <<28, 0, 0, 0>>), Inode("reg", 3, <<29, 31, 0, 0>>), FastLink(<<"k">>),
                  Inode("link", 3, <<32, 33, 0, 0>>), FastLink(<<"loop">>)>>),
        Map(9, 10, 11), Map(13, 14, 15), Map(16, 17, 18), Map(17, 19, 20), Map(18, 21, 22),
        Map(23, 24, 0), Map(24, 25, 0), Map(25, 26, 27), Map(31, 30, 0), Map(33, 34, 0),
        Spread(<<Dirent("k", 3, 1), Dirent("old", 0, 1), Dirent("d", 4, 2), Blank,
                 Dirent("vm", 6, 1), Dirent("loop", 8, 1)>>, <<8, 10, 11>>),
        Over(28, <<Dirent("c", 5, 1), Dirent("ln", 7, 1)>>),
        Spread(Content("k", 17), <<12, 14, 15, 19, 20, 21, 22, 26, 27>>),
        Spread(Content("c", 3), <<29, 30>>),
        Spread(Names1(<<"/", "d", "c">>), <<32, 34>>)>>)

Ext2 == InPartition("linux", Ext2Volume,
            (<<"k">> :> Content("k", 17)) @@ (<<"vm">> :> Content("k", 17)) @@ (<<"d", "c">> :> Content("c", 3))
              @@ (<<"d", "ln">> :> Content("c", 3)),
            {<<"k">>, <<"vm">>, <<"d", "c">>, <<"d", "ln">>, <<"d">>, <<"loop">>, <<"old">>, <<"k", "c">>})

-----------------------------------------------------------------------------
(* UFS2 in the first BSD partition: blocks of two sectors *)

Halves(ns) == [i \in 1..(2 * Len(ns)) |->
                 [k |-> "addr", n |-> ns[((i - 1) \div 2) + 1], half |-> (i - 1) % 2]]
UfsInode(mode, size, db, ib) == [k |-> "inode", mode |-> mode, size |-> size, db |-> <<db>>, ib |-> ib]

Ufs2Volume ==
    Stack(<<Empty(23), One(1, [k |-> "ufs2", bsize |-> 2, itable |-> 2]),
        Over(3, <<UfsInode("dir", 8, 5, 7), UfsInode("reg", 11, 11, 13), UfsInode("dir", 4, 19, 0),
                  UfsInode("reg", 3, 21, 0)>>),
        Over(5, <<Dirent("old", 0, 1), Dirent("k", 3, 3)>>),
        Over(7, Halves(<<9, 0>>)), Over(9, <<Dirent("d", 4, 4)>>),
        Over(11, SubSeq(Content("k", 11), 1, 4)), Over(13, Halves(<<15, 17>>)),
        Over(15, SubSeq(Content("k", 11), 5, 8)), Over(17, SubSeq(Content("k", 11), 9, 11)),
        Over(19, <<Dirent("c", 5, 4)>>), Over(21, Content("c", 3))>>)

Ufs2 ==
    LET at == Stack(<<Empty(27), One(0, Mbr(<<Slot1("bsd", 2, 25), None, None, None>>)),
                      One(3, Label(<<Slot1("ffs", 4, 23)>>)), Shift(Ufs2Volume, 4)>>)
        Named(q) == [dest |-> Dest(0, 0), path |-> q]
    IN  [kind |-> "disk", at |-> at, failing |-> DOMAIN at,
         files |-> (Named(<<"k">>) :> Content("k", 11)) @@ (Named(<<"d", "c">>) :> Content("c", 3)),
         paths |-> {Named(q) : q \in {<<"k">>, <<"d", "c">>, <<"d">>, <<"old">>}}]

-----------------------------------------------------------------------------
(* ReiserFS: a tree of depth 4, and a journal of 16 blocks from block 6 on *)

Key(dir, obj, off) == [dir |-> dir, obj |-> obj, off |-> off]
Stat(dir, obj, mode, size) == [dir |-> dir, obj |-> obj, off |-> 0, type |-> "stat", mode |-> mode, size |-> size]
Body(type, dir, obj, off, body) == [dir |-> dir, obj |-> obj, off |-> off, type |-> type, body |-> body]
DirItem(dir, obj, es) == [dir |-> dir, obj |-> obj, off |-> 1, type |-> "dir", entries |-> es]
Ent(name, dir, obj) == [visible |-> TRUE, name |-> name, dir |-> dir, obj |-> obj]
LeafNode(items) == [k |-> "node", level |-> 1, items |-> items]
Inner(level, keys, kids) == [k |-> "node", level |-> level, keys |-> keys, kids |-> kids]

ReiserSuper(root) == [k |-> "reiser", bsize |-> 1, journal |-> 6, journal_size |-> 16, root |-> root]
RootLeaf == LeafNode(<<Stat(1, 2, "dir", 1),
                       DirItem(1, 2, <<[Ent("old", 2, 5) EXCEPT !.visible = FALSE], Ent("k", 2, 5), Ent("vm", 2, 6),
                                       Ent("d", 2, 7)>>)>>)
TailLeaf(byte) == LeafNode(<<Body("direct", 2, 5, 5, <<byte>>), Stat(2, 6, "link", 1)>>)
ReiserTree(root, tail, super) ==
    Stack(<<Empty(38), One(4, super),
        One(23, Inner(4, <<Key(2, 6, 1)>>, <<24, 25>>)),
        One(24, Inner(3, <<Key(2, 5, 1)>>, <<26, 27>>)), One(25, Inner(3, <<>>, <<28>>)),
        One(26, Inner(2, <<Key(2, 5, 0)>>, <<29, 30>>)), One(27, Inner(2, <<Key(2, 5, 5)>>, <<31, 32>>)),
        One(28, Inner(2, <<Key(7, 8, 0)>>, <<33, 34>>)),
        One(29, root), One(30, LeafNode(<<Stat(2, 5, "reg", 5)>>)),
        One(31, LeafNode(<<Body("indirect", 2, 5, 1, <<35, 36>>)>>)), One(32, tail),
        One(33, LeafNode(<<Body("direct", 2, 6, 1, Names1(<<"k">>)), Stat(2, 7, "dir", 1),
                           DirItem(2, 7, <<Ent("c", 7, 8)>>)>>)),
        One(34, LeafNode(<<Stat(7, 8, "reg", 2), Body("direct", 7, 8, 1, Content("c", 2))>>)),
        Over(35, SubSeq(Content("k", 5), 1, 4))>>)

JHeader(first) == [k |-> "jheader", first |-> first, flushed |-> 5, mount |-> 1]
JDesc(id, blocks) == [k |-> "jdesc", id |-> id, mount |-> 1, len |-> Len(blocks), blocks |-> SubSeq(blocks, 1, 1)]
JCommit(id, blocks) == [k |-> "jcommit", id |-> id, len |-> Len(blocks), blocks |-> SubSeq(blocks, 2, Len(blocks))]
J(b, byte) == One(6 + b, byte)

ReiserFiles == (<<"k">> :> Content("k", 5)) @@ (<<"vm">> :> Content("k", 5)) @@ (<<"d", "c">> :> Content("c", 2))
ReiserPaths == {<<"k">>, <<"vm">>, <<"d", "c">>, <<"d">>, <<"old">>}

Reiser == InPartition("linux", Stack(<<ReiserTree(RootLeaf, TailLeaf(D("k", 5)), ReiserSuper(23)), J(16, JHeader(0))>>),
                      ReiserFiles, ReiserPaths)

\* The machine stopped before two committed transactions were flushed: the leaf
\* with the tail, then the root's leaf and the super block, round the end of the
\* journal.  A third one is complete or was being written.
Unflushed(third) ==
    Stack(<<ReiserTree(LeafNode(<<>>), TailLeaf(D("stale", 5)), ReiserSuper(37)), J(16, JHeader(13)),
        J(13, JDesc(6, <<32>>)), J(14, TailLeaf(IF third THEN D("older", 5) ELSE D("k", 5))), J(15, JCommit(6, <<32>>)),
        J(0, JDesc(7, <<29, 4>>)), J(1, RootLeaf), J(2, ReiserSuper(23)), J(3, JCommit(7, <<29, 4>>)),
        J(4, JDesc(8, <<32>>)), J(5, TailLeaf(IF third THEN D("k", 5) ELSE D("later", 5))),
        J(6, JCommit(IF third THEN 8 ELSE 4, <<32>>))>>)

ReiserCrashed == InPartition("linux", Unflushed(FALSE), ReiserFiles, ReiserPaths)
ReiserCommitted == InPartition("linux", Unflushed(TRUE), ReiserFiles, ReiserPaths)

-----------------------------------------------------------------------------
(* FATX: clusters of one sector.  The file s is longer than its chain, f
   of the wide volume shorter, and the chain of y leads back into itself. *)

Dent(what, name, cluster, size) == [k |-> "dent", what |-> what, name |-> name, cluster |-> cluster, size |-> size]
Chain(wide, map) == [i \in 1..(wide * Len(map)) |->
                       [k |-> "chain", v |-> map[((i - 1) \div wide) + 1], half |-> ((i - 1) % wide) + 1]]

FatxVolume(wide, map, dirs, files, contents, paths) ==
    LET table == ((wide * Len(map) + 3) \div 4) * 4
        Cl(c) == 1 + (table \div 2) + c - 1
        at == Stack(<<Empty(Cl(Len(map)) + 1), One(0, [k |-> "fatx"]), Over(1, Chain(wide, map))>>
                      \o [i \in 1..Len(dirs) |-> Over(Cl(dirs[i][1]), dirs[i][2])]
                      \o [i \in 1..Len(contents) |-> Over(Cl(contents[i][1]), contents[i][2])])
    IN  [kind |-> "fatx", at |-> at, failing |-> DOMAIN at, start |-> 0, size |-> 2 * Len(map),
         files |-> files, paths |-> paths]

FatxFiles == (<<"f">> :> Content("f", 3)) @@ (<<"d", "g">> :> Content("g", 2))
FatxPaths == {<<"f">>, <<"d", "g">>, <<"d">>, <<"x">>, <<"toolong">>, <<"f", "g">>, <<"bad">>}
FatxNarrow ==
    FatxVolume(1, <<-8, 5, 4, -1, -1, -1, -1>>,
        <<<<1, <<Dent("deleted", "x", 2, 1), Dent("file", "f", 2, 3)>>>>, <<5, <<Dent("dir", "d", 3, 0), Dent("end", "", 0, 0)>>>>,
          <<3, <<Dent("file", "g", 6, 2), Dent("end", "", 0, 0)>>>>>>,
        FatxFiles, <<<<2, SubSeq(Content("f", 3), 1, 2)>>, <<4, SubSeq(Content("f", 3), 3, 3)>>, <<6, Content("g", 2)>>>>,
        FatxPaths)
FatxWide ==
    FatxVolume(2, <<-8, 5, 4, -1, 7, 8, -1, -1, -1, 9>>,
        <<<<1, <<Dent("file", "f", 2, 4), Dent("dir", "d", 3, 0)>>>>, <<5, <<Dent("file", "s", 6, 4), Dent("file", "y", 9, 3)>>>>,
          <<8, <<Dent("invalid", "", 0, 0), Dent("file", "bad", 6, 2)>>>>, <<3, <<Dent("file", "g", 6, 2), Dent("end", "", 0, 0)>>>>>>,
        (<<"f">> :> Content("f", 4)) @@ (<<"d", "g">> :> Content("g", 2)),
        <<<<2, SubSeq(Content("f", 5), 1, 2)>>, <<4, SubSeq(Content("f", 5), 3, 4)>>, <<7, SubSeq(Content("f", 5), 5, 5)>>,
          <<6, Content("g", 2)>>>>,
        FatxPaths \cup {<<"s">>, <<"y">>})

-----------------------------------------------------------------------------
(* A CD: blocks of one sector. *)

Record(name, dir, extent, size) ==
    [k |-> "record", name |-> name, dot |-> FALSE, dir |-> dir, len |-> 1, extent |-> extent, size |-> size]
Dot == [Record(<<"0">>, TRUE, 3, 6) EXCEPT !.dot = TRUE]

Cd ==
    LET at == Stack(<<Empty(13), One(2, [k |-> "pvd", root |-> Dot]), Over(3, <<Dot, Dot>>),
                      Over(4, <<Record(<<"A", ";", "1">>, FALSE, 7, 3)>>),
                      Over(5, <<Record(<<"A", "B">>, TRUE, 6, 2), Record(<<"B", ".", ";", "1">>, FALSE, 9, 2)>>),
                      Over(6, <<[Record(<<"A", ";", "B", ";", "1">>, FALSE, 10, 4) EXCEPT !.len = 2]>>),
                      Over(7, Content("a", 3)), Over(9, Content("b", 2)), Over(10, Content("aa", 4))>>)
    IN  [kind |-> "iso", at |-> at, failing |-> 2..12,
         files |-> (<<<<"a">>>> :> Content("a", 3)) @@ (<<<<"b">>>> :> Content("b", 2))
                     @@ (<<<<"a", "b">>, <<"a", ".", "b">>>> :> Content("aa", 4)),
         paths |-> {<<<<"a">>>>, <<<<"b">>>>, <<<<"a", "b">>, <<"a", ".", "b">>>>, <<<<"a", "b">>, <<"b">>>>,
                    <<<<"a", ";", "1">>>>}]

MCVolumes == <<DiskExtended, DiskLabelled, Fat12, Fat12Stale, Fat16, Fat32, Ext2, Ufs2, Reiser, ReiserCrashed,
               ReiserCommitted, FatxNarrow, FatxWide, Cd>>
MCSblockTry == <<2>>
=============================================================================
