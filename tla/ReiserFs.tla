------------------------------ MODULE ReiserFs ------------------------------
(***************************************************************************)
(* ReiserFS volumes as GRUB reads them (fs/grub/fsys_reiserfs.c).  GRUB    *)
(* does not replay the journal: it lists the committed transactions at     *)
(* mount time and reads a block of the tree from the last transaction that *)
(* wrote it.  Of the list, table holds what fits into the buffer; full     *)
(* says that later transactions must be looked up on the disk.             *)
(*                                                                         *)
(* A node of the tree is the first byte of its block.  g.fs.slot[1] is the *)
(* leaf, slot[n] the node of depth n on the current path, the last slot    *)
(* shared by all depths from there; blocks says which block each depth     *)
(* holds; nextkey[n] the child of that node to go to after the current one *)
(* (0: none).  item is the current item of the leaf, 0 past the last.      *)
(***************************************************************************)
EXTENDS GrubDisk

CONSTANTS JOURNAL_TRANS_HALF,  \* block numbers in a descriptor block
          JOURNAL_TABLE,       \* words of the table of transactions
          CachedSlots,         \* INFO->cached_slots
          MAX_HEIGHT,          \* 7
          NewSuper, OldSuper   \* sectors of the super block, 128 and 16

RootKey == [dir |-> 1, obj |-> 2]
MaxItem == [dir |-> MAXINT, obj |-> MAXINT, off |-> MAXINT, type |-> "max"]

journal_read(d, g, block) ==
    devread(d, g, (g.fs.sb.journal + block) * g.fs.sb.bsize, 0, 1, <<Blank>>)

Wrapped(g, block) == block % g.fs.sb.journal_size

\* The block numbers of the transaction whose descriptor is at block desc; half
\* of them are in the commit block.
OnDisk(d, g, desc) ==
    LET Fail(r) == [g |-> Return(r, 0), blocks |-> <<>>]
        Commit(c, t) == IF c.ret = 0 \/ c.buf[1].k # "jcommit" THEN Fail(c)
                        ELSE [g |-> c, blocks |-> t.blocks \o c.buf[1].blocks]
        Descriptor(r, t) == IF r.ret = 0 \/ t.k # "jdesc" THEN Fail(r)
                            ELSE IF t.len < JOURNAL_TRANS_HALF THEN [g |-> r, blocks |-> t.blocks]
                            ELSE Commit(journal_read(d, r, Wrapped(g, desc + 1 + t.len)), t)
        Got(r) == Descriptor(r, r.buf[1])
    IN  Got(journal_read(d, g, desc))

\* Transaction n of those to look through, from descriptor desc on; to is where
\* the block is, as far as the transactions before say.
RECURSIVE Translate(_, _, _, _, _, _)
Translate(d, g, block, n, desc, to) ==
    LET On(h, list) ==
            LET hits == {i \in 1..Len(list) : list[i] = block}
                i == CHOOSE j \in hits : \A m \in hits : j <= m
            IN  Translate(d, h, block, n + 1, Wrapped(g, desc + 2 + Len(list)),
                          IF hits = {} THEN to ELSE g.fs.sb.journal + Wrapped(g, desc + i))
        Looked(o) == IF o.g.ret = 0 THEN [o.g EXCEPT !.ret = -1] ELSE On(o.g, o.blocks)
    IN  IF n > g.fs.transactions THEN [g EXCEPT !.ret = to]
        ELSE IF n <= Len(g.fs.table) THEN On(g, g.fs.table[n])
        ELSE Looked(OnDisk(d, g, desc))

block_read(d, g, block) ==
    LET At(t) == IF t.ret < 0 THEN [t EXCEPT !.ret = 0, !.buf = <<Blank>>]
                 ELSE devread(d, t, t.ret * g.fs.sb.bsize, 0, 1, <<Blank>>)
    IN  At(Translate(d, g, block, 1, g.fs.first, block))

\* The valid transactions follow each other in the journal, with consecutive
\* numbers, each ended by a commit block that agrees with its descriptor.
RECURSIVE ListTransactions(_, _, _, _, _)
ListTransactions(d, g, header, desc, room) ==
    LET Listed(c, t, u) ==
            LET fits == ~g.fs.full /\ 1 + t.len < room
            IN  [c EXCEPT !.fs.transactions = @ + 1,
                          !.fs.full = ~fits,
                          !.fs.table = IF fits THEN Append(@, t.blocks \o u.blocks) ELSE @]
        Commit(c, t, u) ==
            IF u.k # "jcommit" \/ c.ret = 0 THEN c
            ELSE IF u.id # t.id \/ u.len # t.len THEN c
            ELSE ListTransactions(d, Listed(c, t, u), header, Wrapped(g, desc + t.len + 2), room - 1 - t.len)
        Ended(c, t) == Commit(c, t, c.buf[1])
        Descriptor(r, t) ==
            IF t.k # "jdesc" \/ r.ret = 0 THEN r
            ELSE IF t.id # header.flushed + g.fs.transactions + 1 \/ t.mount # header.mount THEN r
            ELSE Ended(journal_read(d, r, Wrapped(g, desc + t.len + 1)), t)
        Got(r) == Descriptor(r, r.buf[1])
    IN  Got(journal_read(d, g, desc))

journal_init(d, g) ==
    LET Header(r, h) == IF r.ret = 0 \/ h.k # "jheader" THEN Return(r, 0)
                        ELSE IF h.first >= g.fs.sb.journal_size THEN Return(r, 0)
                        ELSE ListTransactions(d, [r EXCEPT !.fs.first = h.first], h, h.first, JOURNAL_TABLE)
        Got(r) == Header(r, r.buf[1])
    IN  Got(journal_read(d, g, g.fs.sb.journal_size))

\* The super block at the sector, unless it is a copy that lies in the journal.
SuperAt(d, g, sector) ==
    LET Got(r) == IF r.ret = 0 \/ r.buf[1].k # "reiser" THEN Return(r, 0) ELSE r
    IN  IF g.part_length < sector + 1 THEN Return(g, 0) ELSE Got(devread(d, g, sector, 0, 1, <<Blank>>))

NewInfo(sb) ==
    [k |-> "reiser", sb |-> sb, transactions |-> 0, first |-> 0, table |-> <<>>, full |-> FALSE,
     blocks |-> [n \in 1..MAX_HEIGHT |-> 0], slot |-> [n \in 1..CachedSlots |-> Blank],
     nextkey |-> [n \in 1..MAX_HEIGHT |-> 0], root |-> Blank, item |-> 0, file |-> RootKey]

\* The root of the tree, once the super block is known.
ReadRoot(d, g, root) ==
    LET Root(r, node) == IF r.ret = 0 \/ node.k # "node" THEN Return(r, 0)
                         ELSE IF node.level >= MAX_HEIGHT THEN Return(r, 0)
                         ELSE [r EXCEPT !.ret = 1, !.fs.root = node,
                                        !.fs.slot[1] = IF node.level = 1 THEN node ELSE @]
        Read(r) == Root(r, r.buf[1])
    IN  Read(block_read(d, g, root))

\* With a journal, a later transaction may hold a newer super block.
MountAt(d, o, sb, sector) ==
    LET i == [o EXCEPT !.fs = NewInfo(sb)]
        Again(s) == ReadRoot(d, s, IF sb.journal # 0 /\ s.buf[1].k = "reiser" THEN s.buf[1].root ELSE sb.root)
    IN  IF o.ret = 0 THEN o
        ELSE Again(IF sb.journal = 0 THEN i
                   ELSE block_read(d, IF sb.journal_size \in {1, 2, 4, 8, 16, 32} THEN journal_init(d, i) ELSE i,
                                   sector \div sb.bsize))

FindSuper(d, n) ==
    LET new == n.ret = 1 /\ n.buf[1].journal * n.buf[1].bsize > NewSuper
        At(o) == MountAt(d, o, o.buf[1], IF new THEN NewSuper ELSE OldSuper)
    IN  At(IF new THEN n ELSE SuperAt(d, n, OldSuper))

reiserfs_mount(d, g) == FindSuper(d, SuperAt(d, g, NewSuper))

-----------------------------------------------------------------------------
(* The tree *)

\* A node that cannot be read leaves the bytes of the one before it, and errnum
\* set.  Blank stands for them: whatever they are taken for, every later read
\* fails while errnum is set, and the next open mounts anew.
Slot(depth) == IF depth < CachedSlots THEN depth ELSE CachedSlots

read_tree_node(d, g, block, depth) ==
    LET Checked(r, node) == IF node.k # "node" \/ node.level # depth THEN Err(r, "fsys_corrupt")
                            ELSE [r EXCEPT !.fs.blocks[depth] = block, !.ret = 1]
        Filled(r) == IF r.ret = 0 THEN r
                     ELSE Checked([r EXCEPT !.fs.slot[Slot(depth)] = r.buf[1]],
                                  IF r.buf[1].k = "node" THEN r.buf[1] ELSE Blank)
    IN  IF depth < CachedSlots /\ block = g.fs.blocks[depth] THEN Return(g, 1)
        ELSE Filled(block_read(d, g, block))

Leaf(g) == g.fs.slot[1]
Item(g) == IF g.fs.item = 0 THEN MaxItem ELSE Leaf(g).items[g.fs.item]
NodeAt(g, depth) == IF depth = g.fs.root.level THEN g.fs.root ELSE g.fs.slot[Slot(depth)]

\* Down from the node at depth to the leaf after the current one.
RECURSIVE DownNext(_, _, _)
DownNext(d, g, depth) ==
    LET node == NodeAt(g, depth)
        key == g.fs.nextkey[depth]
    IN  IF g.ret = 0 THEN g
        ELSE IF depth = 1 THEN [g EXCEPT !.fs.item = 1, !.ret = 1]
        ELSE DownNext(d, read_tree_node(d, [g EXCEPT !.fs.nextkey[depth] =
                                               IF key = Len(node.keys) THEN 0 ELSE key + 1],
                                        node.kids[key + 1], depth - 1), depth - 1)

next_key(d, g) ==
    LET above == {n \in 2..g.fs.root.level : g.fs.nextkey[n] # 0}
        depth == CHOOSE n \in above : \A m \in above : n <= m
    IN  IF g.fs.item < Len(Leaf(g).items) THEN [g EXCEPT !.fs.item = @ + 1, !.ret = 1]
        ELSE IF above = {} THEN [g EXCEPT !.fs.item = 0, !.ret = 1]
        ELSE DownNext(d, IF depth = g.fs.root.level \/ depth <= CachedSlots THEN Return(g, 1)
                         ELSE read_tree_node(d, g, g.fs.blocks[depth], depth), depth)

\* A key of the node that lies behind the key of the stat item wanted.
Behind(key, want) == \/ key.dir > want.dir
                     \/ key.dir = want.dir /\ key.obj > want.obj
                     \/ key.dir = want.dir /\ key.obj = want.obj /\ key.off > 0

RECURSIVE DownTo(_, _, _, _)
DownTo(d, g, depth, want) ==
    LET node == NodeAt(g, depth)
        n == Len(node.keys)
        behind == {i \in 0..(n - 1) : Behind(node.keys[i + 1], want)}
        i == IF behind = {} THEN n ELSE CHOOSE j \in behind : \A m \in behind : j <= m
        items == Leaf(g).items
        hits == {j \in 1..Len(items) : items[j].dir = want.dir /\ items[j].obj = want.obj
                                         /\ items[j].off = 0}
    IN  IF g.ret = 0 THEN g
        ELSE IF depth > 1
        THEN DownTo(d, read_tree_node(d, [g EXCEPT !.fs.nextkey[depth] = IF i = n THEN 0 ELSE i + 1],
                                      node.kids[i + 1], depth - 1), depth - 1, want)
        ELSE IF hits = {} THEN Err(g, "fsys_corrupt")
        ELSE [g EXCEPT !.fs.item = CHOOSE j \in hits : \A m \in hits : j <= m, !.ret = 1]

search_stat(d, g, want) == DownTo(d, Return(g, 1), g.fs.root.level, want)

-----------------------------------------------------------------------------
(* Files: a direct item holds the bytes, an indirect item the numbers of the
   blocks that do; data blocks are never in the journal *)

ItemSize(g, it) == IF it.type = "indirect" THEN Len(it.body) * g.fs.sb.bsize * SECTOR_SIZE
                   ELSE Len(it.body)

RECURSIVE ReadItems(_, _, _, _)
ReadItems(d, g, len, out) ==
    LET it == Item(g)
        off == g.filepos + 1 - it.off
        bs == g.fs.sb.bsize * SECTOR_SIZE
        direct == it.type = "direct"
        room == IF direct THEN Len(it.body) - off ELSE bs - (off % bs)
        size == IF room > len THEN len ELSE room
        Done(y, b) == [y EXCEPT !.ret = IF y.errnum = "none" THEN Len(b) ELSE 0, !.buf = b]
        On(r, n) == IF len = n THEN Done([r EXCEPT !.filepos = @ + n], out \o r.buf)
                    ELSE ReadItems(d, [r EXCEPT !.filepos = @ + n], len - n, out \o r.buf)
    IN  IF g.errnum # "none" \/ it.obj # g.fs.file.obj THEN Done(g, out)
        ELSE IF it.type \in {"direct", "indirect"} /\ off < ItemSize(g, it)
        THEN On(IF direct THEN [g EXCEPT !.buf = SubSeq(it.body, off + 1, off + size)]
                ELSE devread(d, g, it.body[(off \div bs) + 1] * g.fs.sb.bsize, off % bs, size, <<>>), size)
        ELSE ReadItems(d, next_key(d, g), len, out)

reiserfs_read(d, g, len) ==
    ReadItems(d, IF Item(g).obj # g.fs.file.obj \/ Item(g).off > g.filepos + 1
                 THEN next_key(d, search_stat(d, g, g.fs.file)) ELSE g,
              len, <<>>)

\* The entries of the directory follow its stat item.
RECURSIVE FindName(_, _, _, _)
FindName(d, g, obj, name) ==
    LET Look(n, es) == LET hits == {i \in 1..Len(es) : es[i].visible /\ es[i].name = name}
                       IN  IF hits = {} THEN FindName(d, n, obj, name)
                           ELSE [n EXCEPT !.buf = <<es[CHOOSE i \in hits : \A j \in hits : i <= j]>>]
        Of(n, it) == IF n.ret = 0 THEN n
                     ELSE IF it.obj # obj THEN Err(n, "file_not_found") ELSE Look(n, it.entries)
        At(n) == Of(n, Item(n))
    IN  At(next_key(d, g))

LinkNames(buf) == [i \in 1..Len(buf) |-> IF buf[i].k = "name" THEN buf[i].name ELSE "?"]

\* The first item of the object becomes the current one.
OpenObject(d, s, key, size) == next_key(d, [s EXCEPT !.filemax = size, !.filepos = 0, !.fs.file = key])

LinkBody(d, n, size) == IF n.ret = 0 THEN n ELSE reiserfs_read(d, n, size)

\* A path holds names, after "/" when it is absolute.
RECURSIVE ReiserWalk(_, _, _, _, _, _)
ReiserAt(d, s, st, key, parent, path, links) ==
    LET rest == IF path # <<>> /\ Head(path) = "/" THEN Tail(path) ELSE path
        Link(l) == IF l.ret # st.size THEN Err(l, IF l.errnum = "none" THEN "fsys_corrupt" ELSE l.errnum)
                   ELSE ReiserWalk(d, l, IF Head(LinkNames(l.buf) \o path) = "/" THEN RootKey ELSE parent,
                                   parent, LinkNames(l.buf) \o path, links + 1)
        Down(f) == IF f.ret = 0 THEN f
                   ELSE ReiserWalk(d, f, [dir |-> f.buf[1].dir, obj |-> f.buf[1].obj], key, Tail(rest), links)
    IN  IF s.ret = 0 THEN s
        ELSE IF st.mode = "link"
        THEN IF links + 1 > MAX_LINK_COUNT THEN Err(s, "symlink_loop")
             ELSE IF st.size + Len(path) > PATH_MAX - 1 THEN Err([s EXCEPT !.filemax = st.size], "filelength")
             ELSE Link(LinkBody(d, OpenObject(d, s, key, st.size), st.size))
        ELSE IF path = <<>>
        THEN IF st.mode # "reg" THEN Err(s, "bad_filetype") ELSE OpenObject(d, s, key, st.size)
        ELSE IF st.mode # "dir" THEN Err(s, "bad_filetype")
        ELSE Down(FindName(d, s, key.obj, Head(rest)))

ReiserWalk(d, g, key, parent, path, links) ==
    LET At(s) == ReiserAt(d, s, Item(s), key, parent, path, links)
    IN  At(search_stat(d, g, key))

reiserfs_dir(d, g, path) == ReiserWalk(d, g, RootKey, [dir |-> 0, obj |-> 0], path, 0)
=============================================================================
