------------------------------- MODULE FatFs -------------------------------
(***************************************************************************)
(* FAT12, FAT16 and FAT32 volumes as GRUB reads them (fs/grub/fsys_fat.c). *)
(* g.fs is FAT_SUPER with the FAT buffer: cached is the position, in       *)
(* nibbles, of the part of the FAT in fatbuf; current_cluster is the       *)
(* cluster number current_cluster_num of the open file.  A byte of the FAT *)
(* is a pair of nibbles, low first; a directory entry is one byte.         *)
(***************************************************************************)
EXTENDS GrubDisk

CONSTANTS FAT_MAX_12BIT_CLUST,   \* 4087
          FAT_CACHE_SIZE         \* bytes of the FAT buffer, 4 sectors

FAT_DIRENTRY_LENGTH == 1
Pow2(n) == \E b \in 0..8 : n = 2^b

FatEof == [n \in {3, 4, 8} |-> 16^(n - 1) * (IF n = 8 THEN 1 ELSE 16) - 8]

\* The value of the fat_size nibbles from nibble pos of the buffer.
Entry(buf, pos, size) ==
    LET Nibble(n) == buf[(n \div 2) + 1].n[(n % 2) + 1]
        value[i \in 0..size] == IF i = 0 THEN 0 ELSE value[i - 1] + Nibble(pos + i - 1) * 16^(i - 1)
    IN  value[size]

Layout(bpb) ==
    LET len == IF bpb.fat_length # 0 THEN bpb.fat_length ELSE bpb.fat32_length
        root == bpb.reserved + bpb.num_fats * len
        root_max == FAT_DIRENTRY_LENGTH * bpb.dir_entries
        data == root + ((root_max - 1) \div SECTOR_SIZE) + 1
        clusters == 2 + ((bpb.sectors - data) \div bpb.sects_per_clust)
        size == IF bpb.fat_length = 0 THEN 8
                ELSE IF clusters > FAT_MAX_12BIT_CLUST THEN 4 ELSE 3
        active == IF bpb.fat_length = 0 /\ bpb.active >= 0 THEN bpb.active ELSE 0
    IN  [k |-> "fat", fat_offset |-> bpb.reserved + active * len, fat_length |-> len,
         fat_size |-> size, root_offset |-> root, root_max |-> root_max,
         data_offset |-> data, num_clust |-> clusters, eof |-> FatEof[size],
         spc |-> bpb.sects_per_clust,
         root_cluster |-> IF size = 8 THEN bpb.root_cluster ELSE -1,
         cached |-> -(2 * FAT_CACHE_SIZE), fatbuf |-> <<>>,
         file_cluster |-> -1, ccn |-> 0, cc |-> 0,
         long |-> [slot |-> -2, sum |-> -1, name |-> <<>>]]

SaneFat(bpb, f) ==
    /\ IF bpb.fat_length = 0 THEN bpb.dir_entries = 0 /\ bpb.active < bpb.num_fats
       ELSE f.root_max # 0
    /\ bpb.bytes_per_sect = SECTOR_SIZE
    /\ Pow2(bpb.sects_per_clust)
    /\ f.num_clust > 2
    /\ (f.fat_size * f.num_clust) \div (2 * SECTOR_SIZE) <= f.fat_length

\* The first entry of the FAT repeats the media byte, under all ones; bit 3 of
\* it is not compared.
MediaMatches(bpb, f, buf) ==
    LET first == Entry(buf, 0, f.fat_size)
        low == first % 256
        With8(b) == IF (b \div 8) % 2 = 1 THEN b ELSE b + 8
    IN  first \div 256 = (f.eof + 8) \div 256 - 1 /\ With8(low) = With8(bpb.media)

fat_mount(d, g) ==
    LET Media(m, bpb, f) == IF m.ret = 0 \/ m.errnum # "none" \/ ~MediaMatches(bpb, f, m.buf)
                            THEN Return(m, 0) ELSE [m EXCEPT !.ret = 1, !.fs = f]
        Sane(r, bpb, f) == IF ~SaneFat(bpb, f) THEN Return(r, 0)
                           ELSE Media(devread(d, r, f.fat_offset, 0, (f.fat_size + 1) \div 2, <<>>), bpb, f)
        Super(r, bpb) == IF r.ret = 0 \/ bpb.k # "bpb" THEN Return(r, 0)
                         ELSE IF bpb.sects_per_clust = 0 THEN Return(r, 0)
                         ELSE Sane(r, bpb, Layout(bpb))
        First(r) == Super(r, r.buf[1])
    IN  IF g.type # <<"none", "none">> /\ ~IsFat(g.type) THEN Return(g, 0)
        ELSE First(devread(d, g, 0, 0, 1, <<Blank>>))

-----------------------------------------------------------------------------
ClusterSize(f) == f.spc * SECTOR_SIZE

\* The part of the FAT that holds the entry of the current cluster, read into
\* the buffer unless it is there.  cached moves before the read is tried.
FatEntryCached(d, g) ==
    LET f == g.fs
        e == f.cc * f.fat_size
        pos == e - f.cached
        to == e - (e % (2 * SECTOR_SIZE))
        Filled(r) == [r EXCEPT !.fs.fatbuf = r.buf]
    IN  IF pos >= 0 /\ pos + f.fat_size <= 2 * FAT_CACHE_SIZE THEN Return(g, 1)
        ELSE Filled(devread(d, [g EXCEPT !.fs.cached = to], f.fat_offset + (to \div (2 * SECTOR_SIZE)),
                            0, FAT_CACHE_SIZE, f.fatbuf))

\* Follow the chain to cluster number logical: ret is 1 there, 0 with an error,
\* -1 at the end of the chain.
RECURSIVE ToCluster(_, _, _)
ToCluster(d, g, logical) ==
    LET Known(buf, pos, size) == \A b \in (pos \div 2)..((pos + size - 1) \div 2) :
                                     b < Len(buf) /\ buf[b + 1].k = "nibbles"
        Next1(buf, pos, size) == IF Known(buf, pos, size) THEN Entry(buf, pos, size) ELSE 0
        Follow(c, next) == IF next >= c.fs.eof THEN Return(c, -1)
                           ELSE IF next < 2 \/ next >= c.fs.num_clust THEN Err(c, "fsys_corrupt")
                           ELSE ToCluster(d, [c EXCEPT !.fs.cc = next, !.fs.ccn = @ + 1], logical)
        From(c) == IF c.ret = 0 THEN c
                   ELSE Follow(c, Next1(c.fs.fatbuf, c.fs.cc * c.fs.fat_size - c.fs.cached, c.fs.fat_size))
    IN  IF logical <= g.fs.ccn THEN Return(g, 1) ELSE From(FatEntryCached(d, g))

RECURSIVE ReadClusters(_, _, _, _)
ReadClusters(d, g, len, out) ==
    LET off == g.filepos % ClusterSize(g.fs)
        size == IF ClusterSize(g.fs) - off > len THEN len ELSE ClusterSize(g.fs) - off
        On(r) == ReadClusters(d, [r EXCEPT !.filepos = @ + size], len - size, out \o r.buf)
        At(t) == IF t.ret = -1 THEN [t EXCEPT !.ret = Len(out), !.buf = out]
                 ELSE IF t.ret = 0 THEN [t EXCEPT !.buf = out]
                 ELSE On(devread(d, t, t.fs.data_offset + (t.fs.cc - 2) * t.fs.spc, off, size, <<>>))
    IN  IF len <= 0 THEN [g EXCEPT !.ret = IF g.errnum = "none" THEN Len(out) ELSE 0, !.buf = out]
        ELSE At(ToCluster(d, g, g.filepos \div ClusterSize(g.fs)))

fat_read(d, g, len) ==
    LET f == g.fs
        size == IF f.root_max - g.filepos > len THEN len ELSE f.root_max - g.filepos
        Root(r) == IF r.ret = 0 THEN r ELSE [r EXCEPT !.filepos = @ + size, !.ret = size]
        back == g.filepos \div ClusterSize(f) < f.ccn
    IN  IF f.file_cluster < 0 THEN Root(devread(d, g, f.root_offset, g.filepos, size, <<>>))
        ELSE ReadClusters(d, IF back THEN [g EXCEPT !.fs.ccn = 0, !.fs.cc = f.file_cluster] ELSE g,
                          len, <<>>)

-----------------------------------------------------------------------------
(* Looking a name up.  An entry is [k |-> "entry", what |-> "end", "deleted",
   "label", "long", "file" or "dir", ...]; a long name comes in parts, last
   part first, each with its number and the checksum of the short name. *)

StartOf(g, cluster, size) ==
    [g EXCEPT !.fs.file_cluster = cluster, !.fs.ccn = MAXINT, !.filepos = 0, !.filemax = size]

\* The long name under construction, fs.long: slot is the part still missing (-2
\* when there is none), sum the checksum (-1 when it is broken), name the parts.
NoLong == [slot |-> -2, sum |-> -1, name |-> <<>>]

LongPart(l, e) ==
    LET b == IF e.last THEN [slot |-> e.id, sum |-> e.sum, name |-> <<>>] ELSE l
    IN  IF e.id # b.slot \/ b.slot = 0 \/ b.sum # e.sum THEN [b EXCEPT !.sum = -1]
        ELSE [b EXCEPT !.slot = @ - 1, !.name = <<e.part>> \o @]

LongReady(l) == l.sum # -1 /\ l.slot = 0

\* The entry found in the open directory is left in buf; ret 0 if there is none.
RECURSIVE FindEntry(_, _, _)
FindEntry(d, g, name) ==
    LET Match(e, l) == \/ LongReady(l) /\ e.sum = l.sum /\ name = l.name
                       \/ name = e.short
        Used(r, l) == IF LongReady(l) THEN [r EXCEPT !.fs.long.slot = -2] ELSE r
        Look(r, e, l) ==
            IF e.k # "entry" \/ e.what = "end"
            THEN (IF r.errnum = "none" THEN Err(r, "file_not_found") ELSE Return(r, 0))
            ELSE IF e.what = "long" THEN FindEntry(d, [r EXCEPT !.fs.long = LongPart(l, e)], name)
            ELSE IF e.what \in {"deleted", "label"} THEN FindEntry(d, r, name)
            ELSE IF Match(e, l) THEN Return(Used(r, l), 1)
            ELSE FindEntry(d, Used(r, l), name)
        Got(r) == Look(r, IF r.ret = FAT_DIRENTRY_LENGTH THEN r.buf[1] ELSE Blank, r.fs.long)
    IN  Got(fat_read(d, g, FAT_DIRENTRY_LENGTH))

RECURSIVE FatWalk(_, _, _, _)
FatWalk(d, g, path, isdir) ==
    LET Into(f, e) == IF f.ret = 0 THEN f
                      ELSE FatWalk(d, StartOf(f, e.cluster, e.size), Tail(path), e.what = "dir")
        Found(f) == Into(f, f.buf[1])
    IN  IF path = <<>> THEN (IF isdir THEN Err(g, "bad_filetype") ELSE Return(g, 1))
        ELSE IF ~isdir THEN Err(g, "bad_filetype")
        ELSE Found(FindEntry(d, [g EXCEPT !.filemax = MAXINT], Head(path)))

fat_dir(d, g, path) ==
    FatWalk(d, StartOf([g EXCEPT !.fs.long = NoLong], g.fs.root_cluster, MAXINT), path, TRUE)
=============================================================================
