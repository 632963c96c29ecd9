----------------------------- MODULE CromwellFs -----------------------------
(***************************************************************************)
(* The file systems that Cromwell reads by code of its own.                *)
(*                                                                         *)
(* FATX, of the Xbox (fs/fatx/BootFATX.c): a partition is opened with its  *)
(* whole cluster chain map; looking a file up and loading it follow the    *)
(* chains of that map.  A directory entry takes one byte, and an entry of  *)
(* the map one byte (2 in the code) or two (4), in halves.                 *)
(*                                                                         *)
(* CDs (fs/cdrom/iso9660.c): a sector is a block of the CD; a directory    *)
(* record takes len bytes, of which the first is the record, and a record  *)
(* never crosses a block.  A name is a sequence of characters as the CD    *)
(* has it; a path is the sequence of names the caller wants, in lower      *)
(* case.                                                                   *)
(***************************************************************************)
EXTENDS GrubDisk

CONSTANTS FATX_PARTITION_HEADERSIZE,   \* bytes, 0x1000
          FATX_CHAINTABLE_BLOCKSIZE,   \* bytes, 4096
          FatxCluster,                 \* bytes of a cluster, 0x4000
          WideClusters,                \* from so many clusters on entries are wide, 0xfff4
          FatxLongNames,               \* names longer than FATX_FILENAME_MAX
          PvdSector                    \* of a CD, 16

-----------------------------------------------------------------------------
(* FATX                                                                    *)

FATX_ROOT_FAT_CLUSTER == 1
EocMarker == -1
RootFatMarker == -8

\* Until a sector cannot be read; how many bytes came is the result.
FATXRawRead(d, sector, off, len, old) ==
    LET lost == {p \in 0..(len - 1) : ~Readable(d, sector + ((off + p) \div SECTOR_SIZE))}
        got == IF lost = {} THEN len ELSE CHOOSE p \in lost : \A q \in lost : p <= q
    IN  [n |-> IF got = len THEN len ELSE 0,
         buf |-> [i \in 1..len |-> IF i <= got THEN ByteAt(d, sector, off + i - 1) ELSE old[i]]]

Unread(n) == [i \in 1..n |-> Blank]

\* A chain map that cannot be read whole is reported and used all the same.
OpenFATXPartition(d, start, size) ==
    LET header == FATXRawRead(d, start, 0, FATX_PARTITION_HEADERSIZE, Unread(FATX_PARTITION_HEADERSIZE))
        count == size \div FatxCluster
        wide == IF count >= WideClusters THEN 2 ELSE 1
        bytes == count * wide
        table == IF bytes % FATX_CHAINTABLE_BLOCKSIZE = 0 THEN bytes
                 ELSE ((bytes \div FATX_CHAINTABLE_BLOCKSIZE) + 1) * FATX_CHAINTABLE_BLOCKSIZE
    IN  IF header.n # FATX_PARTITION_HEADERSIZE \/ header.buf[1].k # "fatx" THEN [open |-> FALSE]
        ELSE [open |-> TRUE, start |-> start, wide |-> wide,
              cluster1 |-> FATX_PARTITION_HEADERSIZE + table,
              map |-> FATXRawRead(d, start, FATX_PARTITION_HEADERSIZE, table, Unread(table)).buf]

\* -1 at the end of the chain; a free or an invalid next cluster is reported and
\* followed.
getNextClusterInChain(p, c) ==
    LET at == c * p.wide
        known == at + p.wide <= Len(p.map) /\ \A i \in 1..p.wide :
                    p.map[at + i].k = "chain" /\ p.map[at + i].half = i
        next == IF known THEN p.map[at + 1].v ELSE 0
    IN  IF next \in {EocMarker, RootFatMarker} THEN -1 ELSE next

\* The clusters are counted from 0.
LoadFromZero(d, p, c, old) ==
    FATXRawRead(d, p.start, p.cluster1 + c * FatxCluster, FatxCluster, old).buf

\* The bytes of a cluster that cannot be read stay those of the one before it.
LoadFATXCluster(d, p, c, old) ==
    FATXRawRead(d, p.start, p.cluster1 + (c - 1) * FatxCluster, FatxCluster, old).buf

NotFound == [found |-> FALSE]

\* The first entry of the name ends the search, whatever its kind, and so does
\* an entry whose name has an impossible length.
RECURSIVE _FATXFindFile(_, _, _, _, _)
_FATXFindFile(d, p, path, c, old) ==
    LET Entry1(e, what) ==
            IF what \in {"end", "invalid"} THEN NotFound
            ELSE IF Len(path) > 1
            THEN IF what = "dir" THEN _FATXFindFile(d, p, Tail(path), e.cluster, Unread(FatxCluster)) ELSE NotFound
            ELSE IF what = "file" THEN [found |-> TRUE, cluster |-> e.cluster, size |-> e.size]
            ELSE NotFound
        Scan(data, kind) ==
            LET stops == {i \in 1..FatxCluster : \/ kind[i] \in {"end", "invalid"}
                                                 \/ kind[i] # "deleted" /\ data[i].name = Head(path)}
                i == CHOOSE j \in stops : \A m \in stops : j <= m
            IN  IF stops = {} THEN _FATXFindFile(d, p, path, getNextClusterInChain(p, c), data)
                ELSE Entry1(data[i], kind[i])
        Loaded(data) == Scan(data, [i \in 1..FatxCluster |-> IF data[i].k = "dent" THEN data[i].what ELSE "end"])
    IN  IF Head(path) \in FatxLongNames \/ c = -1 THEN NotFound
        ELSE Loaded(LoadFATXCluster(d, p, c, old))

FATXFindFile(d, p, path) == _FATXFindFile(d, p, path, FATX_ROOT_FAT_CLUSTER, Unread(FatxCluster))

(* FATXLoadFromDisk, one cluster at a time: x is [path, p, c, left, data, out].  The
   loop ends with the chain, not with the size of the file. *)
FatxLoading(p, f, path) == [op |-> "load", path |-> path, p |-> p, c |-> f.cluster, left |-> f.size,
                            data |-> Unread(FatxCluster), out |-> <<>>, clean |-> TRUE]

FatxLoadStep(d, x) ==
    LET data == LoadFATXCluster(d, x.p, x.c, x.data)
        n == IF x.left <= FatxCluster THEN x.left ELSE FatxCluster
    IN  [x EXCEPT !.data = data, !.out = @ \o SubSeq(data, 1, n), !.left = @ - n,
                  !.c = getNextClusterInChain(x.p, x.c)]

FatxLoaded(x) == x.c = -1
FatxSucceeded(x) == x.left = 0

-----------------------------------------------------------------------------
(* CDs                                                                     *)

Lower(c) == CASE c = "A" -> "a" [] c = "B" -> "b" [] OTHER -> c

\* ".;1" and ";1" at the end are dropped, any other ";" becomes ".".
iso9660_name_translate(old) ==
    LET n == Len(old)
        Ends(i) == \/ i = n - 2 /\ old[i] = "." /\ old[i + 1] = ";" /\ old[i + 2] = "1"
                   \/ i = n - 1 /\ old[i] = ";" /\ old[i + 1] = "1"
        stops == {i \in 1..n : Ends(i)}
        upto == IF stops = {} THEN n ELSE (CHOOSE i \in stops : \A j \in stops : i <= j) - 1
    IN  [i \in 1..upto |-> IF old[i] = ";" THEN "." ELSE Lower(old[i])]

\* Whole blocks of the directory only; a record of length 0 skips to the next
\* block.  A directory is entered when its path so far begins the one wanted,
\* unless its name has one character, as the records of "." and ".." have.
RECURSIVE ScanDir(_, _, _, _, _, _)
RECURSIVE read_dir(_, _, _, _, _)
ScanDir(d, buf, offset, search, prefix, reused) ==
    LET r == buf[offset + 1]
        path == prefix \o <<iso9660_name_translate(r.name)>>
    IN  IF offset >= Len(buf) THEN [found |-> FALSE]
        ELSE IF r.k # "record"
        THEN ScanDir(d, buf, ((offset \div SECTOR_SIZE) + 1) * SECTOR_SIZE, search, prefix, reused)
        ELSE IF r.dot THEN ScanDir(d, buf, offset + r.len, search, prefix, reused)
        ELSE IF path = search THEN [found |-> TRUE, record |-> r]
        ELSE IF r.dir /\ Len(r.name) > 1 /\ Len(path) < Len(search) /\ IsPrefix(path, search)
        THEN read_dir(d, r, search, path, reused)
        ELSE ScanDir(d, buf, offset + r.len, search, prefix, reused)

\* The result of a read is not looked at: for a sector that cannot be read the
\* buffer keeps what malloc() gave, the same directory of an earlier search
\* (reused) or no records.
read_dir(d, dir, search, prefix, reused) ==
    LET SectorOf(i) == dir.extent + ((i - 1) \div SECTOR_SIZE)
    IN  ScanDir(d, [i \in 1..((dir.size \div SECTOR_SIZE) * SECTOR_SIZE) |->
                       IF Readable(d, SectorOf(i)) \/ reused THEN ByteAt(d, dir.extent, i - 1) ELSE Blank],
                0, search, prefix, reused)

\* As many whole blocks as hold the file, and one more when it ends with a block
\* other than the first.  A block that cannot be read is left zero.  For a file
\* that is not shorter than max the size is taken from the memory at address max:
\* word is what happens to be there.
read_file(d, r, max, word) ==
    LET size == IF max > r.size THEN r.size ELSE word
        blocks == IF size <= SECTOR_SIZE THEN 1 ELSE (size \div SECTOR_SIZE) + 1
        Zero == [k |-> "zero"]
    IN  [n |-> size,
         buf |-> [i \in 1..(blocks * SECTOR_SIZE) |->
                    IF Readable(d, r.extent + ((i - 1) \div SECTOR_SIZE))
                    THEN ByteAt(d, r.extent, i - 1) ELSE Zero]]

BootIso9660GetFile(d, search, max, word, reused) ==
    LET root == d.at[PvdSector][1].root
        f == read_dir(d, root, search, <<>>, reused)
    IN  IF ~Readable(d, PvdSector) THEN [n |-> -1, buf |-> <<>>]
        ELSE IF ~f.found THEN [n |-> -1, buf |-> <<>>]
        ELSE read_file(d, f.record, max, word)
=============================================================================
