------------------------------- MODULE Files -------------------------------
(***************************************************************************)
(* Reading files: GRUB on the partitions of the hard disk (fs/grub), FATX  *)
(* on the Xbox partitions (fs/fatx) and ISO 9660 on a CD (fs/cdrom).  The  *)
(* disk is one of Volumes; any sector of it may stop being readable, and   *)
(* become readable again.  The callers open files and read them, as the    *)
(* loaders do: after an open that failed they clear errnum, after a read   *)
(* that failed they do not.                                                *)
(*                                                                         *)
(* A volume is [kind, at, files, paths, ...]: files is what the volume is  *)
(* meant to hold, a function from names to sequences of bytes; paths the   *)
(* names that are asked for.  On a hard disk a name is [dest, path] or     *)
(* [dest, blocks], dest being the partition; elsewhere it is a path.       *)
(***************************************************************************)
EXTENDS FatFs, Ext2Fs, Ufs2Fs, ReiserFs, CromwellFs

CONSTANTS Volumes, ReadLengths, Words, MaxOps, MaxFaults

VARIABLES v,        \* the volume there is, Volumes[v]
          bad,      \* the sectors that cannot be read now
          g,        \* the globals of the GRUB code
          x,        \* the FATX file being loaded
          last,     \* the last call: what was asked, what came of it
          ops, faults

vars == <<v, bad, g, x, last, ops, faults>>

vol == Volumes[v]
Disk == [at |-> vol.at, bad |-> bad]
Idle == [op |-> "none"]

-----------------------------------------------------------------------------
(* GRUB *)

\* InitGrubRequest() before every boot attempt.
InitGrubRequest ==
    [errnum |-> "none", ret |-> 0, buf |-> <<>>, type |-> <<"none", "none">>, slice |-> NoPart,
     bsd |-> NoPart, part_start |-> 0, part_length |-> 0, offset |-> 0, ext |-> 0, entry |-> -1,
     fsys |-> "none", fs |-> Blank, filepos |-> 0, filemax |-> 0, fsmax |-> 0,
     block_file |-> FALSE, list |-> <<>>, cur |-> [pos |-> 0, item |-> 1, blk |-> 0]]

fsys_table == <<"fat", "ext2", "reiser", "ufs2">>

Mount(fsys, d, s) == CASE fsys = "fat" -> fat_mount(d, s)
                       [] fsys = "ext2" -> ext2fs_mount(d, s)
                       [] fsys = "reiser" -> reiserfs_mount(d, s)
                       [] fsys = "ufs2" -> ufs2_mount(d, s)

Dir(fsys, d, s, path) == CASE fsys = "fat" -> fat_dir(d, s, path)
                           [] fsys = "ext2" -> ext2fs_dir(d, s, path)
                           [] fsys = "reiser" -> reiserfs_dir(d, s, path)
                           [] fsys = "ufs2" -> ufs2_dir(d, s, path)

Read(fsys, d, s, len) == CASE fsys = "fat" -> fat_read(d, s, len)
                           [] fsys = "ext2" -> ext2fs_read(d, s, len, <<>>)
                           [] fsys = "reiser" -> reiserfs_read(d, s, len)
                           [] fsys = "ufs2" -> ufs2_read(d, s, len, <<>>)

\* The file systems in turn, until one mounts.
RECURSIVE attempt_mount(_, _, _)
attempt_mount(d, s, n) ==
    LET Tried(m) == IF m.ret = 1 THEN [m EXCEPT !.fsys = fsys_table[n]] ELSE attempt_mount(d, m, n + 1)
    IN  IF n > Len(fsys_table)
        THEN [s EXCEPT !.fsys = "none", !.errnum = IF @ = "none" THEN "fsys_mount" ELSE @]
        ELSE Tried(Mount(fsys_table[n], d, s))

IsPath(name) == "path" \in DOMAIN name

\* Every open finds the partition anew, and mounts it unless the name is a list
\* of blocks.
setup_part(d, s, name) ==
    LET p == real_open_partition(d, s, name.dest)
        Checked(m) == IF m.errnum # "none" /\ (IsPath(name) \/ m.errnum # "fsys_mount") THEN Return(m, 0)
                      ELSE [m EXCEPT !.errnum = "none", !.ret = 1]
    IN  Checked(IF IsPath(name) /\ p.ret = 1 THEN attempt_mount(d, p, 1) ELSE p)

OpenFile(d, p, name) ==
    LET o == [p EXCEPT !.block_file = FALSE, !.fsmax = MAXINT]
    IN  IF p.ret = 0 THEN p
        ELSE IF ~IsPath(name) THEN OpenBlocks(o, name.blocks)
        ELSE IF o.fsys = "none" THEN Err(o, "fsys_mount")
        ELSE Dir(o.fsys, d, o, name.path)

grub_open(d, s, name) == OpenFile(d, setup_part(d, [s EXCEPT !.filepos = 0], name), name)

grub_read(d, s, want) ==
    LET h == [s EXCEPT !.filepos = IF @ > s.filemax THEN s.filemax ELSE @]
        len == Clamped(h, want)
    IN  IF h.filepos + len > h.fsmax THEN [Err(h, "filelength") EXCEPT !.buf = <<>>]
        ELSE IF h.block_file THEN ReadBlocks(d, h, len, <<>>)
        ELSE IF h.fsys = "none" THEN [Err(h, "fsys_mount") EXCEPT !.buf = <<>>]
        ELSE Read(h.fsys, d, h, len)

-----------------------------------------------------------------------------
(* The machine *)

Init == /\ v \in DOMAIN Volumes
        /\ bad = {}
        /\ g = InitGrubRequest
        /\ x = Idle
        /\ last = Idle
        /\ ops = 0
        /\ faults = 0

\* The buffer goes to the caller: it is no part of the state between calls.
Settled(s) == [s EXCEPT !.buf = <<>>]

Calls == ops < MaxOps /\ x = Idle /\ ops' = ops + 1 /\ UNCHANGED <<v, bad, faults>>

Opened(name, s) ==
    /\ last' = [op |-> "open", name |-> name, ret |-> s.ret, errnum |-> s.errnum,
                size |-> s.filemax, clean |-> bad = {}]
    /\ \/ s.ret = 1 /\ g' = Settled(s)
       \/ (s.ret # 1 \/ s.errnum # "none") /\ g' = [Settled(s) EXCEPT !.errnum = "none"]

GrubOpen(name) ==
    /\ vol.kind = "disk"
    /\ Calls
    /\ Opened(name, grub_open(Disk, g, name))
    /\ UNCHANGED x

HasRead(len, s) ==
    /\ last' = [op |-> "read", name |-> last.name, ret |-> s.ret, errnum |-> s.errnum,
                from |-> g.filepos, len |-> len, buf |-> s.buf, clean |-> bad = {}]
    /\ g' = Settled(s)

GrubRead(len) ==
    /\ vol.kind = "disk"
    /\ last.op \in {"open", "read"} /\ last.ret # 0 /\ g.errnum = last.errnum
    /\ Calls
    /\ HasRead(len, grub_read(Disk, g, len))
    /\ UNCHANGED x

FatxFound(path, p, f) ==
    IF f.found
    THEN x' = [FatxLoading(p, f, path) EXCEPT !.clean = bad = {}] /\ last' = Idle
    ELSE /\ last' = [op |-> "fatx", name |-> path, ok |-> FALSE, buf |-> <<>>, clean |-> bad = {}]
         /\ x' = Idle

FatxOpened(path, p) == FatxFound(path, p, IF p.open THEN FATXFindFile(Disk, p, path) ELSE NotFound)

FatxStart(path) ==
    /\ vol.kind = "fatx"
    /\ Calls
    /\ FatxOpened(path, OpenFATXPartition(Disk, vol.start, vol.size))
    /\ UNCHANGED g

FATXLoadFromDisk ==
    /\ x # Idle
    /\ LET y == FatxLoadStep(Disk, x)
       IN  IF FatxLoaded(y)
           THEN /\ last' = [op |-> "fatx", name |-> x.path, ok |-> FatxSucceeded(y), buf |-> y.out,
                            clean |-> x.clean /\ bad = {}]
                /\ x' = Idle
           ELSE x' = [y EXCEPT !.clean = @ /\ bad = {}] /\ UNCHANGED last
    /\ UNCHANGED <<v, bad, g, ops, faults>>

IsoGetFile(path, max, word) ==
    /\ vol.kind = "iso"
    /\ Calls
    /\ \E reused \in BOOLEAN : LET r == BootIso9660GetFile(Disk, path, max, word, reused)
       IN  last' = [op |-> "iso", name |-> path, max |-> max, n |-> r.n, buf |-> r.buf,
                    clean |-> bad = {}]
    /\ UNCHANGED <<g, x>>

\* A sector becomes unreadable, or readable again.
SectorFails(s) ==
    /\ faults < MaxFaults /\ bad = {} /\ s \in vol.failing
    /\ bad' = {s} /\ faults' = faults + 1
    /\ UNCHANGED <<v, g, x, last, ops>>

SectorHeals ==
    /\ bad # {}
    /\ bad' = {}
    /\ UNCHANGED <<v, g, x, last, ops, faults>>

Next == \/ \E n \in vol.paths : GrubOpen(n) \/ FatxStart(n)
        \/ \E len \in ReadLengths : GrubRead(len)
        \/ \E n \in vol.paths, max \in ReadLengths, w \in Words : IsoGetFile(n, max, w)
        \/ FATXLoadFromDisk
        \/ \E s \in vol.failing : SectorFails(s)
        \/ SectorHeals

Spec == Init /\ [][Next]_vars /\ WF_vars(FATXLoadFromDisk)
-----------------------------------------------------------------------------
(* Properties *)

\* grub_open() succeeds for the names the volume holds and for no others, with
\* their size, whatever was opened or went wrong before: it leaves no partition,
\* cached block or error of an earlier call behind.  A sector that cannot be
\* read may make it fail, never make it open something else.
OpenFindsFile ==
    last.op = "open" =>
        /\ last.ret = 1 /\ last.errnum = "none" =>
              /\ last.name \in DOMAIN vol.files
              /\ last.size = Len(vol.files[last.name])
        /\ last.clean /\ last.name \in DOMAIN vol.files => last.ret = 1 /\ last.errnum = "none"

\* What grub_read() hands out without an error is the content of the file from
\* the position reached, and all that was asked for as far as the file goes.
ReadExact ==
    last.op = "read" /\ last.errnum = "none" =>
        LET f == vol.files[last.name]
            n == IF last.len > Len(f) - last.from THEN Len(f) - last.from ELSE last.len
        IN  last.ret = n /\ last.buf = SubSeq(f, last.from + 1, last.from + n)

\* A file of a GRUB volume is the one that was asked for, whatever was opened,
\* read or unreadable before.
FilesExact == OpenFindsFile /\ ReadExact

\* A file of a FATX partition or of a CD that could be read throughout is loaded
\* whole, and nothing is loaded for a name that is not there (a CD file must be
\* shorter than the caller's limit).
LoadExact ==
    /\ last.op = "fatx" /\ last.clean =>
          /\ last.ok <=> (last.name \in DOMAIN vol.files)
          /\ last.ok => last.buf = vol.files[last.name]
    /\ last.op = "iso" /\ last.clean =>
          /\ (last.n = -1) <=> (last.name \notin DOMAIN vol.files)
          /\ LET f == vol.files[last.name]
             IN  last.n # -1 /\ last.max > Len(f) =>
                    last.n = Len(f) /\ SubSeq(last.buf, 1, last.n) = f
=============================================================================
