----------------------------- MODULE FileSystems -----------------------------
(***************************************************************************)
(* Files on a volume: grub_open mounts the volume with the first file      *)
(* system that takes it (attempt_mount), looks the file up in its          *)
(* directories and looks at the file's beginning; grub_read reads from     *)
(* filepos on.  What a file system keeps from call to call is in buf.      *)
(***************************************************************************)
EXTENDS FatFs, Ext2Fs, IsoFs

CONSTANTS
  Volumes,    \* by name: [tree: the files there are, by path; missing: other paths; ...]
  Faults,     \* by name: the faults that may strike a call
  Retry,      \* do callers read on after a failed read?
  Lengths     \* bound: how much a caller asks for at once

NoVolume == "no volume"
NoFile == <<"no file">>
NoBuf == <<>>

Paths(vol) == DOMAIN Volumes[vol].tree \cup Volumes[vol].missing

ASSUME FileSystemsAssumption ==
  /\ SS \in Nat /\ SS >= 2 /\ MAXINT \in Nat
  /\ DirLimit \in Nat /\ LoopLimit \in Nat /\ Lengths \subseteq Nat
  /\ \A vol \in DOMAIN Volumes :
       /\ \A path \in Paths(vol) : Len(path) \in Nat /\ path # NoFile
       /\ \A f \in Faults[vol] : f.at \in Nat

VARIABLES
  volume,      \* the mounted volume
  fsys_type,   \* the file system it is mounted with
  buf,         \* FSYS_BUF and the file system's static variables
  filepos, filemax, errnum,
  wanted,      \* the path grub_open was last called with
  opened,      \* did it find the file?
  struck,      \* a fault struck since then
  reply        \* the last read: [asked, bytes, ok]

vars == <<volume, fsys_type, buf, filepos, filemax, errnum, wanted, opened, struck, reply>>

Nothing == [asked |-> 0, bytes |-> <<>>, ok |-> TRUE]

-----------------------------------------------------------------------------
MountFunc(fs, c) ==
  CASE fs = "ext2fs" -> Ext2Mount(c)
    [] fs = "fat" -> FatMount(c)
    [] fs = "iso9660" -> IsoMount(c)
DirFunc(fs, c, path) ==
  CASE fs = "ext2fs" -> Ext2Dir(c, path)
    [] fs = "fat" -> FatDir(c, path)
    [] fs = "iso9660" -> IsoDir(c, path)
ReadFunc(fs, c, len) ==
  CASE fs = "ext2fs" -> Ext2Read(c, len)
    [] fs = "fat" -> FatRead(c, len)
    [] fs = "iso9660" -> IsoRead(c, len)

\* attempt_mount: the first file system of fsys_table that takes the volume.
AttemptMount(c) ==
  LET Tried(d, fs) == [c |-> d, fs |-> IF d.ret = 1 THEN fs ELSE "none"]
      Try(m, fs) == IF m.fs # "none" THEN m
                    ELSE Tried(MountFunc(fs, [m.c EXCEPT !.errnum = ERR_NONE]), fs)
  IN Try(Try(Try([c |-> c, fs |-> "none"], "ext2fs"), "fat"), "iso9660")

\* grub_read, for a file that is not compressed.
GrubRead(fs, c, n) ==
  IF c.filepos >= c.filemax THEN [c EXCEPT !.out = <<>>, !.ret = 0]
  ELSE ReadFunc(fs, [c EXCEPT !.errnum = ERR_NONE], Least(n, c.filemax - c.filepos))

\* gunzip_test_header and the other looks at the file's beginning leave no error.
LookAtHeader(fs, c) ==
  [GrubRead(fs, c, SS) EXCEPT !.filepos = 0, !.errnum = ERR_NONE]

Call(vol, f) ==
  [vol |-> Volumes[vol], fault |-> f, reads |-> 0, errnum |-> errnum, filepos |-> filepos,
   filemax |-> filemax, buf |-> buf, out |-> <<>>, ret |-> 0, done |-> FALSE]

Hit(c) == c.fault # NoFault /\ c.reads >= c.fault.at
Leave(c) == filepos' = c.filepos /\ filemax' = c.filemax /\ errnum' = c.errnum /\ buf' = c.buf

NotMounted(m) ==
  /\ opened' = FALSE /\ struck' = Hit(m.c)
  /\ Leave([m.c EXCEPT !.errnum = IF @ = ERR_NONE THEN ERR_FSYS_MOUNT ELSE @, !.buf = NoBuf])

LookedUp(fs, d) ==
  \/ d.ret = 0 /\ opened' = FALSE /\ struck' = Hit(d) /\ Leave(d)
  \/ /\ d.ret = 1 /\ opened' = TRUE
     /\ \E e \in {LookAtHeader(fs, d)} : struck' = Hit(e) /\ Leave(e)

\* grub_open.  One file is opened: every call mounts the volume anew, and nothing
\* is left of the one before.
Open ==
  /\ wanted = NoFile
  /\ \E vol \in DOMAIN Volumes :
     \E f \in Faults[vol], path \in Paths(vol) :
     \E m \in {AttemptMount([Call(vol, f) EXCEPT !.filepos = 0])} :
       /\ volume' = vol /\ wanted' = path /\ fsys_type' = m.fs /\ reply' = Nothing
       /\ IF m.fs = "none" \/ m.c.errnum # ERR_NONE THEN NotMounted(m)
          ELSE \E d \in {DirFunc(m.fs, m.c, path)} : LookedUp(m.fs, d)

\* filepos is a variable of its callers.
Seek ==
  /\ opened /\ filepos' \in 0..filemax /\ reply' = Nothing
  /\ UNCHANGED <<volume, fsys_type, buf, filemax, errnum, wanted, opened, struck>>

\* grub_read; its callers give up a file that could not be read.
Read ==
  /\ opened /\ (errnum = ERR_NONE \/ Retry)
  /\ \E n \in Lengths, f \in Faults[volume] :
     \E c \in {GrubRead(fsys_type, Call(volume, f), n)} :
       /\ Leave(c)
       /\ reply' = [asked |-> n, bytes |-> SubSeq(c.out, 1, c.ret), ok |-> c.errnum = ERR_NONE]
       /\ struck' = (struck \/ Hit(c))
  /\ UNCHANGED <<volume, fsys_type, wanted, opened>>

Init ==
  /\ volume = NoVolume /\ fsys_type = "none" /\ buf = NoBuf
  /\ filepos = 0 /\ filemax = 0 /\ errnum = ERR_NONE
  /\ wanted = NoFile /\ opened = FALSE /\ struck = FALSE /\ reply = Nothing

Next == Open \/ Seek \/ Read

Spec == Init /\ [][Next]_vars

-----------------------------------------------------------------------------
\* Unless the disk fails, a file is found exactly if the volume has it and no
\* read fails: names in parts, links and directories over many blocks do not show.
OnlyFaultsFail ==
  ~struck => /\ reply.ok
             /\ wanted # NoFile => (opened <=> wanted \in DOMAIN Volumes[volume].tree)

\* What is kept of where the file's blocks are is about this file: the cluster
\* fat_read goes on from is the file's current_cluster_num'th one, and an
\* indirect block that is not read again is the one the number next to it says.
CachedMapRight ==
  opened /\ ~struck =>
    /\ fsys_type = "fat" /\ buf.current_cluster_num # MAXINT =>
         buf.current_cluster = Volumes[volume].chain[wanted][buf.current_cluster_num + 1]
    /\ fsys_type = "ext2fs" /\ ~buf.inode.extended =>
         /\ buf.mapblock1 # -1 =>
              buf.data1 = Volumes[volume].block[buf.inode.i_block[NDIR + buf.mapblock1]]
         /\ buf.mapblock2 # -1 => buf.data2 = Volumes[volume].block[buf.mapblock2]

\* Reads give the file's bytes: chains, windows of the FAT, indirect blocks and
\* extents do not show.
AsBytes == INSTANCE ByteFile WITH
  Contents <- UNION {{Volumes[v].tree[p] : p \in DOMAIN Volumes[v].tree} : v \in DOMAIN Volumes},
  content <- IF opened THEN Volumes[volume].tree[wanted] ELSE <<>>,
  pos <- IF opened THEN filepos ELSE 0
ImplementsByteFile == AsBytes!Spec
=============================================================================
