-------------------------- MODULE FileSystemProofs --------------------------
(***************************************************************************)
(* What the file systems keep of an open file's place on the disk is right *)
(* for every set of volumes that is sound (FatSound, on FAT; on ext2 for   *)
(* every set), every order of opens, seeks and reads of any length, and    *)
(* until a read of the disk fails.                                         *)
(*                                                                         *)
(* Every loop of the code is a recursive function of its turns, and has a  *)
(* lemma that what one turn keeps the loop keeps: the turns that do so are *)
(* a set of numbers without a least that is missing.                       *)
(***************************************************************************)
EXTENDS FileSystems, WellFoundedInduction, TLAPS

(* What the theorem takes for granted of the volumes *)

\* grub_open's call of attempt_mount.
FirstCall(v, f) ==
  [vol |-> Volumes[v], fault |-> f, reads |-> 0, errnum |-> ERR_NONE, filepos |-> 0,
   filemax |-> 0, buf |-> NoBuf, out |-> <<>>, ret |-> 0, done |-> FALSE]

\* What the FAT on the disk says of a cluster, and whether fat_read takes it for
\* a cluster to go on to.
NextOnDisk(vol, s, cluster) ==
  Value([k \in 1..s.size |-> FatDigit(vol, s.fat_offset, cluster * s.size + (k - 1))])
IsLink(s, next) == ~(next >= s.eof) /\ ~(next < 2) /\ ~(next >= s.num_clust)

\* The four sectors of the FAT that are read for a cluster are in the partition.
InPartition(vol, s, cluster) ==
  LET sector == s.fat_offset + (cluster * s.size) \div (2 * SS)
  IN sector >= 0 /\ ~(sector + ((4 * SS - 1) \div SS) >= vol.length)

ChainOnDisk(vol, s, chain) ==
  \A k \in 1..Len(chain) :
    /\ chain[k] \in Nat /\ InPartition(vol, s, chain[k])
    /\ IF k < Len(chain) THEN NextOnDisk(vol, s, chain[k]) = chain[k + 1]
       ELSE ~IsLink(s, NextOnDisk(vol, s, chain[k]))

\* A superblock that fat_mount accepts has entries of 12, 16 or 32 bits, and its
\* numbers are numbers.
SuperSound(s) ==
  /\ s.size \in {3, 4, 8} /\ s.spc \in Nat \ {0} /\ s.fat_offset \in Nat /\ s.root_max \in Nat

\* The directories lead to the files: an entry that is found has the file's first
\* cluster, and its length.
Contiguous(b) == b.sup.type = 64 /\ b.contig_size # 0
FileSound(vol, d, chain) ==
  /\ d.buf.file_cluster = chain[1] /\ chain[1] # MAXINT /\ Len(chain) \in Nat \ {0}
  /\ d.buf.contig_size \in Nat
  /\ d.buf.cached_fat = -1 \/ (d.buf.cached_fat \in Nat /\ d.buf.cached_fat % (2 * SS) = 0)
  /\ Contiguous(d.buf) \/ ChainOnDisk(vol, d.buf.sup, chain)

\* The volumes that fat_mount accepts are sound: every file that fat_dir finds has
\* a length and, unless it is empty, its chain on the disk.  Of the volumes of the
\* other file systems nothing is assumed.
FatSound ==
  \A v \in DOMAIN Volumes :
    LET vol == Volumes[v]
    IN "bpb" \in DOMAIN vol /\ Superblock(vol.bpb) # Refused =>
       /\ SuperSound(Superblock(vol.bpb))
       /\ \A f \in Faults[v], path \in Paths(v) :
            LET m == AttemptMount(FirstCall(v, f))
                d == FatDir(m.c, path)
            IN m.fs = "fat" /\ m.c.errnum = ERR_NONE /\ d.ret = 1 =>
               /\ d.filemax \in 0..MAXINT
               /\ d.filemax > 0 => FileSound(vol, d, vol.chain[path])

-----------------------------------------------------------------------------
\* What ext2fs_block_map keeps of a map is the block that it says it is.
Ext2Maps(vol, b) ==
  ~b.inode.extended =>
    /\ b.mapblock1 # -1 => b.data1 = vol.block[b.inode.i_block[NDIR + b.mapblock1]]
    /\ b.mapblock2 # -1 => b.data2 = vol.block[b.mapblock2]

\* The window of the FAT is the disk's.
FatWindow(vol, b) ==
  \A q \in Nat : b.cached_fat = (2 * SS) * q => b.fat_buf = FatDigits(vol, b.sup.fat_offset + q)

\* The window is empty, or it begins where a group of the FAT begins.
Typed(b) == b.cached_fat = -1 \/ \E q \in Nat : b.cached_fat = (2 * SS) * q

\* The cluster that is kept is the one of the file's chain with that number.
OnChain(b, chain) ==
  b.current_cluster_num # MAXINT =>
    /\ b.current_cluster_num \in Nat /\ b.current_cluster_num < Len(chain)
    /\ b.current_cluster = chain[b.current_cluster_num + 1]

-----------------------------------------------------------------------------
(* Least elements and loops *)

\* A set of numbers that is not empty has a least element.
LEMMA LeastElement ==
  ASSUME NEW S \in SUBSET Nat, S # {}
  PROVE  \E i \in S : \A j \in S : i <= j
<1> DEFINE R == {ss \in Nat \X Nat : ss[1] < ss[2]}
<1>1. IsWellFoundedOn(R, Nat)
  BY NatLessThanWellFounded DEF OpToRel
<1>2. \E i \in S : \A j \in S : ~(<<j, i>> \in R)
  <2> HIDE DEF R
  <2> QED
    BY <1>1, WFMin
<1>3. PICK i \in S : \A j \in S : ~(<<j, i>> \in R)
  BY <1>2
<1>4. \A j \in S : ~(j < i)
  BY <1>3
<1> QED
  BY <1>3, <1>4

\* A set of numbers that has 0, and with a number below n the next one, has all
\* numbers up to n.
LEMMA Upward ==
  ASSUME NEW n \in Nat, NEW T, 0 \in T, \A m \in T : m \in 0..(n - 1) => m + 1 \in T
  PROVE  0..n \subseteq T
<1> DEFINE S == {m \in 0..n : m \notin T}
<1>1. SUFFICES ASSUME S # {} PROVE FALSE
  OBVIOUS
<1>2. PICK i \in S : \A j \in S : i <= j
  <2>1. S \in SUBSET Nat
    OBVIOUS
  <2> HIDE DEF S
  <2>2. QED
    BY <1>1, <2>1, LeastElement
<1>3. i \in Nat /\ i # 0 /\ i - 1 \in 0..(n - 1) /\ i - 1 \in 0..n /\ ~ (i <= i - 1)
  BY <1>2
<1>4. i - 1 \in T /\ (i - 1) + 1 = i
  BY <1>2, <1>3
<1>5. QED
  BY <1>2, <1>3, <1>4


-----------------------------------------------------------------------------
(* Calls *)

\* The record that stands for the globals of a call, in the middle of one.
Fields == {"vol", "fault", "reads", "errnum", "filepos", "filemax", "buf", "out", "ret", "done"}
IsCall(c) == DOMAIN c = Fields
Stopped(c) == c.done = TRUE
Running(c) == c.done = FALSE

\* What devread leaves alone.
LEMMA DevreadKeeps ==
  ASSUME NEW c, IsCall(c), NEW sector, NEW offset, NEW size,
         NEW d, d = Devread(c, sector, offset, size)
  PROVE  /\ IsCall(d) /\ d.vol = c.vol /\ d.fault = c.fault /\ d.buf = c.buf
         /\ d.filepos = c.filepos /\ d.filemax = c.filemax
         /\ d.out = c.out /\ d.ret = c.ret /\ d.done = c.done
         /\ Running(c) => Running(d)
         /\ d.reads = c.reads + 1
BY DEF Devread, IsCall, Fields, Running

-----------------------------------------------------------------------------
(* ext2: the map from a file's blocks to the disk's *)

\* What ext2 keeps of a file, and that it is right.
Ext2Buf == {"inode", "data1", "data2", "mapblock1", "mapblock2"}
Ext2Right(vol, c) ==
  /\ IsCall(c) /\ c.vol = vol /\ DOMAIN c.buf = Ext2Buf
  /\ Ext2Maps(vol, c.buf)
Going(vol, c) == Ext2Right(vol, c) /\ Running(c)

\* Nothing but some fields has changed, and none of them is a buffer.
Same(c, d) ==
  IsCall(d) /\ d.vol = c.vol /\ d.buf = c.buf

\* Such a change keeps what is kept right.
LEMMA SameRight == ASSUME NEW vol, NEW c, NEW d, Ext2Right(vol, c), Same(c, d) PROVE Ext2Right(vol, d)
BY DEF Ext2Right, Same

\* A read into DATABLOCK1 fills it with the disk's block, or stops the call.
LEMMA ReadData1Facts ==
  ASSUME NEW c, NEW block, IsCall(c), DOMAIN c.buf = Ext2Buf, Running(c)
  PROVE  LET d == ReadData1(c, block)
         IN /\ IsCall(d) /\ d.vol = c.vol
            /\ \/ Stopped(d) /\ d.buf = c.buf
               \/ /\ Running(d) /\ DOMAIN d.buf = Ext2Buf
                  /\ d.buf.data1 = c.vol.block[block] /\ d.buf.data2 = c.buf.data2
                  /\ d.buf.inode = c.buf.inode
                  /\ d.buf.mapblock1 = c.buf.mapblock1 /\ d.buf.mapblock2 = c.buf.mapblock2
<1> DEFINE d == ReadData1(c, block)
<1> DEFINE r == ReadBlock(c, block)
<1>1. IsCall(r) /\ r.vol = c.vol /\ r.buf = c.buf /\ Running(r)
  <2>1. r = Devread(c, block * BlockSectors(c), 0, BlockSize(c))
    BY DEF ReadBlock
  <2> HIDE DEF r
  <2>2. QED
    BY <2>1, DevreadKeeps
<1>2. d = IF r.errnum = ERR_NONE THEN [r EXCEPT !.buf.data1 = r.vol.block[block]] ELSE Corrupt(r)
  BY DEF ReadData1
<1> HIDE DEF r, d
<1> DEFINE Facts == /\ IsCall(d) /\ d.vol = c.vol
                    /\ \/ Stopped(d) /\ d.buf = c.buf
                       \/ /\ Running(d) /\ DOMAIN d.buf = Ext2Buf
                          /\ d.buf.data1 = c.vol.block[block] /\ d.buf.data2 = c.buf.data2
                          /\ d.buf.inode = c.buf.inode
                          /\ d.buf.mapblock1 = c.buf.mapblock1 /\ d.buf.mapblock2 = c.buf.mapblock2
<1>3. ASSUME r.errnum = ERR_NONE PROVE Facts
  BY <1>1, <1>2, <1>3 DEF IsCall, Fields, Ext2Buf, Running
<1>4. ASSUME r.errnum # ERR_NONE PROVE Facts
  BY <1>1, <1>2, <1>4 DEF Corrupt, Fail, IsCall, Fields, Stopped
<1>5. QED
  BY <1>3, <1>4 DEF d

\* A read into DATABLOCK2 fills it with the disk's block, or stops the call.
LEMMA ReadData2Facts ==
  ASSUME NEW c, NEW block, IsCall(c), DOMAIN c.buf = Ext2Buf, Running(c)
  PROVE  LET d == ReadData2(c, block)
         IN /\ IsCall(d) /\ d.vol = c.vol
            /\ \/ Stopped(d) /\ d.buf = c.buf
               \/ /\ Running(d) /\ DOMAIN d.buf = Ext2Buf
                  /\ d.buf.data2 = c.vol.block[block] /\ d.buf.data1 = c.buf.data1
                  /\ d.buf.inode = c.buf.inode
                  /\ d.buf.mapblock1 = c.buf.mapblock1 /\ d.buf.mapblock2 = c.buf.mapblock2
<1> DEFINE d == ReadData2(c, block)
<1> DEFINE r == ReadBlock(c, block)
<1>1. IsCall(r) /\ r.vol = c.vol /\ r.buf = c.buf /\ Running(r)
  <2>1. r = Devread(c, block * BlockSectors(c), 0, BlockSize(c))
    BY DEF ReadBlock
  <2> HIDE DEF r
  <2>2. QED
    BY <2>1, DevreadKeeps
<1>2. d = IF r.errnum = ERR_NONE THEN [r EXCEPT !.buf.data2 = r.vol.block[block]] ELSE Corrupt(r)
  BY DEF ReadData2
<1> HIDE DEF r, d
<1> DEFINE Facts == /\ IsCall(d) /\ d.vol = c.vol
                    /\ \/ Stopped(d) /\ d.buf = c.buf
                       \/ /\ Running(d) /\ DOMAIN d.buf = Ext2Buf
                          /\ d.buf.data2 = c.vol.block[block] /\ d.buf.data1 = c.buf.data1
                          /\ d.buf.inode = c.buf.inode
                          /\ d.buf.mapblock1 = c.buf.mapblock1 /\ d.buf.mapblock2 = c.buf.mapblock2
<1>3. ASSUME r.errnum = ERR_NONE PROVE Facts
  BY <1>1, <1>2, <1>3 DEF IsCall, Fields, Ext2Buf, Running
<1>4. ASSUME r.errnum # ERR_NONE PROVE Facts
  BY <1>1, <1>2, <1>4 DEF Corrupt, Fail, IsCall, Fields, Stopped
<1>5. QED
  BY <1>3, <1>4 DEF d

\* The block that DATABLOCK1 holds is the one that mapblock1 says.
Ends(c) == Stopped(c) \/ Running(c)
\* DATABLOCK1 is read again unless mapblock1 names it, and then it is named.
LEMMA IndirectRight ==
  ASSUME NEW vol, NEW c, NEW which, Going(vol, c), NEW d, d = Indirect(c, which)
  PROVE  Ext2Right(vol, d) /\ Ends(d) /\ d.buf.mapblock2 = c.buf.mapblock2
<1>1. IsCall(c) /\ c.vol = vol /\ DOMAIN c.buf = Ext2Buf /\ Running(c) /\ Ext2Maps(vol, c.buf)
  BY DEF Going, Ext2Right
<1>2. CASE c.buf.mapblock1 = which
  <2>1. d = [c EXCEPT !.buf.mapblock1 = which]
    BY <1>1, <1>2 DEF Indirect, Then, Running
  <2>2. IsCall(d) /\ d.vol = vol /\ DOMAIN d.buf = Ext2Buf /\ Running(d)
    BY <1>1, <2>1 DEF IsCall, Fields, Running
  <2>3. /\ d.buf.inode = c.buf.inode /\ d.buf.data1 = c.buf.data1 /\ d.buf.data2 = c.buf.data2
        /\ d.buf.mapblock1 = c.buf.mapblock1 /\ d.buf.mapblock2 = c.buf.mapblock2
    BY <1>1, <1>2, <2>1 DEF IsCall, Fields, Ext2Buf
  <2>4. QED
    BY <1>1, <2>2, <2>3 DEF Ext2Right, Ext2Maps, Ends
<1>3. CASE c.buf.mapblock1 # which
  <2> DEFINE r == ReadData1(c, c.buf.inode.i_block[NDIR + which])
  <2>1. d = IF r.done THEN r ELSE [r EXCEPT !.buf.mapblock1 = which]
    BY <1>3 DEF Indirect, Then
  <2>2. /\ IsCall(r) /\ r.vol = vol
        /\ \/ Stopped(r) /\ r.buf = c.buf
           \/ /\ Running(r) /\ DOMAIN r.buf = Ext2Buf
              /\ r.buf.data1 = vol.block[c.buf.inode.i_block[NDIR + which]]
              /\ r.buf.data2 = c.buf.data2 /\ r.buf.inode = c.buf.inode
              /\ r.buf.mapblock1 = c.buf.mapblock1 /\ r.buf.mapblock2 = c.buf.mapblock2
    <3>1. r = ReadData1(c, c.buf.inode.i_block[NDIR + which])
      OBVIOUS
    <3> HIDE DEF r
    <3>2. /\ IsCall(r) /\ r.vol = c.vol
          /\ \/ Stopped(r) /\ r.buf = c.buf
             \/ /\ Running(r) /\ DOMAIN r.buf = Ext2Buf
                /\ r.buf.data1 = c.vol.block[c.buf.inode.i_block[NDIR + which]]
                /\ r.buf.data2 = c.buf.data2 /\ r.buf.inode = c.buf.inode
                /\ r.buf.mapblock1 = c.buf.mapblock1 /\ r.buf.mapblock2 = c.buf.mapblock2
      BY <1>1, <3>1, ReadData1Facts
    <3>3. QED
      BY <1>1, <3>2
  <2> HIDE DEF r
  <2>3. CASE Stopped(r) /\ r.buf = c.buf
    BY <1>1, <2>1, <2>2, <2>3 DEF Ext2Right, Stopped, Ends
  <2>4. CASE ~(Stopped(r) /\ r.buf = c.buf)
    <3>1. d = [r EXCEPT !.buf.mapblock1 = which]
      BY <2>1, <2>2, <2>4 DEF Running
    <3>2. IsCall(d) /\ d.vol = vol /\ DOMAIN d.buf = Ext2Buf /\ Running(d)
      BY <2>2, <2>4, <3>1 DEF IsCall, Fields, Running
    <3>3. /\ d.buf.inode = c.buf.inode /\ d.buf.data2 = c.buf.data2
          /\ d.buf.data1 = vol.block[c.buf.inode.i_block[NDIR + which]]
          /\ d.buf.mapblock1 = which /\ d.buf.mapblock2 = c.buf.mapblock2
      BY <2>2, <2>4, <3>1 DEF IsCall, Fields, Ext2Buf
    <3>4. QED
      BY <1>1, <3>2, <3>3 DEF Ext2Right, Ext2Maps, Ends
  <2>5. QED
    BY <2>2, <2>3, <2>4
<1>4. QED
  BY <1>2, <1>3

\* The second block is read before mapblock2 names it, or it is already there.
LEMMA SecondRight ==
  ASSUME NEW vol, NEW c, NEW bnum, Ext2Right(vol, c), Running(c), NEW d, d = Second(c, bnum)
  PROVE  Ext2Right(vol, d)
<1>1. IsCall(c) /\ c.vol = vol /\ DOMAIN c.buf = Ext2Buf /\ Running(c) /\ Ext2Maps(vol, c.buf)
  BY DEF Ext2Right
<1>2. CASE c.buf.mapblock2 = bnum
  <2>1. d = [c EXCEPT !.buf.mapblock2 = bnum]
    BY <1>1, <1>2 DEF Second, Then, Running
  <2>2. IsCall(d) /\ d.vol = vol /\ DOMAIN d.buf = Ext2Buf
    BY <1>1, <2>1 DEF IsCall, Fields
  <2>3. /\ d.buf.inode = c.buf.inode /\ d.buf.data1 = c.buf.data1 /\ d.buf.data2 = c.buf.data2
        /\ d.buf.mapblock1 = c.buf.mapblock1 /\ d.buf.mapblock2 = c.buf.mapblock2
    BY <1>1, <1>2, <2>1 DEF IsCall, Fields, Ext2Buf
  <2>4. QED
    BY <1>1, <2>2, <2>3 DEF Ext2Right, Ext2Maps
<1>3. CASE c.buf.mapblock2 # bnum
  <2> DEFINE r == ReadData2(c, bnum)
  <2>1. d = IF r.done THEN r ELSE [r EXCEPT !.buf.mapblock2 = bnum]
    BY <1>3 DEF Second, Then, Running
  <2>2. /\ IsCall(r) /\ r.vol = vol
        /\ \/ Stopped(r) /\ r.buf = c.buf
           \/ /\ Running(r) /\ DOMAIN r.buf = Ext2Buf
              /\ r.buf.data2 = vol.block[bnum]
              /\ r.buf.data1 = c.buf.data1 /\ r.buf.inode = c.buf.inode
              /\ r.buf.mapblock1 = c.buf.mapblock1 /\ r.buf.mapblock2 = c.buf.mapblock2
    <3>1. r = ReadData2(c, bnum)
      OBVIOUS
    <3> HIDE DEF r
    <3>2. /\ IsCall(r) /\ r.vol = c.vol
          /\ \/ Stopped(r) /\ r.buf = c.buf
             \/ /\ Running(r) /\ DOMAIN r.buf = Ext2Buf
                /\ r.buf.data2 = c.vol.block[bnum]
                /\ r.buf.data1 = c.buf.data1 /\ r.buf.inode = c.buf.inode
                /\ r.buf.mapblock1 = c.buf.mapblock1 /\ r.buf.mapblock2 = c.buf.mapblock2
      BY <1>1, <3>1, ReadData2Facts
    <3>3. QED
      BY <1>1, <3>2
  <2> HIDE DEF r
  <2>3. CASE Stopped(r) /\ r.buf = c.buf
    BY <1>1, <2>1, <2>2, <2>3 DEF Ext2Right, Stopped
  <2>4. CASE ~(Stopped(r) /\ r.buf = c.buf)
    <3>1. d = [r EXCEPT !.buf.mapblock2 = bnum]
      BY <2>1, <2>2, <2>4 DEF Running
    <3>2. IsCall(d) /\ d.vol = vol /\ DOMAIN d.buf = Ext2Buf
      BY <2>2, <2>4, <3>1 DEF IsCall, Fields
    <3>3. /\ d.buf.inode = c.buf.inode /\ d.buf.data1 = c.buf.data1
          /\ d.buf.data2 = vol.block[bnum]
          /\ d.buf.mapblock2 = bnum /\ d.buf.mapblock1 = c.buf.mapblock1
      BY <2>2, <2>4, <3>1 DEF IsCall, Fields, Ext2Buf
    <3>4. QED
      BY <1>1, <3>2, <3>3 DEF Ext2Right, Ext2Maps
  <2>5. QED
    BY <2>2, <2>3, <2>4
<1>4. QED
  BY <1>2, <1>3

\* The map gives the call back, and it may go on.
LEMMA Resumed ==
  ASSUME NEW vol, NEW c, Ext2Right(vol, c) PROVE Going(vol, [c EXCEPT !.done = FALSE])
<1> DEFINE d == [c EXCEPT !.done = FALSE]
<1>1. IsCall(d) /\ d.vol = c.vol /\ d.buf = c.buf /\ Running(d)
  BY DEF Ext2Right, IsCall, Fields, Running
<1> HIDE DEF d
<1>2. Going(vol, d)
  BY <1>1 DEF Going, Ext2Right
<1>3. QED
  BY <1>2 DEF d

\* The single indirect map.
LEMMA SingleRight ==
  ASSUME NEW vol, NEW c, NEW n, Going(vol, c) PROVE Going(vol, SingleMap(c, n).c)
<1> DEFINE e == Indirect(c, 1)
<1>1. SingleMap(c, n).c = [e EXCEPT !.done = FALSE]
  BY DEF SingleMap, Mapped
<1>2. e = Indirect(c, 1)
  OBVIOUS
<1> HIDE DEF e
<1>3. Ext2Right(vol, e)
  BY <1>2, IndirectRight
<1>4. QED
  BY <1>1, <1>3, Resumed

\* The double indirect map.
LEMMA DoubleRight ==
  ASSUME NEW vol, NEW c, NEW n, Going(vol, c) PROVE Going(vol, DoubleMap(c, n).c)
<1> DEFINE e == Indirect(c, 2)
           b == e.buf.data1[(n \div ADDR) + 1]
           f == IF e.done THEN e ELSE Second(e, b)
<1>1. DoubleMap(c, n).c = [f EXCEPT !.done = FALSE]
  BY DEF DoubleMap, Mapped, Then
<1>2. Ext2Right(vol, e) /\ Ends(e)
  <2>1. e = Indirect(c, 2)
    OBVIOUS
  <2> HIDE DEF e
  <2>2. QED
    BY <2>1, IndirectRight
<1>3. Ext2Right(vol, f)
  <2>1. CASE Stopped(e)
    BY <1>2, <2>1 DEF Stopped
  <2>2. CASE Running(e)
    <3>1. f = Second(e, b)
      BY <2>2 DEF Running
    <3> HIDE DEF e, b, f
    <3>2. QED
      BY <1>2, <2>2, <3>1, SecondRight
  <2>3. QED
    BY <1>2, <2>1, <2>2 DEF Ends
<1> HIDE DEF f
<1>4. QED
  BY <1>1, <1>3, Resumed

\* With nothing to be kept in it, DATABLOCK2 may be used for anything.
Unkept(vol, c) == Ext2Right(vol, c) /\ Ends(c) /\ c.buf.mapblock2 = -1
\* So it is read into without a mark.
LEMMA Reuse ==
  ASSUME NEW vol, NEW c, NEW block, Unkept(vol, c), Running(c)
  PROVE  Unkept(vol, ReadData2(c, block))
<1>1. IsCall(c) /\ c.vol = vol /\ DOMAIN c.buf = Ext2Buf /\ Ext2Maps(vol, c.buf) /\ c.buf.mapblock2 = -1
  BY DEF Unkept, Ext2Right
<1> DEFINE d == ReadData2(c, block)
<1>2. /\ IsCall(d) /\ d.vol = c.vol
      /\ \/ Stopped(d) /\ d.buf = c.buf
         \/ /\ Running(d) /\ DOMAIN d.buf = Ext2Buf
            /\ d.buf.data1 = c.buf.data1 /\ d.buf.inode = c.buf.inode
            /\ d.buf.mapblock1 = c.buf.mapblock1 /\ d.buf.mapblock2 = c.buf.mapblock2
  BY <1>1, ReadData2Facts
<1> HIDE DEF d
<1>3. Unkept(vol, d)
  BY <1>1, <1>2 DEF Unkept, Ext2Right, Ext2Maps, Ends
<1>4. QED
  BY <1>3 DEF d

\* The triple indirect map, which leaves nothing in DATABLOCK2 to be found again.
LEMMA TripleRight ==
  ASSUME NEW vol, NEW c, NEW n, Going(vol, c) PROVE Going(vol, TripleMap(c, n).c)
<1> DEFINE a == [c EXCEPT !.buf.mapblock2 = -1]
           e == Indirect(a, 3)
           b == e.buf.data1[(n \div (ADDR * ADDR)) + 1]
           f == IF e.done THEN e ELSE ReadData2(e, b)
           bb == f.buf.data2[((n \div ADDR) % ADDR) + 1]
           g == IF f.done THEN f ELSE ReadData2(f, bb)
<1>1. TripleMap(c, n).c = [g EXCEPT !.done = FALSE]
  BY DEF TripleMap, Mapped, Then
<1>2. Going(vol, a) /\ a.buf.mapblock2 = -1
  <2>1. IsCall(c) /\ c.vol = vol /\ DOMAIN c.buf = Ext2Buf /\ Running(c) /\ Ext2Maps(vol, c.buf)
    BY DEF Going, Ext2Right
  <2>2. IsCall(a) /\ a.vol = vol /\ DOMAIN a.buf = Ext2Buf /\ Running(a)
    BY <2>1 DEF IsCall, Fields, Running
  <2>3. /\ a.buf.inode = c.buf.inode /\ a.buf.data1 = c.buf.data1 /\ a.buf.mapblock2 = -1
        /\ a.buf.mapblock1 = c.buf.mapblock1
    BY <2>1 DEF IsCall, Fields, Ext2Buf
  <2> HIDE DEF a
  <2>4. QED
    BY <2>1, <2>2, <2>3 DEF Going, Ext2Right, Ext2Maps
<1>3. Unkept(vol, e)
  <2>1. e = Indirect(a, 3)
    OBVIOUS
  <2> HIDE DEF e, a
  <2>2. QED
    BY <1>2, <2>1, IndirectRight DEF Unkept
<1>4. Unkept(vol, f)
  <2> HIDE DEF e, b
  <2>1. CASE Running(e)
    BY <1>3, <2>1, Reuse DEF Running
  <2>2. CASE Stopped(e)
    BY <1>3, <2>2 DEF Stopped
  <2>3. QED
    BY <1>3, <2>1, <2>2 DEF Unkept, Ends
<1>5. Unkept(vol, g)
  <2> HIDE DEF f, bb
  <2>1. CASE Running(f)
    BY <1>4, <2>1, Reuse DEF Running
  <2>2. CASE Stopped(f)
    BY <1>4, <2>2 DEF Stopped
  <2>3. QED
    BY <1>4, <2>1, <2>2 DEF Unkept, Ends
<1> HIDE DEF g
<1>6. QED
  BY <1>1, <1>5, Resumed DEF Unkept

\* ext2fs_block_map: at the three levels, what is kept stays the block it is called.
LEMMA Ext2MapRight ==
  ASSUME NEW vol, NEW c, NEW n, Going(vol, c) PROVE Going(vol, Ext2BlockMap(c, n).c)
<1>1. CASE n < NDIR
  <2>1. Ext2BlockMap(c, n).c = [c EXCEPT !.done = FALSE]
    BY <1>1 DEF Ext2BlockMap, Mapped
  <2>2. QED
    BY <2>1, Resumed DEF Going
<1>2. CASE ~(n < NDIR)
  BY <1>2, SingleRight, DoubleRight, TripleRight DEF Ext2BlockMap
<1>3. QED
  BY <1>1, <1>2

-----------------------------------------------------------------------------
(* ext4: the extents *)

\* Nothing is kept of an inode with extents.
Extents(vol, x) == DOMAIN x = {"c", "node"} /\ Ext2Right(vol, x.c) /\ Ends(x.c) /\ x.c.buf.inode.extended

\* An inode with extents has no map that could be wrong.
LEMMA ExtentsKept == ASSUME NEW vol, NEW c, IsCall(c), c.vol = vol, DOMAIN c.buf = Ext2Buf, c.buf.inode.extended
              PROVE  Ext2Right(vol, c)
BY DEF Ext2Right, Ext2Maps

\* A map that ends in no block stops the call, and changes nothing that is kept.
LEMMA CorruptRight ==
  ASSUME NEW vol, NEW c, Ext2Right(vol, c)
  PROVE  Ext2Right(vol, Corrupt(c)) /\ Stopped(Corrupt(c)) /\ Corrupt(c).buf = c.buf
BY DEF Ext2Right, Corrupt, Fail, IsCall, Fields, Stopped

\* One level down the tree of extents.
LEMMA DescendRight ==
  ASSUME NEW vol, NEW n, NEW x, Extents(vol, x), ~(x.c.done \/ x.node.depth = 0)
  PROVE  Extents(vol, Descend(x, n))
<1>1. /\ DOMAIN x = {"c", "node"} /\ Ext2Right(vol, x.c) /\ Running(x.c) /\ x.c.buf.inode.extended
      /\ IsCall(x.c) /\ DOMAIN x.c.buf = Ext2Buf /\ x.c.vol = vol
  BY DEF Extents, Ends, Stopped, Ext2Right
<1>2. CASE ~x.node.magic
  <2>1. Descend(x, n) = [x EXCEPT !.c = Corrupt(x.c)]
    BY <1>2 DEF Descend
  <2>2. Ext2Right(vol, Corrupt(x.c)) /\ Stopped(Corrupt(x.c)) /\ Corrupt(x.c).buf = x.c.buf
    BY <1>1, CorruptRight
  <2>3. QED
    BY <1>1, <2>1, <2>2 DEF Extents, Ends
<1>3. CASE x.node.magic
  <2> DEFINE d == ReadData1(x.c, Closest(x.node.entries, n).leaf)
  <2>1. Descend(x, n) = IF d.done THEN [x EXCEPT !.c = d] ELSE [x EXCEPT !.c = d, !.node = d.buf.data1]
    BY <1>3 DEF Descend
  <2>2. /\ IsCall(d) /\ d.vol = x.c.vol
        /\ \/ Stopped(d) /\ d.buf = x.c.buf
           \/ Running(d) /\ DOMAIN d.buf = Ext2Buf /\ d.buf.inode = x.c.buf.inode
    BY <1>1, ReadData1Facts
  <2> HIDE DEF d
  <2>3. IsCall(d) /\ d.vol = vol /\ DOMAIN d.buf = Ext2Buf /\ d.buf.inode.extended /\ Ends(d)
    BY <1>1, <2>2 DEF Ends
  <2>4. Ext2Right(vol, d)
    BY <2>3, ExtentsKept
  <2>5. DOMAIN Descend(x, n) = {"c", "node"} /\ Descend(x, n).c = d
    BY <1>1, <2>1
  <2>6. QED
    BY <2>3, <2>4, <2>5 DEF Extents
<1>4. QED
  BY <1>2, <1>3

\* Level by level, and read by read.
LEMMA DescendLoop ==
  ASSUME NEW vol, NEW n, NEW x0, Extents(vol, x0),
         \A x : Extents(vol, x) /\ ~(x.c.done \/ x.node.depth = 0) => Extents(vol, Descend(x, n))
  PROVE  Extents(vol, LeafOf(x0, n))
<1> DEFINE Go(x) == IF x.c.done \/ x.node.depth = 0 THEN x ELSE Descend(x, n)
           Fits(m, g) == g = [k \in 0..m |-> IF k = 0 THEN x0 ELSE Go(g[k - 1])]
           T == {m \in Nat : \E g : Fits(m, g)}
<1>1. \E g : Fits(LoopLimit, g)
  <2>1. 0 \in T
    <3>1. Fits(0, [k \in 0..0 |-> x0])
      OBVIOUS
    <3>2. QED
      BY <3>1
  <2>2. ASSUME NEW m \in T PROVE m + 1 \in T
    <3>1. PICK g : Fits(m, g)
      OBVIOUS
    <3> DEFINE h == [k \in 0..(m + 1) |-> IF k = m + 1 THEN Go(g[m]) ELSE g[k]]
    <3> HIDE DEF Go
    <3>2. Fits(m + 1, h)
      BY <3>1
    <3> HIDE DEF Fits, h
    <3>3. m + 1 \in Nat
      OBVIOUS
    <3>4. QED
      BY <3>2, <3>3
  <2> HIDE DEF Fits
  <2>3. LoopLimit \in T
    <3>1. LoopLimit \in Nat /\ LoopLimit \in 0..LoopLimit
      BY FileSystemsAssumption
    <3> HIDE DEF T
    <3>2. QED
      BY <2>1, <2>2, <3>1, Upward
  <2>4. QED
    BY <2>3
<1> DEFINE at == CHOOSE g : Fits(LoopLimit, g)
<1>2. Fits(LoopLimit, at)
  <2> HIDE DEF Fits
  <2>1. QED
    BY <1>1
<1>3. LeafOf(x0, n) = at[LoopLimit]
  BY DEF Repeat, LeafOf
<1> HIDE DEF at
<1>4. \A x : Extents(vol, x) => Extents(vol, Go(x))
  OBVIOUS
<1> HIDE DEF Go
<1>5. Extents(vol, at[LoopLimit])
  <2> DEFINE R == {m \in 0..LoopLimit : Extents(vol, at[m])}
  <2>0. LoopLimit \in Nat
    BY FileSystemsAssumption
  <2>1. at[0] = x0 /\ \A k \in 1..LoopLimit : at[k] = Go(at[k - 1])
    BY <1>2, <2>0
  <2>2. 0 \in R
    BY <2>0, <2>1
  <2>3. ASSUME NEW m \in R, m \in 0..(LoopLimit - 1) PROVE m + 1 \in R
    <3>1. at[m + 1] = Go(at[m]) /\ Extents(vol, at[m]) /\ m + 1 \in 0..LoopLimit
      BY <2>0, <2>1, <2>3
    <3>2. QED
      BY <1>4, <3>1
  <2> HIDE DEF R
  <2>4. 0..LoopLimit \subseteq R
    BY <2>0, <2>2, <2>3, Upward
  <2>5. QED
    BY <2>0, <2>4 DEF R
<1>6. QED
  BY <1>3, <1>5

\* ext4fs_block_map.
LEMMA Ext4MapRight ==
  ASSUME NEW vol, NEW c, NEW n, Going(vol, c), c.buf.inode.extended
  PROVE  Going(vol, Ext4BlockMap(c, n).c)
<1> DEFINE root == c.buf.inode.extents
           x0 == [c |-> c, node |-> root]
           x == LeafOf(x0, n)
           e == IF ~root.magic \/ x.c.done THEN Corrupt(x.c)
                ELSE LET ex == Closest(x.node.entries, n)
                     IN IF ex.block + ex.len < n THEN Corrupt(x.c) ELSE x.c
<1>1. Ext4BlockMap(c, n).c = [e EXCEPT !.done = FALSE]
  BY DEF Ext4BlockMap, Mapped, InExtent
<1>2. Extents(vol, x0)
  BY DEF Extents, Going, Ends
<1> HIDE DEF x0
<1>3. Extents(vol, x)
  BY <1>2, DescendLoop, DescendRight
<1> HIDE DEF x
<1>4. Ext2Right(vol, x.c) /\ Ext2Right(vol, Corrupt(x.c))
  BY <1>3, CorruptRight DEF Extents
<1>5. Ext2Right(vol, e)
  BY <1>4
<1> HIDE DEF e
<1>6. QED
  BY <1>1, <1>5, Resumed

\* Either map.
LEMMA MapRight ==
  ASSUME NEW vol, NEW c, NEW n, Going(vol, c) PROVE Going(vol, BlockMap(c, n).c)
BY Ext2MapRight, Ext4MapRight DEF BlockMap

-----------------------------------------------------------------------------
(* ext2: reading, and looking up *)

\* One turn of the loop of ext2fs_read.
LEMMA PieceRight ==
  ASSUME NEW vol, NEW c, NEW end, Going(vol, c) PROVE Going(vol, Ext2Piece(c, end))
<1> DEFINE offset == c.filepos % BlockSize(c)
           size == Least(BlockSize(c) - offset, end - c.filepos)
           m == BlockMap(c, c.filepos \div BlockSize(c))
           r == Devread(m.c, m.block * BlockSectors(c), offset, size)
           p == Ext2Piece(c, end)
<1>1. Going(vol, m.c)
  BY MapRight
<1>2. p = IF m.block = 0 THEN [m.c EXCEPT !.out = @ \o [k \in 1..size |-> Zero], !.filepos = @ + size]
          ELSE [r EXCEPT !.filepos = @ + size,
                  !.out = @ \o IF r.errnum = ERR_NONE
                               THEN SubSeq(r.vol.block[m.block], offset + 1, offset + size)
                               ELSE Unknown(size)]
  BY DEF Ext2Piece
<1> HIDE DEF m, size, offset
<1>3. IsCall(m.c) /\ m.c.vol = vol /\ Running(m.c)
  BY <1>1 DEF Going, Ext2Right
<1>4. IsCall(r) /\ r.vol = m.c.vol /\ r.buf = m.c.buf /\ Running(r)
  BY <1>3, DevreadKeeps
<1> HIDE DEF r, p
<1>5. IsCall(p) /\ p.vol = m.c.vol /\ p.buf = m.c.buf /\ Running(p)
  BY <1>2, <1>3, <1>4 DEF IsCall, Fields, Running
<1>6. Going(vol, p)
  BY <1>1, <1>5 DEF Going, Ext2Right
<1>7. QED
  BY <1>6 DEF p

\* Piece by piece.
LEMMA PieceLoop ==
  ASSUME NEW vol, NEW end, NEW x0, Going(vol, x0),
         \A x : Going(vol, x) /\ ~(x.filepos = end) => Going(vol, Ext2Piece(x, end))
  PROVE  Going(vol, Ext2Pieces(x0, end))
<1> DEFINE Go(x) == IF x.filepos = end THEN x ELSE Ext2Piece(x, end)
           Fits(m, g) == g = [k \in 0..m |-> IF k = 0 THEN x0 ELSE Go(g[k - 1])]
           T == {m \in Nat : \E g : Fits(m, g)}
<1>1. \E g : Fits(LoopLimit, g)
  <2>1. 0 \in T
    <3>1. Fits(0, [k \in 0..0 |-> x0])
      OBVIOUS
    <3>2. QED
      BY <3>1
  <2>2. ASSUME NEW m \in T PROVE m + 1 \in T
    <3>1. PICK g : Fits(m, g)
      OBVIOUS
    <3> DEFINE h == [k \in 0..(m + 1) |-> IF k = m + 1 THEN Go(g[m]) ELSE g[k]]
    <3> HIDE DEF Go
    <3>2. Fits(m + 1, h)
      BY <3>1
    <3> HIDE DEF Fits, h
    <3>3. m + 1 \in Nat
      OBVIOUS
    <3>4. QED
      BY <3>2, <3>3
  <2> HIDE DEF Fits
  <2>3. LoopLimit \in T
    <3>1. LoopLimit \in Nat /\ LoopLimit \in 0..LoopLimit
      BY FileSystemsAssumption
    <3> HIDE DEF T
    <3>2. QED
      BY <2>1, <2>2, <3>1, Upward
  <2>4. QED
    BY <2>3
<1> DEFINE at == CHOOSE g : Fits(LoopLimit, g)
<1>2. Fits(LoopLimit, at)
  <2> HIDE DEF Fits
  <2>1. QED
    BY <1>1
<1>3. Ext2Pieces(x0, end) = at[LoopLimit]
  BY DEF Repeat, Ext2Pieces
<1> HIDE DEF at
<1>4. \A x : Going(vol, x) => Going(vol, Go(x))
  OBVIOUS
<1> HIDE DEF Go
<1>5. Going(vol, at[LoopLimit])
  <2> DEFINE R == {m \in 0..LoopLimit : Going(vol, at[m])}
  <2>0. LoopLimit \in Nat
    BY FileSystemsAssumption
  <2>1. at[0] = x0 /\ \A k \in 1..LoopLimit : at[k] = Go(at[k - 1])
    BY <1>2, <2>0
  <2>2. 0 \in R
    BY <2>0, <2>1
  <2>3. ASSUME NEW m \in R, m \in 0..(LoopLimit - 1) PROVE m + 1 \in R
    <3>1. at[m + 1] = Go(at[m]) /\ Going(vol, at[m]) /\ m + 1 \in 0..LoopLimit
      BY <2>0, <2>1, <2>3
    <3>2. QED
      BY <1>4, <3>1
  <2> HIDE DEF R
  <2>4. 0..LoopLimit \subseteq R
    BY <2>0, <2>2, <2>3, Upward
  <2>5. QED
    BY <2>0, <2>4 DEF R
<1>6. QED
  BY <1>3, <1>5

\* ext2fs_read.
LEMMA Ext2ReadRight ==
  ASSUME NEW vol, NEW c, NEW len, Ext2Right(vol, c)
  PROVE  Going(vol, Ext2Read(c, len))
<1> DEFINE a == [c EXCEPT !.out = <<>>, !.ret = 0, !.done = FALSE]
           end == c.filepos + len
           p == Ext2Pieces(a, end)
<1>1. Ext2Read(c, len) = Return(p)
  BY DEF Ext2Read
<1>2. Going(vol, a)
  <2>1. IsCall(a) /\ a.vol = c.vol /\ a.buf = c.buf /\ Running(a)
    BY DEF Ext2Right, IsCall, Fields, Running
  <2> HIDE DEF a
  <2>2. QED
    BY <2>1 DEF Going, Ext2Right
<1> HIDE DEF a, end
<1>3. Going(vol, p)
  BY <1>2, PieceLoop, PieceRight
<1> HIDE DEF p
<1>4. IsCall(Return(p)) /\ Return(p).vol = p.vol /\ Return(p).buf = p.buf /\ Running(Return(p))
  BY <1>3 DEF Return, Going, Ext2Right, IsCall, Fields, Running
<1>5. QED
  BY <1>1, <1>3, <1>4 DEF Going, Ext2Right

\* A block is read for the groups or the inodes: the map is not touched.
LEMMA BlockRead ==
  ASSUME NEW vol, NEW c, NEW block, Going(vol, c)
  PROVE  Going(vol, ReadBlock(c, block))
<1> DEFINE r == ReadBlock(c, block)
<1>1. r = Devread(c, block * BlockSectors(c), 0, BlockSize(c))
  BY DEF ReadBlock
<1> HIDE DEF r
<1>2. IsCall(r) /\ r.vol = c.vol /\ r.buf = c.buf /\ Running(r)
  BY <1>1, DevreadKeeps DEF Going, Ext2Right
<1>3. Going(vol, r)
  BY <1>2 DEF Going, Ext2Right
<1>4. QED
  BY <1>3 DEF r

\* A call that stops, or fails, leaves the buffers alone.
LEMMA StoppedRight ==
  ASSUME NEW vol, NEW c, Ext2Right(vol, c)
  PROVE  LET d == [c EXCEPT !.ret = 0, !.done = TRUE] IN Ext2Right(vol, d) /\ Stopped(d)
<1> DEFINE d == [c EXCEPT !.ret = 0, !.done = TRUE]
<1>1. IsCall(d) /\ d.vol = c.vol /\ d.buf = c.buf /\ Stopped(d)
  BY DEF Ext2Right, IsCall, Fields, Stopped
<1> HIDE DEF d
<1>2. Ext2Right(vol, d) /\ Stopped(d)
  BY <1>1 DEF Ext2Right
<1>3. QED
  BY <1>2 DEF d

\* A new inode comes with mapblock1 and mapblock2 reset, so nothing is kept of the
\* last one.
LEMMA InodeReadRight ==
  ASSUME NEW vol, NEW c, NEW ino, NEW block, Going(vol, c)
  PROVE  Ext2Right(vol, InodeRead(c, ino, block)) /\ Ends(InodeRead(c, ino, block))
<1> DEFINE r == ReadBlock(c, block)
           i == r.vol.block[block][((ino - 1) % r.vol.super.inodes_per_block) + 1]
           d == [r EXCEPT !.buf = [Reset(@) EXCEPT !.data1 = Overwritten, !.inode = i]]
<1>1. InodeRead(c, ino, block) = IF r.errnum # ERR_NONE THEN [r EXCEPT !.ret = 0, !.done = TRUE] ELSE d
  BY DEF InodeRead
<1>2. Going(vol, r)
  BY BlockRead
<1> HIDE DEF r
<1>3. /\ IsCall(d) /\ d.vol = vol /\ Running(d) /\ DOMAIN d.buf = Ext2Buf
      /\ d.buf.mapblock1 = -1 /\ d.buf.mapblock2 = -1
  <2>1. IsCall(r) /\ r.vol = vol /\ Running(r) /\ DOMAIN r.buf = Ext2Buf
    BY <1>2 DEF Going, Ext2Right
  <2> HIDE DEF i
  <2> DEFINE b == [r.buf EXCEPT !.mapblock1 = -1, !.mapblock2 = -1]
             e == [b EXCEPT !.data1 = Overwritten, !.inode = i]
  <2>2. IsCall(d) /\ d.vol = vol /\ Running(d) /\ d.buf = e
    BY <2>1 DEF IsCall, Fields, Running, Reset
  <2>3. DOMAIN e = Ext2Buf /\ e.mapblock1 = -1 /\ e.mapblock2 = -1
    BY <2>1 DEF Ext2Buf
  <2>4. QED
    BY <2>2, <2>3
<1> HIDE DEF d
<1>4. Ext2Right(vol, d)
  BY <1>3 DEF Ext2Right, Ext2Maps
<1>5. Ext2Right(vol, [r EXCEPT !.ret = 0, !.done = TRUE]) /\ Stopped([r EXCEPT !.ret = 0, !.done = TRUE])
  BY <1>2, StoppedRight DEF Going
<1>6. QED
  BY <1>1, <1>3, <1>4, <1>5 DEF Ends

\* The inode is found through its group, and read.
LEMMA GetInodeRight ==
  ASSUME NEW vol, NEW c, NEW ino, Going(vol, c)
  PROVE  Ext2Right(vol, GetInode(c, ino)) /\ Ends(GetInode(c, ino))
<1> DEFINE s == c.vol.super
           g == GroupBlock(s, (ino - 1) \div s.inodes_per_group)
           r == ReadBlock(c, g.block)
           block == r.vol.block[g.block][g.desc + 1] +
                      ((ino - 1) % s.inodes_per_group) \div s.inodes_per_block
<1>1. GetInode(c, ino) = IF r.errnum # ERR_NONE THEN [r EXCEPT !.ret = 0, !.done = TRUE]
                         ELSE InodeRead(r, ino, block)
  BY DEF GetInode
<1>2. Going(vol, r)
  BY BlockRead
<1> HIDE DEF r, block
<1>3. Ext2Right(vol, [r EXCEPT !.ret = 0, !.done = TRUE]) /\ Stopped([r EXCEPT !.ret = 0, !.done = TRUE])
  BY <1>2, StoppedRight DEF Going
<1>4. QED
  BY <1>1, <1>2, <1>3, InodeReadRight DEF Ends

\* The walk.
WalkFields == {"c", "ino", "updir", "path", "links", "verdict"}
Walking(vol, w) == DOMAIN w = WalkFields /\ Going(vol, w.c)

\* A walk that ends keeps what it has.
LEMMA StopRight ==
  ASSUME NEW vol, NEW w, DOMAIN w = WalkFields, NEW c, Ext2Right(vol, c), NEW e
  PROVE  Walking(vol, Stop(w, c, e))
<1> DEFINE d == [Fail(c, e) EXCEPT !.done = FALSE]
<1>1. IsCall(d) /\ d.vol = c.vol /\ d.buf = c.buf /\ Running(d)
  BY DEF Ext2Right, Fail, IsCall, Fields, Running
<1>2. Stop(w, c, e) = [w EXCEPT !.c = d, !.verdict = "missing"]
  BY DEF Stop
<1> HIDE DEF d
<1>3. Going(vol, d)
  BY <1>1 DEF Going, Ext2Right
<1>4. QED
  BY <1>2, <1>3 DEF Walking, WalkFields

\* Positions and values of a call may be set.
LEMMA PosRight ==
  ASSUME NEW vol, NEW c, NEW e, Going(vol, c)
  PROVE  Going(vol, [c EXCEPT !.filemax = e]) /\ Going(vol, [c EXCEPT !.filepos = e])
<1> DEFINE a == [c EXCEPT !.filemax = e]
           b == [c EXCEPT !.filepos = e]
<1>1. /\ IsCall(a) /\ a.vol = c.vol /\ a.buf = c.buf /\ Running(a)
      /\ IsCall(b) /\ b.vol = c.vol /\ b.buf = c.buf /\ Running(b)
  BY DEF Going, Ext2Right, IsCall, Fields, Running
<1> HIDE DEF a, b
<1>2. Going(vol, a) /\ Going(vol, b)
  BY <1>1 DEF Going, Ext2Right
<1>3. QED
  BY <1>2 DEF a, b

\* A link is followed from the directory it is in.
LEMMA FollowRight ==
  ASSUME NEW vol, NEW w, DOMAIN w = WalkFields, NEW c, Going(vol, c), NEW target
  PROVE  Walking(vol, FollowLink(w, c, target))
BY DEF FollowLink, Walking, WalkFields

\* An inode that is a link is read for its name.
LEMMA ChaseRight ==
  ASSUME NEW vol, NEW w, DOMAIN w = WalkFields, NEW c, Going(vol, c)
  PROVE  Walking(vol, Chase(w, c))
<1> DEFINE inode == c.buf.inode
           m == [c EXCEPT !.filemax = inode.size]
           r == Ext2Read(m, inode.size)
           q == [r EXCEPT !.filepos = 0]
<1>1. Chase(w, c) =
        IF w.links + 1 > MAX_LINK_COUNT THEN Stop(w, c, ERR_SYMLINK_LOOP)
        ELSE IF inode.size + Len(w.path) > PATH_MAX - 2 THEN Stop(w, m, ERR_FILELENGTH)
        ELSE IF inode.fast THEN FollowLink(w, m, inode.target)
        ELSE IF r.ret = 0 THEN Stop(w, r, r.errnum) ELSE FollowLink(w, q, r.out)
  BY DEF Chase
<1>2. Going(vol, m)
  BY PosRight
<1> HIDE DEF m
<1>3. Going(vol, r)
  BY <1>2, Ext2ReadRight DEF Going
<1> HIDE DEF r
<1>4. Going(vol, q)
  BY <1>3, PosRight
<1> HIDE DEF q, inode
<1>5. /\ Walking(vol, Stop(w, c, ERR_SYMLINK_LOOP)) /\ Walking(vol, Stop(w, m, ERR_FILELENGTH))
      /\ Walking(vol, Stop(w, r, r.errnum))
  BY <1>2, <1>3, StopRight DEF Going
<1>6. Walking(vol, FollowLink(w, m, inode.target)) /\ Walking(vol, FollowLink(w, q, r.out))
  BY <1>2, <1>4, FollowRight
<1>7. QED
  BY <1>1, <1>5, <1>6

\* The entries of a directory.
EntryFields == {"c", "loc", "ino", "verdict"}
Listing(vol, x) == DOMAIN x = EntryFields /\ Going(vol, x.c)

\* A listing that ends keeps what it has.
LEMMA ListingStops ==
  ASSUME NEW vol, NEW x, DOMAIN x = EntryFields, NEW c, Going(vol, c)
  PROVE  Listing(vol, [x EXCEPT !.c = c, !.verdict = "missing"])
BY DEF Listing, EntryFields

\* One entry of a directory is read and compared.
LEMMA NextDirEntryRight ==
  ASSUME NEW vol, NEW x, NEW name, Listing(vol, x)
  PROVE  Listing(vol, NextDirEntry(x, name))
<1> DEFINE m == BlockMap(x.c, x.loc \div BlockSize(x.c))
           a == [m.c EXCEPT !.buf.mapblock2 = -1]
           d == ReadData2(a, m.block)
           f == Fail(x.c, ERR_FILE_NOT_FOUND)
<1>1. DOMAIN x = EntryFields /\ Going(vol, x.c)
  BY DEF Listing
<1>2. CASE x.loc >= x.c.buf.inode.size
  <2>1. NextDirEntry(x, name) = [x EXCEPT !.c = f, !.verdict = "missing"]
    BY <1>2 DEF NextDirEntry
  <2>2. IsCall(f) /\ f.vol = x.c.vol /\ f.buf = x.c.buf /\ Running(f)
    BY <1>1 DEF Fail, Going, Ext2Right, IsCall, Fields, Running
  <2> HIDE DEF f
  <2>3. Going(vol, f)
    BY <1>1, <2>2 DEF Going, Ext2Right
  <2>4. QED
    BY <1>1, <2>1, <2>3 DEF Listing, EntryFields
<1>3. CASE ~(x.loc >= x.c.buf.inode.size)
  <2>1. NextDirEntry(x, name) =
          IF m.block = NoBlock THEN [x EXCEPT !.c = a, !.verdict = "missing"] ELSE Entered(x, d, name)
    BY <1>3 DEF NextDirEntry
  <2>2. Going(vol, m.c)
    BY <1>1, MapRight
  <2> HIDE DEF m
  <2>3. Unkept(vol, a) /\ Running(a)
    <3>1. IsCall(m.c) /\ m.c.vol = vol /\ DOMAIN m.c.buf = Ext2Buf /\ Running(m.c) /\ Ext2Maps(vol, m.c.buf)
      BY <2>2 DEF Going, Ext2Right
    <3>2. IsCall(a) /\ a.vol = vol /\ DOMAIN a.buf = Ext2Buf /\ Running(a)
      BY <3>1 DEF IsCall, Fields, Running
    <3>3. /\ a.buf.inode = m.c.buf.inode /\ a.buf.data1 = m.c.buf.data1 /\ a.buf.mapblock2 = -1
          /\ a.buf.mapblock1 = m.c.buf.mapblock1
      BY <3>1 DEF IsCall, Fields, Ext2Buf
    <3> HIDE DEF a
    <3>4. QED
      BY <3>1, <3>2, <3>3 DEF Unkept, Ends, Ext2Right, Ext2Maps
  <2> HIDE DEF a
  <2>4. Unkept(vol, d)
    BY <2>3, Reuse
  <2> HIDE DEF d
  <2>5. Listing(vol, [x EXCEPT !.c = a, !.verdict = "missing"])
    BY <1>1, <2>3, ListingStops DEF Going, Unkept
  <2>6. Listing(vol, Entered(x, d, name))
    <3> DEFINE e == d.buf.data2[(x.loc % BlockSize(d)) + 1]
               v == IF e.inode # 0 /\ e.name = name THEN "found" ELSE x.verdict
               r == [d EXCEPT !.done = FALSE]
    <3>1. Entered(x, d, name) =
            IF d.done THEN [x EXCEPT !.c = r, !.verdict = "missing"]
            ELSE [x EXCEPT !.c = d, !.loc = @ + e.rec_len, !.ino = e.inode, !.verdict = v]
      BY DEF Entered
    <3>2. Going(vol, r)
      BY <2>4, Resumed DEF Unkept
    <3> HIDE DEF r, e, v
    <3>3. Listing(vol, [x EXCEPT !.c = r, !.verdict = "missing"])
      BY <1>1, <3>2, ListingStops
    <3>4. CASE Stopped(d)
      BY <3>1, <3>3, <3>4 DEF Stopped
    <3>5. CASE Running(d)
      <4>1. Going(vol, d)
        BY <2>4, <3>5 DEF Unkept, Going
      <4>2. Entered(x, d, name) = [x EXCEPT !.c = d, !.loc = @ + e.rec_len, !.ino = e.inode, !.verdict = v]
        BY <3>1, <3>5 DEF Running
      <4>3. QED
        BY <1>1, <4>1, <4>2 DEF Listing, EntryFields
    <3>6. QED
      BY <2>4, <3>4, <3>5 DEF Unkept, Ends
  <2>7. QED
    BY <2>1, <2>5, <2>6
<1>4. QED
  BY <1>2, <1>3

\* Entry by entry, and inode by inode.
LEMMA ListingLoop ==
  ASSUME NEW vol, NEW name, NEW x0, Listing(vol, x0),
         \A x : Listing(vol, x) /\ ~(x.verdict # "more") => Listing(vol, NextDirEntry(x, name))
  PROVE  Listing(vol, NextDirEntries(x0, name))
<1> DEFINE Go(x) == IF x.verdict # "more" THEN x ELSE NextDirEntry(x, name)
           Fits(m, g) == g = [k \in 0..m |-> IF k = 0 THEN x0 ELSE Go(g[k - 1])]
           T == {m \in Nat : \E g : Fits(m, g)}
<1>1. \E g : Fits(LoopLimit, g)
  <2>1. 0 \in T
    <3>1. Fits(0, [k \in 0..0 |-> x0])
      OBVIOUS
    <3>2. QED
      BY <3>1
  <2>2. ASSUME NEW m \in T PROVE m + 1 \in T
    <3>1. PICK g : Fits(m, g)
      OBVIOUS
    <3> DEFINE h == [k \in 0..(m + 1) |-> IF k = m + 1 THEN Go(g[m]) ELSE g[k]]
    <3> HIDE DEF Go
    <3>2. Fits(m + 1, h)
      BY <3>1
    <3> HIDE DEF Fits, h
    <3>3. m + 1 \in Nat
      OBVIOUS
    <3>4. QED
      BY <3>2, <3>3
  <2> HIDE DEF Fits
  <2>3. LoopLimit \in T
    <3>1. LoopLimit \in Nat /\ LoopLimit \in 0..LoopLimit
      BY FileSystemsAssumption
    <3> HIDE DEF T
    <3>2. QED
      BY <2>1, <2>2, <3>1, Upward
  <2>4. QED
    BY <2>3
<1> DEFINE at == CHOOSE g : Fits(LoopLimit, g)
<1>2. Fits(LoopLimit, at)
  <2> HIDE DEF Fits
  <2>1. QED
    BY <1>1
<1>3. NextDirEntries(x0, name) = at[LoopLimit]
  BY DEF Repeat, NextDirEntries
<1> HIDE DEF at
<1>4. \A x : Listing(vol, x) => Listing(vol, Go(x))
  OBVIOUS
<1> HIDE DEF Go
<1>5. Listing(vol, at[LoopLimit])
  <2> DEFINE R == {m \in 0..LoopLimit : Listing(vol, at[m])}
  <2>0. LoopLimit \in Nat
    BY FileSystemsAssumption
  <2>1. at[0] = x0 /\ \A k \in 1..LoopLimit : at[k] = Go(at[k - 1])
    BY <1>2, <2>0
  <2>2. 0 \in R
    BY <2>0, <2>1
  <2>3. ASSUME NEW m \in R, m \in 0..(LoopLimit - 1) PROVE m + 1 \in R
    <3>1. at[m + 1] = Go(at[m]) /\ Listing(vol, at[m]) /\ m + 1 \in 0..LoopLimit
      BY <2>0, <2>1, <2>3
    <3>2. QED
      BY <1>4, <3>1
  <2> HIDE DEF R
  <2>4. 0..LoopLimit \subseteq R
    BY <2>0, <2>2, <2>3, Upward
  <2>5. QED
    BY <2>0, <2>4 DEF R
<1>6. QED
  BY <1>3, <1>5

\* A name is looked up in a directory.
LEMMA LookUpRight ==
  ASSUME NEW vol, NEW w, DOMAIN w = WalkFields, NEW c, Going(vol, c)
  PROVE  Walking(vol, LookUp(w, c))
<1> DEFINE x0 == [c |-> c, loc |-> 0, ino |-> 0, verdict |-> "more"]
           x == NextDirEntries(x0, Head(w.path))
<1>1. LookUp(w, c) =
        IF c.buf.inode.size = 0 \/ c.buf.inode.mode # "dir" THEN Stop(w, c, ERR_BAD_FILETYPE)
        ELSE IF x.verdict # "found" THEN Stop(w, x.c, x.c.errnum)
        ELSE [w EXCEPT !.c = x.c, !.ino = x.ino, !.updir = w.ino, !.path = Tail(@)]
  BY DEF LookUp
<1>2. Listing(vol, x0)
  BY DEF Listing, EntryFields
<1> HIDE DEF x0
<1>3. Listing(vol, x)
  BY <1>2, ListingLoop, NextDirEntryRight
<1> HIDE DEF x
<1>4. Walking(vol, Stop(w, c, ERR_BAD_FILETYPE)) /\ Walking(vol, Stop(w, x.c, x.c.errnum))
  BY <1>3, StopRight DEF Listing, Going
<1>5. Walking(vol, [w EXCEPT !.c = x.c, !.ino = x.ino, !.updir = w.ino, !.path = Tail(@)])
  BY <1>3 DEF Listing, Walking, WalkFields
<1>6. QED
  BY <1>1, <1>4, <1>5

\* One inode of the walk.
LEMMA NextInodeRight ==
  ASSUME NEW vol, NEW w, Walking(vol, w) PROVE Walking(vol, NextInode(w))
<1> DEFINE c == GetInode(w.c, w.ino)
           v == [w EXCEPT !.path = SelectSeq(@, LAMBDA n : n # Slash)]
           d == [c EXCEPT !.filemax = c.buf.inode.size, !.ret = 1]
           f == [w EXCEPT !.c = d, !.verdict = "found"]
<1>1. NextInode(w) =
        IF c.done THEN Stop(w, c, c.errnum)
        ELSE IF c.buf.inode.mode = "link" THEN Chase(w, c)
        ELSE IF w.path # <<>> THEN LookUp(v, c)
        ELSE IF c.buf.inode.mode # "file" THEN Stop(w, c, ERR_BAD_FILETYPE) ELSE f
  BY DEF NextInode, AtInode
<1>2. Ext2Right(vol, c) /\ Ends(c)
  BY GetInodeRight DEF Walking
<1> HIDE DEF c
<1>3. DOMAIN w = WalkFields /\ DOMAIN v = WalkFields
  BY DEF Walking
<1>4. Walking(vol, Stop(w, c, c.errnum)) /\ Walking(vol, Stop(w, c, ERR_BAD_FILETYPE))
  BY <1>2, <1>3, StopRight
<1>5. CASE Stopped(c)
  BY <1>1, <1>4, <1>5 DEF Stopped
<1>6. CASE Running(c)
  <2>1. Going(vol, c)
    BY <1>2, <1>6 DEF Going
  <2>2. IsCall(d) /\ d.vol = c.vol /\ d.buf = c.buf /\ Running(d)
    BY <2>1 DEF Going, Ext2Right, IsCall, Fields, Running
  <2> HIDE DEF d, v
  <2>3. Going(vol, d)
    BY <2>1, <2>2 DEF Going, Ext2Right
  <2>4. Walking(vol, f)
    BY <1>3, <2>3 DEF Walking, WalkFields
  <2>5. Walking(vol, Chase(w, c)) /\ Walking(vol, LookUp(v, c))
    BY <1>3, <2>1, ChaseRight, LookUpRight
  <2> HIDE DEF f
  <2>6. QED
    BY <1>1, <1>4, <2>4, <2>5
<1>7. QED
  BY <1>2, <1>5, <1>6 DEF Ends

\* The walk, inode by inode.
LEMMA WalkLoop ==
  ASSUME NEW vol, NEW x0, Walking(vol, x0),
         \A x : Walking(vol, x) /\ ~(x.verdict # "more") => Walking(vol, NextInode(x))
  PROVE  Walking(vol, Walked(x0))
<1> DEFINE Go(x) == IF x.verdict # "more" THEN x ELSE NextInode(x)
           Fits(m, g) == g = [k \in 0..m |-> IF k = 0 THEN x0 ELSE Go(g[k - 1])]
           T == {m \in Nat : \E g : Fits(m, g)}
<1>1. \E g : Fits(LoopLimit, g)
  <2>1. 0 \in T
    <3>1. Fits(0, [k \in 0..0 |-> x0])
      OBVIOUS
    <3>2. QED
      BY <3>1
  <2>2. ASSUME NEW m \in T PROVE m + 1 \in T
    <3>1. PICK g : Fits(m, g)
      OBVIOUS
    <3> DEFINE h == [k \in 0..(m + 1) |-> IF k = m + 1 THEN Go(g[m]) ELSE g[k]]
    <3> HIDE DEF Go
    <3>2. Fits(m + 1, h)
      BY <3>1
    <3> HIDE DEF Fits, h
    <3>3. m + 1 \in Nat
      OBVIOUS
    <3>4. QED
      BY <3>2, <3>3
  <2> HIDE DEF Fits
  <2>3. LoopLimit \in T
    <3>1. LoopLimit \in Nat /\ LoopLimit \in 0..LoopLimit
      BY FileSystemsAssumption
    <3> HIDE DEF T
    <3>2. QED
      BY <2>1, <2>2, <3>1, Upward
  <2>4. QED
    BY <2>3
<1> DEFINE at == CHOOSE g : Fits(LoopLimit, g)
<1>2. Fits(LoopLimit, at)
  <2> HIDE DEF Fits
  <2>1. QED
    BY <1>1
<1>3. Walked(x0) = at[LoopLimit]
  BY DEF Repeat, Walked
<1> HIDE DEF at
<1>4. \A x : Walking(vol, x) => Walking(vol, Go(x))
  OBVIOUS
<1> HIDE DEF Go
<1>5. Walking(vol, at[LoopLimit])
  <2> DEFINE R == {m \in 0..LoopLimit : Walking(vol, at[m])}
  <2>0. LoopLimit \in Nat
    BY FileSystemsAssumption
  <2>1. at[0] = x0 /\ \A k \in 1..LoopLimit : at[k] = Go(at[k - 1])
    BY <1>2, <2>0
  <2>2. 0 \in R
    BY <2>0, <2>1
  <2>3. ASSUME NEW m \in R, m \in 0..(LoopLimit - 1) PROVE m + 1 \in R
    <3>1. at[m + 1] = Go(at[m]) /\ Walking(vol, at[m]) /\ m + 1 \in 0..LoopLimit
      BY <2>0, <2>1, <2>3
    <3>2. QED
      BY <1>4, <3>1
  <2> HIDE DEF R
  <2>4. 0..LoopLimit \subseteq R
    BY <2>0, <2>2, <2>3, Upward
  <2>5. QED
    BY <2>0, <2>4 DEF R
<1>6. QED
  BY <1>3, <1>5

\* ext2fs_dir.
LEMMA Ext2DirRight ==
  ASSUME NEW vol, NEW c, NEW path, Ext2Right(vol, c)
  PROVE  Ext2Right(vol, Ext2Dir(c, path))
<1> DEFINE w == Walk([c EXCEPT !.done = FALSE], path)
<1>1. Ext2Dir(c, path) = Walked(w).c
  BY DEF Ext2Dir
<1>2. Walking(vol, w)
  BY Resumed DEF Walk, Walking, WalkFields
<1> HIDE DEF w
<1>3. Walking(vol, Walked(w))
  BY <1>2, WalkLoop, NextInodeRight
<1>4. QED
  BY <1>1, <1>3 DEF Walking, Going

\* ext2fs_mount keeps no block.
LEMMA Ext2MountRight ==
  ASSUME NEW vol, NEW c, IsCall(c), c.vol = vol, Ext2Mount(c).ret = 1, c.ret # 1
  PROVE  Ext2Right(vol, Ext2Mount(c))
<1> DEFINE r == Devread(c, SBLOCK, 0, 2 * SS)
           b == [inode |-> <<>>, data1 |-> <<>>, data2 |-> <<>>, mapblock1 |-> -1, mapblock2 |-> -1]
           d == [r EXCEPT !.ret = 1, !.buf = b]
           n == [r EXCEPT !.ret = 0]
<1>1. \/ Ext2Mount(c) = n
      \/ Ext2Mount(c) = d
  BY DEF Ext2Mount
<1>2. IsCall(r) /\ r.vol = vol
  BY DevreadKeeps
<1> HIDE DEF r
<1>3. n.ret # 1
  BY <1>2 DEF IsCall, Fields
<1>4. IsCall(d) /\ d.vol = vol /\ d.buf = b
  BY <1>2 DEF IsCall, Fields
<1> HIDE DEF d, n
<1>5. DOMAIN b = Ext2Buf /\ b.mapblock1 = -1 /\ b.mapblock2 = -1
  BY DEF Ext2Buf
<1> HIDE DEF b
<1>6. Ext2Right(vol, d)
  BY <1>4, <1>5 DEF Ext2Right, Ext2Maps
<1>7. QED
  BY <1>1, <1>3, <1>6

-----------------------------------------------------------------------------
(* Numbers *)

\* Quotient and remainder of numbers are numbers, and give the dividend.
LEMMA DivMod ==
  ASSUME NEW x \in Nat, NEW n \in Nat \ {0}
  PROVE  /\ x \div n \in Nat /\ x % n \in 0..(n - 1) /\ x % n \in Nat /\ x % n < n
         /\ x = n * (x \div n) + (x % n) /\ n * (x \div n) \in Nat
<1>1. x \div n \in Nat /\ x % n \in 0..(n - 1)
  BY SMT
<1>2. x = n * (x \div n) + (x % n)
  BY SMT
<1>3. QED
  BY <1>1, <1>2

\* They are the only ones.
LEMMA DivUnique ==
  ASSUME NEW n \in Nat \ {0}, NEW q \in Nat, NEW r \in 0..(n - 1)
  PROVE  (n * q + r) % n = r /\ (n * q + r) \div n = q /\ n * q + r \in Nat
<1>1. (n * q + r) % n = r
  BY SMT
<1>2. (n * q + r) \div n = q
  BY SMT
<1>3. QED
  BY <1>1, <1>2

\* The window has a positive number of digits.
LEMMA Digits == 2 * SS \in Nat \ {0} /\ 4 * SS = (2 * SS) + (2 * SS) /\ FAT_BUF_DIGITS = (4 * SS) + (4 * SS) /\ 2 * SS >= 4
BY FileSystemsAssumption DEF FAT_BUF_DIGITS

\* The lesser of two positive numbers is one, and no more than either.
LEMMA Lesser ==
  ASSUME NEW a \in Nat \ {0}, NEW b \in Nat \ {0}
  PROVE  Least(a, b) \in Nat \ {0} /\ Least(a, b) <= a /\ Least(a, b) <= b
BY DEF Least

-----------------------------------------------------------------------------
(* FAT: the window *)

\* What fat_read keeps of a file, and what is asked of a call for a volume whose
\* superblock is s.
FatBuf == {"sup", "cached_fat", "fat_buf", "file_cluster", "contig_size", "current_cluster_num",
           "current_cluster"}
FatCall(vol, s, c) ==
  /\ IsCall(c) /\ c.vol = vol /\ c.reads \in Nat /\ c.fault.at \in Nat
  /\ DOMAIN c.buf = FatBuf /\ c.buf.sup = s

\* A digit of the window is the disk's, wherever the window begins.
LEMMA DigitRight ==
  ASSUME NEW vol, NEW fat_offset \in Nat, NEW q \in Nat, NEW j \in Nat
  PROVE  FatDigit(vol, fat_offset + q, j) = FatDigit(vol, fat_offset, (2 * SS) * q + j)
<1> DEFINE n == 2 * SS
           d == j \div n
           r == j % n
<1>1. n \in Nat \ {0}
  BY Digits
<1> HIDE DEF n
<1>2. d \in Nat /\ r \in 0..(n - 1) /\ j = n * d + r
  BY <1>1, DivMod
<1> HIDE DEF d, r
<1>3. q + d \in Nat /\ n * (q + d) = n * q + n * d /\ n * q \in Nat /\ n * d \in Nat
  BY <1>1, <1>2
<1>4. n * q + j = n * (q + d) + r
  BY <1>2, <1>3
<1>5. (n * q + j) \div n = q + d /\ (n * q + j) % n = r
  BY <1>1, <1>2, <1>3, <1>4, DivUnique
<1>6. fat_offset + q + d = fat_offset + (q + d)
  BY <1>2
<1>7. (fat_offset + q) + (j \div n) = fat_offset + ((n * q + j) \div n) /\ j % n = (n * q + j) % n
  BY <1>5, <1>6 DEF d, r
<1> DEFINE at(sector) == sector \in DOMAIN vol.fat
<1>8. /\ FatDigit(vol, fat_offset + q, j) =
           IF (fat_offset + q) + (j \div n) \in DOMAIN vol.fat
           THEN vol.fat[(fat_offset + q) + (j \div n)][(j % n) + 1] ELSE 0
      /\ FatDigit(vol, fat_offset, n * q + j) =
           IF fat_offset + ((n * q + j) \div n) \in DOMAIN vol.fat
           THEN vol.fat[fat_offset + ((n * q + j) \div n)][((n * q + j) % n) + 1] ELSE 0
  BY DEF FatDigit, n
<1>9. FatDigit(vol, fat_offset + q, j) = FatDigit(vol, fat_offset, n * q + j)
  BY <1>7, <1>8
<1>10. QED
  BY <1>9 DEF n

\* An entry in the window is what the disk says.
LEMMA EntryRight ==
  ASSUME NEW vol, NEW b, NEW cluster \in Nat, SuperSound(b.sup), FatWindow(vol, b), Typed(b),
         ~Outside(b, cluster * b.sup.size)
  PROVE  EntryAt(b, cluster * b.sup.size) = NextOnDisk(vol, b.sup, cluster)
<1> DEFINE size == b.sup.size
           pos == cluster * size
           off == b.sup.fat_offset
<1>1. size \in 1..8 /\ pos \in Nat /\ off \in Nat
  BY DEF SuperSound
<1>2. PICK q \in Nat : b.cached_fat = (2 * SS) * q
  <2>1. b.cached_fat # -1
    BY DEF Outside
  <2>2. QED
    BY <2>1 DEF Typed
<1>3. b.fat_buf = FatDigits(vol, off + q)
  BY <1>2 DEF FatWindow
<1>4. (2 * SS) * q \in Nat /\ 2 * SS \in Nat
  BY Digits
<1> HIDE DEF pos
<1>5. (2 * SS) * q <= pos /\ pos + size <= (2 * SS) * q + FAT_BUF_DIGITS /\ FAT_BUF_DIGITS \in Nat
  <2>1. ~(pos < b.cached_fat) /\ ~(pos + size > b.cached_fat + FAT_BUF_DIGITS)
    BY DEF Outside, pos
  <2>2. FAT_BUF_DIGITS \in Nat
    BY Digits, FileSystemsAssumption
  <2> HIDE DEF size
  <2>3. QED
    BY <1>1, <1>2, <1>4, <2>1, <2>2
<1>6. ASSUME NEW k \in 1..size
      PROVE  b.fat_buf[(pos - b.cached_fat) + k] = FatDigit(vol, off, pos + (k - 1))
  <2> DEFINE w == (2 * SS) * q
             i == (pos - w) + k
  <2> HIDE DEF w, size
  <2>1. i \in 1..FAT_BUF_DIGITS /\ i - 1 \in Nat /\ w + (i - 1) = pos + (k - 1)
    BY <1>1, <1>4, <1>5 DEF w
  <2> HIDE DEF i
  <2>2. b.fat_buf[i] = FatDigit(vol, off + q, i - 1)
    BY <1>3, <2>1 DEF FatDigits
  <2>3. FatDigit(vol, off + q, i - 1) = FatDigit(vol, off, w + (i - 1))
    BY <1>1, <2>1, DigitRight DEF w
  <2>4. QED
    BY <1>2, <2>1, <2>2, <2>3 DEF i, w
<1>7. [k \in 1..size |-> b.fat_buf[(pos - b.cached_fat) + k]] =
      [k \in 1..size |-> FatDigit(vol, off, pos + (k - 1))]
  BY <1>6
<1>8. QED
  BY <1>7 DEF EntryAt, NextOnDisk, pos

\* Loading the window: it is the disk's, or the call stops; it stops only where a
\* read fails, or ends outside the partition.
LEMMA LoadRight ==
  ASSUME NEW vol, NEW s, NEW c, NEW pos, FatCall(vol, s, c), Running(c)
  PROVE  LET d == LoadFat(c, pos)
             window == pos - (pos % (2 * SS))
             sector == s.fat_offset + window \div (2 * SS)
         IN /\ FatCall(vol, s, d) /\ d.filepos = c.filepos /\ d.out = c.out
            /\ d.filemax = c.filemax
            /\ d.buf.cached_fat = window
            /\ d.buf.file_cluster = c.buf.file_cluster /\ d.buf.contig_size = c.buf.contig_size
            /\ d.buf.current_cluster_num = c.buf.current_cluster_num
            /\ d.buf.current_cluster = c.buf.current_cluster
            /\ \/ Running(d) /\ FatWindow(vol, d.buf)
               \/ /\ Stopped(d) /\ d.ret = 0
                  /\ \/ Hit(d)
                     \/ sector < 0
                     \/ sector + ((4 * SS - 1) \div SS) >= vol.length
<1> DEFINE window == pos - (pos % (2 * SS))
           sector == s.fat_offset + window \div (2 * SS)
           a == [c EXCEPT !.buf.cached_fat = window]
           r == Devread(a, sector, 0, 4 * SS)
           good == [r EXCEPT !.buf.fat_buf = FatDigits(c.vol, sector)]
           bad == [r EXCEPT !.ret = 0, !.done = TRUE]
           d == LoadFat(c, pos)
<1>1. /\ IsCall(c) /\ c.vol = vol /\ c.reads \in Nat /\ c.fault.at \in Nat
      /\ DOMAIN c.buf = FatBuf /\ c.buf.sup = s
  BY DEF FatCall
<1>2. d = IF r.errnum = ERR_NONE THEN good ELSE bad
  BY <1>1 DEF LoadFat
<1> HIDE DEF window
<1>3. /\ IsCall(a) /\ a.vol = vol /\ a.reads = c.reads /\ a.fault = c.fault /\ DOMAIN a.buf = FatBuf
      /\ a.filepos = c.filepos /\ a.out = c.out /\ a.filemax = c.filemax /\ Running(a)
  BY <1>1 DEF IsCall, Fields, Running
<1>4. /\ a.buf.sup = s /\ a.buf.cached_fat = window /\ a.buf.file_cluster = c.buf.file_cluster
      /\ a.buf.contig_size = c.buf.contig_size
      /\ a.buf.current_cluster_num = c.buf.current_cluster_num
      /\ a.buf.current_cluster = c.buf.current_cluster
  BY <1>1 DEF IsCall, Fields, FatBuf
<1> HIDE DEF a, sector
<1>5. /\ IsCall(r) /\ r.vol = vol /\ r.reads = c.reads + 1 /\ r.fault = c.fault /\ r.buf = a.buf
      /\ r.filepos = c.filepos /\ r.out = c.out /\ r.filemax = c.filemax /\ Running(r)
  BY <1>3, DevreadKeeps
<1>6. r.errnum = ERR_NONE \/ sector < 0 \/ sector + ((4 * SS - 1) \div SS) >= vol.length \/ Struck(a)
  <2>1. 0 + 4 * SS - 1 = 4 * SS - 1
    BY FileSystemsAssumption
  <2>2. QED
    BY <1>3, <2>1 DEF Devread, IsCall, Fields
<1> HIDE DEF r
<1> DEFINE Kept(e) == /\ FatCall(vol, s, e) /\ e.filepos = c.filepos /\ e.out = c.out
                      /\ e.filemax = c.filemax
                      /\ e.buf.cached_fat = window
                      /\ e.buf.file_cluster = c.buf.file_cluster
                      /\ e.buf.contig_size = c.buf.contig_size
                      /\ e.buf.current_cluster_num = c.buf.current_cluster_num
                      /\ e.buf.current_cluster = c.buf.current_cluster
<1>7. Kept(good) /\ Running(good) /\ FatWindow(vol, good.buf)
  <2>1. /\ IsCall(good) /\ good.vol = vol /\ good.reads \in Nat /\ good.fault.at \in Nat
        /\ DOMAIN good.buf = FatBuf /\ good.filepos = c.filepos /\ good.out = c.out
        /\ good.filemax = c.filemax /\ Running(good)
    BY <1>1, <1>3, <1>5 DEF IsCall, Fields, Running
  <2>2. /\ good.buf.sup = s /\ good.buf.cached_fat = window
        /\ good.buf.file_cluster = c.buf.file_cluster /\ good.buf.contig_size = c.buf.contig_size
        /\ good.buf.current_cluster_num = c.buf.current_cluster_num
        /\ good.buf.current_cluster = c.buf.current_cluster
        /\ good.buf.fat_buf = FatDigits(vol, sector)
    BY <1>1, <1>3, <1>4, <1>5 DEF IsCall, Fields, FatBuf
  <2> HIDE DEF good
  <2>3. ASSUME NEW q \in Nat, window = (2 * SS) * q PROVE sector = s.fat_offset + q
    <3>1. (2 * SS) * q + 0 = (2 * SS) * q /\ 0 \in 0..(2 * SS - 1)
      BY Digits
    <3>2. ((2 * SS) * q) \div (2 * SS) = q
      BY <3>1, Digits, DivUnique
    <3>3. QED
      BY <2>3, <3>2 DEF sector
  <2>4. QED
    BY <2>1, <2>2, <2>3 DEF FatCall, FatWindow
<1>8. Kept(bad) /\ Stopped(bad) /\ bad.ret = 0 /\ (Struck(a) => Hit(bad))
  <2>1. /\ IsCall(bad) /\ bad.vol = vol /\ bad.reads = c.reads + 1 /\ bad.fault = c.fault
        /\ bad.buf = a.buf /\ bad.filepos = c.filepos /\ bad.out = c.out
        /\ bad.filemax = c.filemax /\ Stopped(bad) /\ bad.ret = 0
    BY <1>1, <1>5 DEF IsCall, Fields, Stopped
  <2> HIDE DEF bad
  <2>2. Struck(a) => Hit(bad)
    BY <1>1, <1>3, <2>1 DEF Struck, Hit
  <2>3. QED
    BY <1>1, <1>3, <1>4, <2>1, <2>2 DEF FatCall
<1> HIDE DEF good, bad, d
<1>9. /\ Kept(d)
      /\ \/ Running(d) /\ FatWindow(vol, d.buf)
         \/ /\ Stopped(d) /\ d.ret = 0
            /\ \/ Hit(d)
               \/ sector < 0
               \/ sector + ((4 * SS - 1) \div SS) >= vol.length
  <2>1. CASE r.errnum = ERR_NONE
    BY <1>2, <1>7, <2>1
  <2>2. CASE r.errnum # ERR_NONE
    BY <1>2, <1>6, <1>8, <2>2
  <2>3. QED
    BY <2>1, <2>2
<1>10. QED
  BY <1>9 DEF d, window, sector

-----------------------------------------------------------------------------
(* FAT: reads *)

\* k is what a call is about: the volume, its superblock, and the file, if it is
\* one that the theorem speaks of, with its chain, or else a directory.
Fixed(k, c) ==
  /\ FatCall(k.vol, k.s, c) /\ c.filemax = k.max
  /\ c.buf.file_cluster = k.first /\ c.buf.contig_size = k.contig
OfFile(k) == k.file = TRUE
Valid(k, c) ==
  /\ Fixed(k, c) /\ FatWindow(k.vol, c.buf)
  /\ OfFile(k) => Typed(c.buf) /\ OnChain(c.buf, k.chain)
Lost(k, c) == Fixed(k, c) /\ c.ret = 0 /\ (OfFile(k) => Hit(c))
InOrder(k, c) == (Valid(k, c) /\ Ends(c)) \/ (Lost(k, c) /\ Stopped(c))

Chained(k) ==
  /\ SuperSound(k.s)
  /\ OfFile(k) => /\ k.first = k.chain[1] /\ Len(k.chain) \in Nat \ {0}
                  /\ ChainOnDisk(k.vol, k.s, k.chain)

\* A call whose buffer, bounds and volume are those of another.
LEMMA FixedSame ==
  ASSUME NEW k, NEW c, NEW d, Fixed(k, c), IsCall(d), d.vol = c.vol, d.buf = c.buf,
         d.filemax = c.filemax, d.fault = c.fault, d.reads \in Nat
  PROVE  Fixed(k, d) /\ (Valid(k, c) => Valid(k, d))
<1>1. Fixed(k, d)
  BY DEF Fixed, FatCall
<1>2. QED
  BY <1>1 DEF Valid

\* Such a call is as valid.
LEMMA ValidSame ==
  ASSUME NEW k, NEW c, NEW d, Valid(k, c), IsCall(d), d.vol = c.vol, d.buf = c.buf,
         d.filemax = c.filemax, d.fault = c.fault, d.reads \in Nat
  PROVE  Valid(k, d)
BY FixedSame DEF Valid

\* One link is followed.
LEMMA FollowChain ==
  ASSUME NEW k, NEW c, NEW next, Valid(k, c), Running(c),
         OfFile(k) =>
           /\ Len(k.chain) \in Nat
           /\ c.buf.current_cluster_num \in Nat /\ c.buf.current_cluster_num < Len(k.chain)
           /\ IF c.buf.current_cluster_num + 1 < Len(k.chain)
              THEN next = k.chain[c.buf.current_cluster_num + 2] ELSE ~IsLink(k.s, next)
  PROVE  LET d == Follow(c, next) IN Valid(k, d) /\ Ends(d) /\ d.filepos = c.filepos
<1> DEFINE eof == [c EXCEPT !.ret = Len(c.out), !.done = TRUE]
           bad == [Fail(c, ERR_FSYS_CORRUPT) EXCEPT !.done = TRUE]
           on == [c EXCEPT !.buf.current_cluster = next, !.buf.current_cluster_num = @ + 1]
           d == Follow(c, next)
           num == c.buf.current_cluster_num
<1>1. /\ IsCall(c) /\ c.vol = k.vol /\ c.reads \in Nat /\ c.fault.at \in Nat /\ DOMAIN c.buf = FatBuf
      /\ c.buf.sup = k.s /\ c.filemax = k.max
      /\ c.buf.file_cluster = k.first /\ c.buf.contig_size = k.contig
      /\ FatWindow(k.vol, c.buf) /\ Fixed(k, c)
  BY DEF Valid, Fixed, FatCall
<1>2. d = IF next >= c.buf.sup.eof THEN eof
          ELSE IF next < 2 \/ next >= c.buf.sup.num_clust THEN bad ELSE on
  BY DEF Follow, Running
<1>3. Valid(k, eof) /\ Ends(eof) /\ eof.filepos = c.filepos
  <2>1. /\ IsCall(eof) /\ eof.vol = c.vol /\ eof.buf = c.buf /\ eof.filemax = c.filemax
        /\ eof.fault = c.fault /\ eof.reads \in Nat /\ eof.filepos = c.filepos /\ Stopped(eof)
    BY <1>1 DEF IsCall, Fields, Stopped
  <2> HIDE DEF eof
  <2>2. QED
    BY <2>1, ValidSame DEF Ends
<1>4. Valid(k, bad) /\ Ends(bad) /\ bad.filepos = c.filepos
  <2>1. /\ IsCall(bad) /\ bad.vol = c.vol /\ bad.buf = c.buf /\ bad.filemax = c.filemax
        /\ bad.fault = c.fault /\ bad.reads \in Nat /\ bad.filepos = c.filepos /\ Stopped(bad)
    BY <1>1 DEF IsCall, Fields, Stopped, Fail
  <2> HIDE DEF bad
  <2>2. QED
    BY <2>1, ValidSame DEF Ends
<1>5. ASSUME OfFile(k) => IsLink(k.s, next)
      PROVE  Valid(k, on) /\ Ends(on) /\ on.filepos = c.filepos
  <2>1. /\ IsCall(on) /\ on.vol = k.vol /\ on.filemax = k.max /\ DOMAIN on.buf = FatBuf
        /\ on.fault = c.fault /\ on.reads \in Nat /\ on.filepos = c.filepos /\ Running(on)
    BY <1>1 DEF IsCall, Fields, Running
  <2>2. /\ on.buf.sup = k.s /\ on.buf.file_cluster = k.first /\ on.buf.contig_size = k.contig
        /\ on.buf.cached_fat = c.buf.cached_fat /\ on.buf.fat_buf = c.buf.fat_buf
        /\ on.buf.current_cluster = next /\ on.buf.current_cluster_num = num + 1
    BY <1>1 DEF IsCall, Fields, FatBuf
  <2> HIDE DEF on
  <2>3. Fixed(k, on)
    BY <1>1, <2>1, <2>2 DEF Fixed, FatCall
  <2>4. FatWindow(k.vol, on.buf)
    BY <1>1, <2>2 DEF FatWindow
  <2>5. ASSUME OfFile(k) PROVE Typed(on.buf) /\ OnChain(on.buf, k.chain)
    <3>1. Typed(on.buf)
      BY <2>2, <2>5 DEF Valid, Typed
    <3>2. num \in Nat /\ num + 1 < Len(k.chain) /\ next = k.chain[num + 2] /\ Len(k.chain) \in Nat
      BY <1>5, <2>5
    <3> HIDE DEF num
    <3>3. num + 1 \in Nat /\ (num + 1) + 1 = num + 2
      BY <3>2
    <3>4. QED
      BY <2>2, <3>1, <3>2, <3>3 DEF OnChain
  <2>6. QED
    BY <2>1, <2>3, <2>4, <2>5 DEF Valid, Ends
<1>6. IsLink(k.s, next) <=>
        ~(next >= c.buf.sup.eof) /\ ~(next < 2 \/ next >= c.buf.sup.num_clust)
  BY <1>1 DEF IsLink
<1> HIDE DEF d, eof, bad, on
<1>7. Valid(k, d) /\ Ends(d) /\ d.filepos = c.filepos
  <2>1. CASE IsLink(k.s, next)
    BY <1>2, <1>5, <1>6, <2>1
  <2>2. CASE ~IsLink(k.s, next)
    BY <1>2, <1>3, <1>4, <1>6, <2>2
  <2>3. QED
    BY <2>1, <2>2
<1>8. QED
  BY <1>7 DEF d

\* An entry is in the window that is loaded for it.
LEMMA WindowFits ==
  ASSUME NEW pos \in Nat, NEW s, SuperSound(s), NEW b, b.sup = s,
         b.cached_fat = pos - (pos % (2 * SS))
  PROVE  /\ ~Outside(b, pos) /\ Typed(b)
         /\ (pos - (pos % (2 * SS))) \div (2 * SS) = pos \div (2 * SS)
<1> DEFINE n == 2 * SS
           q == pos \div n
           r == pos % n
<1>1. n \in Nat \ {0} /\ n >= 4 /\ FAT_BUF_DIGITS = n + n + n + n
  BY Digits, FileSystemsAssumption
<1> HIDE DEF n
<1>2. q \in Nat /\ r \in 0..(n - 1) /\ pos = n * q + r /\ n * q \in Nat
  BY <1>1, DivMod
<1>3. b.cached_fat = pos - r
  BY DEF n
<1> HIDE DEF q, r
<1>4. b.cached_fat = n * q
  BY <1>1, <1>2, <1>3
<1>5. s.size \in 1..8
  BY DEF SuperSound
<1>6. ~Outside(b, pos)
  <2> DEFINE w == n * q
             z == s.size
  <2>1. w \in Nat /\ pos = w + r /\ b.cached_fat = w /\ z \in 1..8 /\ b.sup.size = z
    BY <1>2, <1>4, <1>5
  <2> HIDE DEF w, z
  <2>2. ~(w < 0) /\ ~(pos < w) /\ ~(pos + z > w + FAT_BUF_DIGITS)
    BY <1>1, <1>2, <2>1
  <2>3. QED
    BY <2>1, <2>2 DEF Outside
<1>7. Typed(b)
  BY <1>2, <1>4 DEF Typed, n
<1>8. (pos - r) \div n = q
  <2>1. n * q + 0 = n * q /\ 0 \in 0..(n - 1)
    BY <1>1, <1>2
  <2>2. (n * q) \div n = q
    BY <1>1, <1>2, <2>1, DivUnique
  <2>3. QED
    BY <1>3, <1>4, <2>2
<1>9. QED
  BY <1>6, <1>7, <1>8 DEF n, q, r

\* One turn along the chain.
LEMMA LinkRight ==
  ASSUME NEW k, NEW c, Chained(k), Valid(k, c), Running(c),
         OfFile(k) => c.buf.current_cluster_num # MAXINT
  PROVE  InOrder(k, Link(c)) /\ Link(c).filepos = c.filepos
<1> DEFINE b == c.buf
           cluster == b.current_cluster
           num == b.current_cluster_num
           pos == cluster * b.sup.size
           load == LoadFat(c, pos)
           d == IF Outside(b, pos) THEN load ELSE c
           next == EntryAt(d.buf, pos)
           window == pos - (pos % (2 * SS))
           sector == k.s.fat_offset + window \div (2 * SS)
<1>1. Link(c) = Follow(d, next)
  BY DEF Link
<1>2. FatCall(k.vol, k.s, c) /\ Fixed(k, c) /\ FatWindow(k.vol, b) /\ b.sup = k.s
  BY DEF Valid, Fixed, FatCall
<1>3. OfFile(k) =>
        /\ num \in Nat /\ num + 1 \in 1..Len(k.chain) /\ cluster = k.chain[num + 1]
        /\ cluster \in Nat /\ InPartition(k.vol, k.s, cluster) /\ pos \in Nat
        /\ Len(k.chain) \in Nat
        /\ IF num + 1 < Len(k.chain) THEN NextOnDisk(k.vol, k.s, cluster) = k.chain[num + 2]
           ELSE ~IsLink(k.s, NextOnDisk(k.vol, k.s, cluster))
  <2> SUFFICES ASSUME OfFile(k)
               PROVE  /\ num \in Nat /\ num + 1 \in 1..Len(k.chain) /\ cluster = k.chain[num + 1]
                      /\ cluster \in Nat /\ InPartition(k.vol, k.s, cluster) /\ pos \in Nat
                      /\ Len(k.chain) \in Nat
                      /\ IF num + 1 < Len(k.chain)
                         THEN NextOnDisk(k.vol, k.s, cluster) = k.chain[num + 2]
                         ELSE ~IsLink(k.s, NextOnDisk(k.vol, k.s, cluster))
    OBVIOUS
  <2>1. OnChain(b, k.chain) /\ Len(k.chain) \in Nat \ {0} /\ ChainOnDisk(k.vol, k.s, k.chain)
        /\ SuperSound(k.s)
    BY DEF Valid, Chained
  <2>2. num \in Nat /\ num < Len(k.chain) /\ cluster = k.chain[num + 1]
    BY <2>1 DEF OnChain
  <2> HIDE DEF num, cluster
  <2>3. num + 1 \in 1..Len(k.chain) /\ (num + 1) + 1 = num + 2
    BY <2>1, <2>2
  <2>4. /\ cluster \in Nat /\ InPartition(k.vol, k.s, cluster)
        /\ IF num + 1 < Len(k.chain) THEN NextOnDisk(k.vol, k.s, cluster) = k.chain[(num + 1) + 1]
           ELSE ~IsLink(k.s, NextOnDisk(k.vol, k.s, cluster))
    BY <2>1, <2>2, <2>3 DEF ChainOnDisk
  <2>5. k.s.size \in Nat
    BY <2>1 DEF SuperSound
  <2>6. pos \in Nat
    BY <1>2, <2>4, <2>5
  <2>7. QED
    BY <2>1, <2>2, <2>3, <2>4, <2>6
<1>4. /\ FatCall(k.vol, k.s, load) /\ load.filepos = c.filepos /\ load.filemax = c.filemax
      /\ load.buf.cached_fat = window
      /\ load.buf.file_cluster = c.buf.file_cluster /\ load.buf.contig_size = c.buf.contig_size
      /\ load.buf.current_cluster_num = num /\ load.buf.current_cluster = cluster
      /\ \/ Running(load) /\ FatWindow(k.vol, load.buf)
         \/ /\ Stopped(load) /\ load.ret = 0
            /\ Hit(load) \/ sector < 0 \/ sector + ((4 * SS - 1) \div SS) >= k.vol.length
  <2> HIDE DEF pos
  <2>1. Running(c)
    OBVIOUS
  <2>2. LET e == LoadFat(c, pos)
            w == pos - (pos % (2 * SS))
            at == k.s.fat_offset + w \div (2 * SS)
        IN /\ FatCall(k.vol, k.s, e) /\ e.filepos = c.filepos /\ e.out = c.out
           /\ e.filemax = c.filemax
           /\ e.buf.cached_fat = w
           /\ e.buf.file_cluster = c.buf.file_cluster /\ e.buf.contig_size = c.buf.contig_size
           /\ e.buf.current_cluster_num = c.buf.current_cluster_num
           /\ e.buf.current_cluster = c.buf.current_cluster
           /\ \/ Running(e) /\ FatWindow(k.vol, e.buf)
              \/ /\ Stopped(e) /\ e.ret = 0
                 /\ \/ Hit(e)
                    \/ at < 0
                    \/ at + ((4 * SS - 1) \div SS) >= k.vol.length
    BY <1>2, <2>1, LoadRight, Zenon
  <2>3. QED
    BY <2>2
<1>5. Fixed(k, load)
  BY <1>2, <1>4 DEF Fixed
<1>6. OfFile(k) => /\ load.buf.sup = k.s /\ ~Outside(load.buf, pos) /\ Typed(load.buf)
                   /\ OnChain(load.buf, k.chain)
                   /\ window \div (2 * SS) = (cluster * k.s.size) \div (2 * SS)
  <2> SUFFICES ASSUME OfFile(k)
               PROVE  /\ load.buf.sup = k.s /\ ~Outside(load.buf, pos) /\ Typed(load.buf)
                      /\ OnChain(load.buf, k.chain)
                      /\ window \div (2 * SS) = (cluster * k.s.size) \div (2 * SS)
    OBVIOUS
  <2>1. load.buf.sup = k.s /\ SuperSound(k.s)
    BY <1>4 DEF FatCall, Chained
  <2>2. pos = cluster * k.s.size
    BY <1>2
  <2>3. OnChain(load.buf, k.chain)
    BY <1>4 DEF Valid, OnChain
  <2> HIDE DEF load
  <2>4. ~Outside(load.buf, pos) /\ Typed(load.buf) /\ window \div (2 * SS) = pos \div (2 * SS)
    <3>1. pos \in Nat
      BY <1>3
    <3> HIDE DEF pos
    <3>2. QED
      BY <1>4, <2>1, <3>1, WindowFits
  <2>5. QED
    BY <2>1, <2>2, <2>3, <2>4
<1> HIDE DEF load
<1>7. CASE Outside(b, pos) /\ ~Running(load)
  <2>1. d = load
    BY <1>7
  <2>2. Follow(d, next) = load
    BY <1>4, <1>7, <2>1 DEF Follow, Stopped
  <2>3. OfFile(k) => Hit(load)
    <3> SUFFICES ASSUME OfFile(k) PROVE Hit(load)
      OBVIOUS
    <3>1. sector = k.s.fat_offset + (cluster * k.s.size) \div (2 * SS)
      BY <1>6
    <3>2. sector >= 0 /\ ~(sector + ((4 * SS - 1) \div SS) >= k.vol.length)
      BY <1>3, <3>1 DEF InPartition
    <3>3. k.s.fat_offset \in Nat /\ window \div (2 * SS) \in Nat
      <4>1. (cluster * k.s.size) \div (2 * SS) \in Nat
        BY <1>2, <1>3, Digits, DivMod
      <4>2. QED
        BY <1>6, <4>1 DEF Chained, SuperSound
    <3>4. ~(sector < 0)
      <4> HIDE DEF window
      <4>1. QED
        BY <3>3
    <3> HIDE DEF sector
    <3>5. QED
      BY <1>4, <1>7, <3>2, <3>4
  <2>4. QED
    BY <1>1, <1>4, <1>5, <1>7, <2>2, <2>3 DEF InOrder, Lost
<1>8. CASE ~(Outside(b, pos) /\ ~Running(load))
  <2>1. Valid(k, d) /\ Running(d) /\ d.filepos = c.filepos
    <3>1. CASE Outside(b, pos)
      BY <1>4, <1>5, <1>6, <1>8, <3>1 DEF Valid, Running, Stopped
    <3>2. CASE ~Outside(b, pos)
      BY <3>2
    <3>3. QED
      BY <3>1, <3>2
  <2>2. OfFile(k) => ~Outside(d.buf, pos) /\ d.buf.sup = k.s
                     /\ d.buf.current_cluster_num = num /\ d.buf.current_cluster = cluster
    BY <1>2, <1>4, <1>6
  <2>3. OfFile(k) => next = NextOnDisk(k.vol, k.s, cluster)
    <3> SUFFICES ASSUME OfFile(k) PROVE next = NextOnDisk(k.vol, k.s, cluster)
      OBVIOUS
    <3>1. pos = cluster * d.buf.sup.size /\ cluster \in Nat /\ SuperSound(d.buf.sup)
      BY <1>2, <1>3, <2>2 DEF Chained
    <3>2. FatWindow(k.vol, d.buf) /\ Typed(d.buf) /\ d.buf.sup = k.s /\ ~Outside(d.buf, pos)
      BY <2>1, <2>2 DEF Valid
    <3> HIDE DEF d, cluster, pos
    <3>3. EntryAt(d.buf, cluster * d.buf.sup.size) = NextOnDisk(k.vol, d.buf.sup, cluster)
      BY <3>1, <3>2, EntryRight
    <3>4. QED
      BY <3>1, <3>2, <3>3
  <2> HIDE DEF d, next, cluster, num
  <2>4. OfFile(k) =>
          /\ Len(k.chain) \in Nat
          /\ d.buf.current_cluster_num \in Nat /\ d.buf.current_cluster_num < Len(k.chain)
          /\ IF d.buf.current_cluster_num + 1 < Len(k.chain)
             THEN next = k.chain[d.buf.current_cluster_num + 2] ELSE ~IsLink(k.s, next)
    BY <1>3, <2>2, <2>3
  <2>5. Valid(k, Follow(d, next)) /\ Ends(Follow(d, next)) /\ Follow(d, next).filepos = d.filepos
    BY <2>1, <2>4, FollowChain
  <2>6. QED
    BY <1>1, <2>1, <2>5 DEF InOrder
<1>9. QED
  BY <1>7, <1>8

\* The invariants of the loops of fat_read.
OnTheWay(k, pos, c) == InOrder(k, c) /\ c.filepos = pos
PartRead(k, end, c) == InOrder(k, c) /\ c.filepos \in Nat /\ c.filepos <= end

\* Along the chain.
LEMMA AlongLoop ==
  ASSUME NEW k, NEW fp, NEW logical \in Nat, NEW x0, OnTheWay(k, fp, x0),
         \A x : OnTheWay(k, fp, x) /\ ~(x.done \/ x.buf.current_cluster_num >= logical) => OnTheWay(k, fp, Link(x))
  PROVE  OnTheWay(k, fp, Along(x0, logical))
<1> DEFINE Go(x) == IF x.done \/ x.buf.current_cluster_num >= logical THEN x ELSE Link(x)
           Fits(m, g) == g = [i \in 0..m |-> IF i = 0 THEN x0 ELSE Go(g[i - 1])]
           T == {m \in Nat : \E g : Fits(m, g)}
<1>1. \E g : Fits(logical, g)
  <2>1. 0 \in T
    <3>1. Fits(0, [i \in 0..0 |-> x0])
      OBVIOUS
    <3>2. QED
      BY <3>1
  <2>2. ASSUME NEW m \in T PROVE m + 1 \in T
    <3>1. PICK g : Fits(m, g)
      OBVIOUS
    <3> DEFINE h == [i \in 0..(m + 1) |-> IF i = m + 1 THEN Go(g[m]) ELSE g[i]]
    <3> HIDE DEF Go
    <3>2. Fits(m + 1, h)
      BY <3>1
    <3> HIDE DEF Fits, h
    <3>3. m + 1 \in Nat
      OBVIOUS
    <3>4. QED
      BY <3>2, <3>3
  <2> HIDE DEF Fits
  <2>3. logical \in T
    <3>1. logical \in Nat /\ logical \in 0..logical
      BY FileSystemsAssumption
    <3> HIDE DEF T
    <3>2. QED
      BY <2>1, <2>2, <3>1, Upward
  <2>4. QED
    BY <2>3
<1> DEFINE at == CHOOSE g : Fits(logical, g)
<1>2. Fits(logical, at)
  <2> HIDE DEF Fits
  <2>1. QED
    BY <1>1
<1>3. Along(x0, logical) = at[logical]
  BY DEF Repeat, Along
<1> HIDE DEF at
<1>4. \A x : OnTheWay(k, fp, x) => OnTheWay(k, fp, Go(x))
  OBVIOUS
<1> HIDE DEF Go
<1>5. OnTheWay(k, fp, at[logical])
  <2> DEFINE R == {m \in 0..logical : OnTheWay(k, fp, at[m])}
  <2>0. logical \in Nat
    BY FileSystemsAssumption
  <2>1. at[0] = x0 /\ \A i \in 1..logical : at[i] = Go(at[i - 1])
    BY <1>2, <2>0
  <2>2. 0 \in R
    BY <2>0, <2>1
  <2>3. ASSUME NEW m \in R, m \in 0..(logical - 1) PROVE m + 1 \in R
    <3>1. at[m + 1] = Go(at[m]) /\ OnTheWay(k, fp, at[m]) /\ m + 1 \in 0..logical
      BY <2>0, <2>1, <2>3
    <3>2. QED
      BY <1>4, <3>1
  <2> HIDE DEF R
  <2>4. 0..logical \subseteq R
    BY <2>0, <2>2, <2>3, Upward
  <2>5. QED
    BY <2>0, <2>4 DEF R
<1>6. QED
  BY <1>3, <1>5

\* Along the chain, the first loop of fat_read.
LEMMA AlongRight ==
  ASSUME NEW k, NEW c, NEW logical \in Nat, Chained(k), Valid(k, c), Running(c),
         OfFile(k) => logical <= MAXINT
  PROVE  InOrder(k, Along(c, logical)) /\ Along(c, logical).filepos = c.filepos
<1>1. OnTheWay(k, c.filepos, c)
  BY DEF InOrder, Ends, OnTheWay
<1>2. ASSUME NEW x, OnTheWay(k, c.filepos, x), ~(x.done \/ x.buf.current_cluster_num >= logical)
      PROVE  OnTheWay(k, c.filepos, Link(x))
  <2>1. Valid(k, x) /\ Running(x)
    BY <1>2 DEF InOrder, Ends, Stopped, OnTheWay
  <2>2. MAXINT \in Nat
    BY FileSystemsAssumption
  <2>3. OfFile(k) => x.buf.current_cluster_num # MAXINT
    BY <1>2, <2>2
  <2>4. InOrder(k, Link(x)) /\ Link(x).filepos = x.filepos
    BY <2>1, <2>3, LinkRight
  <2>5. QED
    BY <1>2, <2>4 DEF OnTheWay
<1>3. OnTheWay(k, c.filepos, Along(c, logical))
  BY <1>1, <1>2, AlongLoop
<1>4. QED
  BY <1>3 DEF OnTheWay

\* A piece that is read moves the file pointer, and the buffer not at all.
LEMMA PieceKeeps ==
  ASSUME NEW c, IsCall(c), NEW sector, NEW offset, NEW size
  PROVE  LET d == ReadPiece(c, sector, offset, size)
         IN /\ IsCall(d) /\ d.vol = c.vol /\ d.fault = c.fault /\ d.buf = c.buf
            /\ d.filepos = c.filepos + size /\ d.filemax = c.filemax
            /\ d.reads = c.reads + 1
            /\ Running(c) => Running(d)
<1> DEFINE r == Devread(c, sector, offset, size)
           more == IF r.errnum = ERR_NONE THEN Cells(r.vol, sector, offset, size) ELSE Unknown(size)
           d == [r EXCEPT !.out = @ \o more, !.filepos = @ + size]
<1>1. ReadPiece(c, sector, offset, size) = d
  BY DEF ReadPiece
<1>2. /\ IsCall(r) /\ r.vol = c.vol /\ r.fault = c.fault /\ r.buf = c.buf
      /\ r.filepos = c.filepos /\ r.filemax = c.filemax
      /\ r.out = c.out /\ (Running(c) => Running(r))
  BY DevreadKeeps
<1>3. r.reads = c.reads + 1 /\ IsCall(r)
  BY DevreadKeeps
<1> HIDE DEF r, more
<1>4. /\ IsCall(d) /\ d.vol = c.vol /\ d.fault = c.fault /\ d.buf = c.buf
      /\ d.filepos = c.filepos + size /\ d.filemax = c.filemax
      /\ d.reads = c.reads + 1
      /\ Running(c) => Running(d)
  BY <1>2, <1>3 DEF IsCall, Fields, Running
<1>5. QED
  BY <1>1, <1>4

\* So what is kept stays as right.
LEMMA PieceValid ==
  ASSUME NEW k, NEW c, Valid(k, c), NEW sector, NEW offset, NEW size
  PROVE  LET d == ReadPiece(c, sector, offset, size)
         IN Valid(k, d) /\ d.filepos = c.filepos + size /\ (Running(c) => Running(d))
<1> DEFINE d == ReadPiece(c, sector, offset, size)
<1>1. IsCall(c) /\ c.reads \in Nat
  BY DEF Valid, Fixed, FatCall
<1>2. /\ IsCall(d) /\ d.vol = c.vol /\ d.fault = c.fault /\ d.buf = c.buf
      /\ d.filepos = c.filepos + size /\ d.filemax = c.filemax
      /\ d.reads = c.reads + 1
      /\ Running(c) => Running(d)
  BY <1>1, PieceKeeps
<1> HIDE DEF d
<1>3. Valid(k, d)
  BY <1>1, <1>2, ValidSame
<1>4. QED
  BY <1>2, <1>3 DEF d

\* A cluster has a positive number of bytes.
LEMMA ClusterSize == ASSUME NEW s, SuperSound(s) PROVE Clust(s) \in Nat \ {0}
<1>1. s.spc \in Nat \ {0} /\ SS \in Nat \ {0}
  BY FileSystemsAssumption DEF SuperSound
<1>2. QED
  BY <1>1 DEF Clust

\* A quotient is no larger than the number.
LEMMA DivLess == ASSUME NEW x \in Nat, NEW n \in Nat \ {0} PROVE x \div n <= x
<1> DEFINE q == x \div n
           r == x % n
<1>1. q \in Nat /\ r \in Nat /\ x = n * q + r
  BY DivMod
<1> HIDE DEF q, r
<1>2. n * q >= q
  BY <1>1
<1>3. n * q \in Nat
  BY <1>1
<1>4. q <= x
  BY <1>1, <1>2, <1>3
<1>5. QED
  BY <1>4 DEF q

\* One turn of the loop that reads a file.
LEMMA FatPieceRight ==
  ASSUME NEW k, NEW c, NEW end \in Nat, Chained(k), Valid(k, c), Running(c),
         c.filepos \in Nat, c.filepos < end, OfFile(k) => end <= MAXINT
  PROVE  LET d == FatPiece(c, end) IN InOrder(k, d) /\ d.filepos \in Nat /\ d.filepos <= end
<1> DEFINE n == Clust(c.buf.sup)
           logical == c.filepos \div n
           offset == c.filepos % n
           a == Along(c, logical)
           m == Least(Clust(a.buf.sup) - offset, end - a.filepos)
           p == ReadPiece(a, SectorOf(a.buf.sup, a.buf.current_cluster), offset, m)
           d == FatPiece(c, end)
<1>1. d = IF a.done THEN a ELSE p
  BY DEF FatPiece
<1>2. n \in Nat \ {0}
  <2>1. c.buf.sup = k.s
    BY DEF Valid, Fixed, FatCall
  <2>2. QED
    BY <2>1, ClusterSize DEF Chained
<1> HIDE DEF n
<1>3. logical \in Nat /\ offset \in 0..(n - 1) /\ logical <= c.filepos
  BY <1>2, DivMod, DivLess
<1>4. OfFile(k) => logical <= MAXINT
  <2> HIDE DEF logical
  <2>1. QED
    BY <1>3, FileSystemsAssumption
<1> HIDE DEF logical, offset
<1>5. InOrder(k, a) /\ a.filepos = c.filepos
  BY <1>3, <1>4, AlongRight
<1>6. m \in Nat \ {0} /\ m <= end - c.filepos
  <2>1. n - offset \in Nat \ {0} /\ end - c.filepos \in Nat \ {0}
    BY <1>2, <1>3
  <2>2. QED
    <3>1. a.buf.sup = c.buf.sup
      BY <1>5 DEF InOrder, Lost, Valid, Fixed, FatCall
    <3>2. QED
      BY <1>5, <2>1, <3>1, Lesser DEF n
<1> HIDE DEF a, m
<1>7. CASE a.done
  BY <1>1, <1>5, <1>7
<1>8. CASE ~a.done
  <2>1. Valid(k, a) /\ Running(a)
    BY <1>5, <1>8 DEF InOrder, Ends, Stopped
  <2>2. Valid(k, p) /\ p.filepos = a.filepos + m /\ Running(p)
    BY <2>1, PieceValid
  <2> HIDE DEF p
  <2>3. p.filepos \in Nat /\ p.filepos <= end
    BY <1>5, <1>6, <2>2
  <2>4. QED
    BY <1>1, <1>8, <2>2, <2>3 DEF InOrder, Ends
<1>9. QED
  BY <1>7, <1>8

\* Piece by piece.
LEMMA FatPiecesLoop ==
  ASSUME NEW k, NEW end \in Nat, NEW len \in Nat, NEW x0, PartRead(k, end, x0),
         \A x : PartRead(k, end, x) /\ ~(x.done \/ x.filepos = end) => PartRead(k, end, FatPiece(x, end))
  PROVE  PartRead(k, end, FatPieces(x0, end, len))
<1> DEFINE Go(x) == IF x.done \/ x.filepos = end THEN x ELSE FatPiece(x, end)
           Fits(m, g) == g = [i \in 0..m |-> IF i = 0 THEN x0 ELSE Go(g[i - 1])]
           T == {m \in Nat : \E g : Fits(m, g)}
<1>1. \E g : Fits(len, g)
  <2>1. 0 \in T
    <3>1. Fits(0, [i \in 0..0 |-> x0])
      OBVIOUS
    <3>2. QED
      BY <3>1
  <2>2. ASSUME NEW m \in T PROVE m + 1 \in T
    <3>1. PICK g : Fits(m, g)
      OBVIOUS
    <3> DEFINE h == [i \in 0..(m + 1) |-> IF i = m + 1 THEN Go(g[m]) ELSE g[i]]
    <3> HIDE DEF Go
    <3>2. Fits(m + 1, h)
      BY <3>1
    <3> HIDE DEF Fits, h
    <3>3. m + 1 \in Nat
      OBVIOUS
    <3>4. QED
      BY <3>2, <3>3
  <2> HIDE DEF Fits
  <2>3. len \in T
    <3>1. len \in Nat /\ len \in 0..len
      BY FileSystemsAssumption
    <3> HIDE DEF T
    <3>2. QED
      BY <2>1, <2>2, <3>1, Upward
  <2>4. QED
    BY <2>3
<1> DEFINE at == CHOOSE g : Fits(len, g)
<1>2. Fits(len, at)
  <2> HIDE DEF Fits
  <2>1. QED
    BY <1>1
<1>3. FatPieces(x0, end, len) = at[len]
  BY DEF Repeat, FatPieces
<1> HIDE DEF at
<1>4. \A x : PartRead(k, end, x) => PartRead(k, end, Go(x))
  OBVIOUS
<1> HIDE DEF Go
<1>5. PartRead(k, end, at[len])
  <2> DEFINE R == {m \in 0..len : PartRead(k, end, at[m])}
  <2>0. len \in Nat
    BY FileSystemsAssumption
  <2>1. at[0] = x0 /\ \A i \in 1..len : at[i] = Go(at[i - 1])
    BY <1>2, <2>0
  <2>2. 0 \in R
    BY <2>0, <2>1
  <2>3. ASSUME NEW m \in R, m \in 0..(len - 1) PROVE m + 1 \in R
    <3>1. at[m + 1] = Go(at[m]) /\ PartRead(k, end, at[m]) /\ m + 1 \in 0..len
      BY <2>0, <2>1, <2>3
    <3>2. QED
      BY <1>4, <3>1
  <2> HIDE DEF R
  <2>4. 0..len \subseteq R
    BY <2>0, <2>2, <2>3, Upward
  <2>5. QED
    BY <2>0, <2>4 DEF R
<1>6. QED
  BY <1>3, <1>5

\* Back to the first cluster.
LEMMA RewindRight ==
  ASSUME NEW k, NEW c, NEW logical, Chained(k), Valid(k, c), Running(c)
  PROVE  LET d == [c EXCEPT !.buf = Rewind(c.buf, logical)]
         IN Valid(k, d) /\ Running(d) /\ d.filepos = c.filepos
<1> DEFINE b == [c.buf EXCEPT !.current_cluster_num = 0, !.current_cluster = c.buf.file_cluster]
           d == [c EXCEPT !.buf = Rewind(c.buf, logical)]
<1>1. /\ IsCall(c) /\ c.vol = k.vol /\ c.reads \in Nat /\ c.fault.at \in Nat /\ DOMAIN c.buf = FatBuf
      /\ c.buf.sup = k.s /\ c.filemax = k.max /\ c.buf.file_cluster = k.first
      /\ c.buf.contig_size = k.contig /\ FatWindow(k.vol, c.buf)
  BY DEF Valid, Fixed, FatCall
<1>2. /\ IsCall(d) /\ d.vol = c.vol /\ d.reads = c.reads /\ d.fault = c.fault
      /\ d.buf = Rewind(c.buf, logical) /\ d.filemax = c.filemax /\ d.filepos = c.filepos /\ Running(d)
  BY <1>1 DEF IsCall, Fields, Running
<1>3. d.buf = c.buf \/ d.buf = b
  BY <1>2 DEF Rewind
<1>4. /\ DOMAIN b = FatBuf /\ b.sup = k.s /\ b.file_cluster = k.first /\ b.contig_size = k.contig
      /\ b.cached_fat = c.buf.cached_fat /\ b.fat_buf = c.buf.fat_buf
      /\ b.current_cluster_num = 0 /\ b.current_cluster = k.first
  BY <1>1 DEF FatBuf
<1> HIDE DEF b, d
<1>5. ASSUME d.buf = c.buf PROVE Valid(k, d)
  BY <1>1, <1>2, <1>5, ValidSame
<1>6. ASSUME d.buf = b PROVE Valid(k, d)
  <2>1. Fixed(k, d)
    BY <1>1, <1>2, <1>4, <1>6 DEF Fixed, FatCall
  <2>2. FatWindow(k.vol, d.buf)
    BY <1>1, <1>4, <1>6 DEF FatWindow
  <2>3. OfFile(k) => Typed(d.buf)
    BY <1>1, <1>4, <1>6 DEF Valid, Typed
  <2>4. OfFile(k) => OnChain(d.buf, k.chain)
    <3>1. 0 \in Nat /\ 0 + 1 = 1
      OBVIOUS
    <3>2. OfFile(k) => k.first = k.chain[1] /\ 0 < Len(k.chain)
      BY DEF Chained
    <3>3. QED
      BY <1>4, <1>6, <3>1, <3>2 DEF OnChain
  <2>5. QED
    BY <1>2, <2>1, <2>2, <2>3, <2>4 DEF Valid
<1>7. Valid(k, d) /\ Running(d) /\ d.filepos = c.filepos
  BY <1>2, <1>3, <1>5, <1>6
<1>8. QED
  BY <1>7 DEF d

\* What a read leaves: an orderly buffer, or a call that failed.
After(k, d, end) ==
  \/ Valid(k, d) /\ d.filepos \in Nat /\ d.filepos <= end
  \/ Lost(k, d)

\* A read that is done returns, and keeps what it has.
LEMMA ReturnRight ==
  ASSUME NEW k, NEW c, NEW end, Valid(k, c), c.filepos \in Nat, c.filepos <= end
  PROVE  After(k, Return(c), end)
<1> DEFINE v == IF c.errnum = ERR_NONE THEN Len(c.out) ELSE 0
           d == [c EXCEPT !.ret = v]
<1>1. Return(c) = d
  BY DEF Return
<1>2. IsCall(c) /\ c.reads \in Nat
  BY DEF Valid, Fixed, FatCall
<1> HIDE DEF v
<1>3. /\ IsCall(d) /\ d.vol = c.vol /\ d.buf = c.buf /\ d.filemax = c.filemax
      /\ d.fault = c.fault /\ d.reads \in Nat /\ d.filepos = c.filepos
  BY <1>2 DEF IsCall, Fields
<1> HIDE DEF d
<1>4. Valid(k, d)
  BY <1>3, ValidSame
<1>5. QED
  BY <1>1, <1>3, <1>4 DEF After

\* fat_read of a file with a chain.
LEMMA FatChainRight ==
  ASSUME NEW k, NEW c, NEW len \in Nat, Chained(k), Valid(k, c), Running(c),
         c.filepos \in Nat, OfFile(k) => c.filepos + len <= MAXINT
  PROVE  After(k, FatChain(c, len), c.filepos + len)
<1> DEFINE end == c.filepos + len
           start == [c EXCEPT !.buf = Rewind(c.buf, c.filepos \div Clust(c.buf.sup))]
           d == FatPieces(start, end, len)
<1>1. FatChain(c, len) = IF d.done THEN d ELSE Return(d)
  BY DEF FatChain
<1>2. Valid(k, start) /\ Running(start) /\ start.filepos = c.filepos
  BY RewindRight
<1> HIDE DEF start
<1>3. end \in Nat /\ c.filepos <= end
  OBVIOUS
<1> HIDE DEF end
<1>4. PartRead(k, end, start)
  BY <1>2, <1>3 DEF InOrder, Ends, PartRead
<1>5. ASSUME NEW x, PartRead(k, end, x), ~(x.done \/ x.filepos = end) PROVE PartRead(k, end, FatPiece(x, end))
  <2>1. Valid(k, x) /\ Running(x)
    BY <1>5 DEF InOrder, Ends, Stopped, PartRead
  <2>2. x.filepos \in Nat /\ x.filepos < end
    BY <1>3, <1>5 DEF PartRead
  <2>3. OfFile(k) => end <= MAXINT
    BY DEF end
  <2>4. QED
    BY <1>3, <2>1, <2>2, <2>3, FatPieceRight DEF PartRead
<1>6. PartRead(k, end, d)
  BY <1>3, <1>4, <1>5, FatPiecesLoop
<1> HIDE DEF d
<1>7. CASE Valid(k, d) /\ Running(d)
  <2>1. FatChain(c, len) = Return(d)
    BY <1>1, <1>7 DEF Running
  <2>2. QED
    BY <1>6, <1>7, <2>1, ReturnRight DEF end, PartRead
<1>8. CASE Stopped(d)
  <2>1. FatChain(c, len) = d
    BY <1>1, <1>8 DEF Stopped
  <2>2. QED
    BY <1>6, <1>8, <2>1 DEF After, InOrder, end, PartRead
<1>9. QED
  BY <1>6, <1>7, <1>8 DEF InOrder, Ends, PartRead

\* The root directory of FAT12 and FAT16 is read without the FAT.
LEMMA FatRootKeeps ==
  ASSUME NEW k, NEW c, NEW len, Valid(k, c), Running(c) PROVE Valid(k, FatRoot(c, len))
<1> DEFINE s == c.buf.sup
           d == ReadPiece(c, s.root_offset, c.filepos, Least(s.root_max - c.filepos, len))
           v == IF d.errnum = ERR_NONE THEN Len(d.out) ELSE 0
           e == [d EXCEPT !.filepos = c.filepos, !.out = <<>>, !.ret = 0]
           r == [d EXCEPT !.ret = v]
           n == [c EXCEPT !.ret = 0]
<1>1. FatRoot(c, len) \in {n, e, r}
  BY DEF FatRoot, Return
<1>2. Valid(k, d)
  BY PieceValid
<1> HIDE DEF d
<1>3. IsCall(c) /\ c.reads \in Nat /\ IsCall(d) /\ d.reads \in Nat
  BY <1>2 DEF Valid, Fixed, FatCall
<1> HIDE DEF v
<1>4. /\ IsCall(n) /\ n.vol = c.vol /\ n.buf = c.buf /\ n.filemax = c.filemax
      /\ n.fault = c.fault /\ n.reads \in Nat
      /\ IsCall(e) /\ e.vol = d.vol /\ e.buf = d.buf /\ e.filemax = d.filemax
      /\ e.fault = d.fault /\ e.reads \in Nat
      /\ IsCall(r) /\ r.vol = d.vol /\ r.buf = d.buf /\ r.filemax = d.filemax
      /\ r.fault = d.fault /\ r.reads \in Nat
  BY <1>3 DEF IsCall, Fields
<1> HIDE DEF n, e, r
<1>5. Valid(k, n) /\ Valid(k, e) /\ Valid(k, r)
  BY <1>2, <1>4, ValidSame
<1>6. QED
  BY <1>1, <1>5

\* fat_read of that directory.
LEMMA FatRootRight ==
  ASSUME NEW k, NEW c, NEW len \in Nat \ {0}, Chained(k), Valid(k, c), Running(c), c.filepos \in Nat
  PROVE  After(k, FatRoot(c, len), c.filepos + len)
<1> DEFINE s == c.buf.sup
           size == Least(s.root_max - c.filepos, len)
           d == ReadPiece(c, s.root_offset, c.filepos, size)
           e == [d EXCEPT !.filepos = c.filepos, !.out = <<>>, !.ret = 0]
           n == [c EXCEPT !.ret = 0]
<1>1. FatRoot(c, len) = IF s.root_max <= c.filepos THEN n
                        ELSE IF d.errnum # ERR_NONE THEN e ELSE Return(d)
  BY DEF FatRoot
<1>2. s = k.s /\ s.root_max \in Nat /\ IsCall(c) /\ c.reads \in Nat
  BY DEF Valid, Fixed, FatCall, Chained, SuperSound
<1> HIDE DEF s
<1>3. c.filepos <= c.filepos + len
  OBVIOUS
<1>4. After(k, n, c.filepos + len)
  <2>1. /\ IsCall(n) /\ n.vol = c.vol /\ n.buf = c.buf /\ n.filemax = c.filemax
        /\ n.fault = c.fault /\ n.reads \in Nat /\ n.filepos = c.filepos
    BY <1>2 DEF IsCall, Fields
  <2> HIDE DEF n
  <2>2. Valid(k, n)
    BY <2>1, ValidSame
  <2>3. QED
    BY <1>3, <2>1, <2>2 DEF After
<1>5. Valid(k, d) /\ d.filepos = c.filepos + size
  BY PieceValid
<1>6. After(k, e, c.filepos + len)
  <2>1. IsCall(d) /\ d.reads \in Nat
    BY <1>5 DEF Valid, Fixed, FatCall
  <2> HIDE DEF d
  <2>2. /\ IsCall(e) /\ e.vol = d.vol /\ e.buf = d.buf /\ e.filemax = d.filemax
        /\ e.fault = d.fault /\ e.reads \in Nat /\ e.filepos = c.filepos
    BY <2>1 DEF IsCall, Fields
  <2> HIDE DEF e
  <2>3. Valid(k, e)
    BY <1>5, <2>2, ValidSame
  <2>4. QED
    BY <1>3, <2>2, <2>3 DEF After
<1>7. CASE ~(s.root_max <= c.filepos)
  <2>1. s.root_max - c.filepos \in Nat \ {0}
    BY <1>2, <1>7
  <2>2. size \in Nat \ {0} /\ size <= len
    BY <2>1, Lesser
  <2> HIDE DEF size, d
  <2>3. d.filepos \in Nat /\ d.filepos <= c.filepos + len
    BY <1>5, <2>2
  <2>4. After(k, Return(d), c.filepos + len)
    BY <1>5, <2>3, ReturnRight
  <2>5. QED
    BY <1>1, <1>6, <1>7, <2>4 DEF d, size
<1>8. QED
  BY <1>1, <1>4, <1>7

\* What the theorem takes for granted of a file, and nothing of a directory.
InOneRun(k) == k.s.type = 64 /\ k.contig # 0
Sound(k) ==
  /\ SuperSound(k.s)
  /\ OfFile(k) => /\ k.first = k.chain[1] /\ k.first # MAXINT /\ Len(k.chain) \in Nat \ {0}
                  /\ k.contig \in Nat
                  /\ InOneRun(k) \/ ChainOnDisk(k.vol, k.s, k.chain)
ReadTo(k, d, end) ==
  \/ Valid(k, d) /\ ((d.filepos \in Nat /\ d.filepos <= end) \/ (InOneRun(k) /\ ~OfFile(k)))
  \/ Lost(k, d)

\* fat_read of an exFAT file in one run, which has only the first cluster kept.
LEMMA FatContiguousRight ==
  ASSUME NEW k, NEW c, NEW len \in Nat \ {0}, Sound(k), InOneRun(k), Valid(k, c), Running(c),
         OfFile(k) => c.filepos \in Nat
  PROVE  ReadTo(k, FatContiguous(c, len), c.filepos + len)
<1> DEFINE b == c.buf
           size == Least(b.contig_size - c.filepos, len)
           p == ReadPiece(c, SectorOf(b.sup, b.file_cluster), c.filepos, size)
           v == IF p.errnum = ERR_NONE THEN Len(p.out) ELSE 0
           d == [[p EXCEPT !.ret = v] EXCEPT
                   !.buf.current_cluster_num = 0, !.buf.current_cluster = b.file_cluster]
           n == [c EXCEPT !.ret = 0]
           end == c.filepos + len
<1>1. FatContiguous(c, len) = IF c.filepos >= b.contig_size THEN n ELSE d
  BY DEF FatContiguous, Return
<1>2. /\ IsCall(c) /\ c.vol = k.vol /\ c.reads \in Nat /\ c.fault.at \in Nat /\ DOMAIN b = FatBuf
      /\ b.sup = k.s /\ c.filemax = k.max /\ b.file_cluster = k.first
      /\ b.contig_size = k.contig /\ FatWindow(k.vol, b)
  BY DEF Valid, Fixed, FatCall
<1>3. OfFile(k) => c.filepos <= end /\ end \in Nat
  OBVIOUS
<1> HIDE DEF end
<1>4. ReadTo(k, n, end)
  <2>1. /\ IsCall(n) /\ n.vol = c.vol /\ n.buf = c.buf /\ n.filemax = c.filemax
        /\ n.fault = c.fault /\ n.reads \in Nat /\ n.filepos = c.filepos
    BY <1>2 DEF IsCall, Fields
  <2> HIDE DEF n
  <2>2. Valid(k, n)
    BY <2>1, ValidSame
  <2>3. QED
    BY <1>3, <2>1, <2>2 DEF ReadTo
<1>5. ASSUME ~(c.filepos >= b.contig_size) PROVE ReadTo(k, d, end)
  <2>1. Valid(k, p) /\ p.filepos = c.filepos + size
    BY PieceValid
  <2>2. OfFile(k) => p.filepos \in Nat /\ p.filepos <= end
    <3> SUFFICES ASSUME OfFile(k) PROVE p.filepos \in Nat /\ p.filepos <= end
      OBVIOUS
    <3>1. b.contig_size \in Nat /\ c.filepos \in Nat
      BY <1>2 DEF Sound
    <3> HIDE DEF b
    <3>2. b.contig_size - c.filepos \in Nat \ {0}
      BY <1>5, <3>1
    <3>3. size \in Nat \ {0} /\ size <= len
      BY <3>2, Lesser
    <3> HIDE DEF size, p
    <3>4. QED
      BY <2>1, <3>1, <3>3 DEF end
  <2>3. /\ IsCall(p) /\ p.vol = k.vol /\ p.reads \in Nat /\ p.fault.at \in Nat
        /\ DOMAIN p.buf = FatBuf /\ p.buf.sup = k.s /\ p.filemax = k.max
        /\ p.buf.file_cluster = k.first /\ p.buf.contig_size = k.contig /\ FatWindow(k.vol, p.buf)
    BY <2>1 DEF Valid, Fixed, FatCall
  <2> HIDE DEF p, v, b
  <2>4. /\ IsCall(d) /\ d.vol = k.vol /\ d.reads \in Nat /\ d.fault.at \in Nat
        /\ DOMAIN d.buf = FatBuf /\ d.filemax = k.max /\ d.filepos = p.filepos
    BY <2>3 DEF IsCall, Fields
  <2>5. /\ d.buf.sup = k.s /\ d.buf.file_cluster = k.first /\ d.buf.contig_size = k.contig
        /\ d.buf.cached_fat = p.buf.cached_fat /\ d.buf.fat_buf = p.buf.fat_buf
        /\ d.buf.current_cluster_num = 0 /\ d.buf.current_cluster = k.first
    BY <1>2, <2>3 DEF IsCall, Fields, FatBuf
  <2> HIDE DEF d
  <2>6. Fixed(k, d)
    BY <2>4, <2>5 DEF Fixed, FatCall
  <2>7. FatWindow(k.vol, d.buf)
    BY <2>3, <2>5 DEF FatWindow
  <2>8. OfFile(k) => Typed(d.buf)
    BY <2>1, <2>5 DEF Valid, Typed
  <2>9. OfFile(k) => OnChain(d.buf, k.chain)
    <3>1. 0 \in Nat /\ 0 + 1 = 1
      OBVIOUS
    <3>2. OfFile(k) => k.first = k.chain[1] /\ 0 < Len(k.chain)
      BY DEF Sound
    <3>3. QED
      BY <2>5, <3>1, <3>2 DEF OnChain
  <2>10. Valid(k, d)
    BY <2>6, <2>7, <2>8, <2>9 DEF Valid
  <2>11. QED
    BY <2>2, <2>4, <2>10 DEF ReadTo
<1> HIDE DEF b, d, n
<1>6. QED
  BY <1>1, <1>4, <1>5 DEF end

\* fat_read.
LEMMA FatReadRight ==
  ASSUME NEW k, NEW c, NEW len \in Nat, Sound(k), Valid(k, c),
         c.filepos \in Nat \/ (InOneRun(k) /\ ~OfFile(k)),
         OfFile(k) => c.filepos + len <= MAXINT
  PROVE  ReadTo(k, FatRead(c, len), c.filepos + len)
<1> DEFINE a == [c EXCEPT !.out = <<>>, !.ret = 0, !.done = FALSE]
           end == c.filepos + len
<1>1. IsCall(c) /\ c.reads \in Nat
  BY DEF Valid, Fixed, FatCall
<1>2. /\ IsCall(a) /\ a.vol = c.vol /\ a.buf = c.buf /\ a.filemax = c.filemax
      /\ a.fault = c.fault /\ a.reads \in Nat /\ a.filepos = c.filepos /\ Running(a)
  BY <1>1 DEF IsCall, Fields, Running
<1>3. FatRead(c, len) = FatReadFrom(a, len)
  BY DEF FatRead
<1> HIDE DEF a
<1>4. Valid(k, a)
  BY <1>2, ValidSame
<1>5. FatReadFrom(a, len) =
        IF len = 0 THEN a
        ELSE IF k.first = MAXINT THEN FatRoot(a, len)
        ELSE IF InOneRun(k) THEN FatContiguous(a, len) ELSE FatChain(a, len)
  BY <1>4 DEF FatReadFrom, Valid, Fixed, FatCall, InOneRun
<1>6. CASE len = 0
  <2>1. a.filepos \in Nat => a.filepos <= end
    BY <1>2, <1>6
  <2>2. QED
    BY <1>2, <1>3, <1>4, <1>5, <1>6, <2>1 DEF ReadTo
<1>7. CASE len # 0
  <2>1. len \in Nat \ {0}
    BY <1>7
  <2>2. CASE InOneRun(k) /\ k.first # MAXINT
    <3>1. OfFile(k) => a.filepos \in Nat
      BY <1>2
    <3>2. ReadTo(k, FatContiguous(a, len), a.filepos + len)
      BY <1>2, <1>4, <2>1, <2>2, <3>1, FatContiguousRight
    <3>3. QED
      BY <1>2, <1>3, <1>5, <1>7, <2>2, <3>2
  <2>3. CASE k.first = MAXINT
    <3>1. ~OfFile(k)
      BY <2>3 DEF Sound
    <3>2. Chained(k)
      BY <3>1 DEF Sound, Chained
    <3>3. FatRead(c, len) = FatRoot(a, len)
      BY <1>3, <1>5, <1>7, <2>3
    <3>4. CASE c.filepos \in Nat
      <4>1. After(k, FatRoot(a, len), a.filepos + len)
        BY <1>2, <1>4, <2>1, <3>2, <3>4, FatRootRight
      <4>2. QED
        BY <1>2, <3>3, <4>1 DEF After, ReadTo
    <3>5. CASE InOneRun(k)
      <4>1. Valid(k, FatRoot(a, len)) 
        BY <1>2, <1>4, FatRootKeeps
      <4>2. QED
        BY <3>1, <3>3, <3>5, <4>1 DEF ReadTo
    <3>6. QED
      BY <3>4, <3>5
  <2>4. CASE ~InOneRun(k) /\ k.first # MAXINT
    <3>1. Chained(k) /\ a.filepos \in Nat /\ (OfFile(k) => a.filepos + len <= MAXINT)
      BY <1>2, <2>4 DEF Sound, Chained
    <3>2. After(k, FatChain(a, len), a.filepos + len)
      BY <1>2, <1>4, <3>1, FatChainRight
    <3>3. FatRead(c, len) = FatChain(a, len)
      BY <1>3, <1>5, <1>7, <2>4
    <3>4. QED
      BY <1>2, <3>2, <3>3 DEF After, ReadTo
  <2>5. QED
    BY <2>2, <2>3, <2>4
<1>8. QED
  BY <1>6, <1>7

-----------------------------------------------------------------------------
(* FAT: directories *)

Kinds == {"file", "info", "name"}
ScanFields == {"c", "dirname", "verdict", "filename", "slot", "alias_checksum", "next", "set"}

\* The window stays the disk's from entry to entry; where the file pointer is a
\* number, and where the directory is one run it need not be.
Scanned(vol, s, d) ==
  /\ DOMAIN d = ScanFields /\ d.next \in Kinds /\ FatCall(vol, s, d.c)
  /\ d.verdict = "missing" \/ FatWindow(vol, d.c.buf)
Placed(c) == c.filepos \in Nat \/ Contiguous(c.buf)
Scanning(vol, s, d) == Scanned(vol, s, d) /\ (d.verdict = "missing" \/ Placed(d.c))

\* A read of a directory, where all that is kept is the window.
LEMMA DirRead ==
  ASSUME NEW vol, NEW s, NEW c, SuperSound(s), FatCall(vol, s, c), FatWindow(vol, c.buf), Placed(c)
  PROVE  LET d == FatRead(c, 1)
         IN FatCall(vol, s, d) /\ (d.ret = 0 \/ (FatWindow(vol, d.buf) /\ Placed(d)))
<1> DEFINE k == [vol |-> vol, s |-> s, file |-> FALSE, chain |-> <<>>, max |-> c.filemax,
                 first |-> c.buf.file_cluster, contig |-> c.buf.contig_size]
           d == FatRead(c, 1)
<1>1. /\ k.vol = vol /\ k.s = s /\ k.max = c.filemax /\ ~OfFile(k)
      /\ k.first = c.buf.file_cluster /\ k.contig = c.buf.contig_size
  BY DEF OfFile
<1> HIDE DEF k
<1>2. Sound(k) /\ Valid(k, c)
  BY <1>1 DEF Sound, Valid, Fixed
<1>3. c.filepos \in Nat \/ (InOneRun(k) /\ ~OfFile(k))
  BY <1>1 DEF Placed, Contiguous, InOneRun, FatCall
<1>4. ReadTo(k, d, c.filepos + 1)
  BY <1>1, <1>2, <1>3, FatReadRight
<1> HIDE DEF d
<1>5. FatCall(vol, s, d) /\ (Lost(k, d) \/ (FatWindow(vol, d.buf) /\ Placed(d)))
  BY <1>1, <1>4 DEF ReadTo, Lost, Valid, Fixed, Placed, Contiguous, InOneRun, FatCall
<1>6. FatCall(vol, s, d) /\ (d.ret = 0 \/ (FatWindow(vol, d.buf) /\ Placed(d)))
  BY <1>5 DEF Lost
<1>7. QED
  BY <1>6 DEF d

\* An entry is looked at without a call.
LookedAt(d, r) == DOMAIN r = ScanFields /\ r.next \in Kinds /\ r.c = d.c

\* A name that matches is found.
LEMMA FoundKeeps ==
  ASSUME NEW d, DOMAIN d = ScanFields, d.next \in Kinds,
         NEW dir, NEW len, NEW cluster, NEW contig
  PROVE  LookedAt(d, Found(d, dir, len, cluster, contig))
BY DEF Found, LookedAt, ScanFields

\* Long and short entries.
LEMMA FatEntryKeeps ==
  ASSUME NEW d, DOMAIN d = ScanFields, d.next \in Kinds, NEW e, NEW name
  PROVE  LookedAt(d, FatEntry(d, e, name))
<1>1. LookedAt(d, LongName(d, e))
  <2> DEFINE slot == IF e.first THEN e.id ELSE d.slot
             sum == IF e.first THEN e.sum ELSE d.alias_checksum
             long == IF e.first THEN [k \in 1..e.id |-> IF k \in DOMAIN d.filename THEN d.filename[k]
                                                        ELSE "?"] ELSE d.filename
             part == [long EXCEPT ![slot] = e.part]
             a == [d EXCEPT !.slot = slot - 1, !.alias_checksum = sum, !.filename = part]
             b == [d EXCEPT !.slot = slot, !.alias_checksum = -1, !.filename = long]
  <2>1. LongName(d, e) = IF LongFits(d, e, slot, sum) THEN a ELSE b
    BY DEF LongName
  <2> HIDE DEF slot, sum, long, part
  <2>2. LookedAt(d, a) /\ LookedAt(d, b)
    BY DEF LookedAt, ScanFields
  <2> HIDE DEF a, b
  <2>3. QED
    BY <2>1, <2>2
<1>2. LookedAt(d, ShortEntry(d, e, name))
  <2> DEFINE long == d.alias_checksum # -1 /\ d.slot = 0
             at == IF long THEN -2 ELSE d.slot
             left == [d EXCEPT !.slot = at]
             x == [left EXCEPT !.filename = e.name]
             y == [left EXCEPT !.filename = e.name, !.alias_checksum = -1]
             named == long /\ d.alias_checksum = e.sum
  <2>1. ShortEntry(d, e, name) =
          IF named /\ d.filename = name THEN Found(left, e.dir, e.len, e.cluster, FALSE)
          ELSE IF e.name = name THEN Found(x, e.dir, e.len, e.cluster, FALSE) ELSE y
    BY DEF ShortEntry
  <2> HIDE DEF at, named, long
  <2>2. LookedAt(d, left)
    BY DEF LookedAt, ScanFields
  <2> HIDE DEF left
  <2>3. LookedAt(d, x) /\ LookedAt(d, y)
    BY <2>2 DEF LookedAt, ScanFields
  <2> HIDE DEF x, y
  <2>4. /\ LookedAt(d, Found(left, e.dir, e.len, e.cluster, FALSE))
        /\ LookedAt(d, Found(x, e.dir, e.len, e.cluster, FALSE))
    <3>1. /\ LookedAt(left, Found(left, e.dir, e.len, e.cluster, FALSE))
          /\ LookedAt(x, Found(x, e.dir, e.len, e.cluster, FALSE))
      <4>1. DOMAIN left = ScanFields /\ left.next \in Kinds /\ DOMAIN x = ScanFields /\ x.next \in Kinds
        BY <2>2, <2>3 DEF LookedAt
      <4>2. QED
        BY <4>1, FoundKeeps
    <3>2. QED
      BY <2>2, <2>3, <3>1 DEF LookedAt
  <2>5. QED
    BY <2>1, <2>3, <2>4
<1>3. LookedAt(d, d)
  BY DEF LookedAt
<1>4. FatEntry(d, e, name) \in {LongName(d, e), ShortEntry(d, e, name), d}
  BY DEF FatEntry
<1>5. QED
  BY <1>1, <1>2, <1>3, <1>4

\* The entries of exFAT.
LEMMA ExfatEntryKeeps ==
  ASSUME NEW d, DOMAIN d = ScanFields, d.next \in Kinds, NEW e, NEW name
  PROVE  LookedAt(d, ExfatEntry(d, e, name))
<1> DEFINE count == IF e.count \in 2..18 THEN e.count - 1 ELSE e.count
           set1 == [d.set EXCEPT !.dir = e.dir, !.names = 0, !.count = count]
           set2 == [d.set EXCEPT !.len = e.len, !.cluster = e.cluster, !.contig = e.contig]
           info == [d EXCEPT !.set.len = e.len, !.set.cluster = e.cluster,
                             !.set.contig = e.contig, !.next = "name"]
           file == [d EXCEPT !.next = "file"]
<1>1. LookedAt(d, NewSet(d, e))
  BY DEF NewSet, LookedAt, ScanFields, Kinds
<1>2. LookedAt(d, info)
  BY DEF LookedAt, ScanFields, Kinds
<1>3. LookedAt(d, file)
  BY DEF LookedAt, ScanFields, Kinds
<1>4. LookedAt(d, NamePart(d, e, name))
  <2> DEFINE n == d.set.names + 1
             part == Append(SubSeq(d.filename, 1, n - 1), e.part)
             x == [d EXCEPT !.filename = part, !.set.names = n]
             f == [x EXCEPT !.next = "file"]
             g == [x EXCEPT !.next = "name"]
             h == Found(f, x.set.dir, x.set.len, x.set.cluster, x.set.contig)
  <2>1. NamePart(d, e, name) =
          IF n < x.set.count THEN g ELSE IF x.filename = name THEN h ELSE f
    BY DEF NamePart
  <2>2. LookedAt(d, x)
    BY DEF LookedAt, ScanFields
  <2> HIDE DEF x, n
  <2>3. LookedAt(d, f) /\ LookedAt(d, g)
    BY <2>2 DEF LookedAt, ScanFields, Kinds
  <2> HIDE DEF f, g
  <2>4. LookedAt(f, h)
    BY <2>3, FoundKeeps DEF LookedAt
  <2>5. LookedAt(d, h)
    BY <2>3, <2>4 DEF LookedAt
  <2> HIDE DEF h
  <2>6. QED
    BY <2>1, <2>3, <2>5
<1> HIDE DEF info, file
<1>5. ExfatEntry(d, e, name) \in {file, NewSet(d, e), info, NamePart(d, e, name)}
  BY DEF ExfatEntry, Kinds, info, file
<1>6. QED
  BY <1>1, <1>2, <1>3, <1>4, <1>5

\* One entry is read.
LEMMA EntryReadRight ==
  ASSUME NEW vol, NEW s, NEW d, NEW name, DOMAIN d = ScanFields, d.next \in Kinds,
         FatCall(vol, s, d.c), d.c.ret = 0 \/ (FatWindow(vol, d.c.buf) /\ Placed(d.c))
  PROVE  Scanning(vol, s, EntryRead(d, name))
<1> DEFINE e == d.c.out[1]
           err == IF d.c.errnum = ERR_NONE THEN ERR_FILE_NOT_FOUND ELSE d.c.errnum
           x == [d.c EXCEPT !.errnum = err]
           m == [d EXCEPT !.verdict = "missing", !.c.errnum = err]
           f == FatEntry(d, e, name)
           g == ExfatEntry(d, e, name)
<1>1. EntryRead(d, name) = IF d.c.ret # 1 \/ e.is = "end" THEN m
                           ELSE IF d.c.buf.sup.type = 64 THEN g ELSE f
  BY DEF EntryRead
<1> HIDE DEF err
<1>2. Scanning(vol, s, m)
  <2>1. DOMAIN m = ScanFields /\ m.next = d.next /\ m.verdict = "missing" /\ m.c = x
    BY DEF ScanFields
  <2>2. FatCall(vol, s, x)
    BY DEF FatCall, IsCall, Fields
  <2> HIDE DEF m, x
  <2>3. QED
    BY <2>1, <2>2 DEF Scanning, Scanned
<1>3. LookedAt(d, f) /\ LookedAt(d, g)
  BY FatEntryKeeps, ExfatEntryKeeps
<1> HIDE DEF e, m, f, g
<1>4. CASE d.c.ret = 1
  <2>1. Scanning(vol, s, f) /\ Scanning(vol, s, g)
    BY <1>3, <1>4 DEF LookedAt, Scanning, Scanned
  <2>2. QED
    BY <1>1, <1>2, <2>1
<1>5. CASE d.c.ret # 1
  BY <1>1, <1>2, <1>5
<1>6. QED
  BY <1>4, <1>5

\* One turn of the loop over the entries.
LEMMA NextEntryRight ==
  ASSUME NEW vol, NEW s, NEW d, NEW name, SuperSound(s), Scanning(vol, s, d), d.verdict # "missing"
  PROVE  Scanning(vol, s, NextEntry(d, name))
<1> DEFINE r == FatRead(d.c, 1)
           e == [d EXCEPT !.c = r]
<1>1. NextEntry(d, name) = EntryRead(e, name)
  BY DEF NextEntry
<1>2. DOMAIN d = ScanFields /\ d.next \in Kinds /\ FatCall(vol, s, d.c) /\ FatWindow(vol, d.c.buf)
      /\ Placed(d.c)
  BY DEF Scanning, Scanned
<1>3. FatCall(vol, s, r) /\ (r.ret = 0 \/ (FatWindow(vol, r.buf) /\ Placed(r)))
  BY <1>2, DirRead
<1> HIDE DEF r
<1>4. DOMAIN e = ScanFields /\ e.next = d.next /\ e.c = r
  BY <1>2 DEF ScanFields
<1> HIDE DEF e
<1>5. QED
  BY <1>1, <1>2, <1>3, <1>4, EntryReadRight

\* Entry by entry.
LEMMA NextEntriesLoop ==
  ASSUME NEW vol, NEW s, NEW name, NEW x0, Scanning(vol, s, x0),
         \A x : Scanning(vol, s, x) /\ ~(x.verdict # "more") => Scanning(vol, s, NextEntry(x, name))
  PROVE  Scanning(vol, s, NextEntries(x0, name))
<1> DEFINE Go(x) == IF x.verdict # "more" THEN x ELSE NextEntry(x, name)
           Fits(m, g) == g = [k \in 0..m |-> IF k = 0 THEN x0 ELSE Go(g[k - 1])]
           T == {m \in Nat : \E g : Fits(m, g)}
<1>1. \E g : Fits(DirLimit, g)
  <2>1. 0 \in T
    <3>1. Fits(0, [k \in 0..0 |-> x0])
      OBVIOUS
    <3>2. QED
      BY <3>1
  <2>2. ASSUME NEW m \in T PROVE m + 1 \in T
    <3>1. PICK g : Fits(m, g)
      OBVIOUS
    <3> DEFINE h == [k \in 0..(m + 1) |-> IF k = m + 1 THEN Go(g[m]) ELSE g[k]]
    <3> HIDE DEF Go
    <3>2. Fits(m + 1, h)
      BY <3>1
    <3> HIDE DEF Fits, h
    <3>3. m + 1 \in Nat
      OBVIOUS
    <3>4. QED
      BY <3>2, <3>3
  <2> HIDE DEF Fits
  <2>3. DirLimit \in T
    <3>1. DirLimit \in Nat /\ DirLimit \in 0..DirLimit
      BY FileSystemsAssumption
    <3> HIDE DEF T
    <3>2. QED
      BY <2>1, <2>2, <3>1, Upward
  <2>4. QED
    BY <2>3
<1> DEFINE at == CHOOSE g : Fits(DirLimit, g)
<1>2. Fits(DirLimit, at)
  <2> HIDE DEF Fits
  <2>1. QED
    BY <1>1
<1>3. NextEntries(x0, name) = at[DirLimit]
  BY DEF Repeat, NextEntries
<1> HIDE DEF at
<1>4. \A x : Scanning(vol, s, x) => Scanning(vol, s, Go(x))
  OBVIOUS
<1> HIDE DEF Go
<1>5. Scanning(vol, s, at[DirLimit])
  <2> DEFINE R == {m \in 0..DirLimit : Scanning(vol, s, at[m])}
  <2>0. DirLimit \in Nat
    BY FileSystemsAssumption
  <2>1. at[0] = x0 /\ \A k \in 1..DirLimit : at[k] = Go(at[k - 1])
    BY <1>2, <2>0
  <2>2. 0 \in R
    BY <2>0, <2>1
  <2>3. ASSUME NEW m \in R, m \in 0..(DirLimit - 1) PROVE m + 1 \in R
    <3>1. at[m + 1] = Go(at[m]) /\ Scanning(vol, s, at[m]) /\ m + 1 \in 0..DirLimit
      BY <2>0, <2>1, <2>3
    <3>2. QED
      BY <1>4, <3>1
  <2> HIDE DEF R
  <2>4. 0..DirLimit \subseteq R
    BY <2>0, <2>2, <2>3, Upward
  <2>5. QED
    BY <2>0, <2>4 DEF R
<1>6. QED
  BY <1>3, <1>5

\* One component of the path.
LEMMA FatComponentRight ==
  ASSUME NEW vol, NEW s, NEW d, SuperSound(s), Scanned(vol, s, d), d.verdict # "missing"
  PROVE  Scanned(vol, s, FatComponent(d))
<1> DEFINE name == Head(d.dirname)
           b == [d.c.buf EXCEPT !.current_cluster_num = MAXINT]
           a == [d.c EXCEPT !.filepos = 0, !.filemax = MAXINT, !.buf = b]
           start == [d EXCEPT !.verdict = "more", !.c.filepos = 0, !.c.filemax = MAXINT,
                              !.c.buf.current_cluster_num = MAXINT, !.dirname = Tail(@)]
           size == Clust(d.c.buf.sup)
           f == NextEntries(start, name)
           len == IF ~(d.c.buf.sup.type = 64) THEN f.c.buf.contig_size
                  ELSE IF f.set.contig THEN ((f.set.len + size - 1) \div size) * size ELSE 0
           g == [f EXCEPT !.c.filemax = f.set.len, !.c.buf.file_cluster = f.set.cluster,
                          !.c.buf.contig_size = len]
           n == [d EXCEPT !.c.errnum = ERR_BAD_FILETYPE, !.verdict = "missing"]
<1>1. FatComponent(d) = IF ~d.set.dir THEN n ELSE IF f.verdict # "found" THEN f ELSE g
  BY DEF FatComponent
<1>2. DOMAIN d = ScanFields /\ d.next \in Kinds /\ FatCall(vol, s, d.c) /\ FatWindow(vol, d.c.buf)
  BY DEF Scanned
<1>3. Scanned(vol, s, n)
  <2> DEFINE x == [d.c EXCEPT !.errnum = ERR_BAD_FILETYPE]
  <2>1. DOMAIN n = ScanFields /\ n.next = d.next /\ n.verdict = "missing" /\ n.c = x
    BY <1>2 DEF ScanFields
  <2>2. FatCall(vol, s, x)
    BY <1>2 DEF FatCall, IsCall, Fields
  <2> HIDE DEF n, x
  <2>3. QED
    BY <1>2, <2>1, <2>2 DEF Scanned
<1>4. Scanning(vol, s, start)
  <2>1. DOMAIN start = ScanFields /\ start.next = d.next /\ start.c = a
    BY <1>2 DEF ScanFields, FatCall, IsCall, Fields
  <2>2. /\ IsCall(a) /\ a.vol = vol /\ a.reads \in Nat /\ a.fault.at \in Nat /\ a.filepos = 0
        /\ a.buf = b
    BY <1>2 DEF FatCall, IsCall, Fields
  <2>3. DOMAIN b = FatBuf /\ b.sup = s /\ b.cached_fat = d.c.buf.cached_fat /\ b.fat_buf = d.c.buf.fat_buf
    BY <1>2 DEF FatCall, FatBuf
  <2> HIDE DEF start, a, b
  <2>4. FatCall(vol, s, a)
    BY <2>2, <2>3 DEF FatCall
  <2>5. FatWindow(vol, a.buf)
    <3>1. d.c.buf.sup = s
      BY <1>2 DEF FatCall
    <3>2. QED
      BY <1>2, <2>2, <2>3, <3>1 DEF FatWindow
  <2>6. Placed(a)
    BY <2>2 DEF Placed
  <2>7. QED
    BY <1>2, <2>1, <2>4, <2>5, <2>6 DEF Scanning, Scanned
<1> HIDE DEF start, n
<1>5. Scanning(vol, s, f)
  <2>1. ASSUME NEW x, Scanning(vol, s, x), ~(x.verdict # "more") PROVE Scanning(vol, s, NextEntry(x, name))
    BY <2>1, NextEntryRight
  <2> HIDE DEF name
  <2>2. QED
    BY <1>4, <2>1, NextEntriesLoop
<1> HIDE DEF f, len
<1>6. ASSUME f.verdict = "found" PROVE Scanned(vol, s, g)
  <2> DEFINE y == [f.c.buf EXCEPT !.file_cluster = f.set.cluster, !.contig_size = len]
             x == [f.c EXCEPT !.filemax = f.set.len, !.buf = y]
  <2>1. DOMAIN f = ScanFields /\ f.next \in Kinds /\ FatCall(vol, s, f.c) /\ FatWindow(vol, f.c.buf)
    BY <1>5, <1>6 DEF Scanning, Scanned
  <2>2. DOMAIN g = ScanFields /\ g.next = f.next /\ g.c = x
    BY <2>1 DEF ScanFields, FatCall, IsCall, Fields, FatBuf
  <2>3. IsCall(x) /\ x.vol = vol /\ x.reads \in Nat /\ x.fault.at \in Nat /\ x.buf = y
    BY <2>1 DEF FatCall, IsCall, Fields
  <2>4. DOMAIN y = FatBuf /\ y.sup = s /\ y.cached_fat = f.c.buf.cached_fat /\ y.fat_buf = f.c.buf.fat_buf
    BY <2>1 DEF FatCall, FatBuf
  <2> HIDE DEF g, x, y
  <2>5. FatCall(vol, s, x)
    BY <2>3, <2>4 DEF FatCall
  <2>6. FatWindow(vol, x.buf)
    <3>1. f.c.buf.sup = s
      BY <2>1 DEF FatCall
    <3>2. QED
      BY <2>1, <2>3, <2>4, <3>1 DEF FatWindow
  <2>7. QED
    BY <2>1, <2>2, <2>5, <2>6 DEF Scanned
<1> HIDE DEF g
<1>7. QED
  BY <1>1, <1>3, <1>5, <1>6 DEF Scanning

\* Component by component.
LEMMA FatComponentsLoop ==
  ASSUME NEW vol, NEW s, NEW n \in Nat, NEW x0, Scanned(vol, s, x0),
         \A x : Scanned(vol, s, x) /\ ~(x.verdict = "missing" \/ x.dirname = <<>>) => Scanned(vol, s, FatComponent(x))
  PROVE  Scanned(vol, s, FatComponents(x0, n))
<1> DEFINE Go(x) == IF x.verdict = "missing" \/ x.dirname = <<>> THEN x ELSE FatComponent(x)
           Fits(m, g) == g = [k \in 0..m |-> IF k = 0 THEN x0 ELSE Go(g[k - 1])]
           T == {m \in Nat : \E g : Fits(m, g)}
<1>1. \E g : Fits(n, g)
  <2>1. 0 \in T
    <3>1. Fits(0, [k \in 0..0 |-> x0])
      OBVIOUS
    <3>2. QED
      BY <3>1
  <2>2. ASSUME NEW m \in T PROVE m + 1 \in T
    <3>1. PICK g : Fits(m, g)
      OBVIOUS
    <3> DEFINE h == [k \in 0..(m + 1) |-> IF k = m + 1 THEN Go(g[m]) ELSE g[k]]
    <3> HIDE DEF Go
    <3>2. Fits(m + 1, h)
      BY <3>1
    <3> HIDE DEF Fits, h
    <3>3. m + 1 \in Nat
      OBVIOUS
    <3>4. QED
      BY <3>2, <3>3
  <2> HIDE DEF Fits
  <2>3. n \in T
    <3>1. n \in Nat /\ n \in 0..n
      BY FileSystemsAssumption
    <3> HIDE DEF T
    <3>2. QED
      BY <2>1, <2>2, <3>1, Upward
  <2>4. QED
    BY <2>3
<1> DEFINE at == CHOOSE g : Fits(n, g)
<1>2. Fits(n, at)
  <2> HIDE DEF Fits
  <2>1. QED
    BY <1>1
<1>3. FatComponents(x0, n) = at[n]
  BY DEF Repeat, FatComponents
<1> HIDE DEF at
<1>4. \A x : Scanned(vol, s, x) => Scanned(vol, s, Go(x))
  OBVIOUS
<1> HIDE DEF Go
<1>5. Scanned(vol, s, at[n])
  <2> DEFINE R == {m \in 0..n : Scanned(vol, s, at[m])}
  <2>0. n \in Nat
    BY FileSystemsAssumption
  <2>1. at[0] = x0 /\ \A k \in 1..n : at[k] = Go(at[k - 1])
    BY <1>2, <2>0
  <2>2. 0 \in R
    BY <2>0, <2>1
  <2>3. ASSUME NEW m \in R, m \in 0..(n - 1) PROVE m + 1 \in R
    <3>1. at[m + 1] = Go(at[m]) /\ Scanned(vol, s, at[m]) /\ m + 1 \in 0..n
      BY <2>0, <2>1, <2>3
    <3>2. QED
      BY <1>4, <3>1
  <2> HIDE DEF R
  <2>4. 0..n \subseteq R
    BY <2>0, <2>2, <2>3, Upward
  <2>5. QED
    BY <2>0, <2>4 DEF R
<1>6. QED
  BY <1>3, <1>5

\* fat_dir: a file that is found is read from its beginning, and no cluster of it
\* is known yet.
LEMMA FatDirRight ==
  ASSUME NEW vol, NEW s, NEW c, NEW path, SuperSound(s), FatCall(vol, s, c), FatWindow(vol, c.buf),
         Len(path) \in Nat, FatDir(c, path).ret = 1
  PROVE  LET d == FatDir(c, path)
         IN /\ FatCall(vol, s, d) /\ FatWindow(vol, d.buf)
            /\ d.filepos = 0 /\ d.buf.current_cluster_num = MAXINT
<1> DEFINE len == IF c.buf.sup.type = 64 THEN 0 ELSE c.buf.contig_size
           y == [c.buf EXCEPT !.file_cluster = c.buf.sup.root_cluster, !.contig_size = len]
           root == [c EXCEPT !.buf.file_cluster = c.buf.sup.root_cluster,
                             !.buf.contig_size = IF c.buf.sup.type = 64 THEN 0 ELSE @]
           x == FatScan(root, path)
           d == FatComponents(x, Len(path))
           m == [d.c EXCEPT !.ret = 0]
           f == Fail(d.c, ERR_BAD_FILETYPE)
           r == [d.c EXCEPT !.filepos = 0, !.buf.current_cluster_num = MAXINT, !.ret = 1]
<1>1. FatDir(c, path) = IF d.verdict = "missing" THEN m ELSE IF d.set.dir THEN f ELSE r
  BY DEF FatDir
<1>2. Scanned(vol, s, x)
  <2>1. IsCall(root) /\ root.vol = vol /\ root.reads \in Nat /\ root.fault.at \in Nat /\ root.buf = y
    BY DEF FatCall, IsCall, Fields, FatBuf
  <2>2. DOMAIN y = FatBuf /\ y.sup = s /\ y.cached_fat = c.buf.cached_fat /\ y.fat_buf = c.buf.fat_buf
    BY DEF FatCall, FatBuf
  <2> HIDE DEF root, y
  <2>3. FatCall(vol, s, root)
    BY <2>1, <2>2 DEF FatCall
  <2>4. FatWindow(vol, root.buf)
    <3>1. c.buf.sup = s
      BY DEF FatCall
    <3>2. QED
      BY <2>1, <2>2, <3>1 DEF FatWindow
  <2>5. DOMAIN x = ScanFields /\ x.next \in Kinds /\ x.c = root
    BY DEF FatScan, ScanFields, Kinds
  <2> HIDE DEF x
  <2>6. QED
    BY <2>3, <2>4, <2>5 DEF Scanned
<1> HIDE DEF x
<1>3. Scanned(vol, s, d)
  <2>1. ASSUME NEW z, Scanned(vol, s, z), ~(z.verdict = "missing" \/ z.dirname = <<>>)
        PROVE  Scanned(vol, s, FatComponent(z))
    BY <2>1, FatComponentRight
  <2> DEFINE n == Len(path)
  <2>2. n \in Nat
    OBVIOUS
  <2> HIDE DEF n
  <2>3. Scanned(vol, s, FatComponents(x, n))
    BY <1>2, <2>1, <2>2, FatComponentsLoop
  <2>4. QED
    BY <2>3 DEF n
<1> HIDE DEF d
<1>4. FatCall(vol, s, d.c) /\ (d.verdict = "missing" \/ FatWindow(vol, d.c.buf)) /\ IsCall(d.c)
  BY <1>3 DEF Scanned, FatCall
<1>5. m.ret = 0 /\ f.ret = 0
  BY <1>4 DEF Fail, IsCall, Fields
<1> HIDE DEF m, f
<1>6. FatDir(c, path) = r /\ d.verdict # "missing"
  BY <1>1, <1>5
<1>7. /\ FatCall(vol, s, r) /\ FatWindow(vol, r.buf)
      /\ r.filepos = 0 /\ r.buf.current_cluster_num = MAXINT
  <2> DEFINE b == [d.c.buf EXCEPT !.current_cluster_num = MAXINT]
  <2>1. IsCall(r) /\ r.vol = vol /\ r.reads \in Nat /\ r.fault.at \in Nat /\ r.buf = b /\ r.filepos = 0
    BY <1>4 DEF FatCall, IsCall, Fields
  <2>2. /\ DOMAIN b = FatBuf /\ b.sup = s /\ b.cached_fat = d.c.buf.cached_fat
        /\ b.fat_buf = d.c.buf.fat_buf /\ b.current_cluster_num = MAXINT
    BY <1>4 DEF FatCall, FatBuf
  <2> HIDE DEF r, b
  <2>3. d.c.buf.sup = s
    BY <1>4 DEF FatCall
  <2>4. QED
    BY <1>4, <1>6, <2>1, <2>2, <2>3 DEF FatCall, FatWindow
<1>8. QED
  BY <1>6, <1>7

-----------------------------------------------------------------------------
(* Mounting, opening and reading *)

\* ext2fs_mount of a volume that is not its own leaves a call for the next one.
LEMMA Ext2MountKeeps ==
  ASSUME NEW c, IsCall(c), c.reads \in Nat
  PROVE  LET d == Ext2Mount(c) IN IsCall(d) /\ d.vol = c.vol /\ d.fault = c.fault /\ d.reads \in Nat
<1> DEFINE r == Devread(c, SBLOCK, 0, 2 * SS)
           b == [inode |-> <<>>, data1 |-> <<>>, data2 |-> <<>>, mapblock1 |-> -1, mapblock2 |-> -1]
           d == [r EXCEPT !.ret = 1, !.buf = b]
           n == [r EXCEPT !.ret = 0]
<1>1. Ext2Mount(c) = n \/ Ext2Mount(c) = d
  BY DEF Ext2Mount
<1>2. IsCall(r) /\ r.vol = c.vol /\ r.fault = c.fault /\ r.reads = c.reads + 1
  BY DevreadKeeps
<1> HIDE DEF r, b
<1>3. /\ IsCall(n) /\ n.vol = c.vol /\ n.fault = c.fault /\ n.reads \in Nat
      /\ IsCall(d) /\ d.vol = c.vol /\ d.fault = c.fault /\ d.reads \in Nat
  BY <1>2 DEF IsCall, Fields
<1> HIDE DEF n, d
<1>4. QED
  BY <1>1, <1>3

\* The window of a volume that was just mounted is empty.
LEMMA FatMountRight ==
  ASSUME NEW vol, NEW c, IsCall(c), c.vol = vol, c.reads \in Nat, c.fault.at \in Nat,
         FatMount(c).ret = 1
  PROVE  LET d == FatMount(c)
             s == Superblock(vol.bpb)
         IN "bpb" \in DOMAIN vol /\ s # Refused /\ FatCall(vol, s, d) /\ FatWindow(vol, d.buf)
<1> DEFINE s == Superblock(vol.bpb)
           r == Devread(c, 0, 0, 1)
           t == Devread(r, s.fat_offset, 0, 1)
           zero == [k \in 1..FAT_BUF_DIGITS |-> 0]
           b == [sup |-> s, cached_fat |-> -1, fat_buf |-> zero,
                 file_cluster |-> 0, contig_size |-> 0, current_cluster_num |-> 0,
                 current_cluster |-> 0]
           n == [r EXCEPT !.ret = 0]
           m == [t EXCEPT !.ret = 0]
           d == [t EXCEPT !.ret = 1, !.buf = b]
<1>1. \/ FatMount(c) = n
      \/ FatMount(c) = m
      \/ FatMount(c) = d /\ "bpb" \in DOMAIN vol /\ s # Refused
  BY DEF FatMount
<1>2. IsCall(r) /\ r.vol = vol /\ r.fault = c.fault /\ r.reads = c.reads + 1
  BY DevreadKeeps
<1> HIDE DEF r
<1>3. IsCall(t) /\ t.vol = vol /\ t.fault = c.fault /\ t.reads = r.reads + 1
  BY <1>2, DevreadKeeps
<1> HIDE DEF t, s, zero
<1>4. n.ret # 1 /\ m.ret # 1
  BY <1>2, <1>3 DEF IsCall, Fields
<1>5. IsCall(d) /\ d.vol = vol /\ d.fault.at \in Nat /\ d.reads \in Nat /\ d.buf = b
  BY <1>2, <1>3 DEF IsCall, Fields
<1>6. DOMAIN b = FatBuf /\ b.sup = s /\ b.cached_fat = -1
  BY DEF FatBuf
<1> HIDE DEF n, m, d, b
<1>7. FatWindow(vol, d.buf)
  <2>1. ASSUME NEW q \in Nat PROVE (2 * SS) * q # -1
    <3>1. 2 * SS \in Nat
      BY Digits
    <3> DEFINE w == 2 * SS
    <3> HIDE DEF w
    <3>2. w * q \in Nat
      BY <3>1 DEF w
    <3>3. QED
      BY <3>2 DEF w
  <2>2. QED
    BY <1>5, <1>6, <2>1 DEF FatWindow
<1>8. FatCall(vol, s, d)
  BY <1>5, <1>6 DEF FatCall
<1>9. "bpb" \in DOMAIN vol /\ s # Refused /\ FatMount(c) = d
  BY <1>1, <1>4
<1>10. QED
  BY <1>7, <1>8, <1>9 DEF s

\* attempt_mount.
LEMMA MountedRight ==
  ASSUME NEW v \in DOMAIN Volumes, NEW f \in Faults[v]
  PROVE  LET m == AttemptMount(FirstCall(v, f))
             s == Superblock(Volumes[v].bpb)
         IN /\ m.fs = "ext2fs" => Ext2Right(Volumes[v], m.c)
            /\ m.fs = "fat" => /\ "bpb" \in DOMAIN Volumes[v] /\ s # Refused
                               /\ FatCall(Volumes[v], s, m.c) /\ FatWindow(Volumes[v], m.c.buf)
<1> DEFINE vol == Volumes[v]
           c == FirstCall(v, f)
           c1 == [c EXCEPT !.errnum = ERR_NONE]
           d1 == Ext2Mount(c1)
           c2 == [d1 EXCEPT !.errnum = ERR_NONE]
           d2 == FatMount(c2)
           c3 == [d2 EXCEPT !.errnum = ERR_NONE]
           d3 == IsoMount(c3)
           m == AttemptMount(c)
<1>1. m = IF d1.ret = 1 THEN [c |-> d1, fs |-> "ext2fs"]
          ELSE IF d2.ret = 1 THEN [c |-> d2, fs |-> "fat"]
          ELSE [c |-> d3, fs |-> IF d3.ret = 1 THEN "iso9660" ELSE "none"]
  <2> HIDE DEF c
  <2> DEFINE m0 == [c |-> c, fs |-> "none"]
             m1 == [c |-> d1, fs |-> IF d1.ret = 1 THEN "ext2fs" ELSE "none"]
             m2 == IF m1.fs # "none" THEN m1
                   ELSE [c |-> FatMount([m1.c EXCEPT !.errnum = ERR_NONE]),
                         fs |-> IF FatMount([m1.c EXCEPT !.errnum = ERR_NONE]).ret = 1 THEN "fat" ELSE "none"]
             m3 == IF m2.fs # "none" THEN m2
                   ELSE [c |-> IsoMount([m2.c EXCEPT !.errnum = ERR_NONE]),
                         fs |-> IF IsoMount([m2.c EXCEPT !.errnum = ERR_NONE]).ret = 1 THEN "iso9660" ELSE "none"]
  <2>1. AttemptMount(c) = m3
    BY DEF AttemptMount, MountFunc
  <2> HIDE DEF d1
  <2>2. CASE d1.ret = 1
    BY <2>1, <2>2
  <2>3. CASE d1.ret # 1
    <3>1. m1.fs = "none" /\ m1.c = d1
      BY <2>3
    <3> HIDE DEF m1
    <3>2. m2 = [c |-> d2, fs |-> IF d2.ret = 1 THEN "fat" ELSE "none"]
      BY <3>1
    <3> HIDE DEF m2, d2
    <3>3. QED
      BY <2>1, <2>3, <3>2
  <2>4. QED
    BY <2>2, <2>3
<1> HIDE DEF m
<1>2. /\ IsCall(c1) /\ c1.vol = vol /\ c1.fault = f /\ c1.reads \in Nat /\ c1.ret = 0
  BY DEF IsCall, Fields, FirstCall
<1>3. f.at \in Nat
  BY FileSystemsAssumption
<1> HIDE DEF c1
<1>4. IsCall(d1) /\ d1.vol = vol /\ d1.fault = f /\ d1.reads \in Nat
  BY <1>2, Ext2MountKeeps
<1>5. d1.ret = 1 => Ext2Right(vol, d1)
  <2>1. c1.ret # 1
    BY <1>2
  <2> HIDE DEF vol
  <2>2. QED
    BY <1>2, <2>1, Ext2MountRight
<1> HIDE DEF d1
<1>6. IsCall(c2) /\ c2.vol = vol /\ c2.fault = f /\ c2.reads \in Nat
  BY <1>4 DEF IsCall, Fields
<1> HIDE DEF c2
<1>7. d2.ret = 1 => /\ "bpb" \in DOMAIN vol /\ Superblock(vol.bpb) # Refused
                    /\ FatCall(vol, Superblock(vol.bpb), d2) /\ FatWindow(vol, d2.buf)
  <2> HIDE DEF vol
  <2>1. QED
    BY <1>3, <1>6, FatMountRight
<1> HIDE DEF d2, d3
<1>8. /\ m.fs = "ext2fs" => Ext2Right(vol, m.c)
      /\ m.fs = "fat" => /\ "bpb" \in DOMAIN vol /\ Superblock(vol.bpb) # Refused
                         /\ FatCall(vol, Superblock(vol.bpb), m.c) /\ FatWindow(vol, m.c.buf)
  <2>1. CASE d1.ret = 1
    BY <1>1, <1>5, <2>1
  <2>2. CASE d1.ret # 1 /\ d2.ret = 1
    BY <1>1, <1>7, <2>2
  <2>3. CASE d1.ret # 1 /\ d2.ret # 1
    BY <1>1, <2>3
  <2>4. QED
    BY <2>1, <2>2, <2>3
<1>9. QED
  BY <1>8 DEF m

\* What a FAT file system keeps of an open file; of an empty one, nothing is read.
FileOf(vol, chain, b, max) ==
  [vol |-> vol, s |-> b.sup, file |-> TRUE, chain |-> chain, max |-> max,
   first |-> b.file_cluster, contig |-> b.contig_size]
OnFat(vol, chain, b, pos, max) ==
  /\ max \in 0..MAXINT /\ pos \in 0..max
  /\ DOMAIN b = FatBuf /\ FatWindow(vol, b)
  /\ max = 0 => b.current_cluster_num = MAXINT
  /\ max > 0 => Sound(FileOf(vol, chain, b, max)) /\ Typed(b) /\ OnChain(b, chain)

\* A window that begins at a multiple of its digits begins with a group.
LEMMA WindowTyped ==
  ASSUME NEW b, b.cached_fat = -1 \/ (b.cached_fat \in Nat /\ b.cached_fat % (2 * SS) = 0)
  PROVE  Typed(b)
<1>1. CASE b.cached_fat = -1
  BY <1>1 DEF Typed
<1>2. CASE b.cached_fat # -1
  <2> DEFINE n == 2 * SS
             w == b.cached_fat
  <2>1. n \in Nat \ {0} /\ w \in Nat /\ w % n = 0
    BY <1>2, Digits
  <2> HIDE DEF n, w
  <2>2. w \div n \in Nat /\ w = n * (w \div n) + 0 /\ n * (w \div n) \in Nat
    BY <2>1, DivMod
  <2>3. w = n * (w \div n)
    BY <2>2
  <2>4. QED
    BY <2>2, <2>3 DEF Typed, n, w
<1>3. QED
  BY <1>1, <1>2

\* grub_read of a file on a FAT: what is kept is right, or a read has failed.
LEMMA FatGrubRead ==
  ASSUME NEW vol, NEW chain, NEW c, NEW n \in Nat,
         IsCall(c), c.vol = vol, c.reads \in Nat, c.fault.at \in Nat,
         OnFat(vol, chain, c.buf, c.filepos, c.filemax)
  PROVE  LET r == GrubRead("fat", c, n)
         IN /\ IsCall(r) /\ r.filemax = c.filemax
            /\ Hit(r) \/ OnFat(vol, chain, r.buf, r.filepos, r.filemax)
<1> DEFINE x == [c EXCEPT !.out = <<>>, !.ret = 0]
           a == [c EXCEPT !.errnum = ERR_NONE]
           len == Least(n, c.filemax - c.filepos)
           d == FatRead(a, len)
           r == GrubRead("fat", c, n)
           k == FileOf(vol, chain, c.buf, c.filemax)
           Served(y) ==
             /\ IsCall(y) /\ y.filemax = c.filemax
             /\ Hit(y) \/ OnFat(vol, chain, y.buf, y.filepos, y.filemax)
<1>1. r = IF c.filepos >= c.filemax THEN x ELSE d
  BY DEF GrubRead, ReadFunc
<1>2. /\ IsCall(x) /\ x.buf = c.buf /\ x.filepos = c.filepos /\ x.filemax = c.filemax
      /\ IsCall(a) /\ a.vol = vol /\ a.buf = c.buf /\ a.filepos = c.filepos /\ a.filemax = c.filemax
      /\ a.reads \in Nat /\ a.fault.at \in Nat
  BY DEF IsCall, Fields
<1> HIDE DEF x, a, r
<1>3. c.filemax \in 0..MAXINT /\ c.filepos \in 0..c.filemax /\ MAXINT \in Nat
  BY FileSystemsAssumption DEF OnFat
<1>4. ASSUME c.filepos >= c.filemax PROVE Served(r)
  BY <1>1, <1>2, <1>4
<1>5. ASSUME ~(c.filepos >= c.filemax) PROVE Served(r)
  <2>1. c.filemax > 0 /\ c.filepos \in Nat /\ c.filemax - c.filepos \in Nat
    BY <1>3, <1>5
  <2>2. len \in Nat /\ c.filepos + len <= c.filemax
    BY <1>3, <2>1 DEF Least
  <2> HIDE DEF len
  <2>3. /\ k.vol = vol /\ k.s = c.buf.sup /\ OfFile(k) /\ k.chain = chain /\ k.max = c.filemax
        /\ k.first = c.buf.file_cluster /\ k.contig = c.buf.contig_size
    BY DEF FileOf, OfFile
  <2>4. Sound(k) /\ Typed(c.buf) /\ OnChain(c.buf, chain) /\ DOMAIN c.buf = FatBuf /\ FatWindow(vol, c.buf)
    BY <2>1 DEF OnFat
  <2> HIDE DEF k
  <2>5. Valid(k, a)
    BY <1>2, <2>3, <2>4 DEF Valid, Fixed, FatCall
  <2>6. a.filepos + len <= MAXINT /\ a.filepos \in Nat
    BY <1>2, <1>3, <2>1, <2>2
  <2>7. ReadTo(k, d, a.filepos + len)
    BY <2>2, <2>4, <2>5, <2>6, FatReadRight
  <2> HIDE DEF d
  <2>8. CASE Lost(k, d)
    BY <1>1, <1>5, <2>3, <2>8 DEF Lost, Fixed, FatCall
  <2>9. CASE ~Lost(k, d)
    <3>1. /\ IsCall(d) /\ DOMAIN d.buf = FatBuf /\ d.buf.sup = k.s /\ d.filemax = k.max
          /\ d.buf.file_cluster = k.first /\ d.buf.contig_size = k.contig
          /\ FatWindow(vol, d.buf) /\ Typed(d.buf) /\ OnChain(d.buf, chain)
          /\ d.filepos \in Nat /\ d.filepos <= a.filepos + len
      BY <2>3, <2>7, <2>9 DEF ReadTo, Valid, Fixed, FatCall
    <3>2. FileOf(vol, chain, d.buf, d.filemax) = k
      BY <2>3, <3>1 DEF FileOf, k
    <3>3. d.filepos \in 0..d.filemax /\ d.filemax = c.filemax
      BY <1>2, <1>3, <2>2, <2>3, <3>1
    <3>4. OnFat(vol, chain, d.buf, d.filepos, d.filemax)
      BY <1>3, <2>1, <2>4, <3>1, <3>2, <3>3 DEF OnFat
    <3>5. QED
      BY <1>1, <1>5, <3>1, <3>3, <3>4
  <2>10. QED
    BY <2>8, <2>9
<1>6. Served(r)
  BY <1>4, <1>5
<1>7. QED
  BY <1>6 DEF r

\* grub_read of a file on ext2: what is kept is right.
LEMMA Ext2GrubRead ==
  ASSUME NEW vol, NEW c, NEW n, Ext2Right(vol, c)
  PROVE  Ext2Right(vol, GrubRead("ext2fs", c, n))
<1> DEFINE x == [c EXCEPT !.out = <<>>, !.ret = 0]
           a == [c EXCEPT !.errnum = ERR_NONE]
           d == Ext2Read(a, Least(n, c.filemax - c.filepos))
<1>1. GrubRead("ext2fs", c, n) = IF c.filepos >= c.filemax THEN x ELSE d
  BY DEF GrubRead, ReadFunc
<1>2. /\ IsCall(x) /\ x.vol = c.vol /\ x.buf = c.buf
      /\ IsCall(a) /\ a.vol = c.vol /\ a.buf = c.buf
  BY DEF Ext2Right, IsCall, Fields
<1> HIDE DEF x, a
<1>3. Ext2Right(vol, x) /\ Ext2Right(vol, a)
  BY <1>2 DEF Ext2Right
<1>4. Ext2Right(vol, d)
  BY <1>3, Ext2ReadRight DEF Going
<1>5. QED
  BY <1>1, <1>3, <1>4

\* The look at a file's header is a read from its beginning.
LEMMA LookKeeps ==
  ASSUME NEW fs, NEW c, IsCall(GrubRead(fs, c, SS))
  PROVE  LET r == GrubRead(fs, c, SS)
             e == LookAtHeader(fs, c)
         IN /\ e.buf = r.buf /\ e.filemax = r.filemax /\ e.filepos = 0 /\ IsCall(e) /\ e.vol = r.vol
            /\ Hit(r) => Hit(e)
<1> DEFINE r == GrubRead(fs, c, SS)
           e == LookAtHeader(fs, c)
<1>1. e = [r EXCEPT !.filepos = 0, !.errnum = ERR_NONE]
  BY DEF LookAtHeader
<1> HIDE DEF r, e
<1>2. /\ e.buf = r.buf /\ e.filemax = r.filemax /\ e.filepos = 0 /\ IsCall(e) /\ e.vol = r.vol
      /\ e.fault = r.fault /\ e.reads = r.reads
  BY <1>1 DEF IsCall, Fields, r
<1>3. Hit(r) => Hit(e)
  BY <1>2 DEF Hit
<1>4. QED
  BY <1>2, <1>3 DEF r, e

-----------------------------------------------------------------------------
(* The theorem *)

\* An open file is one that was asked for, and what is kept of it is right: on a FAT
\* until a read fails; on ext2 here always, as a block that cannot be read leaves the
\* buffer alone.
OpenedOn == volume \in DOMAIN Volumes /\ wanted \in Paths(volume) /\ wanted # NoFile
FSInv ==
  /\ wanted = NoFile => /\ opened = FALSE /\ buf = NoBuf /\ filepos = 0 /\ filemax = 0
                        /\ errnum = ERR_NONE
  /\ opened = TRUE =>
       /\ OpenedOn
       /\ fsys_type = "ext2fs" => DOMAIN buf = Ext2Buf /\ Ext2Maps(Volumes[volume], buf)
       /\ fsys_type = "fat" =>
            struck \/ OnFat(Volumes[volume], Volumes[volume].chain[wanted], buf, filepos, filemax)
  /\ opened \in BOOLEAN /\ struck \in BOOLEAN

\* Nothing is open at first.
LEMMA FSInit == Init => FSInv
BY DEF Init, FSInv

\* The invariant says what CachedMapRight says, of either file system.
LEMMA FSRight == FSInv => CachedMapRight
<1> SUFFICES ASSUME FSInv, opened, ~struck PROVE CachedMapRight
  BY DEF CachedMapRight
<1> DEFINE vol == Volumes[volume]
<1>1. ASSUME fsys_type = "fat", buf.current_cluster_num # MAXINT
      PROVE  buf.current_cluster = vol.chain[wanted][buf.current_cluster_num + 1]
  <2>1. OnFat(vol, vol.chain[wanted], buf, filepos, filemax)
    BY <1>1 DEF FSInv
  <2>2. filemax \in Nat /\ filemax # 0
    BY <1>1, <2>1, FileSystemsAssumption DEF OnFat
  <2>3. OnChain(buf, vol.chain[wanted])
    BY <2>1, <2>2 DEF OnFat
  <2>4. QED
    BY <1>1, <2>3 DEF OnChain
<1>2. ASSUME fsys_type = "ext2fs" PROVE Ext2Maps(vol, buf)
  BY <1>2 DEF FSInv
<1>3. QED
  BY <1>1, <1>2 DEF CachedMapRight, Ext2Maps

\* grub_open's call is attempt_mount's first.
LEMMA OpenCall ==
  ASSUME FSInv, wanted = NoFile, NEW v, NEW f
  PROVE  [Call(v, f) EXCEPT !.filepos = 0] = FirstCall(v, f)
<1> DEFINE c == Call(v, f)
<1>1. errnum = ERR_NONE /\ filemax = 0 /\ buf = NoBuf
  BY DEF FSInv
<1>2. c = [vol |-> Volumes[v], fault |-> f, reads |-> 0, errnum |-> ERR_NONE, filepos |-> filepos,
           filemax |-> 0, buf |-> NoBuf, out |-> <<>>, ret |-> 0, done |-> FALSE]
  BY <1>1, Zenon DEF Call
<1> HIDE DEF c
<1> DEFINE x == [c EXCEPT !.filepos = 0]
           y == FirstCall(v, f)
<1>3. x = y
  <2>1. x = [i \in Fields |-> x[i]] /\ y = [i \in Fields |-> y[i]]
    BY <1>2 DEF FirstCall, Fields
  <2>2. \A i \in Fields : x[i] = y[i]
    <3>1. /\ c.vol = Volumes[v] /\ c.fault = f /\ c.reads = 0 /\ c.errnum = ERR_NONE
          /\ c.filemax = 0 /\ c.buf = NoBuf /\ c.out = <<>> /\ c.ret = 0 /\ c.done = FALSE
          /\ DOMAIN c = Fields
      BY <1>2 DEF Fields
    <3>2. /\ y.vol = Volumes[v] /\ y.fault = f /\ y.reads = 0 /\ y.errnum = ERR_NONE /\ y.filepos = 0
          /\ y.filemax = 0 /\ y.buf = NoBuf /\ y.out = <<>> /\ y.ret = 0 /\ y.done = FALSE
      BY DEF FirstCall
    <3> HIDE DEF y
    <3>3. /\ x.vol = c.vol /\ x.fault = c.fault /\ x.reads = c.reads /\ x.errnum = c.errnum
          /\ x.filepos = 0 /\ x.filemax = c.filemax /\ x.buf = c.buf /\ x.out = c.out
          /\ x.ret = c.ret /\ x.done = c.done
      BY <3>1 DEF Fields
    <3> HIDE DEF x
    <3>4. QED
      BY <3>1, <3>2, <3>3 DEF Fields
  <2> HIDE DEF x, y
  <2>3. [i \in Fields |-> x[i]] = [i \in Fields |-> y[i]]
    BY <2>2
  <2>4. QED
    BY <2>1, <2>3
<1>4. QED
  BY <1>3 DEF c

\* grub_open: mount, look up, look at the header.
LEMMA OpenStep == ASSUME FSInv, FatSound, Open PROVE FSInv'
<1>1. PICK v \in DOMAIN Volumes : \E f \in Faults[v], path \in Paths(v) :
        \E m \in {AttemptMount([Call(v, f) EXCEPT !.filepos = 0])} :
          /\ volume' = v /\ wanted' = path /\ fsys_type' = m.fs /\ reply' = Nothing
          /\ IF m.fs = "none" \/ m.c.errnum # ERR_NONE THEN NotMounted(m)
             ELSE \E d \in {DirFunc(m.fs, m.c, path)} : LookedUp(m.fs, d)
  BY DEF Open
<1>2. PICK f \in Faults[v], path \in Paths(v) :
        \E m \in {AttemptMount([Call(v, f) EXCEPT !.filepos = 0])} :
          /\ volume' = v /\ wanted' = path /\ fsys_type' = m.fs /\ reply' = Nothing
          /\ IF m.fs = "none" \/ m.c.errnum # ERR_NONE THEN NotMounted(m)
             ELSE \E d \in {DirFunc(m.fs, m.c, path)} : LookedUp(m.fs, d)
  BY <1>1
<1> DEFINE vol == Volumes[v]
           m == AttemptMount(FirstCall(v, f))
           d == DirFunc(m.fs, m.c, path)
           e == LookAtHeader(m.fs, d)
<1>3. /\ volume' = v /\ wanted' = path /\ fsys_type' = m.fs
      /\ IF m.fs = "none" \/ m.c.errnum # ERR_NONE THEN NotMounted(m) ELSE LookedUp(m.fs, d)
  <2>1. wanted = NoFile
    BY DEF Open
  <2>2. [Call(v, f) EXCEPT !.filepos = 0] = FirstCall(v, f)
    BY <2>1, OpenCall
  <2>3. QED
    BY <1>2, <2>2
<1>4. path # NoFile /\ Len(path) \in Nat
  BY FileSystemsAssumption
<1>5. ASSUME opened' = FALSE, struck' \in BOOLEAN PROVE FSInv'
  BY <1>3, <1>4, <1>5 DEF FSInv
<1>6. CASE m.fs = "none" \/ m.c.errnum # ERR_NONE
  <2>1. opened' = FALSE /\ struck' \in BOOLEAN
    BY <1>3, <1>6 DEF NotMounted, Hit
  <2>2. QED
    BY <1>5, <2>1
<1>7. CASE LookedUp(m.fs, d) /\ opened' = FALSE
  <2>1. struck' \in BOOLEAN
    BY <1>7 DEF LookedUp, Hit
  <2>2. QED
    BY <1>5, <1>7, <2>1
<1>8. CASE ~(m.fs = "none" \/ m.c.errnum # ERR_NONE) /\ opened' # FALSE
  <2>1. /\ d.ret = 1 /\ opened' = TRUE /\ struck' = Hit(e) /\ Leave(e)
        /\ m.c.errnum = ERR_NONE
    BY <1>3, <1>8 DEF LookedUp
  <2>2. buf' = e.buf /\ filepos' = e.filepos /\ filemax' = e.filemax
    BY <2>1 DEF Leave
  <2>3. struck' \in BOOLEAN /\ (Hit(e) => struck')
    BY <2>1 DEF Hit
  <2>4. OpenedOn'
    BY <1>3, <1>4 DEF OpenedOn
  <2>5. /\ m.fs = "ext2fs" => Ext2Right(vol, m.c)
        /\ m.fs = "fat" => /\ "bpb" \in DOMAIN vol /\ Superblock(vol.bpb) # Refused
                           /\ FatCall(vol, Superblock(vol.bpb), m.c) /\ FatWindow(vol, m.c.buf)
    BY MountedRight
  <2>6. ASSUME m.fs = "ext2fs" PROVE DOMAIN buf' = Ext2Buf /\ Ext2Maps(vol, buf')
    <3>1. d = Ext2Dir(m.c, path)
      BY <2>6 DEF DirFunc
    <3> HIDE DEF m, vol, d, e
    <3>2. Ext2Right(vol, d)
      BY <2>5, <2>6, <3>1, Ext2DirRight
    <3>3. Ext2Right(vol, GrubRead("ext2fs", d, SS))
      BY <3>2, Ext2GrubRead
    <3>4. e.buf = GrubRead("ext2fs", d, SS).buf
      BY <2>6, <3>3, LookKeeps DEF Ext2Right, e
    <3>5. QED
      BY <2>2, <3>3, <3>4 DEF Ext2Right
  <2>7. ASSUME m.fs = "fat"
        PROVE  struck' \/ OnFat(vol, vol.chain[path], buf', filepos', filemax')
    <3> DEFINE chain == vol.chain[path]
               s == Superblock(vol.bpb)
               k == FileOf(vol, chain, d.buf, d.filemax)
               r == GrubRead("fat", d, SS)
    <3>1. d = FatDir(m.c, path)
      BY <2>7 DEF DirFunc
    <3>2. /\ SuperSound(s)
          /\ d.filemax \in 0..MAXINT
          /\ d.filemax > 0 => FileSound(vol, d, chain)
      <4>1. "bpb" \in DOMAIN vol /\ s # Refused
        BY <2>5, <2>7
      <4>2. /\ SuperSound(s)
            /\ m.fs = "fat" /\ m.c.errnum = ERR_NONE /\ FatDir(m.c, path).ret = 1 =>
                 /\ FatDir(m.c, path).filemax \in 0..MAXINT
                 /\ FatDir(m.c, path).filemax > 0 => FileSound(vol, FatDir(m.c, path), chain)
        BY <4>1 DEF FatSound
      <4> HIDE DEF m, d, vol, s, chain
      <4>3. QED
        BY <2>1, <2>7, <3>1, <4>2
    <3> HIDE DEF m, d, s, e, vol, chain
    <3>3. FatCall(vol, s, d) /\ FatWindow(vol, d.buf) /\ d.filepos = 0 /\ d.buf.current_cluster_num = MAXINT
      <4>1. FatCall(vol, s, m.c) /\ FatWindow(vol, m.c.buf)
        BY <2>5, <2>7 DEF s
      <4>2. SuperSound(s) /\ Len(path) \in Nat /\ FatDir(m.c, path).ret = 1
        BY <1>4, <2>1, <3>1, <3>2
      <4>3. /\ FatCall(vol, s, FatDir(m.c, path)) /\ FatWindow(vol, FatDir(m.c, path).buf)
            /\ FatDir(m.c, path).filepos = 0
            /\ FatDir(m.c, path).buf.current_cluster_num = MAXINT
        BY <4>1, <4>2, FatDirRight
      <4>4. QED
        BY <3>1, <4>3
    <3>4. OnFat(vol, chain, d.buf, d.filepos, d.filemax)
      <4>1. d.filemax \in 0..MAXINT /\ d.filepos \in 0..d.filemax
        BY <3>2, <3>3, FileSystemsAssumption
      <4>2. DOMAIN d.buf = FatBuf /\ d.buf.sup = s
        BY <3>3 DEF FatCall
      <4>3. ASSUME d.filemax > 0 PROVE Sound(k) /\ Typed(d.buf) /\ OnChain(d.buf, chain)
        <5>1. FileSound(vol, d, chain)
          BY <3>2, <4>3
        <5>2. /\ k.vol = vol /\ k.s = s /\ OfFile(k) /\ k.chain = chain
              /\ k.first = d.buf.file_cluster /\ k.contig = d.buf.contig_size
          BY <4>2 DEF FileOf, OfFile
        <5> HIDE DEF k
        <5>3. Sound(k)
          BY <3>2, <4>2, <5>1, <5>2 DEF Sound, FileSound, InOneRun, Contiguous
        <5>4. Typed(d.buf)
          BY <5>1, WindowTyped DEF FileSound
        <5>5. OnChain(d.buf, chain)
          BY <3>3 DEF OnChain
        <5>6. QED
          BY <5>3, <5>4, <5>5
      <4>4. QED
        BY <3>3, <4>1, <4>2, <4>3 DEF OnFat
    <3>5. /\ IsCall(r) /\ r.filemax = d.filemax
          /\ Hit(r) \/ OnFat(vol, chain, r.buf, r.filepos, r.filemax)
      <4>1. IsCall(d) /\ d.vol = vol /\ d.reads \in Nat /\ d.fault.at \in Nat /\ SS \in Nat
        BY <3>3, FileSystemsAssumption DEF FatCall
      <4>2. QED
        BY <3>4, <4>1, FatGrubRead
    <3>6. /\ e.buf = r.buf /\ e.filemax = r.filemax /\ e.filepos = 0
          /\ Hit(r) => Hit(e)
      BY <2>7, <3>5, LookKeeps DEF e
    <3> HIDE DEF r
    <3>7. OnFat(vol, chain, r.buf, r.filepos, r.filemax) => OnFat(vol, chain, buf', filepos', filemax')
      <4>1. r.filemax \in 0..MAXINT => 0 \in 0..r.filemax
        BY FileSystemsAssumption
      <4>2. QED
        BY <2>2, <3>6, <4>1 DEF OnFat
    <3>8. QED
      BY <2>3, <3>5, <3>6, <3>7 DEF chain
  <2>8. wanted' # NoFile
    BY <1>3, <1>4
  <2> HIDE DEF m, d, e
  <2>9. QED
    BY <1>3, <2>1, <2>3, <2>4, <2>6, <2>7, <2>8 DEF FSInv
<1>9. QED
  BY <1>3, <1>6, <1>7, <1>8

\* grub_read.
LEMMA ReadStep == ASSUME FSInv, Read PROVE FSInv'
<1>1. PICK n \in Lengths, f \in Faults[volume] :
        /\ Leave(GrubRead(fsys_type, Call(volume, f), n))
        /\ struck' = (struck \/ Hit(GrubRead(fsys_type, Call(volume, f), n)))
  BY DEF Read
<1> DEFINE c == Call(volume, f)
           r == GrubRead(fsys_type, c, n)
           vol == Volumes[volume]
           chain == vol.chain[wanted]
<1>2. /\ opened = TRUE /\ opened' = TRUE /\ volume' = volume /\ wanted' = wanted
      /\ fsys_type' = fsys_type /\ OpenedOn
  BY DEF Read, FSInv
<1>3. buf' = r.buf /\ filepos' = r.filepos /\ filemax' = r.filemax
  BY <1>1 DEF Leave
<1>4. struck' \in BOOLEAN /\ (Hit(r) => struck') /\ (struck => struck')
  BY <1>1 DEF FSInv
<1>5. /\ IsCall(c) /\ c.vol = vol /\ c.fault.at \in Nat /\ c.reads \in Nat
      /\ c.buf = buf /\ c.filepos = filepos /\ c.filemax = filemax
  <2>1. f.at \in Nat
    BY <1>2, FileSystemsAssumption DEF OpenedOn
  <2>2. QED
    BY <2>1 DEF Call, IsCall, Fields
<1>6. n \in Nat
  BY FileSystemsAssumption
<1> HIDE DEF c, vol, chain
<1>7. ASSUME fsys_type = "ext2fs" PROVE DOMAIN buf' = Ext2Buf /\ Ext2Maps(vol, buf')
  <2>1. Ext2Right(vol, c)
    BY <1>2, <1>5, <1>7 DEF FSInv, Ext2Right, vol
  <2>2. Ext2Right(vol, GrubRead("ext2fs", c, n))
    BY <2>1, Ext2GrubRead
  <2>3. QED
    BY <1>3, <1>7, <2>2 DEF Ext2Right
<1>8. ASSUME fsys_type = "fat", ~struck
      PROVE  struck' \/ OnFat(vol, chain, buf', filepos', filemax')
  <2>1. OnFat(vol, chain, buf, filepos, filemax)
    BY <1>2, <1>8 DEF FSInv, vol, chain
  <2>2. /\ IsCall(GrubRead("fat", c, n)) /\ GrubRead("fat", c, n).filemax = c.filemax
        /\ \/ Hit(GrubRead("fat", c, n))
           \/ OnFat(vol, chain, GrubRead("fat", c, n).buf, GrubRead("fat", c, n).filepos,
                    GrubRead("fat", c, n).filemax)
    BY <1>5, <1>6, <2>1, FatGrubRead
  <2>3. QED
    BY <1>3, <1>4, <1>8, <2>2
<1>9. OpenedOn'
  BY <1>2 DEF OpenedOn
<1>10. wanted' # NoFile
  BY <1>2 DEF OpenedOn
<1> HIDE DEF r
<1>11. QED
  BY <1>2, <1>4, <1>7, <1>8, <1>9, <1>10 DEF FSInv, vol, chain

\* A seek moves the file pointer and leaves fat_read to find the cluster.
LEMMA SeekStep == ASSUME FSInv, Seek PROVE FSInv'
<1> DEFINE vol == Volumes[volume]
           chain == vol.chain[wanted]
<1>1. /\ opened = TRUE /\ filepos' \in 0..filemax
      /\ UNCHANGED <<volume, fsys_type, buf, filemax, errnum, wanted, opened, struck>>
  BY DEF Seek, FSInv
<1>2. OnFat(vol, chain, buf, filepos, filemax) => OnFat(vol, chain, buf, filepos', filemax)
  BY <1>1 DEF OnFat
<1>3. OpenedOn /\ OpenedOn'
  BY <1>1 DEF FSInv, OpenedOn
<1> HIDE DEF vol, chain
<1>4. QED
  BY <1>1, <1>2, <1>3 DEF FSInv, OpenedOn, vol, chain

\* Every step keeps the invariant.
LEMMA FSStep == ASSUME FSInv, FatSound, [Next]_vars PROVE FSInv'
<1>1. CASE Open
  BY <1>1, OpenStep
<1>2. CASE Seek
  BY <1>2, SeekStep
<1>3. CASE Read
  BY <1>3, ReadStep
<1>4. CASE UNCHANGED vars
  BY <1>4 DEF FSInv, OpenedOn, vars
<1>5. QED
  BY <1>1, <1>2, <1>3, <1>4 DEF Next

\* What fat_read and ext2fs_block_map keep between calls (the current cluster and its
\* number, the indirect blocks and theirs) is what the FAT and the inode on the disk
\* say, after every order of opens, seeks and reads, until a read of the disk fails;
\* for every set of sound volumes, every path, failure and length.
THEOREM CachedMap == ASSUME FatSound PROVE Spec => []CachedMapRight
<1>1. FSInv /\ [Next]_vars => FSInv'
  BY FSStep
<1>2. QED
  BY FSInit, FSRight, <1>1, PTL DEF Spec
=============================================================================
