-------------------------------- MODULE Ext2Fs --------------------------------
(***************************************************************************)
(* fsys_ext2fs.c: ext2, ext3 and ext4.  A volume's blocks hold cells of    *)
(* files, entries of directories, block numbers, inodes, group descriptors *)
(* or a node of an extent tree; a path is a sequence of names, the first   *)
(* one Slash if it is absolute.                                            *)
(***************************************************************************)
EXTENDS Device

CONSTANTS
  NDIR,              \* EXT2_NDIR_BLOCKS
  ADDR,              \* EXT2_ADDR_PER_BLOCK
  MAX_LINK_COUNT,
  PATH_MAX,
  LoopLimit          \* bound: entries of a directory, inodes of a path, blocks of
                     \* a read, levels of an extent tree

EXT2_ROOT_INO == 2
Overwritten == [k \in 1..ADDR |-> 0]
Slash == "/"
Zero == "0"     \* a byte of a hole

-----------------------------------------------------------------------------
(* ext2fs_mount *)

SBLOCK == 2
MountableExt2(s) ==
  /\ s.inodes_count # 0 /\ s.blocks_count # 0
  /\ s.blocks_per_group # 0 /\ s.inodes_per_group # 0
  /\ s.first_data_block \in {0, 1}
  /\ s.log_block_size <= 4
  /\ (s.first_data_block = 1) <=> (s.log_block_size = 0)
  /\ s.inodes_per_block > 0

Ext2Mount(c) ==
  LET After(d) ==
        IF d.errnum # ERR_NONE \/ "super" \notin DOMAIN d.vol THEN [d EXCEPT !.ret = 0]
        ELSE IF ~MountableExt2(d.vol.super) THEN [d EXCEPT !.ret = 0]
        ELSE [d EXCEPT !.ret = 1,
                !.buf = [inode |-> <<>>, data1 |-> <<>>, data2 |-> <<>>,
                         mapblock1 |-> -1, mapblock2 |-> -1]]
  IN After(Devread(c, SBLOCK, 0, 2 * SS))

-----------------------------------------------------------------------------
(* The map from a file's blocks to the disk's. *)

BlockSectors(c) == 2 * 2^c.vol.super.log_block_size
BlockSize(c) == SS * BlockSectors(c)

\* ext2_rdfsb: a block into one of the buffers, or not; done if it was not.
ReadBlock(c, block) == Devread(c, block * BlockSectors(c), 0, BlockSize(c))
Corrupt(c) == [Fail(c, ERR_FSYS_CORRUPT) EXCEPT !.done = TRUE]
ReadData1(c, block) ==
  LET After(d) == IF d.errnum = ERR_NONE THEN [d EXCEPT !.buf.data1 = d.vol.block[block]]
                  ELSE Corrupt(d)
  IN After(ReadBlock(c, block))
ReadData2(c, block) ==
  LET After(d) == IF d.errnum = ERR_NONE THEN [d EXCEPT !.buf.data2 = d.vol.block[block]]
                  ELSE Corrupt(d)
  IN After(ReadBlock(c, block))

\* "return -1", which ext2fs_read takes for a block number beyond every disk.
NoBlock == -1
Mapped(c, Block(_)) ==
  [c |-> [c EXCEPT !.done = FALSE], block |-> IF c.done THEN NoBlock ELSE Block(c)]

\* Unless the step before it failed.
Then(c, Step(_)) == IF c.done THEN c ELSE Step(c)

\* The indirect block of the inode that DATABLOCK1 should hold, read unless
\* mapblock1 says it is there.
Indirect(c, which) ==
  Then(IF c.buf.mapblock1 = which THEN c ELSE ReadData1(c, c.buf.inode.i_block[NDIR + which]),
       LAMBDA d : [d EXCEPT !.buf.mapblock1 = which])

\* Mutant: mapblock2 is not looked at again when DATABLOCK1 has changed.
SecondStale(c, bnum) ==
  Then(IF c.buf.mapblock2 # -1 THEN c ELSE ReadData2(c, bnum),
       LAMBDA d : [d EXCEPT !.buf.mapblock2 = bnum])

\* A block that it points to, in DATABLOCK2.
Second(c, bnum) ==
  Then(IF c.buf.mapblock2 = bnum THEN c ELSE ReadData2(c, bnum),
       LAMBDA d : [d EXCEPT !.buf.mapblock2 = bnum])

SingleMap(c, n) == Mapped(Indirect(c, 1), LAMBDA d : d.buf.data1[n + 1])

DoubleMap(c, n) ==
  Mapped(Then(Indirect(c, 2), LAMBDA d : Second(d, d.buf.data1[(n \div ADDR) + 1])),
         LAMBDA e : e.buf.data2[(n % ADDR) + 1])

\* Nothing of it is kept in DATABLOCK2.
TripleMap(c, n) ==
  Mapped(Then(Then(Indirect([c EXCEPT !.buf.mapblock2 = -1], 3),
                   LAMBDA d : ReadData2(d, d.buf.data1[(n \div (ADDR * ADDR)) + 1])),
              LAMBDA e : ReadData2(e, e.buf.data2[((n \div ADDR) % ADDR) + 1])),
         LAMBDA f : f.buf.data2[(n % ADDR) + 1])

Ext2BlockMap(c, n) ==
  IF n < NDIR THEN Mapped(c, LAMBDA d : d.buf.inode.i_block[n + 1])
  ELSE IF n < NDIR + ADDR THEN SingleMap(c, n - NDIR)
  ELSE IF n < NDIR + ADDR + ADDR * ADDR THEN DoubleMap(c, n - NDIR - ADDR)
  ELSE TripleMap(c, n - NDIR - ADDR - ADDR * ADDR)

\* ext4_ext_binsearch, ext4_ext_binsearch_idx: the entry at or before a block.
Closest(entries, n) ==
  LET search[l \in Nat, r \in Nat] ==
        IF l > r THEN l - 1
        ELSE LET m == l + (r - l) \div 2
             IN IF n < entries[m].block THEN search[l, m - 1] ELSE search[m + 1, r]
  IN entries[search[2, Len(entries)]]

\* One level of the tree, into DATABLOCK1.
Descend(x, n) ==
  LET After(d) == IF d.done THEN [x EXCEPT !.c = d] ELSE [x EXCEPT !.c = d, !.node = d.buf.data1]
  IN IF ~x.node.magic THEN [x EXCEPT !.c = Corrupt(@)]
     ELSE After(ReadData1(x.c, Closest(x.node.entries, n).leaf))

\* Down to a leaf.
LeafOf(x, n) ==
  Repeat(LoopLimit, LAMBDA y : Descend(y, n), LAMBDA y : y.c.done \/ y.node.depth = 0, x)

\* An extent; a block behind it (but for the first one) is an error.
InExtent(c, ex, n) ==
  Mapped(IF ex.block + ex.len < n THEN Corrupt(c) ELSE c, LAMBDA d : ex.start + n - ex.block)

Ext4BlockMap(c, n) ==
  LET root == c.buf.inode.extents
      AtLeaf(x) == IF ~root.magic \/ x.c.done THEN Mapped(Corrupt(x.c), LAMBDA d : NoBlock)
                 ELSE InExtent(x.c, Closest(x.node.entries, n), n)
  IN AtLeaf(LeafOf([c |-> c, node |-> root], n))

BlockMap(c, n) == IF c.buf.inode.extended THEN Ext4BlockMap(c, n) ELSE Ext2BlockMap(c, n)

-----------------------------------------------------------------------------
(* ext2fs_read *)

\* One turn of its loop.  A block that cannot be mapped is read where it cannot
\* be; a block 0 is a hole.
Ext2Piece(c, end) ==
  LET offset == c.filepos % BlockSize(c)
      size == Least(BlockSize(c) - offset, end - c.filepos)
      After(d, block) ==
        [d EXCEPT !.filepos = @ + size,
           !.out = @ \o IF d.errnum = ERR_NONE
                        THEN SubSeq(d.vol.block[block], offset + 1, offset + size)
                        ELSE Unknown(size)]
      Piece(m) ==
        IF m.block = 0 THEN [m.c EXCEPT !.out = @ \o [k \in 1..size |-> Zero], !.filepos = @ + size]
        ELSE After(Devread(m.c, m.block * BlockSectors(c), offset, size), m.block)
  IN Piece(BlockMap(c, c.filepos \div BlockSize(c)))

Ext2Pieces(c, end) ==
  Repeat(LoopLimit, LAMBDA x : Ext2Piece(x, end), LAMBDA x : x.filepos = end, c)
Ext2Read(c, len) ==
  Return(Ext2Pieces([c EXCEPT !.out = <<>>, !.ret = 0, !.done = FALSE], c.filepos + len))

-----------------------------------------------------------------------------
(* ext2fs_dir *)

\* Where an inode's group descriptor is.
GroupBlock(s, group) ==
  LET meta == s.meta_bg /\ group >= s.first_meta_bg
      g == IF meta THEN (group - s.first_meta_bg) % s.desc_per_block ELSE group
  IN [block |-> IF meta
                THEN (g \div s.desc_per_block) + (group - g) * s.blocks_per_group +
                     1 + IF s.first_meta_bg = 0 THEN s.first_data_block ELSE 0
                ELSE (g \div s.desc_per_block) + 1 + s.first_data_block,
      desc |-> g % s.desc_per_block]

\* "look up an inode": its descriptor, then its block of the inode table, which
\* overwrites DATABLOCK1, then the inode alone.
Reset(b) == [b EXCEPT !.mapblock1 = -1, !.mapblock2 = -1]
InodeRead(c, ino, block) ==
  LET After(d) ==
        IF d.errnum # ERR_NONE THEN [d EXCEPT !.ret = 0, !.done = TRUE]
        ELSE [d EXCEPT !.buf = [Reset(@) EXCEPT !.data1 = Overwritten, !.inode =
                           d.vol.block[block][((ino - 1) % d.vol.super.inodes_per_block) + 1]]]
  IN After(ReadBlock(c, block))
GetInode(c, ino) ==
  LET s == c.vol.super
      g == GroupBlock(s, (ino - 1) \div s.inodes_per_group)
      After(d) ==
        IF d.errnum # ERR_NONE THEN [d EXCEPT !.ret = 0, !.done = TRUE]
        ELSE InodeRead(d, ino, d.vol.block[g.block][g.desc + 1] +
                                 ((ino - 1) % s.inodes_per_group) \div s.inodes_per_block)
  IN After(ReadBlock(c, g.block))

\* The walk: the inode and its directory, what is left of the path, how many
\* links have been followed.
Walk(c, path) == [c |-> c, ino |-> EXT2_ROOT_INO, updir |-> EXT2_ROOT_INO, path |-> path,
                  links |-> 0, verdict |-> "more"]
Stop(w, c, e) == [w EXCEPT !.c = [Fail(c, e) EXCEPT !.done = FALSE], !.verdict = "missing"]

\* "If we've got a symbolic link, then chase it": the rest of the path goes
\* behind what the link says.
Base(w, target) == IF Head(target) = Slash THEN EXT2_ROOT_INO ELSE w.updir
FollowLink(w, c, target) ==
  [w EXCEPT !.c = c, !.links = @ + 1, !.path = target \o @,
            !.ino = Base(w, target),
            !.updir = IF Head(target) = Slash THEN EXT2_ROOT_INO ELSE @]
Chase(w, c) ==
  LET inode == c.buf.inode
      After(r) == IF r.ret = 0 THEN Stop(w, r, r.errnum)
                  ELSE FollowLink(w, [r EXCEPT !.filepos = 0], r.out)
  IN IF w.links + 1 > MAX_LINK_COUNT THEN Stop(w, c, ERR_SYMLINK_LOOP)
     ELSE IF inode.size + Len(w.path) > PATH_MAX - 2
     THEN Stop(w, [c EXCEPT !.filemax = inode.size], ERR_FILELENGTH)
     ELSE IF inode.fast THEN FollowLink(w, [c EXCEPT !.filemax = inode.size], inode.target)
     ELSE After(Ext2Read([c EXCEPT !.filemax = inode.size], inode.size))

\* One turn over a directory's entries; DATABLOCK2 is used for the directory.
Entered(x, d, name) ==
  LET e == d.buf.data2[(x.loc % BlockSize(d)) + 1]
  IN IF d.done THEN [x EXCEPT !.c = [d EXCEPT !.done = FALSE], !.verdict = "missing"]
     ELSE [x EXCEPT !.c = d, !.loc = @ + e.rec_len, !.ino = e.inode,
                    !.verdict = IF e.inode # 0 /\ e.name = name THEN "found" ELSE @]
NextDirEntry(x, name) ==
  LET Block(m) ==
        IF m.block = NoBlock
        THEN [x EXCEPT !.c = [m.c EXCEPT !.buf.mapblock2 = -1], !.verdict = "missing"]
        ELSE Entered(x, ReadData2([m.c EXCEPT !.buf.mapblock2 = -1], m.block), name)
  IN IF x.loc >= x.c.buf.inode.size
     THEN [x EXCEPT !.c = Fail(@, ERR_FILE_NOT_FOUND), !.verdict = "missing"]
     ELSE Block(BlockMap(x.c, x.loc \div BlockSize(x.c)))

NextDirEntries(x, name) ==
  Repeat(LoopLimit, LAMBDA y : NextDirEntry(y, name), LAMBDA y : y.verdict # "more", x)

\* The directory is looked through for the path's next name.
LookUp(w, c) ==
  LET After(x) == IF x.verdict # "found" THEN Stop(w, x.c, x.c.errnum)
                  ELSE [w EXCEPT !.c = x.c, !.ino = x.ino, !.updir = w.ino, !.path = Tail(@)]
  IN IF c.buf.inode.size = 0 \/ c.buf.inode.mode # "dir" THEN Stop(w, c, ERR_BAD_FILETYPE)
     ELSE After(NextDirEntries([c |-> c, loc |-> 0, ino |-> 0, verdict |-> "more"], Head(w.path)))

\* One turn of the main loop: an inode, and what it is.
AtInode(w, c) ==
  IF c.done THEN Stop(w, c, c.errnum)
  ELSE IF c.buf.inode.mode = "link" THEN Chase(w, c)
  ELSE IF w.path # <<>> THEN LookUp([w EXCEPT !.path = SelectSeq(@, LAMBDA n : n # Slash)], c)
  ELSE IF c.buf.inode.mode # "file" THEN Stop(w, c, ERR_BAD_FILETYPE)
  ELSE [w EXCEPT !.c = [c EXCEPT !.filemax = c.buf.inode.size, !.ret = 1], !.verdict = "found"]
NextInode(w) == AtInode(w, GetInode(w.c, w.ino))

Walked(w) == Repeat(LoopLimit, NextInode, LAMBDA v : v.verdict # "more", w)
Ext2Dir(c, path) == Walked(Walk([c EXCEPT !.done = FALSE], path)).c
=============================================================================
