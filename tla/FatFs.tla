-------------------------------- MODULE FatFs --------------------------------
(***************************************************************************)
(* fsys_fat.c: FAT12, FAT16, FAT32 and exFAT.  A digit stands for the four *)
(* bits the code counts the FAT in, a cell of a directory for an entry of  *)
(* 32 bytes.                                                               *)
(***************************************************************************)
EXTENDS Device, FiniteSetsExt

CONSTANTS
  Radix,        \* values of a digit
  DirLimit      \* bound: entries looked at in one directory

-----------------------------------------------------------------------------
(* fat_mount *)

Refused == [type |-> 0]

\* Entries from here on end a chain: 0xff8, 0xfff8, 0xffffff8.
EofMarker(digits) == Radix^digits - Radix \div 2
FAT_MAX_12BIT_CLUST == EofMarker(3) - 1

Super(type, size, b, fat, fatlen, data, clusters) ==
  [type |-> type, size |-> size, fat_offset |-> fat, fat_length |-> fatlen,
   data_offset |-> data, num_clust |-> clusters, spc |-> b.sects_per_clust,
   eof |-> CASE type = 64 -> Radix^8 - 1 [] type = 32 -> EofMarker(7) [] OTHER -> EofMarker(size),
   root_offset |-> 0, root_max |-> 0, root_cluster |-> MAXINT]

\* "Now do some sanity checks".
Sane(s) ==
  /\ s.num_clust > 2
  /\ (s.size * s.num_clust) \div (2 * SS) <= s.fat_length

Checked(s) == IF Sane(s) THEN s ELSE Refused

FatSuper(b) ==
  LET fatlen == IF b.fat_length # 0 THEN b.fat_length ELSE b.fat32_length
      root == b.reserved_sects + b.num_fats * fatlen
      data == root + ((b.dir_entries + SS - 1) \div SS)
      clusters == 2 + ((b.sectors - data) \div b.sects_per_clust)
      large == b.fat_length = 0
      fat == b.reserved_sects + IF large /\ b.mirror_off THEN b.active_fat * fatlen ELSE 0
      type == IF large THEN 32 ELSE IF clusters > FAT_MAX_12BIT_CLUST THEN 16 ELSE 12
      size == CASE type = 32 -> 8 [] type = 16 -> 4 [] type = 12 -> 3
      s == Super(type, size, b, fat, fatlen, data, clusters)
  IN IF \/ b.sects_per_clust = 0 \/ b.bytes_per_sect # SS \/ b.reserved_sects = 0
        \/ b.num_fats \notin {1, 2}
        \/ large /\ (b.dir_entries # 0 \/ (b.mirror_off /\ b.active_fat >= b.num_fats))
        \/ ~large /\ b.dir_entries = 0
     THEN Refused
     ELSE Checked(IF large THEN [s EXCEPT !.root_cluster = b.root_cluster]
                  ELSE [s EXCEPT !.root_offset = root, !.root_max = b.dir_entries])

\* label_exfat.
ExfatSuper(b) ==
  LET fat == b.fat_sector_start + IF b.second_fat THEN b.fat_sector_count ELSE 0
      s == Super(64, 8, b, fat, b.fat_sector_count, b.cluster_sector_start, b.cluster_count)
  IN IF \/ b.bytes_per_sect # 0 \/ b.num_fats \notin {1, 2} \/ (b.second_fat /\ b.num_fats < 2)
     THEN Refused
     ELSE Checked([s EXCEPT !.root_cluster = b.rootdir_cluster])

Superblock(b) == IF b.exfat THEN ExfatSuper(b) ELSE FatSuper(b)

FAT_BUF_DIGITS == 4 * 2 * SS

\* fat_mount reads the boot sector and the first FAT entry.
FatMount(c) ==
  LET Ready(d, s) ==
        IF d.errnum # ERR_NONE THEN [d EXCEPT !.ret = 0]
        ELSE [d EXCEPT !.ret = 1,
                !.buf = [sup |-> s, cached_fat |-> -1, fat_buf |-> [k \in 1..FAT_BUF_DIGITS |-> 0],
                         file_cluster |-> 0, contig_size |-> 0, current_cluster_num |-> 0,
                         current_cluster |-> 0]]
      Boot(d, s) ==
        IF d.errnum # ERR_NONE \/ "bpb" \notin DOMAIN c.vol THEN [d EXCEPT !.ret = 0]
        ELSE IF s = Refused THEN [d EXCEPT !.ret = 0]
        ELSE Ready(Devread(d, s.fat_offset, 0, 1), s)
  IN Boot(Devread(c, 0, 0, 1), Superblock(c.vol.bpb))

-----------------------------------------------------------------------------
(* fat_read *)

Clust(s) == s.spc * SS                    \* bytes in a cluster
SectorOf(s, cluster) == s.data_offset + (cluster - 2) * s.spc

\* FAT_BUF holds four sectors' digits from cached_fat on.
FatDigit(vol, sector, i) ==
  LET at == sector + i \div (2 * SS)
  IN IF at \in DOMAIN vol.fat THEN vol.fat[at][(i % (2 * SS)) + 1] ELSE 0
FatDigits(vol, sector) == [i \in 1..FAT_BUF_DIGITS |-> FatDigit(vol, sector, i - 1)]

\* An entry is out of the cached window.
Outside(b, pos) ==
  b.cached_fat < 0 \/ pos < b.cached_fat \/ pos + b.sup.size > b.cached_fat + FAT_BUF_DIGITS

\* cached_fat names the new window before it is read.
LoadFat(c, pos) ==
  LET window == pos - (pos % (2 * SS))
      sector == c.buf.sup.fat_offset + window \div (2 * SS)
      After(d) == IF d.errnum = ERR_NONE THEN [d EXCEPT !.buf.fat_buf = FatDigits(c.vol, sector)]
                  ELSE [d EXCEPT !.ret = 0, !.done = TRUE]
  IN After(Devread([c EXCEPT !.buf.cached_fat = window], sector, 0, 4 * SS))

\* The entry's value, least digit first.
Value(digits) == FoldRight(LAMBDA d, n : d + Radix * n, digits, 0)
EntryAt(b, pos) == Value([k \in 1..b.sup.size |-> b.fat_buf[(pos - b.cached_fat) + k]])

\* "calculate next cluster": one link of the chain; done if it ends here.
Follow(d, next) ==
  IF d.done THEN d
  ELSE IF next >= d.buf.sup.eof THEN [d EXCEPT !.ret = Len(d.out), !.done = TRUE]
  ELSE IF next < 2 \/ next >= d.buf.sup.num_clust
  THEN [Fail(d, ERR_FSYS_CORRUPT) EXCEPT !.done = TRUE]
  ELSE [d EXCEPT !.buf.current_cluster = next, !.buf.current_cluster_num = @ + 1]
Link(c) ==
  LET pos == c.buf.current_cluster * c.buf.sup.size
      Within(d) == Follow(d, EntryAt(d.buf, pos))
  IN Within(IF Outside(c.buf, pos) THEN LoadFat(c, pos) ELSE c)

\* Back to the file's first cluster for a position before the current one.
\* Mutant: not for the cluster just before.
RewindLate(b, logical) ==
  IF logical + 1 < b.current_cluster_num
  THEN [b EXCEPT !.current_cluster_num = 0, !.current_cluster = b.file_cluster] ELSE b
Rewind(b, logical) ==
  IF logical < b.current_cluster_num
  THEN [b EXCEPT !.current_cluster_num = 0, !.current_cluster = b.file_cluster] ELSE b

\* Along the chain to a cluster.
Along(c, logical) ==
  Repeat(logical, Link, LAMBDA x : x.done \/ x.buf.current_cluster_num >= logical, c)

\* One turn of the loop: along the chain to filepos, then the data up to the
\* cluster's end.
FatPiece(c, end) ==
  LET logical == c.filepos \div Clust(c.buf.sup)
      offset == c.filepos % Clust(c.buf.sup)
      Piece(d) == IF d.done THEN d
                  ELSE ReadPiece(d, SectorOf(d.buf.sup, d.buf.current_cluster), offset,
                                 Least(Clust(d.buf.sup) - offset, end - d.filepos))
  IN Piece(Along(c, logical))
FatPieces(c, end, len) ==
  Repeat(len, LAMBDA x : FatPiece(x, end), LAMBDA x : x.done \/ x.filepos = end, c)

FatChain(c, len) ==
  LET end == c.filepos + len
      start == [c EXCEPT !.buf = Rewind(c.buf, c.filepos \div Clust(c.buf.sup))]
      Ended(d) == IF d.done THEN d ELSE Return(d)
  IN Ended(FatPieces(start, end, len))

\* "root directory for FAT12/FAT16".
FatRoot(c, len) ==
  LET s == c.buf.sup
      size == Least(s.root_max - c.filepos, len)
      Ended(d) == IF d.errnum # ERR_NONE
                  THEN [d EXCEPT !.filepos = c.filepos, !.out = <<>>, !.ret = 0] ELSE Return(d)
  IN IF s.root_max <= c.filepos THEN [c EXCEPT !.ret = 0]
     ELSE Ended(ReadPiece(c, s.root_offset, c.filepos, size))

\* An exFAT file without a chain.
FatContiguous(c, len) ==
  LET b == c.buf
      size == Least(b.contig_size - c.filepos, len)
  IN IF c.filepos >= b.contig_size THEN [c EXCEPT !.ret = 0]
     ELSE [Return(ReadPiece(c, SectorOf(b.sup, b.file_cluster), c.filepos, size)) EXCEPT
             !.buf.current_cluster_num = 0, !.buf.current_cluster = b.file_cluster]

\* Which of the three the file is read with.
FatReadFrom(c, len) ==
  IF len = 0 THEN c
  ELSE IF c.buf.file_cluster = MAXINT THEN FatRoot(c, len)
  ELSE IF c.buf.sup.type = 64 /\ c.buf.contig_size # 0 THEN FatContiguous(c, len)
  ELSE FatChain(c, len)
FatRead(c, len) == FatReadFrom([c EXCEPT !.out = <<>>, !.ret = 0, !.done = FALSE], len)

-----------------------------------------------------------------------------
(* fat_dir *)

\* What it remembers from entry to entry, and from directory to directory: what
\* is left of the path, the name being put together (a part for every 13 or 15
\* characters), the next slot of a long name, its checksum, an exFAT entry set.
FatScan(c, path) ==
  [c |-> c, dirname |-> path, verdict |-> "more", filename |-> <<>>, slot |-> -2, alias_checksum |-> -1,
   next |-> "file", set |-> [dir |-> TRUE, count |-> 0, names |-> 0, len |-> 0, cluster |-> 0,
                             contig |-> FALSE]]

\* The loop ends at an entry: its directory bit, length and first cluster.
Found(d, dir, len, cluster, contig) ==
  [d EXCEPT !.verdict = "found", !.set = [d.set EXCEPT !.dir = dir, !.len = len,
                                          !.cluster = cluster, !.contig = contig]]

\* One entry of a long name, "built from back to front".
\* Mutant: the checksum of the parts is not compared.
LongFitsAny(d, e, slot, sum) == slot # 0
LongFits(d, e, slot, sum) == e.id = slot /\ slot # 0 /\ sum = e.sum
LongName(d, e) ==
  LET slot == IF e.first THEN e.id ELSE d.slot
      sum == IF e.first THEN e.sum ELSE d.alias_checksum
      name == IF e.first THEN [k \in 1..e.id |-> IF k \in DOMAIN d.filename THEN d.filename[k]
                                                 ELSE "?"] ELSE d.filename
  IN IF LongFits(d, e, slot, sum)
     THEN [d EXCEPT !.slot = slot - 1, !.alias_checksum = sum,
                    !.filename = [name EXCEPT ![slot] = e.part]]
     ELSE [d EXCEPT !.slot = slot, !.alias_checksum = -1, !.filename = name]

\* The entry of a file or directory, under its long name if the checksum is
\* that of this entry, or else under the short one, which is also tried when the
\* long one is another.
ShortEntry(d, e, name) ==
  LET long == d.alias_checksum # -1 /\ d.slot = 0
      named == long /\ d.alias_checksum = e.sum
      left == [d EXCEPT !.slot = IF long THEN -2 ELSE @]
  IN IF named /\ d.filename = name THEN Found(left, e.dir, e.len, e.cluster, FALSE)
     ELSE IF e.name = name THEN Found([left EXCEPT !.filename = e.name],
                                      e.dir, e.len, e.cluster, FALSE)
     ELSE [left EXCEPT !.filename = e.name, !.alias_checksum = -1]

FatEntry(d, e, name) ==
  CASE e.is = "long" -> LongName(d, e)
    [] e.is = "short" -> ShortEntry(d, e, name)
    [] e.is \notin {"long", "short"} -> d      \* deleted, or a label

\* An entry of an exFAT entry set: a file, its stream, its names.
NewSet(d, e) ==
  [d EXCEPT !.set.dir = e.dir, !.set.names = 0, !.next = "info",
            !.set.count = IF e.count \in 2..18 THEN e.count - 1 ELSE e.count]
NamePart(d, e, name) ==
  LET n == d.set.names + 1
      Joined(x) ==
        IF n < x.set.count THEN [x EXCEPT !.next = "name"]
        ELSE IF x.filename = name
        THEN Found([x EXCEPT !.next = "file"], x.set.dir, x.set.len, x.set.cluster, x.set.contig)
        ELSE [x EXCEPT !.next = "file"]
  IN Joined([d EXCEPT !.filename = Append(SubSeq(@, 1, n - 1), e.part), !.set.names = n])

ExfatEntry(d, e, name) ==
  IF e.is # d.next THEN [d EXCEPT !.next = "file"]
  ELSE CASE e.is = "file" -> NewSet(d, e)
         [] e.is = "info" -> [d EXCEPT !.set.len = e.len, !.set.cluster = e.cluster,
                                       !.set.contig = e.contig, !.next = "name"]
         [] e.is = "name" -> NamePart(d, e, name)

\* One turn of the loop: an entry is read; an error or the end ends it.
EntryRead(d, name) ==
  LET e == d.c.out[1]
  IN IF d.c.ret # 1 \/ e.is = "end"
     THEN [d EXCEPT !.verdict = "missing",
                    !.c.errnum = IF @ = ERR_NONE THEN ERR_FILE_NOT_FOUND ELSE @]
     ELSE IF d.c.buf.sup.type = 64 THEN ExfatEntry(d, e, name) ELSE FatEntry(d, e, name)
NextEntry(d, name) == EntryRead([d EXCEPT !.c = FatRead(@, 1)], name)
NextEntries(d, name) ==
  Repeat(DirLimit, LAMBDA x : NextEntry(x, name), LAMBDA x : x.verdict # "more", d)

\* One component of the path; d.set is the entry of the one before.
FatComponent(d) ==
  LET name == Head(d.dirname)
      start == [d EXCEPT !.verdict = "more", !.c.filepos = 0, !.c.filemax = MAXINT,
                         !.c.buf.current_cluster_num = MAXINT, !.dirname = Tail(@)]
      size == Clust(d.c.buf.sup)
      exfat == d.c.buf.sup.type = 64
      Entered(f) ==
        IF f.verdict # "found" THEN f
        ELSE [f EXCEPT !.c.filemax = f.set.len, !.c.buf.file_cluster = f.set.cluster,
                       !.c.buf.contig_size =
                         IF ~exfat THEN @
                         ELSE IF f.set.contig THEN ((f.set.len + size - 1) \div size) * size
                         ELSE 0]
  IN IF ~d.set.dir THEN [d EXCEPT !.c.errnum = ERR_BAD_FILETYPE, !.verdict = "missing"]
     ELSE Entered(NextEntries(start, name))
FatComponents(d, n) ==
  Repeat(n, FatComponent, LAMBDA x : x.verdict = "missing" \/ x.dirname = <<>>, d)

FatDir(c, path) ==
  LET root == [c EXCEPT !.buf.file_cluster = c.buf.sup.root_cluster,
                        !.buf.contig_size = IF c.buf.sup.type = 64 THEN 0 ELSE @]
      Ended(d) == IF d.verdict = "missing" THEN [d.c EXCEPT !.ret = 0]
                  ELSE IF d.set.dir THEN Fail(d.c, ERR_BAD_FILETYPE)
                  ELSE [d.c EXCEPT !.filepos = 0, !.buf.current_cluster_num = MAXINT, !.ret = 1]
  IN Ended(FatComponents(FatScan(root, path), Len(path)))
=============================================================================
