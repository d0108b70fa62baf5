---------------------------- MODULE MCFileSystems ----------------------------
(***************************************************************************)
(* Small volumes, written the way a formatter would: FAT12, FAT16, FAT32   *)
(* and exFAT with chains that leave the cached window and come back, ext2  *)
(* with all levels of indirect blocks, ext4 with extents.  Sectors have    *)
(* two cells, digits four values.                                          *)
(***************************************************************************)
EXTENDS FileSystems

\* A function as a table, evaluated once.
Solid(f) == f @@ <<>>

At(f, x, default) == IF x \in DOMAIN f THEN f[x] ELSE default

-----------------------------------------------------------------------------
(* FAT. *)

Digit(value, k) == (value \div Radix^k) % Radix

\* The sectors of a FAT with entries of `size` digits; f maps clusters to values.
FatSectors(f, size, first, count) ==
  [s \in first..(first + count - 1) |->
     Solid([i \in 1..(2 * SS) |->
        LET p == (s - first) * 2 * SS + i - 1
        IN Digit(At(f, p \div size, 0), p % size)])]

\* The sectors of clusters of spc sectors.
DataSectors(data, spc, first, clusters) ==
  [s \in first..(first + clusters * spc - 1) |->
     LET c == 2 + (s - first) \div spc
         o == ((s - first) % spc) * SS
     IN IF c \in DOMAIN data THEN SubSeq(data[c], o + 1, o + SS)
        ELSE <<[is |-> "end"], [is |-> "end"]>>]

RECURSIVE Flatten(_, _)
Flatten(data, chain) ==
  IF chain = <<>> THEN <<>> ELSE data[Head(chain)] \o Flatten(data, Tail(chain))
Bytes(data, chain, n) == SubSeq(Flatten(data, chain), 1, n)

ShortE(name, dir, len, cluster, sum) ==
  [is |-> "short", name |-> <<name>>, dir |-> dir, len |-> len, cluster |-> cluster, sum |-> sum]
LongE(id, first, sum, part) ==
  [is |-> "long", id |-> id, first |-> first, sum |-> sum, part |-> part]
Gone == [is |-> "deleted"]
EndE == [is |-> "end"]

Bpb == [exfat |-> FALSE, bytes_per_sect |-> 2, sects_per_clust |-> 1, reserved_sects |-> 1,
        num_fats |-> 1, sectors |-> 0, fat_length |-> 0, fat32_length |-> 0, dir_entries |-> 0,
        mirror_off |-> FALSE, active_fat |-> 0, root_cluster |-> 0]

\* FAT12: entries lie across sectors' and the window's ends; a long name whose
\* parts have different checksums.
F12 == [c \in {3, 9, 5, 12, 4, 6, 8} |->
          CASE c = 3 -> 12 [] c = 12 -> 5 [] c = 5 -> 9 [] c = 9 -> 62
            [] c = 4 -> 8 [] c = 8 -> 6 [] c = 6 -> 63]
D12 == [c \in {3, 9, 5, 12, 4, 6, 8} |->
          CASE c = 3 -> <<"a", "b">> [] c = 12 -> <<"c", "d">> [] c = 5 -> <<"e", "f">>
            [] c = 9 -> <<"g", "h">>
            [] c = 4 -> <<ShortE(".", TRUE, 0, 4, 1), LongE(2, TRUE, 7, "zz")>>
            [] c = 8 -> <<LongE(1, FALSE, 3, "yy"), ShortE("f", FALSE, 7, 3, 7)>>
            [] c = 6 -> <<LongE(1, TRUE, 9, "long"), ShortE("g", FALSE, 0, 0, 9)>>]
Fat12 ==
  [bpb |-> [Bpb EXCEPT !.sectors = 26, !.fat_length = 11, !.dir_entries = 4],
   length |-> 26, fat |-> FatSectors(F12, 3, 1, 11),
   at |-> [s \in 0..25 |->
             CASE s = 12 -> <<LongE(2, TRUE, 5, "file"), LongE(1, FALSE, 5, "my")>>
               [] s = 13 -> <<ShortE("myfile", FALSE, 7, 3, 5), ShortE("dir", TRUE, 0, 4, 6)>>
               [] s \notin {12, 13} ->
                    At(DataSectors(D12, 1, 14, 12), s, <<EndE, EndE>>)],
   tree |-> [p \in {<<<<"my", "file">>>>, <<<<"myfile">>>>, <<<<"dir">>, <<"f">>>>,
                    <<<<"dir">>, <<"long">>>>} |->
               IF p = <<<<"dir">>, <<"long">>>> THEN <<>> ELSE Bytes(D12, <<3, 12, 5, 9>>, 7)],
   missing |-> {<<<<"dir">>>>, <<<<"dir">>, <<"yy", "zz">>>>, <<<<"myfile">>, <<"x">>>>, <<<<"no">>>>},
   chain |-> [p \in {<<<<"my", "file">>>>, <<<<"myfile">>>>, <<<<"dir">>, <<"f">>>>} |-> <<3, 12, 5, 9>>]]

\* FAT16: clusters of two sectors.
F16 == [c \in {2, 63, 30, 31} |-> CASE c = 2 -> 63 [] c = 63 -> 30 [] c = 30 -> 31 [] c = 31 -> 255]
D16 == [c \in {2, 63, 30, 31} |->
          CASE c = 2 -> <<"a", "b", "c", "d">> [] c = 63 -> <<"e", "f", "g", "h">>
            [] c = 30 -> <<"i", "j", "k", "l">> [] c = 31 -> <<"m", "n", "o", "p">>]
Fat16 ==
  [bpb |-> [Bpb EXCEPT !.sectors = 190, !.sects_per_clust = 2, !.fat_length = 64,
                       !.dir_entries = 2],
   length |-> 190, fat |-> FatSectors(F16, 4, 1, 64),
   at |-> [s \in 0..189 |->
             IF s = 65 THEN <<ShortE("f", FALSE, 13, 2, 1), EndE>>
             ELSE At(DataSectors(D16, 2, 66, 62), s, <<EndE, EndE>>)],
   tree |-> [p \in {<<<<"f">>>>} |-> Bytes(D16, <<2, 63, 30, 31>>, 13)],
   missing |-> {},
   chain |-> [p \in {<<<<"f">>>>} |-> <<2, 63, 30, 31>>]]

\* FAT32, the second FAT active; the root directory is a chain.
F32 == [c \in {3, 8, 4, 9, 6} |->
          CASE c = 3 -> 8 [] c = 8 -> 16383 [] c = 9 -> 6 [] c = 6 -> 4 [] c = 4 -> 16382]
StaleFat == [c \in {3, 9, 6} |-> 16383]
D32 == [c \in {3, 8, 4, 9, 6} |->
          CASE c = 3 -> <<Gone, LongE(1, TRUE, 2, "name")>>
            [] c = 8 -> <<ShortE("f", FALSE, 6, 9, 2), EndE>>
            [] c = 9 -> <<"a", "b">> [] c = 6 -> <<"c", "d">> [] c = 4 -> <<"e", "f">>]
Fat32 ==
  [bpb |-> [Bpb EXCEPT !.sectors = 49, !.num_fats = 2, !.fat32_length = 20,
                       !.mirror_off = TRUE, !.active_fat = 1, !.root_cluster = 3],
   length |-> 49,
   fat |-> [s \in 1..40 |-> IF s <= 20 THEN FatSectors(StaleFat, 8, 1, 20)[s]
                            ELSE FatSectors(F32, 8, 21, 20)[s]],
   at |-> [s \in 0..48 |-> At(DataSectors(D32, 1, 41, 8), s, <<EndE, EndE>>)],
   tree |-> [p \in {<<<<"name">>>>, <<<<"f">>>>} |-> Bytes(D32, <<9, 6, 4>>, 6)],
   missing |-> {<<<<"no">>>>},
   chain |-> [p \in {<<<<"name">>>>, <<<<"f">>>>} |-> <<9, 6, 4>>]]

\* exFAT: a file with a chain, one without, a directory without.
FileE(dir, count) == [is |-> "file", dir |-> dir, count |-> count]
InfoE(len, cluster, contig) == [is |-> "info", len |-> len, cluster |-> cluster, contig |-> contig]
NameE(part) == [is |-> "name", part |-> part]
OtherE == [is |-> "unused"]

FEx == [c \in {2, 9, 3, 5, 11} |->
          CASE c = 2 -> 9 [] c = 9 -> 3 [] c = 3 -> 65535 [] c = 5 -> 11 [] c = 11 -> 65535]
DEx(last) ==
  [c \in {2, 9, 3, 5, last, 6, 7, 8, 10} |->
     CASE c = 2 -> <<OtherE, FileE(FALSE, 3), InfoE(7, 5, FALSE), NameE("my")>>
       [] c = 9 -> <<NameE("file"), FileE(TRUE, 2), InfoE(8, 7, TRUE), NameE("dir")>>
       [] c = 3 -> <<FileE(FALSE, 2), InfoE(5, 6, FALSE), OtherE, EndE>>
       [] c = 5 -> <<"a", "b", "c", "d">> [] c = last -> <<"e", "f", "g", "h">>
       [] c = 7 -> <<OtherE, OtherE, OtherE, FileE(FALSE, 2)>>
       [] c = 8 -> <<InfoE(6, 6, TRUE), NameE("f"), EndE, EndE>>
       [] c = 6 -> <<"i", "j", "k", "l">>
       [] c = 10 -> <<"?", "?", "?", "?">>]
Exfat(last) ==
  [bpb |-> [exfat |-> TRUE, bytes_per_sect |-> 0, num_fats |-> 1, fat_sector_start |-> 1,
            fat_sector_count |-> 28, cluster_sector_start |-> 29, cluster_count |-> 12,
            rootdir_cluster |-> 2, second_fat |-> FALSE, sects_per_clust |-> 2],
   length |-> 53,
   fat |-> FatSectors([c \in {2, 9, 3, 5, last} |->
                         IF c = 5 THEN last ELSE IF c = last THEN 65535 ELSE FEx[c]], 8, 1, 28),
   at |-> [s \in 0..52 |-> At(DataSectors(DEx(last), 2, 29, 12), s, <<EndE, EndE>>)],
   tree |-> [p \in {<<<<"my", "file">>>>, <<<<"dir">>, <<"f">>>>} |->
               IF p = <<<<"my", "file">>>> THEN Bytes(DEx(last), <<5, last>>, 7)
               ELSE Bytes(DEx(last), <<6, 7>>, 6)],
   missing |-> {<<<<"file">>>>, <<<<"dir">>>>},
   chain |-> [p \in {<<<<"my", "file">>>>, <<<<"dir">>, <<"f">>>>} |->
                IF p = <<<<"my", "file">>>> THEN <<5, last>> ELSE <<6, 7>>]]

-----------------------------------------------------------------------------
(* ext2 and ext4, blocks of two sectors. *)

Inode(mode, size, i_block) ==
  [mode |-> mode, size |-> size, i_block |-> i_block, extended |-> FALSE, extents |-> <<>>,
   fast |-> FALSE, target |-> <<>>]
FastLink(target) ==
  [Inode("link", Len(target), <<>>) EXCEPT !.fast = TRUE, !.target = target]
Extended(mode, size, node) ==
  [Inode(mode, size, <<>>) EXCEPT !.extended = TRUE, !.extents = node]
NoInode == Inode("none", 0, <<>>)
Leaf(entries) == [magic |-> TRUE, depth |-> 0, entries |-> entries]
Node(entries) == [magic |-> TRUE, depth |-> 1, entries |-> entries]
Ex(block, len, start) == [block |-> block, len |-> len, start |-> start]
Ix(block, leaf) == [block |-> block, leaf |-> leaf]
Entry(name, inode, rec_len) == [name |-> name, inode |-> inode, rec_len |-> rec_len]
Pad == Entry("", 0, 1)

Super2 == [inodes_count |-> 12, blocks_count |-> 40, blocks_per_group |-> 16,
           inodes_per_group |-> 4, first_data_block |-> 1, log_block_size |-> 0,
           inodes_per_block |-> 2, desc_per_block |-> 2, meta_bg |-> FALSE, first_meta_bg |-> 0]

BlocksOf(block, order) ==
  FlattenSeq([k \in DOMAIN order |-> IF order[k] = 0 THEN <<Zero, Zero, Zero, Zero>>
                                     ELSE block[order[k]]])

\* A file with a hole and blocks of every level of indirection; links of every
\* kind; a root directory that needs an indirect block.
B2 == [b \in 2..34 |->
  CASE b = 2 -> <<4, 6>> [] b = 3 -> <<8, 0>>
    [] b = 4 -> <<NoInode, Inode("dir", 8, <<10, 11, 0, 0>>)>>
    [] b = 5 -> <<Inode("file", 38, <<13, 14, 16, 23>>), NoInode>>
    [] b = 6 -> <<Inode("dir", 4, <<30, 0, 0, 0>>), FastLink(<<"dir", "f">>)>>
    [] b = 7 -> <<FastLink(<<Slash, "dir">>), FastLink(<<"loop">>)>>
    [] b = 8 -> <<Inode("link", 5, <<31, 32, 0, 0>>), Inode("file", 3, <<34, 0, 0, 0>>)>>
    [] b = 9 -> <<FastLink(<<"..", "rel">>), NoInode>>
    [] b = 10 -> <<Entry("big", 3, 1), Entry("gone", 0, 1), Entry("dir", 5, 2), Pad>>
    [] b = 12 -> <<Entry("rel", 6, 1), Entry("abs", 7, 1), Entry("loop", 8, 1), Entry("slow", 9, 1)>>
    [] b = 30 -> <<Entry("..", 2, 1), Entry("f", 10, 1), Entry("up", 11, 2), Pad>>
    [] b = 31 -> <<"dir", "..", "dir", "..">> [] b = 33 -> <<"rel", "?", "?", "?">>
    [] b = 34 -> <<"x", "y", "z", "?">>
    [] b = 11 -> <<12, 0>> [] b = 14 -> <<15, 0>> [] b = 16 -> <<17, 18>>
    [] b = 17 -> <<19, 20>> [] b = 18 -> <<21, 22>> [] b = 23 -> <<24, 0>>
    [] b = 24 -> <<25, 26>> [] b = 25 -> <<27, 28>> [] b = 26 -> <<29, 0>> [] b = 32 -> <<33, 0>>
    [] b = 13 -> <<"a", "b", "c", "d">> [] b = 15 -> <<"e", "f", "g", "h">>
    [] b = 19 -> <<"i", "j", "k", "l">> [] b = 20 -> <<"m", "n", "o", "p">>
    [] b = 21 -> <<"q", "r", "s", "t">> [] b = 22 -> <<"u", "v", "w", "x">>
    [] b = 27 -> <<"A", "B", "C", "D">> [] b = 28 -> <<"E", "F", "G", "H">>
    [] b = 29 -> <<"I", "J", "?", "?">>]

F2 == <<"x", "y", "z">>
Ext2 ==
  [super |-> Super2, length |-> 80, block |-> B2,
   tree |-> [p \in {<<"big">>, <<"dir", "f">>, <<"rel">>, <<"abs", "f">>, <<"slow">>, <<"dir", "up">>} |->
               IF p = <<"big">>
               THEN SubSeq(BlocksOf(B2, <<13, 15, 0, 19, 20, 21, 22, 27, 28, 29>>), 1, 38)
               ELSE F2],
   missing |-> {<<"loop">>, <<"dir">>, <<"gone">>, <<"big", "f">>, <<"abs">>, <<"rel", "f">>}]

\* Descriptors in the groups themselves; a root directory and a file with one
\* extent each, a file with a tree of two levels.
B4 == [b \in {2, 3, 4, 5, 6, 18, 20, 21, 22, 23, 24, 25, 26, 34, 36, 38} |->
  CASE b = 2 -> <<4, 20>> [] b = 34 -> <<36, 0>>
    [] b = 4 -> <<NoInode, Extended("dir", 8, Leaf(<<Ex(0, 2, 5)>>))>>
    [] b = 20 -> <<Extended("file", 6, Leaf(<<Ex(0, 1, 22), Ex(1, 1, 18)>>)), NoInode>>
    [] b = 36 -> <<Extended("file", 21, Node(<<Ix(0, 3), Ix(3, 38)>>)), NoInode>>
    [] b = 5 -> <<Entry("two", 5, 2), Pad, Pad, Pad>>
    [] b = 6 -> <<Entry("tree", 9, 4), Pad, Pad, Pad>>
    [] b = 3 -> Leaf(<<Ex(0, 1, 21), Ex(1, 2, 23)>>)
    [] b = 38 -> Leaf(<<Ex(3, 1, 22), Ex(4, 2, 25)>>)
    [] b = 21 -> <<"a", "b", "c", "d">> [] b = 22 -> <<"e", "f", "g", "h">>
    [] b = 23 -> <<"i", "j", "k", "l">> [] b = 24 -> <<"m", "n", "o", "p">>
    [] b = 25 -> <<"q", "r", "s", "t">> [] b = 26 -> <<"u", "v", "w", "x">>
    [] b = 18 -> <<"y", "z", "?", "?">>]
Ext4 ==
  [super |-> [Super2 EXCEPT !.meta_bg = TRUE], length |-> 80, block |-> B4,
   tree |-> [p \in {<<"two">>, <<"tree">>} |->
               IF p = <<"two">> THEN SubSeq(BlocksOf(B4, <<22, 18>>), 1, 6)
               ELSE SubSeq(BlocksOf(B4, <<21, 23, 24, 22, 25, 26>>), 1, 21)],
   missing |-> {<<"no">>}]

-----------------------------------------------------------------------------
(* ISO 9660 and UDF, with volume descriptors in sectors 2 to 5, UDF's anchor in 7. *)

Rec(name, dir, extent, sectors, size, susp) ==
  [name |-> name, dir |-> dir, extent |-> extent, sectors |-> sectors, size |-> size,
   susp |-> susp, begun |-> FALSE]
IsoFile(name, extent, size, susp) == Rec(name, FALSE, extent, (size + 1) \div 2, size, susp)
IsoDirectory(name, extent, sectors, susp) == Rec(name, TRUE, extent, sectors, 0, susp)
Self == IsoDirectory(".", 0, 1, <<>>)
Parent == IsoDirectory("..", 0, 1, <<>>)
NM(name) == [is |-> "NM", name |-> name]
PX(type) == [is |-> "PX", type |-> type]
CE(extent) == [is |-> "CE", extent |-> extent]
RR(flags) == [is |-> "RR", flags |-> flags]
Desc(is, root) == [is |-> is, root |-> root]
Root(extent, sectors) == [extent |-> extent, sectors |-> sectors]

Data == <<<<"a", "b">>, <<"c", "d">>, <<"e", "f">>>>
DataAt(first) == [s \in 0..40 |-> IF s - first \in 0..2 THEN Data[s - first + 1] ELSE <<"?", "?">>]
F5 == <<"a", "b", "c", "d", "e">>

\* Both trees: Joliet's has the long names.
Joliet ==
  [length |-> 40, at |-> DataAt(20),
   desc |-> [s \in {2, 3, 4} |-> CASE s = 2 -> Desc("primary", Root(8, 1))
                                   [] s = 3 -> Desc("joliet", Root(9, 2)) [] s = 4 -> Desc("end", Root(0, 0))],
   dirs |-> [s \in 8..11 |->
               CASE s = 8 -> <<Self, Parent, IsoFile("SHORT", 20, 5, <<>>), EndRec>>
                 [] s = 9 -> <<Self, Parent, IsoFile("other", 22, 1, <<>>), EndRec>>
                 [] s = 10 -> <<IsoFile("long name", 20, 5, <<>>), IsoDirectory("dir", 11, 1, <<>>), EndRec>>
                 [] s = 11 -> <<Self, Parent, IsoFile("f", 21, 3, <<>>), EndRec>>],
   tree |-> [p \in {<<"long name">>, <<"dir", "f">>} |->
               IF p = <<"long name">> THEN F5 ELSE <<"c", "d", "e">>],
   missing |-> {<<"SHORT">>, <<"dir">>, <<"other", "f">>}]

\* Names behind the record, names in another sector, and records without.
RockRidgeDisc ==
  [length |-> 40, at |-> DataAt(20),
   desc |-> [s \in {2, 3} |-> IF s = 2 THEN Desc("primary", Root(8, 2)) ELSE Desc("end", Root(0, 0))],
   dirs |-> [s \in 8..10 |->
               CASE s = 8 -> <<Self, Parent, IsoFile("FILE", 20, 5, <<PX("file"), NM("file name")>>), EndRec>>
                 [] s = 9 -> <<IsoFile("PLAIN", 20, 5, <<>>),
                               IsoDirectory("DIR", 10, 1, <<RR({"NM", "PX"}), CE(12)>>), EndRec>>
                 [] s = 10 -> <<Self, Parent, IsoFile("LINK", 20, 0, <<NM("link"), PX("other")>>),
                                IsoFile("F", 20, 5, <<RR({"NM"}), CE(13), NM("f"), PX("other")>>), EndRec>>],
   susp |-> [s \in {12, 13} |-> <<PX("dir"), [is |-> "other"], NM("directory")>>],
   tree |-> [p \in {<<"file name">>, <<"PLAIN">>, <<"directory", "f">>} |-> F5],
   missing |-> {<<"FILE">>, <<"DIR", "f">>, <<"directory", "link">>, <<"directory", "LINK">>}]

\* The plain names; full: a directory's sector without room for another record.
Plain(full) ==
  [length |-> 40, at |-> DataAt(20),
   desc |-> [s \in {2, 3} |-> IF s = 2 THEN Desc("primary", Root(8, 2)) ELSE Desc("end", Root(0, 0))],
   dirs |-> [s \in 8..11 |->
               CASE s = 8 -> <<Self, Parent, IsoFile("A", 20, 5, <<>>), EndRec>>
                 [] s = 9 -> <<IsoDirectory("D", 10, 2, <<>>), IsoFile("B", 21, 2, <<>>), EndRec>>
                 [] s = 10 -> <<Self, Parent, IsoFile("C", 20, 4, <<>>)>>
                              \o (IF full THEN <<>> ELSE <<EndRec>>)
                 [] s = 11 -> <<IsoFile("A", 22, 1, <<>>), EndRec>>],
   tree |-> [p \in {<<"A">>, <<"B">>, <<"D", "C">>, <<"D", "A">>} |->
               CASE p = <<"A">> -> F5 [] p = <<"B">> -> <<"c", "d">>
                 [] p = <<"D", "C">> -> <<"a", "b", "c", "d">> [] p = <<"D", "A">> -> <<"e">>],
   missing |-> {<<"D", "B">>, <<"C">>}]

\* UDF, partition from sector 10 on: a root directory of two extents with a record
\* over the sectors' end, a small directory inside its entry, a file of two extents.
Ufile(name, extent) == Rec(name, FALSE, extent, 1, 0, <<>>)
Udir(name, extent) == Rec(name, TRUE, extent, 1, 0, <<>>)
Part(r) == [r EXCEPT !.begun = TRUE]
UExt(at, sectors, length) == [at |-> at, sectors |-> sectors, length |-> length]
UEntry(extents, length) ==
  [is |-> "entry", embedded |-> FALSE, extents |-> extents, records |-> <<>>, length |-> length]
Small(records) ==
  [is |-> "entry", embedded |-> TRUE, extents |-> <<>>, records |-> records, length |-> 0]
\* late: a directory behind the root directory's first extent.
Udf(late) ==
  [length |-> 40, at |-> DataAt(22),
   desc |-> [s \in {2, 7, 8, 9, 10, 11, 14, 15, 16, 18} |->
               CASE s = 2 -> [is |-> "BEA01"] [] s = 7 -> [is |-> "anchor", main |-> 8]
                 [] s = 8 -> NoEntry [] s = 9 -> [is |-> "partition", start |-> 10]
                 [] s = 10 -> [is |-> "file set", osta |-> TRUE, root |-> 1]
                 [] s = 11 -> UEntry(<<UExt(2, 2, 4), UExt(7, 1, 2)>>, 0)
                 [] s = 14 -> Small(<<Rec("..", TRUE, 1, 1, 0, <<>>), Ufile("f", 6)>>)
                 [] s = 15 -> UEntry(<<UExt(9, 1, 2)>>, 0)
                 [] s = 16 -> UEntry(<<UExt(14, 1, 2), UExt(12, 1, 2)>>, 3)
                 [] s = 18 -> UEntry(<<UExt(12, 2, 4)>>, 4)],
   dirs |-> [s \in {12, 13, 17, 19} |->
               CASE s = 12 -> <<Rec("deleted", FALSE, 8, 1, 0, <<>>), Udir("small", 4), Part(Ufile("two", 6))>>
                 [] s = 13 -> IF late THEN <<>> ELSE <<Udir("big", 5)>>
                 [] s = 17 -> <<Ufile("one", 8)>> \o (IF late THEN <<Udir("big", 5)>> ELSE <<>>)
                 [] s = 19 -> <<Rec("deleted", TRUE, 1, 1, 0, <<>>), Ufile("g", 8)>>],
   tree |-> [p \in {<<"two">>, <<"one">>, <<"small", "f">>, <<"big", "g">>} |->
               IF p \in {<<"two">>, <<"small", "f">>} THEN <<"e", "f", "a">> ELSE <<"a", "b", "c", "d">>],
   missing |-> {<<"small">>, <<"one", "f">>, <<"small", "g">>, <<"deleted">>}]

-----------------------------------------------------------------------------

Volume(vol) ==
  Solid([k \in DOMAIN vol |->
           IF k \in {"at", "fat", "block", "tree", "chain", "desc", "dirs", "susp"} THEN Solid(vol[k]) ELSE vol[k]])
AllVolumes ==
  Solid([v \in {"fat12", "fat16", "fat32", "exfat", "ext2", "ext4", "joliet", "rock",
            "plain", "udf"} |->
     Volume(CASE v = "fat12" -> Fat12 [] v = "fat16" -> Fat16 [] v = "fat32" -> Fat32
              [] v = "exfat" -> Exfat(11) [] v = "ext2" -> Ext2 [] v = "ext4" -> Ext4
              [] v = "joliet" -> Joliet [] v = "rock" -> RockRidgeDisc
              [] v = "plain" -> Plain(FALSE) [] v = "udf" -> Udf(FALSE))])
\* Its own definition, for TLC to evaluate only once.
MCVolumes == AllVolumes

\* A disk that fails for good; not on the UDF volume, whose mount may never end
\* and whose look for a file may take an entry that was not read.
MCFaults ==
  [v \in DOMAIN MCVolumes |->
     {NoFault} \cup IF v = "udf" THEN {} ELSE {From(n) : n \in {1, 2, 3, 5, 7, 9, 11, 13, 15}}]

\* A disk that fails once, under ext4; one that fails for good, under FAT16.
OnceFaults == [v \in DOMAIN MCVolumes |-> {NoFault} \cup IF v = "ext4" THEN {Once(n) : n \in 1..5} ELSE {}]
Fat16Faults == [v \in DOMAIN MCVolumes |-> {NoFault} \cup IF v = "fat16" THEN {From(1)} ELSE {}]

\* A chain through the last cluster, a full directory sector, a directory behind
\* its parent's first extent.
OneVolume(vol) == Solid([v \in {"the only one"} |-> Volume(vol)])
LastCluster == OneVolume(Exfat(12))
FullSector == OneVolume(Plain(TRUE))
LateDirectory == OneVolume(Udf(TRUE))
NoFaults == [v \in {"the only one"} |-> {NoFault}]
=============================================================================
