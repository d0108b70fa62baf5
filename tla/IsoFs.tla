-------------------------------- MODULE IsoFs --------------------------------
(***************************************************************************)
(* fsys_iso9660.c: ISO 9660 with or without Joliet or Rock Ridge names, and *)
(* UDF.  A sector of a directory is a sequence of records, closed by EndRec *)
(* if it is not full; a UDF file or directory is described by an entry,    *)
(* with its extents or, for a small directory, its records.                *)
(***************************************************************************)
EXTENDS Device

CONSTANTS
  FIRST, LAST,    \* the sectors looked at for volume descriptors
  ANCHOR,         \* the sector of UDF's anchor
  RecordLimit,    \* bound: records of a directory, sectors included
  UdfLimit        \* bound: descriptors the UDF mount reads before it never ends

ISO_TYPE_9660 == "9660"
ISO_TYPE_udf == "udf"
ISO_TYPE_Joliet == "joliet"
ISO_TYPE_RockRidge == "rock ridge"

EndRec == [name |-> "end"]
NoEntry == [is |-> "other"]

\* A file's entry that could not be read is used all the same, whatever the
\* memory holds: here one that leads nowhere.
Stale == [is |-> "entry", embedded |-> FALSE, length |-> 0,
          extents |-> <<[at |-> -1, sectors |-> 1, length |-> MAXINT]>>]
Hangs == "never returns"

-----------------------------------------------------------------------------
(* iso9660_mount *)

Descriptor(vol, s) ==
  IF "desc" \in DOMAIN vol /\ s \in DOMAIN vol.desc THEN vol.desc[s] ELSE NoEntry

\* Sectors are read in turn until one is as wanted, none is left, or, where
\* that is looked at, one cannot be read.
Scan(c, first, before, wanted, strict) ==
  LET After(x, d) ==
        [x EXCEPT !.c = d, !.sector = @ + 1, !.failed = strict /\ d.errnum # ERR_NONE,
                  !.desc = IF d.errnum = ERR_NONE THEN Descriptor(d.vol, x.sector) ELSE @]
  IN Repeat(1 + LAST - first,
            LAMBDA x : After(x, Devread(x.c, x.sector, 0, SS)),
            LAMBDA x : x.failed \/ x.desc.is \in wanted,
            [c |-> c, sector |-> first, desc |-> before, failed |-> FALSE])

\* "Reading partition descriptor, file set descriptor, file entry descriptor":
\* one turn of a loop that does not see whether a sector could be read.
UdfDescriptor(u, root) ==
  CASE u.last -> [u EXCEPT !.root = root, !.end = "mounted"]
    [] ~u.last /\ root.is = "partition" ->
         [u EXCEPT !.root = root, !.start = root.start, !.sector = root.start]
    [] ~u.last /\ root.is = "file set" ->
         IF ~root.osta THEN [u EXCEPT !.root = root, !.end = "refused"]
         ELSE [u EXCEPT !.root = root, !.sector = root.root + u.start, !.last = TRUE]
    [] ~u.last /\ root.is \notin {"partition", "file set"} ->
         [u EXCEPT !.root = root, !.sector = @ + 1]
UdfStep(u) ==
  LET After(d) == UdfDescriptor([u EXCEPT !.c = d],
                                IF d.errnum = ERR_NONE THEN Descriptor(d.vol, u.sector) ELSE u.root)
  IN After(Devread(u.c, u.sector, 0, SS))

\* A file system of the other sector size is looked for when there is no anchor.
UdfMount(c) ==
  LET anchor == Descriptor(c.vol, ANCHOR)
      Ended(u) ==
        CASE u.end = "refused" -> [u.c EXCEPT !.ret = 0]
          [] u.end = "more" -> Fail(u.c, Hangs)
          [] u.end = "mounted" ->
               [u.c EXCEPT !.ret = 1,
                  !.buf = [iso_type |-> ISO_TYPE_udf, start |-> u.start, file_start |-> 0,
                           root |-> u.root, entry |-> NoEntry, beyond |-> <<EndRec>>]]
      After(d) ==
        IF d.errnum # ERR_NONE \/ anchor.is # "anchor"
        THEN [Devread(d, ANCHOR, 0, SS) EXCEPT !.ret = 0]
        ELSE Ended(Repeat(UdfLimit, UdfStep, LAMBDA x : x.end # "more",
                          [c |-> d, root |-> anchor, sector |-> anchor.main, start |-> 0,
                           last |-> FALSE, end |-> "more"]))
  IN After(Devread(c, ANCHOR, 0, SS))

\* The records of a sector, as far as the first EndRec; those of a full one run
\* on into what is in the memory behind it.
Records(all) == SubSeq(all, 1, SelectInSeq(all, LAMBDA r : r = EndRec) - 1)

\* The third record of the root directory has something behind its name.
RockRidge(records) == Len(records) < 3 \/ records[3].susp # <<>>

\* The primary tree.  Its root directory is read at once, its second sector to
\* behind where directories are read later.
Mounted(c, type, root, beyond) ==
  [c EXCEPT !.ret = 1,
     !.buf = [iso_type |-> type, start |-> 0, file_start |-> 0, root |-> root, entry |-> NoEntry,
              beyond |-> beyond]]
RootRead(c, root) ==
  LET first == c.vol.dirs[root.extent]
  IN IF c.errnum # ERR_NONE THEN Mounted(c, ISO_TYPE_RockRidge, root, <<EndRec>>)
     ELSE Mounted(c,
                  IF RockRidge(Records(Append(first, EndRec))) THEN ISO_TYPE_RockRidge
                  ELSE ISO_TYPE_9660,
                  root,
                  IF root.sectors > 1 THEN c.vol.dirs[root.extent + 1] ELSE <<EndRec>>)
PrimaryMount(c, desc) ==
  IF desc.is # "primary" THEN [c EXCEPT !.ret = 0]
  ELSE RootRead(Devread(c, desc.root.extent, 0, desc.root.sectors * SS), desc.root)

\* UDF, a Joliet tree, or else the primary one.
IsoMount(c) ==
  LET Primary(d, desc) ==
        PrimaryMount(d, IF d.errnum = ERR_NONE THEN Descriptor(d.vol, FIRST) ELSE desc)
      Trees(j) == IF j.desc.is = "joliet" THEN Mounted(j.c, ISO_TYPE_Joliet, j.desc.root, <<EndRec>>)
                  ELSE Primary(Devread(j.c, FIRST, 0, SS), j.desc)
      After(u) == IF u.failed \/ "desc" \notin DOMAIN c.vol THEN [u.c EXCEPT !.ret = 0]
                  ELSE IF u.desc.is = "BEA01" THEN UdfMount(u.c)
                  ELSE Trees(Scan(u.c, FIRST + 1, u.desc, {"joliet", "end"}, FALSE))
  IN After(Scan(c, FIRST, NoEntry, {"BEA01"}, TRUE))

-----------------------------------------------------------------------------
(* iso9660_dir *)

\* A record's Rock Ridge items: a name, a mode, which of them to expect, or where
\* they go on; ended by one of another version, or when nothing is expected.
NoPlace == -1
RockField(r, i) ==
  CASE i.is = "RR" -> [r EXCEPT !.expect = @ \cap i.flags]
    [] i.is = "NM" -> [r EXCEPT !.name = i.name, !.expect = @ \ {"NM"}]
    [] i.is = "PX" -> [r EXCEPT !.type = i.type, !.expect = @ \ {"PX"}]
    [] i.is = "CE" -> [r EXCEPT !.place = i.extent]
    [] i.is = "version" -> [r EXCEPT !.expect = {}]
    [] i.is = "other" -> r
RockItem(r) ==
  LET Continued(q, d) ==
        IF d.errnum # ERR_NONE                   \* "this is not fatal"
        THEN [q EXCEPT !.c = [d EXCEPT !.errnum = ERR_NONE], !.area = <<>>]
        ELSE [q EXCEPT !.c = d, !.area = d.vol.susp[q.place], !.place = NoPlace]
      After(q) ==
        IF q.expect = {} THEN [q EXCEPT !.area = <<>>]
        ELSE IF Len(q.area) > 1 \/ q.place = NoPlace THEN [q EXCEPT !.area = Tail(@)]
        ELSE Continued(q, Devread(q.c, q.place, 0, SS))
  IN After(RockField(r, Head(r.area)))

\* A record's name and type; filemax is set in passing.
Named(c, e) ==
  LET plain == [c |-> [c EXCEPT !.filemax = MAXINT], name |-> e.name, type |-> IF e.dir THEN "dir" ELSE "file",
                expect |-> {"NM", "PX"}, area |-> e.susp, place |-> NoPlace]
  IN IF c.buf.iso_type = ISO_TYPE_RockRidge
     THEN Repeat(RecordLimit, RockItem, LAMBDA r : r.area = <<>>, plain) ELSE plain

\* "self", "parent", or deleted.
Passed(e) == e.name \in {".", "..", "deleted"}

\* A directory's sector is read.  The record begun at the end of the one before
\* is whole now; one begun at the end of this one waits for the next.
Begun(records) == SelectSeq(records, LAMBDA r : r.begun)
Whole(records) == SelectSeq(records, LAMBDA r : ~r.begun)
LoadSector(x) ==
  LET at == Head(x.sectors).at
      udf == x.c.buf.iso_type = ISO_TYPE_udf
      Split(y, all) ==
        IF udf THEN [y EXCEPT !.left = x.begun \o Whole(all), !.begun = Begun(all)]
        ELSE [y EXCEPT !.left = x.begun \o all, !.begun = <<>>]
      After(d) ==
        IF d.errnum # ERR_NONE
        THEN [x EXCEPT !.c = Fail(d, ERR_FSYS_CORRUPT), !.verdict = "missing"]
        ELSE Split([x EXCEPT !.c = d, !.sectors = Tail(@), !.past = Head(x.sectors).past],
                   Records(d.vol.dirs[at] \o IF udf THEN <<EndRec>> ELSE d.buf.beyond))
  IN After(Devread(x.c, at, 0, SS))

\* A name of the path is found.  UDF reads the file's entry, or not.
Match(x, n, e, last) ==
  LET at == e.extent + x.c.buf.start
      After(d) == [d EXCEPT !.buf.entry = IF d.errnum = ERR_NONE THEN Descriptor(d.vol, at)
                                          ELSE Stale]
      Typed(c) ==
        IF n.type # (IF last THEN "file" ELSE "dir")
        THEN [x EXCEPT !.c = Fail(c, ERR_BAD_FILETYPE), !.verdict = "missing"]
        ELSE [x EXCEPT !.c = c, !.verdict = "found", !.record = e, !.begun = <<>>]
  IN Typed(IF x.c.buf.iso_type = ISO_TYPE_udf THEN After(Devread(n.c, at, 0, SS)) ELSE n.c)

\* One turn over a directory: its next sector, or record.
NextRecord(x, name, last) ==
  LET e == Head(x.left)
      After(n) == IF n.name # name THEN [x EXCEPT !.c = n.c, !.left = Tail(@)]
                  ELSE Match(x, n, e, last)
  IN IF x.left = <<>> /\ x.sectors = <<>>
     THEN [x EXCEPT !.c = Fail(@, ERR_FILE_NOT_FOUND), !.verdict = "missing"]
     ELSE IF x.left = <<>> THEN LoadSector(x)
     ELSE IF Passed(e) THEN [x EXCEPT !.left = Tail(@)]
     ELSE After(Named(x.c, e))

\* The sectors of a directory's extents, each with how many extents were gone
\* through before it.  The count is not reset for the next directory of the path.
SectorsOf(x, extents) ==
  FlattenSeq([k \in 1..(Len(extents) - Least(x.past, Len(extents))) |->
    LET e == extents[k + x.past]
    IN [n \in 1..e.sectors |-> [at |-> e.at + x.c.buf.start + n - 1, past |-> x.past + k - 1]]])

\* One component of the path, in the directory the one before named.
IsoComponent(x, name, last) ==
  LET entry == IF x.record = EndRec THEN x.c.buf.root ELSE x.c.buf.entry
      record == IF x.record = EndRec THEN x.c.buf.root ELSE x.record
      start == [x EXCEPT !.verdict = "more", !.left = <<>>, !.sectors = <<>>]
      from == IF x.c.buf.iso_type # ISO_TYPE_udf
              THEN [start EXCEPT !.sectors = SectorsOf(x, <<[at |-> record.extent, sectors |-> record.sectors]>>)]
              ELSE IF entry.is # "entry" THEN start
              ELSE IF entry.embedded THEN [start EXCEPT !.left = entry.records]
              ELSE [start EXCEPT !.sectors = SectorsOf(x, entry.extents)]
  IN IF x.verdict = "missing" THEN x
     ELSE Repeat(RecordLimit, LAMBDA y : NextRecord(y, name, last),
                 LAMBDA y : y.verdict # "more", from)

\* The file: where it is, and how long.
IsoDir(c, path) ==
  LET start == [c |-> [c EXCEPT !.buf.file_start = 0], verdict |-> "more", record |-> EndRec,
                past |-> 0, left |-> <<>>, sectors |-> <<>>, begun |-> <<>>]
      Opened(d, max, at) == [d EXCEPT !.ret = 1, !.filepos = 0, !.filemax = max, !.buf.file_start = at]
      Ended(x) ==
        IF x.verdict # "found" THEN [x.c EXCEPT !.ret = 0]
        ELSE IF x.c.buf.iso_type # ISO_TYPE_udf THEN Opened(x.c, x.record.size, x.record.extent)
        ELSE Opened(x.c, x.c.buf.entry.length, x.c.buf.entry.extents[1].at + x.c.buf.start)
  IN Ended(FoldLeft(LAMBDA x, k : IsoComponent(x, path[k], k = Len(path)), start,
                    [k \in DOMAIN path |-> k]))

-----------------------------------------------------------------------------
(* iso9660_read *)

\* Where filepos is: in the UDF extent after those that end at or before it.
LengthTo(extents, k) == FoldLeft(LAMBDA n, e : n + e.length, 0, SubSeq(extents, 1, k))
ExtentOf(extents, pos) ==
  CHOOSE k \in DOMAIN extents : LengthTo(extents, k - 1) <= pos /\ pos < LengthTo(extents, k)

\* One turn of the loop, ended by a sector that cannot be read.
UdfPiece(x, extents, end) ==
  LET e == extents[x.k]
      size == Least(e.length - x.offset, end - x.c.filepos)
      After(d) ==
        IF d.errnum # ERR_NONE THEN [x EXCEPT !.c = [d EXCEPT !.out = <<>>, !.ret = 0, !.done = TRUE]]
        ELSE [x EXCEPT !.k = @ + 1, !.offset = 0,
                !.c = [d EXCEPT !.filepos = @ + size,
                                !.out = @ \o Cells(d.vol, d.buf.start + e.at, x.offset, size)]]
  IN After(Devread(x.c, x.c.buf.start + e.at, x.offset, size))

IsoPiece(c, end) ==
  LET offset == c.filepos % SS
      sector == c.buf.file_start + c.filepos \div SS
      size == Least(SS - offset, end - c.filepos)
      After(d) ==
        IF d.errnum # ERR_NONE THEN [d EXCEPT !.out = <<>>, !.ret = 0, !.done = TRUE]
        ELSE [d EXCEPT !.filepos = @ + size, !.out = @ \o Cells(d.vol, sector, offset, size)]
  IN After(Devread(c, sector, offset, size))

UdfReadFrom(c, extents, k, len, end) ==
  Repeat(len, LAMBDA x : UdfPiece(x, extents, end), LAMBDA x : x.c.done \/ x.c.filepos = end,
         [c |-> [c EXCEPT !.buf.file_start = c.buf.start], k |-> k,
          offset |-> c.filepos - LengthTo(extents, k - 1)]).c

IsoReadFrom(c, len, end) ==
  LET ext == c.buf.entry.extents
      Ended(d) == IF d.done THEN d ELSE [d EXCEPT !.ret = Len(d.out)]
  IN IF c.buf.file_start = 0 THEN c
     ELSE Ended(IF c.buf.iso_type = ISO_TYPE_udf
                THEN UdfReadFrom(c, ext, ExtentOf(ext, c.filepos), len, end)
                ELSE Repeat(len, LAMBDA x : IsoPiece(x, end),
                            LAMBDA x : x.done \/ x.filepos = end, c))
IsoRead(c, len) ==
  IsoReadFrom([c EXCEPT !.out = <<>>, !.ret = 0, !.done = FALSE], len, c.filepos + len)
=============================================================================
