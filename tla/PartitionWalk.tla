---------------------------- MODULE PartitionWalk ----------------------------
(***************************************************************************)
(* The partitions of a drive (disk_io.c): next_partition, one call after   *)
(* another, as real_open_partition makes them to find one partition and as *)
(* `find` makes them to visit all; devread's bounds.                       *)
(*                                                                         *)
(* A walk keeps its cursor in its caller's variables; what kind of table   *)
(* the drive has, the primary table and the sector last read are global,   *)
(* and `find` opens partitions in the middle of its own walk.              *)
(*                                                                         *)
(* Numbers of slices count from 0; None stands for 0xFF, "no slice" or "no *)
(* BSD partition".                                                         *)
(***************************************************************************)
EXTENDS Integers, FiniteSets, Sequences

CONSTANTS
  Drives,
  Disks,         \* what a drive may hold, see IsDisk
  SliceMax,      \* PC_SLICE_MAX
  Last,          \* 0xFE, the number at which a walk stops
  Array,         \* where a GPT has its entries (hdr_lba_table), as `entry` counts
  Stray,         \* what other sectors read as, taken for entries of a GPT
  Limit,         \* 2^32
  Total,         \* buf_geom.total_sectors
  SS,            \* bytes per sector
  Wide,          \* 2^64
  Conditions,    \* drives that the CONDITION of `find` may open
  Dests,         \* bound: the partitions that are opened by name
  Sectors, Lengths  \* bounds: what file systems ask devread for

None == Last + 1
Whole == [part |-> None, sub |-> None]
Types == {"none", "data", "ext", "bsd"}

\* A table entry: is its geometry that of an entry (ok) or garbage?
Entry == [type : Types, start : Nat, len : Nat, ok : BOOLEAN]
Empty == [type |-> "none", start |-> 0, len |-> 0, ok |-> FALSE]

\* `table` maps the sectors with a boot signature to their four entries; `gpt`
\* is the entry array of a GPT drive (<<>>: the drive has none), `label` the
\* BSD labels by the sector they are in.
IsDisk(d) ==
  /\ \A o \in DOMAIN d.table : d.table[o] \in [1..SliceMax -> Entry]
  /\ d.gpt \in Seq([start : Nat, len : Nat, reserved : BOOLEAN]) /\ Len(d.gpt) <= None
  /\ \A o \in DOMAIN d.label :
       d.label[o] \in Seq([type : {"none", "data"}, start : Nat, len : Nat])

ASSUME WalkAssumption ==
  /\ SliceMax \in Nat \ {0} /\ Last \in Nat /\ SliceMax <= Last
  /\ Array \in 1..SliceMax /\ Stray \subseteq [start : Nat \ {0}, len : Nat]
  /\ Limit \in Nat \ {0} /\ Total \in Nat /\ SS \in Nat \ {0} /\ Wide \in Nat \ {0}
  /\ \A d \in Disks : IsDisk(d)
  /\ Dests \subseteq [part : 0..None, sub : Nat] /\ Whole \notin Dests
  /\ Conditions \subseteq Drives /\ Sectors \subseteq Nat /\ Lengths \subseteq Nat

Walks == {"find", "open"}

VARIABLES
  disk,      \* the drives' content
  gpt,       \* partition_table_type is GPT
  gpt_max,   \* gpt_part_max
  primary,   \* primary_partition_table
  mbr,       \* the sector in the buffer, if it is a BSD label, or <<>>
  pc,        \* of each walk: "off", "call", "slice", "got", "inside", "done"
  drive, dest,  \* next_partition_drive and _dest of each walk
  w,         \* the cursor of each walk
  fault,     \* has a read of the walk under way failed?
  visited,   \* partitions `find` has opened in this walk
  opened,    \* did the last real_open_partition succeed?
  access     \* the bytes the last devread moved: <<first, last>>, or <<>>

vars == <<disk, gpt, gpt_max, primary, mbr, pc, drive, dest, w, fault, visited,
          opened, access>>
tables == <<gpt, gpt_max, primary, mbr>>

-----------------------------------------------------------------------------
\* *partition = 0xFFFFFF; the rest is as the caller's variables happen to be.
Fresh == [part |-> None, sub |-> None, type |-> "none", start |-> 0, len |-> Total,
          offset |-> 0, entry |-> 0, ext |-> 0]

Init ==
  /\ disk \in [Drives -> Disks]
  /\ gpt = FALSE /\ gpt_max = 0 /\ primary = <<>> /\ mbr = <<>>
  /\ pc = [c \in Walks |-> "off"]
  /\ drive \in [Walks -> Drives] /\ \A c, e \in Walks : drive[c] = drive[e]
  /\ dest = [c \in Walks |-> Whole]
  /\ w = [c \in Walks |-> Fresh]
  /\ fault = FALSE /\ visited = <<>> /\ opened = FALSE /\ access = <<>>

Goto(c, label) == pc' = [pc EXCEPT ![c] = label]

\* next_partition returns 0 with an error number.
Fails(c) ==
  Goto(c, "done") /\ UNCHANGED <<disk, drive, dest, w, visited, opened, access>>

\* It returns 1.
Reports(c, cursor) ==
  /\ Goto(c, "got") /\ w' = [w EXCEPT ![c] = cursor]
  /\ UNCHANGED <<disk, drive, dest, visited, opened, access>>

Turns(c, cursor) ==
  /\ Goto(c, "slice") /\ w' = [w EXCEPT ![c] = cursor]
  /\ UNCHANGED <<disk, drive, dest, visited, opened, access>>

-----------------------------------------------------------------------------
(* next_bsd_partition, in a slice that may have BSD partitions. *)

InBsd(c) == w[c].part # None /\ w[c].type = "bsd"

\* The label in the buffer: read in the slice's second sector when the slice is
\* entered ("check if the BSD label is within current PC slice"), and taken as
\* it stands in the buffer afterwards.  <<>>: no label.
Label(c) ==
  LET o == w[c].start + 1
  IN IF w[c].sub # None THEN mbr
     ELSE IF w[c].len >= 2 /\ o \in DOMAIN disk[drive[c]].label
     THEN disk[drive[c]].label[o] ELSE <<>>

\* "Search next valid BSD partition"; they count from 0.
SubsLeft(c) ==
  {i \in DOMAIN Label(c) :
     Label(c)[i].type # "none" /\ (w[c].sub # None => i > w[c].sub + 1)}

BsdPartition(c) ==
  /\ pc[c] = "call" /\ InBsd(c) /\ SubsLeft(c) # {}
  /\ LET i == CHOOSE i \in SubsLeft(c) : \A j \in SubsLeft(c) : i <= j
     IN Reports(c, [w[c] EXCEPT !.sub = i - 1, !.start = Label(c)[i].start,
                                !.len = Label(c)[i].len])
  /\ mbr' = Label(c)
  /\ UNCHANGED <<gpt, gpt_max, primary, fault>>

\* "If the destination partition is a BSD partition" here, an error aborts the
\* walk; else it is ignored.
BsdError(c) ==
  IF dest[c].sub # None /\ dest[c].part \in {None, w[c].part}
  THEN Fails(c) ELSE Turns(c, w[c])

\* No label, or none of its partitions left.
BsdOver(c) ==
  /\ pc[c] = "call" /\ InBsd(c) /\ SubsLeft(c) = {}
  /\ BsdError(c)
  /\ mbr' = Label(c)
  /\ UNCHANGED <<gpt, gpt_max, primary, fault>>

NotBsd(c) ==
  /\ pc[c] = "call" /\ ~InBsd(c)
  /\ Turns(c, w[c]) /\ UNCHANGED <<tables, fault>>

-----------------------------------------------------------------------------
(* next_pc_slice; `redo` is another turn. *)

TooMany(c) ==
  pc[c] = "slice" /\ w[c].part = Last /\ Fails(c) /\ UNCHANGED <<tables, fault>>

\* next_gpt_slice from slice number k: empty entries are passed over, the
\* reserved one in a walk over all.
\* Mutant: an empty entry is reported.
GptWithHoles(c, k, max) ==
  {i \in DOMAIN disk[drive[c]].gpt : i > k + 1 /\ i <= max
     /\ ~(disk[drive[c]].gpt[i].reserved /\ dest[c] = Whole)}
GptLeft(c, k, max) ==
  {i \in DOMAIN disk[drive[c]].gpt : i > k + 1 /\ i <= max
     /\ disk[drive[c]].gpt[i].start # 0
     /\ ~(disk[drive[c]].gpt[i].reserved /\ dest[c] = Whole)}

\* "If this is the first time": where the walk stands.
Start(c) ==
  IF w[c].part = None THEN [w[c] EXCEPT !.offset = 0, !.ext = 0, !.entry = 0]
  ELSE w[c]

NextGpt(c, k, max) ==
  IF GptLeft(c, k, max) = {} THEN Fails(c)
  ELSE LET i == CHOOSE i \in GptLeft(c, k, max) : \A j \in GptLeft(c, k, max) : i <= j
           e == disk[drive[c]].gpt[i]
       IN Reports(c, [Start(c) EXCEPT !.part = i - 1, !.sub = None, !.type = "data",
                                      !.start = e.start, !.len = e.len, !.entry = Array])

\* The first call goes straight to the destination's entry.
FirstGpt(c) == IF dest[c] = Whole THEN -1 ELSE dest[c].part - 1

\* It finds a protective MBR and reads a GPT header.
GptFirst(c) ==
  /\ pc[c] = "slice" /\ w[c].part = None /\ disk[drive[c]].gpt # <<>>
  /\ gpt' = TRUE /\ gpt_max' = Len(disk[drive[c]].gpt)
  /\ NextGpt(c, FirstGpt(c), gpt_max')
  /\ mbr' = <<>> /\ UNCHANGED <<primary, fault>>

\* partition_table_type is GPT since some walk's first call.
Again(c) == pc[c] = "slice" /\ w[c].part \notin {Last, None} /\ gpt

\* Was it this walk's, so that its cursor is at the entries?
AtArray(c) == w[c].entry = Array /\ gpt_max = Len(disk[drive[c]].gpt)

GptAgain(c) ==
  /\ Again(c) /\ AtArray(c) /\ NextGpt(c, w[c].part, gpt_max)
  /\ mbr' = <<>> /\ UNCHANGED <<gpt, gpt_max, primary, fault>>

\* It was a walk inside this one, and this cursor counts the entries of a table:
\* what is read from there is no entry.
GptAstray(c) ==
  /\ Again(c) /\ ~AtArray(c)
  /\ \/ Fails(c)
     \/ \E k \in (w[c].part + 1)..(gpt_max - 1), e \in Stray :
          Reports(c, [w[c] EXCEPT !.part = k, !.sub = None, !.type = "data",
                                  !.start = e.start, !.len = e.len])
  /\ mbr' = <<>> /\ UNCHANGED <<gpt, gpt_max, primary, fault>>

HasTable(d, o) == o \in DOMAIN disk[d].table
TableAt(d, o) == disk[d].table[o]

\* bad_part_table: no signature; or, outside the MBR, a copy of the primary
\* table or an extended entry that points back at this very record.
\* Mutant: the last is not looked for.
BadTableNoSelf(d, x, o, first) == ~HasTable(d, o) \/ (o # 0 /\ TableAt(d, o) = first)
BadTable(d, x, o, first) ==
  \/ ~HasTable(d, o)
  \/ o # 0 /\ TableAt(d, o) = first
  \/ o # 0 /\ \E i \in 1..SliceMax :
       TableAt(d, o)[i].type = "ext" /\ x + TableAt(d, o)[i].start = o

Logical(x) == x.part # None /\ x.part >= SliceMax - 1

\* next_entry: entries that are passed over.
Passed(x, e) ==
  \/ x.offset + e.start >= Limit
  \/ Logical(x) /\ (e = Empty \/ e.type = "ext" \/ e.len = 0)

\* The entry's partition; a garbage one in the primary table is null_entry.
Slice(x, e, i) ==
  LET y == [x EXCEPT !.part = IF x.part = None THEN 0 ELSE x.part + 1,
                     !.sub = None, !.entry = i]
  IN IF ~Logical(x) /\ ~e.ok THEN [y EXCEPT !.type = "none", !.start = 0, !.len = 0]
     ELSE [y EXCEPT !.type = e.type, !.start = x.offset + e.start, !.len = e.len]

\* "Search the first extended partition in current table", of those that do
\* not overflow.
Links(x, t) == {i \in 1..SliceMax : t[i].type = "ext" /\ x.ext + t[i].start < Limit}

\* "Found.  Set the new offset and the entry number, and restart".
\* Mutant: the link is taken relative to this record, not to the first.
FollowFromHere(x, e) ==
  [x EXCEPT !.offset = x.offset + e.start, !.entry = 0,
            !.ext = IF x.ext = 0 THEN e.start ELSE x.ext]
Follow(x, e) ==
  [x EXCEPT !.offset = x.ext + e.start, !.entry = 0,
            !.ext = IF x.ext = 0 THEN e.start ELSE x.ext]

\* One turn over the partition table at the cursor, the MBR in the first call.
OverTable(c) ==
  /\ LET x == Start(c)
         d == drive[c]
         first == IF x.offset = 0 /\ HasTable(d, 0) THEN TableAt(d, 0) ELSE primary
         t == TableAt(d, x.offset)
         left == {i \in 1..SliceMax : i > x.entry /\ ~Passed(x, t[i])}
         least(S) == CHOOSE i \in S : \A j \in S : i <= j
     IN /\ primary' = first
        /\ CASE BadTable(d, x.ext, x.offset, first) -> Fails(c)
             [] OTHER ->
                  IF left # {} THEN Reports(c, Slice(x, t[least(left)], least(left)))
                  ELSE IF Links(x, t) # {} THEN Turns(c, Follow(x, t[least(Links(x, t))]))
                  ELSE Fails(c)
  /\ gpt' = FALSE /\ mbr' = <<>> /\ UNCHANGED gpt_max

\* Does this turn read a table, rather than entries of a GPT?
ReadsTable(c) == pc[c] = "slice" /\ w[c].part # Last /\ (w[c].part = None \/ ~gpt)

MbrTurn(c) ==
  /\ ReadsTable(c) /\ (w[c].part = None => disk[drive[c]].gpt = <<>>)
  /\ OverTable(c) /\ UNCHANGED fault

NextPartition(c) ==
  \/ BsdPartition(c) \/ BsdOver(c) \/ NotBsd(c)
  \/ TooMany(c) \/ GptFirst(c) \/ GptAgain(c) \/ GptAstray(c) \/ MbrTurn(c)

-----------------------------------------------------------------------------
(* A rawread fails; what was in the buffer stays there. *)

\* Of a table: the walk ends.
TableUnread(c) ==
  /\ ReadsTable(c) /\ Fails(c)
  /\ gpt' = FALSE /\ fault' = TRUE /\ UNCHANGED <<gpt_max, primary, mbr>>

\* Of the GPT header: is_gpt_part returns 0, as if there were none, and the
\* protective MBR is taken for a table like any other.
HeaderUnread(c) ==
  /\ pc[c] = "slice" /\ w[c].part = None /\ disk[drive[c]].gpt # <<>>
  /\ OverTable(c) /\ fault' = TRUE

\* Of an entry, of those that are read in this call: the walk ends, and what was
\* said of the table holds on.
EntryUnread(c) ==
  /\ \/ /\ Again(c) /\ w[c].part + 1 < gpt_max
        /\ UNCHANGED tables
     \/ /\ pc[c] = "slice" /\ w[c].part = None
        /\ FirstGpt(c) + 1 < Len(disk[drive[c]].gpt)
        /\ gpt' = TRUE /\ gpt_max' = Len(disk[drive[c]].gpt)
        /\ mbr' = <<>> /\ UNCHANGED primary
  /\ Fails(c) /\ fault' = TRUE

\* Of a BSD label, in a slice of two sectors or more: one of the errors that may
\* be ignored.
LabelUnread(c) ==
  /\ pc[c] = "call" /\ InBsd(c) /\ w[c].sub = None /\ w[c].len >= 2
  /\ BsdError(c) /\ fault' = TRUE /\ UNCHANGED tables

ReadFails(c) == TableUnread(c) \/ HeaderUnread(c) \/ EntryUnread(c) \/ LabelUnread(c)

-----------------------------------------------------------------------------
(* real_open_partition (0): nothing else runs until it returns. *)

Idle == \A c \in Walks : pc[c] = "off"

Begin(c, d, p) ==
  /\ drive' = [drive EXCEPT ![c] = d] /\ dest' = [dest EXCEPT ![c] = p]
  /\ w' = [w EXCEPT ![c] = Fresh]

OpenPartition ==
  /\ Idle /\ Goto("open", "call")
  /\ \E d \in Drives, p \in Dests : Begin("open", d, p)
  /\ opened' = FALSE /\ fault' = FALSE /\ access' = <<>>
  /\ UNCHANGED <<disk, tables, visited>>

\* "Check if this is the destination partition": of a valid partition only.
IsDest(x, p) ==
  /\ x.type # "none"
  /\ \/ p = [part |-> x.part, sub |-> x.sub]
     \/ p.part = None /\ p.sub = x.sub

OpenGot ==
  /\ pc["open"] = "got"
  /\ opened' = IsDest(w["open"], dest["open"])
  /\ Goto("open", IF opened' THEN "done" ELSE "call")
  /\ UNCHANGED <<disk, tables, drive, dest, w, fault, visited, access>>

OpenOver ==
  /\ pc["open"] = "done" /\ Goto("open", "off")
  /\ UNCHANGED <<disk, tables, drive, dest, w, fault, visited, opened, access>>

-----------------------------------------------------------------------------
(* find_func's walk over one hard disk, and find_check's open_device. *)

Find ==
  /\ Idle /\ Goto("find", "call")
  /\ \E d \in Drives : Begin("find", d, Whole)
  /\ visited' = <<>> /\ opened' = FALSE /\ fault' = FALSE /\ access' = <<>>
  /\ UNCHANGED <<disk, tables>>

Visit(x) == [part |-> x.part, sub |-> x.sub, start |-> x.start, len |-> x.len]

\* Does `find` look into this partition?
Looks(x) ==
  /\ x.start # 0 /\ x.len # 0 /\ x.type # "ext"
  /\ x.type = "bsd" => x.sub # None

FindPasses ==
  /\ pc["find"] = "got" /\ ~Looks(w["find"]) /\ Goto("find", "call")
  /\ UNCHANGED <<disk, tables, drive, dest, w, fault, visited, opened, access>>

\* It opens the partition; CONDITION may open others.
FindLooks ==
  /\ pc["find"] = "got" /\ Looks(w["find"])
  /\ visited' = Append(visited, Visit(w["find"]))
  /\ pc' = [pc EXCEPT !["find"] = "inside", !["open"] = "call"]
  /\ \/ Begin("open", drive["find"], [part |-> w["find"].part, sub |-> w["find"].sub])
     \/ \E d \in Conditions : Begin("open", d, [part |-> 0, sub |-> None])
  /\ opened' = FALSE
  /\ UNCHANGED <<disk, tables, fault, access>>

FindOn ==
  /\ pc["find"] = "inside" /\ pc["open"] = "off" /\ Goto("find", "call")
  /\ UNCHANGED <<disk, tables, drive, dest, w, fault, visited, opened, access>>

FindOver ==
  /\ pc["find"] = "done" /\ Goto("find", "off")
  /\ w' = [w EXCEPT !["find"] = Fresh] /\ visited' = <<>>
  /\ UNCHANGED <<disk, tables, drive, dest, fault, opened, access>>

-----------------------------------------------------------------------------
(* devread, in the partition that has been opened. *)

\* "Check partition boundaries", in 64-bit numbers; none if part_start is 0.
\* Mutant: the offset in the sector is left out of it.
OutsideIgnoringOffset(x, s, o, l) ==
  x.start # 0 /\ (s + ((l - 1) % Wide) \div SS) % Wide >= x.len
Outside(x, s, o, l) ==
  x.start # 0 /\ (s + ((o + l - 1) % Wide) \div SS) % Wide >= x.len

\* The bytes of the drive that rawread is asked for.
Asked(x, s, o, l) ==
  LET lo == (((s + o \div SS + x.start) % Wide) * SS) + (o % SS)
  IN <<lo, lo + l - 1>>

Devread ==
  /\ Idle /\ opened
  /\ \E s \in Sectors, o \in 0..(2 * SS), l \in Lengths :
       access' = IF Outside(w["open"], s, o, l) THEN <<>>
                 ELSE Asked(w["open"], s, o, l)
  /\ UNCHANGED <<disk, tables, pc, drive, dest, w, fault, visited, opened>>

-----------------------------------------------------------------------------
Walking ==
  \/ \E c \in Walks : NextPartition(c)
  \/ OpenGot \/ OpenOver \/ FindPasses \/ FindLooks \/ FindOn \/ FindOver

Next ==
  \/ Walking \/ \E c \in Walks : ReadFails(c)
  \/ OpenPartition \/ Find \/ Devread

\* The loader runs its own code: a walk that can go on goes on, whether or not
\* a read ever fails.
Spec == Init /\ [][Next]_vars /\ WF_vars(Walking)

-----------------------------------------------------------------------------
(* What the partitions of a drive are, said without a cursor. *)

\* A drive of which only the MBR is seen, and what a walk takes its drive for.
AsMbr(d) ==
  IF d.gpt = <<>> THEN d ELSE [table |-> d.table, gpt |-> <<>>, label |-> d.label]
Readings == Disks \cup {AsMbr(d) : d \in Disks}
Seen(c) == IF gpt THEN disk[drive[c]] ELSE AsMbr(disk[drive[c]])

ExtFrom(d, base, o) ==
  {i \in 1..SliceMax : d.table[o][i].type = "ext" /\ base + d.table[o][i].start < Limit}
First(S) == CHOOSE i \in S : \A j \in S : i <= j

\* Where the extended partition begins.
Base(d) == IF ExtFrom(d, 0, 0) = {} THEN 0 ELSE d.table[0][First(ExtFrom(d, 0, 0))].start

\* The k-th record of the chain, -1 when the chain has ended.  One more record
\* than there are tables is enough to see a cycle.
Records(d) == 0..(Cardinality(DOMAIN d.table) + 1)
Chain(d) ==
  LET next(o) ==
        LET b == IF o = 0 THEN 0 ELSE Base(d)
            S == ExtFrom(d, b, o)
            p == b + d.table[o][First(S)].start
        IN IF S = {} THEN -1
           ELSE IF p = 0 THEN 0
           ELSE IF p \notin DOMAIN d.table THEN -1
           ELSE IF d.table[p] = d.table[0] THEN -1
           ELSE IF \E i \in 1..SliceMax :
                     d.table[p][i].type = "ext" /\ Base(d) + d.table[p][i].start = p THEN -1
           ELSE p
      f[k \in Records(d)] ==
        IF k = 0 THEN IF 0 \in DOMAIN d.table THEN 0 ELSE -1
        ELSE IF f[k - 1] = -1 THEN -1 ELSE next(f[k - 1])
  IN f

Cycles(d) ==
  LET f == Chain(d)
  IN {jk \in Records(d) \X Records(d) :
        jk[1] < jk[2] /\ f[jk[1]] = f[jk[2]] /\ f[jk[1]] # -1}
Cyclic == {d \in Readings : d.gpt = <<>> /\ Cycles(d) # {}}

\* Is there a logical partition in this entry?
Holds(d, o, i) ==
  LET e == d.table[o][i]
  IN e # Empty /\ e.type # "ext" /\ e.len # 0 /\ o + e.start < Limit

\* A chain that comes back without having passed any partition.
EmptyCycle ==
  {d \in Cyclic : \E jk \in Cycles(d) : \A k \in (jk[1] + 1)..jk[2] :
     \A i \in 1..SliceMax : ~Holds(d, Chain(d)[k], i)}

LogicalSlots(d) ==
  LET f == Chain(d)
  IN {a \in (Records(d) \ {0}) \X (1..SliceMax) :
        f[a[1]] # -1 /\ Holds(d, f[a[1]], a[2])}
Before(a, b) == a[1] < b[1] \/ (a[1] = b[1] /\ a[2] < b[2])

Null == [type |-> "none", start |-> 0, len |-> 0]
Slices(d) ==
  IF d.gpt # <<>>
  THEN {[part |-> i - 1, type |-> "data", start |-> d.gpt[i].start, len |-> d.gpt[i].len] :
          i \in {i \in DOMAIN d.gpt : d.gpt[i].start # 0}}
  ELSE IF 0 \notin DOMAIN d.table THEN {}
  ELSE {LET e == d.table[0][i]  v == IF e.ok THEN e ELSE Null
        IN [part |-> i - 1, type |-> v.type, start |-> v.start, len |-> v.len] :
          i \in 1..SliceMax}
       \cup
       {LET o == Chain(d)[a[1]]  e == d.table[o][a[2]]
        IN [part |-> SliceMax + Cardinality({b \in LogicalSlots(d) : Before(b, a)}),
            type |-> e.type, start |-> o + e.start, len |-> e.len] :
          a \in LogicalSlots(d)}

\* With the BSD partitions of each.
SubsOf(d, s) ==
  IF s.type # "bsd" \/ s.len < 2 \/ s.start + 1 \notin DOMAIN d.label THEN {}
  ELSE LET t == d.label[s.start + 1]
       IN {[part |-> s.part, sub |-> i - 1, type |-> "bsd", start |-> t[i].start,
            len |-> t[i].len] : i \in {i \in DOMAIN t : t[i].type # "none"}}
Partitions ==
  [d \in Readings \ Cyclic |->
     UNION {{[part |-> s.part, sub |-> None, type |-> s.type, start |-> s.start,
              len |-> s.len]} \cup SubsOf(d, s) :
              s \in {s \in Slices(d) : s.part <= Last}}]
Reserved(d, p) == d.gpt # <<>> /\ d.gpt[p.part + 1].reserved

\* (hd0,a) is BSD partition a of the first slice that is a BSD one.
Named(d, p) ==
  IF p.part # None THEN {x \in Partitions[d] : IsDest(x, p)}
  ELSE {x \in Partitions[d] : IsDest(x, p) /\ \A y \in Partitions[d] :
          y.type = "bsd" => y.part >= x.part}

-----------------------------------------------------------------------------
TypeOK ==
  /\ pc \in [Walks -> {"off", "call", "slice", "got", "inside", "done"}]
  /\ \A c \in Walks :
       /\ w[c].part \in 0..None /\ w[c].sub \in Nat /\ w[c].entry \in 0..SliceMax
       /\ w[c].offset \in 0..(Limit - 1) /\ w[c].ext \in 0..(Limit - 1)
  /\ gpt \in BOOLEAN /\ gpt_max \in 0..None /\ opened \in BOOLEAN

\* `find`: "search ... in all of partitions".  Unless a read failed or the
\* chain of records bites its tail, each partition of the drive is looked into
\* exactly once.
FindVisitsAll ==
  LET d == disk[drive["find"]]
  IN pc["find"] = "done" /\ ~fault /\ d \notin Cyclic =>
       /\ {visited[i] : i \in DOMAIN visited} =
            {Visit(p) : p \in {p \in Partitions[d] : Looks(p) /\ ~Reserved(d, p)}}
       /\ \A i, j \in DOMAIN visited : i # j => visited[i] # visited[j]

\* real_open_partition finds the partition of that number, with its extent, if
\* there is one, and nothing else: of the drive or, when the header of its GPT
\* could not be read, of what the MBR alone says.
OpenFindsIt ==
  LET d == Seen("open")  p == dest["open"]  x == w["open"]
  IN pc["open"] = "done" =>
       /\ fault \/ d = disk[drive["open"]]
       /\ d \notin Cyclic =>
            IF opened THEN \E y \in Named(d, p) :
                             Visit(y) = Visit(x) /\ y.type = x.type
            ELSE fault \/ Named(d, p) = {}

\* Every walk ends, unless the chain comes back to a record with no partition
\* on the way.
WalkEnds ==
  \A c \in Walks :
    pc[c] # "off" /\ {AsMbr(disk[drive[e]]) : e \in Walks} \cap EmptyCycle = {}
      ~> pc[c] = "off"

\* The same for any table: "fixed a major problem of endless loop on enumeration
\* of partitions".
AllWalksEnd == \A c \in Walks : pc[c] # "off" ~> pc[c] = "off"

\* What is opened is on the drive, read errors or not: not so once a GPT header
\* could not be read.
OpensNothingElse ==
  LET d == disk[drive["open"]]  x == w["open"]
  IN pc["open"] = "done" /\ opened /\ {d, AsMbr(d)} \cap Cyclic = {} =>
       \E y \in Partitions[d] : Visit(y) = Visit(x)

\* What devread passes on lies in the opened partition.
ReadsStayInside ==
  access # <<>> /\ w["open"].start # 0 =>
    /\ access[1] >= w["open"].start * SS
    /\ access[2] < (w["open"].start + w["open"].len) * SS
=============================================================================
