------------------------------- MODULE DriveMap -------------------------------
(***************************************************************************)
(* The drive map: map_func of builtins.c, set_int13_handler and            *)
(* unset_int13_handler of asm.S, and what a drive number stands for under  *)
(* the resident int 13 handler.                                            *)
(*                                                                         *)
(* bios_drive_map is the table the commands change, hooked_drive_map the   *)
(* copy the handler works from.  A slot maps a number to a real drive, to  *)
(* a range of its sectors, or to memory that map --mem has filled from an  *)
(* image; --rehook moves all of those as high as they go.  Sectors are     *)
(* numbers, 0 what nobody has put anywhere.                                *)
(***************************************************************************)
EXTENDS Integers, Sequences, SequencesExt, FiniteSets, FiniteSetsExt

CONSTANTS
  Numbers,         \* BIOS drive numbers
  Disks,           \* Disks[d]: the sectors of real drive d, <<>> if there is none
  DRIVE_MAP_SIZE,  \* slots
  Page,            \* sectors in 4096 bytes
  Memory,          \* sectors of memory
  Regions,         \* its usable ranges, <<first, end>>
  map_mem_min, map_mem_max,
  FourGB,          \* the sector behind the last 32-bit address
  Images,          \* the ranges that are mapped, <<drive, start, sectors>>
  Options,         \* of --mem=, in sectors, and --top: <<mem, top>>
  MaxCommands,     \* bound on the commands that change the table
  Aliases,         \* may a map without --mem name a hooked memory drive?
  Untidy,          \* may --mem be used while a hooked slot is already unmapped?
  FullRehook       \* may the table be full at a --rehook?

MEM == 255        \* to_drive of a memory drive
None == -1        \* no --mem, no --hook=FIRST

ASSUME DriveMapAssumption ==
  /\ Numbers \subseteq 0..254 /\ Disks \in [Numbers -> Seq(Nat)]
  /\ {DRIVE_MAP_SIZE, Page, Memory, map_mem_min, map_mem_max, FourGB} \subseteq Nat \ {0}
  /\ MaxCommands \in Nat /\ Regions \subseteq Nat \X Nat /\ Options \subseteq Int \X BOOLEAN
  /\ \A r \in Regions : r[1] < r[2] /\ r[2] <= Memory
  /\ \A r, q \in Regions : r = q \/ r[2] <= q[1] \/ q[2] <= r[1]
  /\ \A i \in Images : i[1] \in Numbers /\ i[2] \in Nat /\ i[3] \in Nat \ {0, 1}

VARIABLES
  bios_drive_map,
  hooked_drive_map,   \* <<>> while nothing reads it
  int13,              \* is the handler in the vector table?
  memory,             \* memory[a]; 0 where no slot leads
  pc,                 \* "idle", "rehook", "fatal"
  commands,           \* commands given, for the bound
  asked               \* history: the request of the last step

vars == <<bios_drive_map, hooked_drive_map, int13, memory, pc, commands, asked>>

-----------------------------------------------------------------------------
(* Slots *)

\* `img`, which the code has not, is the length of what was mapped: a slot of
\* a memory drive counts whole pages.
Slot(from, to, start, count, img) ==
  [from |-> from, to |-> to, start |-> start, count |-> count, img |-> img]

Find(table, d) == SelectInSeq(table, LAMBDA s : s.from = d)
InMemory(table) == {i \in DOMAIN table : table[i].to = MEM}

\* The sectors behind a slot, and behind number d under a table.
Content(s) ==
  IF s.to = MEM THEN [i \in 1..s.img |-> memory[s.start + i - 1]]
  ELSE IF s.count = 0 THEN Disks[s.to]
  ELSE SubSeq(Disks[s.to], s.start + 1, s.start + s.count)
Serves(table, d) ==
  LET i == Find(table, d) IN IF i = 0 THEN Disks[d] ELSE Content(table[i])

\* What int 13 gives now.
Now(d) == Serves(IF int13 THEN hooked_drive_map ELSE <<>>, d)

\* Memory no slot leads to is forgotten.
Kept(mem, table) ==
  [a \in DOMAIN mem |->
     IF \E i \in InMemory(table) :
          a \in table[i].start..(table[i].start + table[i].count - 1)
     THEN mem[a] ELSE 0]

-----------------------------------------------------------------------------
(* A place in memory *)

Down(n) == (n \div Page) * Page
Up(n) == Down(n + Page - 1)

\* The pages of the memory drives in bios_drive_map.
Span(s) == Down(s.start)..(Up(s.start + s.count) - 1)
Taken == UNION {Span(bios_drive_map[i]) : i \in InMemory(bios_drive_map)}

\* "only 32-bit addressable memory is allowed" without --top.
Lowest(r) == Up(IF r[1] > map_mem_min THEN r[1] ELSE map_mem_min)
Highest(r, top) ==
  LET limit == IF ~top /\ map_mem_max > FourGB THEN FourGB ELSE map_mem_max
  IN  Down(IF r[2] < limit THEN r[2] ELSE limit)

\* The bases at which `need` sectors fit.
\* Mutant: only the first page is compared.
BasesOnePage(need, top) ==
  {b \in DOMAIN memory :
     b % Page = 0 /\ \E r \in Regions : /\ b >= Lowest(r) /\ b + need <= Highest(r, top)
                                        /\ (b..(b + Page - 1)) \cap Taken = {}}
Bases(need, top) ==
  {b \in DOMAIN memory :
     b % Page = 0 /\ \E r \in Regions : /\ b >= Lowest(r) /\ b + need <= Highest(r, top)
                                        /\ (b..(b + need - 1)) \cap Taken = {}}

\* The range that a memory drive of n sectors gets, <<base, sectors>>; with
\* --mem=BASE all that is free from there on.
Places(n, mem, top) ==
  LET need == Up(IF mem < 0 /\ n < -mem THEN -mem ELSE n)
      fits == Bases(need, top)
      free == {r \in Regions : /\ mem >= Lowest(r) /\ mem + need <= Highest(r, top)
                               /\ (mem..(mem + need - 1)) \cap Taken = {}}
  IN  IF mem <= 0
        THEN {<<b, need>> : b \in {x \in fits : \A y \in fits : y <= x}}
        ELSE {<<mem, Min({Highest(r, top)} \cup {t \in Taken : t > mem}) - mem>> : r \in free}

-----------------------------------------------------------------------------
(* map TO FROM *)

\* The slot a map of `from` goes to: its own, or the first empty one.
Room(table, from) == Find(table, from) # 0 \/ Len(table) < DRIVE_MAP_SIZE
Stored(table, s) ==
  LET i == Find(table, s.from)
  IN  IF i = 0 THEN Append(table, s) ELSE [table EXCEPT ![i] = s]

\* The table without the slots of some numbers: each deletion moves up what
\* follows, so that the slots left keep their order.
Deleted(table, range) ==
  LET left == {i \in DOMAIN table : table[i].from \notin range}
      Nth(n) == CHOOSE i \in left : Cardinality({j \in left : j < i}) = n - 1
  IN  [n \in 1..Cardinality(left) |-> table[Nth(n)]]

\* "check whether TO is being mapped": the slot that a range of `to` really
\* names while int 13 is hooked; a whole drive takes over the range's length.
\* Mutant: the range is taken from the drive's own first sector.
ThroughFromStart(from, to, start, n) ==
  LET h == hooked_drive_map[Find(hooked_drive_map, to)]
  IN  IF ~int13 \/ Find(hooked_drive_map, to) = 0 THEN Slot(from, to, start, n, n)
      ELSE Slot(from, h.to, start, IF n = 0 THEN h.count ELSE n, IF n = 0 THEN h.img ELSE n)
Through(from, to, start, n) ==
  LET h == hooked_drive_map[Find(hooked_drive_map, to)]
  IN  IF ~int13 \/ Find(hooked_drive_map, to) = 0 THEN Slot(from, to, start, n, n)
      ELSE Slot(from, h.to, start + h.start,
                IF n = 0 THEN h.count ELSE n, IF n = 0 THEN h.img ELSE n)

\* The table after the map; a slot for a whole drive that is the drive itself
\* is deleted.
Mapped(table, s) ==
  IF s.to = s.from /\ s.start = 0 /\ s.count = 0 THEN Deleted(table, {s.from})
  ELSE Stored(table, s)

AliasFree(s) == Aliases \/ s.to # MEM

\* The bytes of every hooked memory drive still belong to a slot.
Tidy ==
  ~int13 \/ \A i \in InMemory(hooked_drive_map) : \E j \in InMemory(bios_drive_map) :
    /\ bios_drive_map[j].start = hooked_drive_map[i].start
    /\ bios_drive_map[j].count = hooked_drive_map[i].count

Request(from, to, start, n) ==
  [op |-> "map", from |-> from, to |-> to, start |-> start, n |-> n]
NoRequest == [op |-> "none"]

Init ==
  /\ bios_drive_map = <<>> /\ hooked_drive_map = <<>> /\ int13 = FALSE
  /\ memory = [a \in 0..(Memory - 1) |-> 0]
  /\ pc = "idle" /\ commands = 0 /\ asked = NoRequest

\* The next command: one that changes the table, or another.
Command == pc = "idle" /\ commands < MaxCommands /\ commands' = commands + 1
OtherCommand == pc = "idle" /\ UNCHANGED commands

\* Memory as it is with the table of now.
KeepMemory == memory' = Kept(memory, bios_drive_map' \o hooked_drive_map')

\* `map (to) (from)` with a table: refused if there is no slot or no such drive.
Possible(table, from, to) == Room(table, from) /\ Now(to) # <<>>
Given(table, from, to) ==
  IF Possible(table, from, to) THEN Mapped(table, Through(from, to, 0, 0)) ELSE table

\* map (to)start+n (from)
MapRange(from, to, start, n) ==
  LET s == Through(from, to, start, n)
  IN  /\ Command /\ start + n <= Len(Now(to)) /\ AliasFree(s)
      /\ Room(bios_drive_map, from)
      /\ bios_drive_map' = Mapped(bios_drive_map, s)
      /\ asked' = Request(from, to, start, n)
      /\ UNCHANGED <<hooked_drive_map, int13, pc>>
      /\ KeepMemory

\* map (to) (from)
MapWhole(from, to) ==
  /\ Command /\ from # to /\ Possible(bios_drive_map, from, to)
  /\ AliasFree(Through(from, to, 0, 0))
  /\ bios_drive_map' = Given(bios_drive_map, from, to)
  /\ asked' = Request(from, to, 0, 0)
  /\ UNCHANGED <<hooked_drive_map, int13, pc>>
  /\ KeepMemory

\* map --mem[=mem] [--top] (to)start+n (from): the image is read through the
\* hooked map to the place found for it.
MapMemory(from, to, start, n, mem, top) ==
  /\ Command /\ start + n <= Len(Now(to))
  /\ Untidy \/ Tidy
  /\ Room(bios_drive_map, from)
  /\ \E p \in Places(n, mem, top) :
       /\ bios_drive_map' = Stored(bios_drive_map, Slot(from, MEM, p[1], p[2], n))
       /\ memory' = Kept([a \in DOMAIN memory |->
                            IF a \in p[1]..(p[1] + n - 1) THEN Now(to)[start + a - p[1] + 1]
                            ELSE memory[a]],
                         bios_drive_map' \o hooked_drive_map)
  /\ asked' = Request(from, to, start, n)
  /\ UNCHANGED <<hooked_drive_map, int13, pc>>

\* map --unmap=RANGE; map (d) (d) is the same for one number.
Unmap(range) ==
  /\ Command
  /\ bios_drive_map' = Deleted(bios_drive_map, range)
  /\ asked' = [op |-> "unmap", range |-> range]
  /\ UNCHANGED <<hooked_drive_map, int13, pc>>
  /\ KeepMemory

\* map --swap-drive=a=b: the slots of the two numbers are renamed; a number
\* without a slot is mapped to by the other.
Renamed(table, a, b) ==
  [i \in DOMAIN table |->
     [table[i] EXCEPT !.from = IF @ = a THEN b ELSE IF @ = b THEN a ELSE @]]
Swap(a, b) ==
  LET k == Find(bios_drive_map, a) = 0
      l == Find(bios_drive_map, b) = 0
      t1 == Renamed(bios_drive_map, a, b)
      t2 == IF k THEN Given(t1, b, a) ELSE t1
  IN  /\ Command /\ a # b
      /\ k => AliasFree(Through(b, a, 0, 0))
      /\ l => AliasFree(Through(a, b, 0, 0))
      /\ bios_drive_map' = IF l THEN Given(t2, a, b) ELSE t2
      /\ asked' = [op |-> "swap", a |-> a, b |-> b,
                   fails |-> (k /\ ~Possible(t1, b, a)) \/ (l /\ ~Possible(t2, a, b))]
      /\ UNCHANGED <<hooked_drive_map, int13, pc>>
      /\ KeepMemory

-----------------------------------------------------------------------------
(* int 13 *)

\* set_int13_handler copies the table; --hook=FIRST puts a slot on top, if it
\* is not in the table's last place.
OnTop(table, first) ==
  LET i == SelectInSeq(table, LAMBDA s : s.from = first)
  IN  IF i = 0 \/ i = DRIVE_MAP_SIZE THEN table ELSE <<table[i]>> \o RemoveAt(table, i)
Hooked(table) == hooked_drive_map' = table /\ int13' = TRUE
Off == hooked_drive_map' = <<>> /\ int13' = FALSE

Hook(first) ==
  /\ OtherCommand /\ bios_drive_map # <<>>
  /\ bios_drive_map' = OnTop(bios_drive_map, first)
  /\ Hooked(bios_drive_map')
  /\ KeepMemory
  /\ asked' = NoRequest
  /\ UNCHANGED pc

\* boot hooks int 13 if there is anything mapped and it is not hooked yet.
Boot ==
  /\ OtherCommand /\ ~int13 /\ bios_drive_map # <<>>
  /\ Hooked(bios_drive_map)
  /\ asked' = NoRequest
  /\ UNCHANGED <<bios_drive_map, memory, pc>>

\* --unhook; and --hook and --rehook of an empty table.
Unhook ==
  /\ OtherCommand
  /\ Off /\ UNCHANGED bios_drive_map
  /\ KeepMemory
  /\ asked' = NoRequest
  /\ UNCHANGED pc

-----------------------------------------------------------------------------
(* map --rehook *)

\* The memory drives taken out of a table, the one that starts highest first:
\* k times, looking at all places but the last.
\* Mutant: the first one in the table first.
PickedFirst(table) ==
  {i \in InMemory(table) : i < DRIVE_MAP_SIZE /\ \A j \in InMemory(table) : i <= j}
Picked(table) ==
  LET seen == {i \in InMemory(table) : i < DRIVE_MAP_SIZE}
  IN  {i \in seen : \A j \in seen : \/ table[j].start < table[i].start
                                    \/ table[j].start = table[i].start /\ i <= j}
TakeHighest(o) ==
  IF Picked(o.left) = {} THEN o
  ELSE LET i == CHOOSE i \in Picked(o.left) : TRUE
       IN  [left |-> RemoveAt(o.left, i), list |-> Append(o.list, o.left[i])]
TakenOut ==
  LET out[k \in 0..(DRIVE_MAP_SIZE - 1)] ==
        IF k = 0 THEN [left |-> bios_drive_map, list |-> <<>>] ELSE TakeHighest(out[k - 1])
  IN  out[DRIVE_MAP_SIZE - 1]

\* int 13 is unhooked; hooked_drive_map holds the memory drives to be moved.
Rehook ==
  /\ OtherCommand /\ bios_drive_map # <<>>
  /\ FullRehook \/ Len(bios_drive_map) < DRIVE_MAP_SIZE
  /\ bios_drive_map' = TakenOut.left
  /\ hooked_drive_map' = TakenOut.list
  /\ int13' = FALSE
  /\ pc' = "rehook"
  /\ KeepMemory
  /\ asked' = NoRequest

\* The next one is mapped again, from memory; --top if it is above 4 GB.  "Fatal:
\* Error %d occurred while 'map %s'. Please report this bug."
RehookOne ==
  LET s == Head(hooked_drive_map)
      places == Places(s.count, 0, s.start >= FourGB)
  IN  /\ pc = "rehook" /\ hooked_drive_map # <<>>
      /\ hooked_drive_map' = Tail(hooked_drive_map)
      /\ IF places = {} THEN pc' = "fatal" /\ UNCHANGED <<bios_drive_map, memory>>
         ELSE \E p \in places :
                /\ bios_drive_map' = Append(bios_drive_map, Slot(s.from, MEM, p[1], p[2], s.img))
                /\ memory' = Kept([a \in DOMAIN memory |->
                                     IF a \in p[1]..(p[1] + s.count - 1)
                                     THEN memory[s.start + a - p[1]] ELSE memory[a]],
                                  bios_drive_map' \o hooked_drive_map')
                /\ UNCHANGED pc
      /\ UNCHANGED <<int13, commands, asked>>

RehookDone ==
  /\ pc = "rehook" /\ hooked_drive_map = <<>>
  /\ Hooked(bios_drive_map)
  /\ pc' = "idle"
  /\ UNCHANGED <<bios_drive_map, memory, commands, asked>>

Next ==
  \/ \E from \in Numbers, i \in Images : MapRange(from, i[1], i[2], i[3])
  \/ \E from, to \in Numbers : MapWhole(from, to)
  \/ \E from \in Numbers, i \in Images, o \in Options :
       MapMemory(from, i[1], i[2], i[3], o[1], o[2])
  \/ \E range \in SUBSET Numbers \ {{}} : Unmap(range)
  \/ \E a, b \in Numbers : Swap(a, b)
  \/ \E first \in Numbers \cup {None} : Hook(first)
  \/ Boot
  \/ Unhook
  \/ Rehook
  \/ RehookOne
  \/ RehookDone

Spec == Init /\ [][Next]_vars

-----------------------------------------------------------------------------
(* Properties *)

TypeOK ==
  LET Slots == [from : Numbers, to : Numbers \cup {MEM}, start : Nat, count : Nat, img : Nat]
  IN  /\ bios_drive_map \in Seq(Slots) /\ hooked_drive_map \in Seq(Slots)
      /\ int13 \in BOOLEAN /\ DOMAIN memory = 0..(Memory - 1)
      /\ pc \in {"idle", "rehook", "fatal"} /\ commands \in 0..MaxCommands

\* map_func's placement: the memory drives of the table lie in usable memory,
\* page by page apart, whatever was unmapped, overridden and moved before.
MemDrivesPlaced ==
  LET s(i) == bios_drive_map[i]
  IN  /\ \A i \in InMemory(bios_drive_map) :
           \E r \in Regions : /\ s(i).start >= Lowest(r)
                             /\ s(i).start + s(i).count <= Highest(r, TRUE)
      /\ \A i, j \in InMemory(bios_drive_map) : i = j \/ Span(s(i)) \cap Span(s(j)) = {}

\* "Fatal: Error %d occurred while 'map %s'. Please report this bug.": a
\* --rehook finds a place for every memory drive that had one.
RehookSucceeds == pc # "fatal"

\* A drive number means what it was mapped to, when it was mapped, through
\* chains of maps, moves in memory and later maps: the table and the handler
\* implement DriveNames.
ToMove == IF pc = "rehook" THEN hooked_drive_map ELSE <<>>
Names == INSTANCE DriveNames WITH
           Real <- Disks,
           pending <- [d \in Numbers |-> Serves(bios_drive_map \o ToMove, d)],
           active <- [d \in Numbers |-> Now(d)]
ImplementsDriveNames == Names!Spec
=============================================================================
