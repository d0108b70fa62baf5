------------------------- MODULE PartitionWalkProofs -------------------------
(***************************************************************************)
(* The partitions of a drive, for every table, label and array: the        *)
(* cursors of the walks keep their types, devread asks for no byte outside *)
(* the partition that has been opened, the partition opened is the one of  *)
(* that number, and `find` looks into each exactly once.                   *)
(***************************************************************************)
EXTENDS PartitionWalk, FiniteSetTheorems, WellFoundedInduction, TLAPS

GptEntry == [start : Nat, len : Nat, reserved : BOOLEAN]
SubEntry == [type : {"none", "data"}, start : Nat, len : Nat]

Cursor ==
  [part : 0..None, sub : Nat, type : Types, start : Nat, len : Nat,
   offset : 0..(Limit - 1), entry : 0..SliceMax, ext : 0..(Limit - 1)]

\* What TypeOK rests on: the drives and the sector in the buffer have the types
\* of what was read.
Typed ==
  /\ pc \in [Walks -> {"off", "call", "slice", "got", "inside", "done"}]
  /\ disk \in [Drives -> Disks] /\ drive \in [Walks -> Drives]
  /\ w \in [Walks -> Cursor]
  /\ mbr \in Seq(SubEntry)
  /\ gpt \in BOOLEAN /\ gpt_max \in 0..None /\ opened \in BOOLEAN

\* Numbers as wide as their fields: a partition ends below 2^64.  A table's
\* are of 32 bits, and the entries of a GPT in use are those of a real drive.
Ends(e) == e.start + e.len < Wide
RealDisks ==
  /\ Limit + Limit <= Wide
  /\ \A d \in Disks :
       /\ \A o \in DOMAIN d.table : \A i \in 1..SliceMax : d.table[o][i].len < Limit
       /\ \A k \in DOMAIN d.gpt : d.gpt[k].start # 0 => Ends(d.gpt[k])
       /\ \A o \in DOMAIN d.label : \A i \in DOMAIN d.label[o] : Ends(d.label[o][i])

\* The last sector of a request, counted in 64 bits from the start of the
\* partition, has not wrapped.
NoWrap ==
  \A s \in Sectors, o \in 0..(2 * SS), l \in Lengths :
    o + l <= Wide /\ s + ((o + l - 1) % Wide) \div SS < Wide

\* The partition real_open_partition was told and the label in the buffer end
\* below 2^64, and the bytes last moved are forgotten when a walk begins.
Bounded ==
  /\ w["open"].start # 0 => Ends(w["open"])
  /\ \A i \in DOMAIN mbr : Ends(mbr[i])
  /\ Idle \/ access = <<>>

Moving(c) == pc[c] \notin {"off", "done"}
Disk(c) == disk[drive[c]]

\* Nothing walks inside real_open_partition: behind its first slice the kind of
\* table is what its own first call said, its cursor is at the entries if that
\* was a GPT, and it is the drive's unless a read failed.
Straight ==
  LET x == w["open"]  d == Disk("open")
  IN /\ pc["open"] # "off" => pc["find"] \in {"off", "inside"}
     /\ pc["open"] # "inside"
     /\ Moving("open") /\ x.part = None => x.sub = None /\ pc["open"] \in {"call", "slice"}
     /\ Moving("open") /\ x.part # None /\ gpt =>
          d.gpt # <<>> /\ gpt_max = Len(d.gpt) /\ x.entry = Array
     /\ (Moving("open") /\ x.part # None) \/ pc["open"] = "done" =>
          fault \/ Seen("open") = d

IInv == Typed /\ Straight /\ Bounded /\ ReadsStayInside

-----------------------------------------------------------------------------
(* Constants, least elements, drives *)

LEMMA Sizes ==
  /\ SliceMax \in Nat \ {0} /\ Last \in Nat /\ SliceMax <= Last /\ None = Last + 1
  /\ Limit \in Nat \ {0} /\ Total \in Nat /\ SS \in Nat \ {0} /\ Wide \in Nat \ {0}
BY WalkAssumption DEF None

LEMMA ArrayFacts == Array \in 0..SliceMax
BY WalkAssumption

\* A set of numbers has a least one.
LEMMA Least ==
  ASSUME NEW S \in SUBSET Nat, S # {}
  PROVE  \E i \in S : \A j \in S : i <= j
<1> DEFINE R == {ss \in Nat \X Nat : ss[1] < ss[2]}
<1>1. IsWellFoundedOn(R, Nat)
  BY NatLessThanWellFounded DEF OpToRel
<1>2. \E i \in S : \A j \in S : ~(<<j, i>> \in R)
  <2> HIDE DEF R
  <2> QED
    BY <1>1, WFMin
<1>3. PICK i \in S : \A j \in S : ~(<<j, i>> \in R)
  BY <1>2
<1>4. \A j \in S : ~(j < i)
  BY <1>3
<1> QED
  BY <1>3, <1>4

LEMMA LeastChosen ==
  ASSUME NEW S \in SUBSET Nat, S # {}
  PROVE  (CHOOSE i \in S : \A j \in S : i <= j) \in S
BY Least

LEMMA DiskFacts ==
  ASSUME Typed, NEW c \in Walks
  PROVE  disk[drive[c]] \in Disks /\ IsDisk(disk[drive[c]])
BY WalkAssumption DEF Typed

LEMMA CursorFacts ==
  ASSUME Typed, NEW c \in Walks
  PROVE  w[c] \in Cursor /\ w[c].part \in 0..None /\ w[c].start \in Nat /\ w[c].len \in Nat
BY DEF Typed, Cursor

LEMMA FreshFacts == Fresh \in Cursor /\ Fresh.start = 0
<1>1. None \in 0..None /\ 0 \in 0..(Limit - 1) /\ 0 \in 0..SliceMax /\ None \in Nat
  BY Sizes
<1> QED
  BY <1>1, Sizes DEF Fresh, Cursor, Types

\* The entries of a label, and that of a GPT drive.
LEMMA LabelFacts ==
  ASSUME Typed, NEW c \in Walks
  PROVE  Label(c) \in Seq(SubEntry)
<1> DEFINE d == disk[drive[c]]
           o == w[c].start + 1
<1>1. \A x \in DOMAIN d.label : d.label[x] \in Seq(SubEntry)
  BY DiskFacts DEF IsDisk, SubEntry
<1>2. mbr \in Seq(SubEntry) /\ <<>> \in Seq(SubEntry)
  BY DEF Typed
<1> QED
  BY <1>1, <1>2 DEF Label

\* Every label that can be in the buffer ends where it should.
LEMMA LabelEnds ==
  ASSUME Typed, Bounded, RealDisks, NEW c \in Walks
  PROVE  \A i \in DOMAIN Label(c) : Ends(Label(c)[i])
<1> DEFINE d == disk[drive[c]]
<1>1. \A x \in DOMAIN d.label : \A i \in DOMAIN d.label[x] : Ends(d.label[x][i])
  BY DiskFacts DEF RealDisks
<1>2. \A i \in DOMAIN mbr : Ends(mbr[i])
  BY DEF Bounded
<1>3. DOMAIN <<>> = {}
  OBVIOUS
<1> QED
  BY <1>1, <1>2, <1>3 DEF Label

-----------------------------------------------------------------------------
(* What a step of a walk leaves behind *)

LEMMA Moves ==
  ASSUME Typed, NEW c \in Walks, NEW x \in Cursor, Reports(c, x) \/ Turns(c, x),
         mbr' \in Seq(SubEntry), gpt' \in BOOLEAN, gpt_max' \in 0..None
  PROVE  Typed'
BY DEF Typed, Reports, Turns, Goto

LEMMA Stops ==
  ASSUME Typed, NEW c \in Walks, Fails(c),
         mbr' \in Seq(SubEntry), gpt' \in BOOLEAN, gpt_max' \in 0..None
  PROVE  Typed'
BY DEF Typed, Fails, Goto

\* A step ends the walk, reports a slice with a number, at the entries of a GPT
\* if its cursor was, or goes on in the slice it is in.
Ways(c) ==
  \/ Fails(c)
  \/ \E y \in Cursor :
       /\ Reports(c, y) /\ y.part # None
       /\ gpt' /\ (w[c].part = None \/ AtArray(c)) => y.entry = Array
  \/ \E y \in Cursor : Turns(c, y) /\ y.part = w[c].part /\ y.sub = w[c].sub

\* In the middle of a walk no bytes are remembered.
LEMMA InWalk ==
  ASSUME Bounded, NEW c \in Walks, pc[c] # "off", access' = access
  PROVE  access' = <<>>
BY DEF Bounded, Idle

LEMMA MovesBounded ==
  ASSUME Typed, Bounded, NEW c \in Walks, pc[c] # "off", NEW x \in Cursor,
         Reports(c, x) \/ Turns(c, x), c = "open" /\ x.start # 0 => Ends(x),
         \A i \in DOMAIN mbr' : Ends(mbr'[i])
  PROVE  Bounded' /\ ReadsStayInside'
<1>1. access' = <<>>
  BY InWalk DEF Reports, Turns
<1>2. \A e \in Walks : w'[e] = IF e = c THEN x ELSE w[e]
  BY DEF Typed, Reports, Turns
<1>3. w'["open"].start # 0 => Ends(w'["open"])
  BY <1>2 DEF Bounded, Walks
<1> QED
  BY <1>1, <1>3 DEF Bounded, Ends, ReadsStayInside

LEMMA StopsBounded ==
  ASSUME Typed, Bounded, NEW c \in Walks, pc[c] # "off", Fails(c),
         \A i \in DOMAIN mbr' : Ends(mbr'[i])
  PROVE  Bounded' /\ ReadsStayInside'
<1>1. access' = <<>>
  BY InWalk DEF Fails
<1>2. w' = w
  BY DEF Fails
<1> QED
  BY <1>1, <1>2 DEF Bounded, Ends, ReadsStayInside

-----------------------------------------------------------------------------
(* next_bsd_partition *)

LEMMA SubFacts ==
  ASSUME Typed, NEW c \in Walks, SubsLeft(c) # {},
         NEW i, i = CHOOSE n \in SubsLeft(c) : \A j \in SubsLeft(c) : n <= j
  PROVE  /\ i \in DOMAIN Label(c) /\ i \in Nat \ {0}
         /\ Label(c)[i] \in SubEntry
<1>1. SubsLeft(c) \subseteq DOMAIN Label(c)
  BY DEF SubsLeft
<1>2. DOMAIN Label(c) \subseteq Nat \ {0} /\ \A k \in DOMAIN Label(c) : Label(c)[k] \in SubEntry
  <2> DEFINE t == Label(c)
  <2>1. t \in Seq(SubEntry)
    BY LabelFacts
  <2> HIDE DEF t
  <2>2. DOMAIN t = 1..Len(t) /\ Len(t) \in Nat /\ \A k \in 1..Len(t) : t[k] \in SubEntry
    BY <2>1
  <2>3. DOMAIN t \subseteq Nat \ {0} /\ \A k \in DOMAIN t : t[k] \in SubEntry
    BY <2>2
  <2> QED
    BY <2>3 DEF t
<1>3. SubsLeft(c) \in SUBSET Nat
  BY <1>1, <1>2
<1>4. i \in SubsLeft(c)
  BY <1>3, LeastChosen
<1> QED
  BY <1>1, <1>2, <1>4

SubCursor(c, i) ==
  [w[c] EXCEPT !.sub = i - 1, !.start = Label(c)[i].start, !.len = Label(c)[i].len]

LEMMA SubCursorFacts ==
  ASSUME Typed, NEW c \in Walks, NEW i \in Nat \ {0}, Label(c)[i] \in SubEntry
  PROVE  /\ SubCursor(c, i) \in Cursor
         /\ SubCursor(c, i).start = Label(c)[i].start
         /\ SubCursor(c, i).len = Label(c)[i].len
         /\ SubCursor(c, i).part = w[c].part /\ SubCursor(c, i).entry = w[c].entry
<1>1. w[c] \in Cursor /\ i - 1 \in Nat
  BY CursorFacts
<1> QED
  BY <1>1 DEF SubCursor, Cursor, SubEntry

LEMMA BsdPartitionSafe ==
  ASSUME Typed, NEW c \in Walks, BsdPartition(c)
  PROVE  Typed' /\ Ways(c) /\ (Bounded /\ RealDisks => Bounded' /\ ReadsStayInside')
<1> DEFINE i == CHOOSE i \in SubsLeft(c) : \A j \in SubsLeft(c) : i <= j
<1>1. i \in DOMAIN Label(c) /\ i \in Nat \ {0} /\ Label(c)[i] \in SubEntry
  <2>1. SubsLeft(c) # {}
    BY DEF BsdPartition
  <2> QED
    BY <2>1, SubFacts
<1>2. Reports(c, SubCursor(c, i)) /\ mbr' = Label(c) /\ pc[c] = "call"
      /\ gpt' = gpt /\ gpt_max' = gpt_max /\ w[c].part # None
  BY DEF BsdPartition, SubCursor, InBsd
<1> HIDE DEF i
<1>3. /\ SubCursor(c, i) \in Cursor /\ SubCursor(c, i).start = Label(c)[i].start
      /\ SubCursor(c, i).len = Label(c)[i].len
      /\ SubCursor(c, i).part = w[c].part /\ SubCursor(c, i).entry = w[c].entry
  BY <1>1, SubCursorFacts
<1>4. gpt' \in BOOLEAN /\ gpt_max' \in 0..None /\ mbr' \in Seq(SubEntry)
  BY <1>2, LabelFacts DEF Typed
<1>5. Typed'
  BY <1>2, <1>3, <1>4, Moves
<1>6. ASSUME Bounded, RealDisks PROVE Bounded' /\ ReadsStayInside'
  <2>1. \A j \in DOMAIN mbr' : Ends(mbr'[j])
    BY <1>2, <1>6, LabelEnds
  <2>2. Ends(SubCursor(c, i))
    BY <1>1, <1>2, <1>3, <2>1 DEF Ends
  <2> QED
    BY <1>2, <1>3, <1>6, <2>1, <2>2, MovesBounded
<1>7. Ways(c)
  BY <1>2, <1>3 DEF Ways, AtArray
<1> QED
  BY <1>5, <1>6, <1>7

LEMMA BsdOverSafe ==
  ASSUME Typed, NEW c \in Walks, BsdOver(c)
  PROVE  Typed' /\ Ways(c) /\ (Bounded /\ RealDisks => Bounded' /\ ReadsStayInside')
<1>1. w[c] \in Cursor
  BY CursorFacts
<1>2. (Fails(c) \/ Turns(c, w[c])) /\ mbr' = Label(c) /\ pc[c] = "call"
      /\ gpt' = gpt /\ gpt_max' = gpt_max
  BY DEF BsdOver, BsdError
<1>3. gpt' \in BOOLEAN /\ gpt_max' \in 0..None /\ mbr' \in Seq(SubEntry)
  BY <1>2, LabelFacts DEF Typed
<1>4. Typed'
  BY <1>1, <1>2, <1>3, Moves, Stops
<1>5. ASSUME Bounded, RealDisks PROVE Bounded' /\ ReadsStayInside'
  <2>1. \A j \in DOMAIN mbr' : Ends(mbr'[j])
    BY <1>2, <1>5, LabelEnds
  <2>2. c = "open" /\ w[c].start # 0 => Ends(w[c])
    BY <1>5 DEF Bounded
  <2> QED
    BY <1>1, <1>2, <1>5, <2>1, <2>2, MovesBounded, StopsBounded
<1>6. Ways(c)
  BY <1>1, <1>2 DEF Ways
<1> QED
  BY <1>4, <1>5, <1>6

LEMMA NotBsdSafe ==
  ASSUME Typed, NEW c \in Walks, NotBsd(c)
  PROVE  Typed' /\ Ways(c) /\ (Bounded /\ RealDisks => Bounded' /\ ReadsStayInside')
<1>1. w[c] \in Cursor
  BY CursorFacts
<1>2. Turns(c, w[c]) /\ mbr' = mbr /\ pc[c] = "call" /\ gpt' = gpt /\ gpt_max' = gpt_max
  BY DEF NotBsd, tables
<1>3. gpt' \in BOOLEAN /\ gpt_max' \in 0..None /\ mbr' \in Seq(SubEntry)
  BY <1>2 DEF Typed
<1>4. Typed'
  BY <1>1, <1>2, <1>3, Moves
<1>5. ASSUME Bounded, RealDisks PROVE Bounded' /\ ReadsStayInside'
  <2>1. (\A j \in DOMAIN mbr' : Ends(mbr'[j])) /\ (c = "open" /\ w[c].start # 0 => Ends(w[c]))
    BY <1>2, <1>5 DEF Bounded
  <2> QED
    BY <1>1, <1>2, <1>5, <2>1, MovesBounded
<1>6. Ways(c)
  BY <1>1, <1>2 DEF Ways
<1> QED
  BY <1>4, <1>5, <1>6

-----------------------------------------------------------------------------
(* next_pc_slice over a GPT *)

LEMMA TooManySafe ==
  ASSUME Typed, NEW c \in Walks, TooMany(c)
  PROVE  Typed' /\ Ways(c) /\ (Bounded /\ RealDisks => Bounded' /\ ReadsStayInside')
<1>1. Fails(c) /\ mbr' = mbr /\ pc[c] = "slice" /\ gpt' = gpt /\ gpt_max' = gpt_max
  BY DEF TooMany, tables
<1>2. gpt' \in BOOLEAN /\ gpt_max' \in 0..None /\ mbr' \in Seq(SubEntry)
  BY <1>1 DEF Typed
<1>3. Typed'
  BY <1>1, <1>2, Stops
<1>4. ASSUME Bounded, RealDisks PROVE Bounded' /\ ReadsStayInside'
  <2>1. \A j \in DOMAIN mbr' : Ends(mbr'[j])
    BY <1>1, <1>4 DEF Bounded
  <2> QED
    BY <1>1, <1>4, <2>1, StopsBounded
<1> QED
  BY <1>1, <1>3, <1>4 DEF Ways

LEMMA StartFacts ==
  ASSUME Typed, NEW c \in Walks
  PROVE  /\ Start(c) \in Cursor /\ Start(c).part = w[c].part /\ Start(c).sub = w[c].sub
         /\ Start(c).start = w[c].start /\ Start(c).len = w[c].len
<1>1. w[c] \in Cursor /\ 0 \in 0..(Limit - 1) /\ 0 \in 0..SliceMax
  BY CursorFacts, Sizes
<1> QED
  BY <1>1 DEF Start, Cursor

GptCursor(c, i) ==
  [Start(c) EXCEPT !.part = i - 1, !.sub = None, !.type = "data",
                   !.start = disk[drive[c]].gpt[i].start, !.len = disk[drive[c]].gpt[i].len,
                   !.entry = Array]

\* The entry of a GPT that is reported is one of the drive's, below the number
\* of entries known, and in use.
LEMMA NextGptFacts ==
  ASSUME Typed, NEW c \in Walks, NEW k, NEW max \in 0..None, NextGpt(c, k, max)
  PROVE  \/ Fails(c)
         \/ \E i \in DOMAIN disk[drive[c]].gpt :
              /\ Reports(c, GptCursor(c, i)) /\ GptCursor(c, i) \in Cursor
              /\ GptCursor(c, i).part = i - 1 /\ i - 1 # None /\ GptCursor(c, i).entry = Array
              /\ GptCursor(c, i).start = disk[drive[c]].gpt[i].start
              /\ GptCursor(c, i).len = disk[drive[c]].gpt[i].len
              /\ disk[drive[c]].gpt[i].start # 0
<1> DEFINE g == disk[drive[c]].gpt
           L == GptLeft(c, k, max)
           i == CHOOSE i \in L : \A j \in L : i <= j
<1>1. CASE L = {}
  BY <1>1 DEF NextGpt
<1>2. CASE L # {}
  <2>1. DOMAIN g \subseteq Nat \ {0} /\ \A n \in DOMAIN g : g[n] \in GptEntry
    <3>1. g \in Seq(GptEntry)
      BY DiskFacts DEF IsDisk, GptEntry
    <3> HIDE DEF g
    <3>2. DOMAIN g = 1..Len(g) /\ Len(g) \in Nat /\ \A n \in 1..Len(g) : g[n] \in GptEntry
      BY <3>1
    <3> QED
      BY <3>2
  <2>2. L \subseteq DOMAIN g /\ \A n \in L : n <= max /\ g[n].start # 0
    BY DEF GptLeft
  <2>3. i \in L
    BY <1>2, <2>1, <2>2, LeastChosen
  <2>4. Reports(c, GptCursor(c, i))
    BY <1>2 DEF NextGpt, GptCursor
  <2> HIDE DEF L, i
  <2>5. i \in DOMAIN g /\ i \in Nat \ {0} /\ i <= max /\ g[i].start # 0 /\ g[i] \in GptEntry
    BY <2>1, <2>2, <2>3
  <2>6. i - 1 \in 0..None /\ i - 1 # None /\ None \in Nat /\ Array \in 0..SliceMax
    BY <2>5, Sizes, ArrayFacts
  <2>7. Start(c) \in Cursor
    BY StartFacts
  <2>8. /\ GptCursor(c, i) \in Cursor
        /\ GptCursor(c, i).part = i - 1 /\ GptCursor(c, i).entry = Array
        /\ GptCursor(c, i).start = g[i].start /\ GptCursor(c, i).len = g[i].len
    BY <2>5, <2>6, <2>7 DEF GptCursor, Cursor, GptEntry, Types
  <2> QED
    BY <2>4, <2>5, <2>6, <2>8
<1> QED
  BY <1>1, <1>2

LEMMA GptSafe ==
  ASSUME Typed, NEW c \in Walks, NEW k, NEW max \in 0..None, NextGpt(c, k, max),
         pc[c] = "slice", mbr' = <<>>, gpt' \in BOOLEAN, gpt_max' \in 0..None
  PROVE  Typed' /\ Ways(c) /\ (Bounded /\ RealDisks => Bounded' /\ ReadsStayInside')
<1>1. mbr' \in Seq(SubEntry) /\ DOMAIN mbr' = {}
  OBVIOUS
<1>2. CASE Fails(c)
  BY <1>1, <1>2, Stops, StopsBounded DEF Ways
<1>3. ASSUME NEW i \in DOMAIN disk[drive[c]].gpt,
             Reports(c, GptCursor(c, i)), GptCursor(c, i) \in Cursor,
             GptCursor(c, i).part # None, GptCursor(c, i).entry = Array,
             GptCursor(c, i).start = disk[drive[c]].gpt[i].start,
             GptCursor(c, i).len = disk[drive[c]].gpt[i].len,
             disk[drive[c]].gpt[i].start # 0
      PROVE  Typed' /\ Ways(c) /\ (Bounded /\ RealDisks => Bounded' /\ ReadsStayInside')
  <2>1. Typed'
    BY <1>1, <1>3, Moves
  <2>2. ASSUME RealDisks PROVE Ends(GptCursor(c, i))
    BY <1>3, <2>2, DiskFacts DEF RealDisks, Ends
  <2>3. Ways(c)
    BY <1>3 DEF Ways
  <2> QED
    BY <1>1, <1>3, <2>1, <2>2, <2>3, MovesBounded
<1> QED
  BY <1>2, <1>3, NextGptFacts

LEMMA GptAgainSafe ==
  ASSUME Typed, NEW c \in Walks, GptAgain(c)
  PROVE  Typed' /\ Ways(c) /\ (Bounded /\ RealDisks => Bounded' /\ ReadsStayInside')
<1>1. gpt_max \in 0..None /\ gpt \in BOOLEAN
  BY DEF Typed
<1> QED
  BY <1>1, GptSafe DEF GptAgain, Again

AstrayCursor(c, k, e) ==
  [w[c] EXCEPT !.part = k, !.sub = None, !.type = "data", !.start = e.start, !.len = e.len]

LEMMA GptAstrayFacts ==
  ASSUME NEW c \in Walks, GptAstray(c)
  PROVE  /\ pc[c] = "slice" /\ w[c].part # Last /\ w[c].part # None /\ gpt /\ ~AtArray(c)
         /\ mbr' = <<>> /\ gpt' = gpt /\ gpt_max' = gpt_max /\ primary' = primary /\ fault' = fault
         /\ \/ Fails(c)
            \/ \E k \in (w[c].part + 1)..(gpt_max - 1), e \in Stray :
                 Reports(c, AstrayCursor(c, k, e))
BY Zenon DEF GptAstray, Again, AstrayCursor

\* What is taken for an entry has any extent.
LEMMA GptAstraySafe ==
  ASSUME Typed, NEW c \in Walks, GptAstray(c)
  PROVE  Typed' /\ Ways(c) /\ (Bounded /\ c # "open" => Bounded' /\ ReadsStayInside')
<1>1. /\ pc[c] = "slice" /\ w[c].part # None /\ ~AtArray(c)
      /\ mbr' = <<>> /\ gpt' = gpt /\ gpt_max' = gpt_max
  BY GptAstrayFacts
<1>2. /\ mbr' \in Seq(SubEntry) /\ DOMAIN mbr' = {} /\ gpt' \in BOOLEAN /\ gpt_max' \in 0..None
  <2>1. <<>> \in Seq(SubEntry) /\ DOMAIN <<>> = {}
    OBVIOUS
  <2> QED
    BY <1>1, <2>1 DEF Typed
<1>3. CASE Fails(c)
  BY <1>1, <1>2, <1>3, Stops, StopsBounded DEF Ways
<1>4. ASSUME NEW k \in (w[c].part + 1)..(gpt_max - 1), NEW e \in Stray,
             Reports(c, AstrayCursor(c, k, e))
      PROVE  Typed' /\ Ways(c) /\ (Bounded /\ c # "open" => Bounded' /\ ReadsStayInside')
  <2> DEFINE y == AstrayCursor(c, k, e)
  <2>1. w[c] \in Cursor /\ w[c].part \in Nat /\ gpt_max \in Nat /\ gpt_max <= None
    BY CursorFacts, Sizes DEF Typed
  <2>2. k \in 0..None /\ k # None /\ None \in Nat
    BY <2>1, Sizes
  <2>3. e.start \in Nat /\ e.len \in Nat
    BY WalkAssumption
  <2>4. y \in Cursor /\ y.part # None
    BY <2>1, <2>2, <2>3 DEF AstrayCursor, Cursor, Types
  <2>5. Reports(c, y)
    BY <1>4
  <2> HIDE DEF y
  <2>6. Typed' /\ Ways(c)
    BY <1>1, <1>2, <2>4, <2>5, Moves DEF Ways
  <2> QED
    BY <1>1, <1>2, <2>4, <2>5, <2>6, MovesBounded
<1> QED
  BY <1>3, <1>4, GptAstrayFacts

LEMMA GptFirstSafe ==
  ASSUME Typed, NEW c \in Walks, GptFirst(c)
  PROVE  Typed' /\ Ways(c) /\ (Bounded /\ RealDisks => Bounded' /\ ReadsStayInside')
<1> DEFINE g == disk[drive[c]].gpt
<1>1. g \in Seq(GptEntry) /\ Len(g) <= None
  BY DiskFacts DEF IsDisk, GptEntry
<1>2. Len(g) \in 0..None
  <2> HIDE DEF g
  <2> QED
    BY <1>1, Sizes
<1>3. gpt' = TRUE /\ gpt_max' = Len(g) /\ pc[c] = "slice" /\ mbr' = <<>>
      /\ NextGpt(c, FirstGpt(c), gpt_max')
  BY DEF GptFirst
<1> HIDE DEF g
<1>4. gpt_max' \in 0..None /\ gpt' \in BOOLEAN
  BY <1>2, <1>3
<1> QED
  BY <1>3, <1>4, GptSafe

-----------------------------------------------------------------------------
(* next_pc_slice over the tables of an MBR *)

LEMMA EntryFacts ==
  ASSUME Typed, NEW c \in Walks, NEW o, HasTable(drive[c], o), NEW i \in 1..SliceMax
  PROVE  /\ TableAt(drive[c], o)[i] \in Entry
         /\ RealDisks => TableAt(drive[c], o)[i].len < Limit
<1>1. disk[drive[c]].table[o] \in [1..SliceMax -> Entry]
  BY DiskFacts DEF IsDisk, HasTable
<1>2. RealDisks => disk[drive[c]].table[o][i].len < Limit
  BY DiskFacts DEF RealDisks, HasTable
<1> QED
  BY <1>1, <1>2 DEF TableAt

\* The partition of an entry that has not been passed over.
LEMMA SliceFacts ==
  ASSUME NEW x \in Cursor, x.part # Last, NEW e \in Entry, ~Passed(x, e),
         NEW i \in 1..SliceMax
  PROVE  /\ Slice(x, e, i) \in Cursor /\ Slice(x, e, i).part # None
         /\ Limit + Limit <= Wide /\ e.len < Limit /\ Slice(x, e, i).start # 0
              => Ends(Slice(x, e, i))
<1>1. /\ x.part \in 0..None /\ x.offset \in 0..(Limit - 1)
      /\ e.start \in Nat /\ e.len \in Nat /\ e.type \in Types
      /\ ~(x.offset + e.start >= Limit)
  BY DEF Cursor, Entry, Passed
<1> DEFINE p == IF x.part = None THEN 0 ELSE x.part + 1
           a == x.offset + e.start
           b == ~Logical(x) /\ ~e.ok
           y == [x EXCEPT !.part = p, !.sub = None, !.entry = i]
<1>2. p \in 0..None /\ p # None /\ i \in 0..SliceMax /\ None \in Nat
  <2>1. p \in 0..None /\ i \in 0..SliceMax /\ None \in Nat
    BY <1>1, Sizes
  <2>2. 0 # None /\ x.part + 1 # None
    <3>1. x.part \in Int /\ Last \in Nat /\ None = Last + 1 /\ x.part # Last
      BY <2>1, <1>1, Sizes
    <3> QED
      BY <3>1
  <2> QED
    BY <2>1, <2>2
<1>3. a \in Nat /\ a < Limit
  BY <1>1, Sizes
<1>4. Slice(x, e, i) = IF b THEN [y EXCEPT !.type = "none", !.start = 0, !.len = 0]
                       ELSE [y EXCEPT !.type = e.type, !.start = a, !.len = e.len]
  BY DEF Slice
<1>5. Limit + Limit <= Wide /\ e.len < Limit => a + e.len < Wide
  BY <1>1, <1>3, Sizes
<1> HIDE DEF p, a, b
<1>6. y \in Cursor /\ y.part # None
  BY <1>2 DEF Cursor
<1> HIDE DEF y
<1>7. CASE b
  <2>1. Slice(x, e, i) = [y EXCEPT !.type = "none", !.start = 0, !.len = 0]
    BY <1>4, <1>7
  <2>2. "none" \in Types /\ 0 \in Nat
    BY DEF Types
  <2> DEFINE z == [y EXCEPT !.type = "none", !.start = 0, !.len = 0]
  <2>3. z \in Cursor /\ z.part # None /\ z.start = 0
    BY <1>6, <2>2 DEF Cursor
  <2> QED
    BY <2>1, <2>3
<1>8. CASE ~b
  <2>1. /\ Slice(x, e, i) \in Cursor /\ Slice(x, e, i).part # None
        /\ Slice(x, e, i).start = a /\ Slice(x, e, i).len = e.len
    BY <1>1, <1>3, <1>4, <1>6, <1>8 DEF Cursor
  <2> QED
    BY <1>5, <2>1 DEF Ends
<1> QED
  BY <1>7, <1>8

LEMMA FollowFacts ==
  ASSUME NEW x \in Cursor, NEW e \in Entry, x.ext + e.start < Limit
  PROVE  /\ Follow(x, e) \in Cursor
         /\ Follow(x, e).part = x.part /\ Follow(x, e).sub = x.sub
         /\ Follow(x, e).start = x.start /\ Follow(x, e).len = x.len
<1> DEFINE o == x.ext + e.start
           q == IF x.ext = 0 THEN e.start ELSE x.ext
<1>1. x.ext \in 0..(Limit - 1) /\ e.start \in Nat /\ o < Limit
  BY DEF Cursor, Entry
<1>2. o \in 0..(Limit - 1) /\ q \in 0..(Limit - 1) /\ 0 \in 0..SliceMax
  BY <1>1, Sizes
<1>3. Follow(x, e) = [x EXCEPT !.offset = o, !.entry = 0, !.ext = q]
  BY DEF Follow
<1> HIDE DEF o, q
<1> QED
  BY <1>2, <1>3 DEF Cursor

LEMMA OverTableMoves ==
  ASSUME Typed, NEW c \in Walks, w[c].part # Last, OverTable(c)
  PROVE  \/ Fails(c)
         \/ \E x \in Cursor :
              /\ \/ Reports(c, x) /\ x.part # None
                 \/ Turns(c, x) /\ x.part = w[c].part /\ x.sub = w[c].sub
              /\ RealDisks /\ Bounded /\ c = "open" /\ x.start # 0 => Ends(x)
<1> DEFINE x == Start(c)
           d == drive[c]
           first == IF x.offset = 0 /\ HasTable(d, 0) THEN TableAt(d, 0) ELSE primary
           t == TableAt(d, x.offset)
           left == {i \in 1..SliceMax : i > x.entry /\ ~Passed(x, t[i])}
           least(S) == CHOOSE i \in S : \A j \in S : i <= j
           next == least(left)
           links == Links(x, t)
           link == least(links)
<1>1. /\ x \in Cursor /\ x.part # Last /\ x.part = w[c].part /\ x.sub = w[c].sub
      /\ x.start = w[c].start /\ x.len = w[c].len
  BY StartFacts
<1>3. CASE BadTable(d, x.ext, x.offset, first)
  BY <1>3 DEF OverTable
<1>4. ASSUME ~BadTable(d, x.ext, x.offset, first)
      PROVE  \/ left # {} /\ Reports(c, Slice(x, t[next], next))
             \/ links # {} /\ Turns(c, Follow(x, t[link]))
             \/ Fails(c)
  BY <1>4 DEF OverTable
<1>5. ~BadTable(d, x.ext, x.offset, first) => HasTable(d, x.offset)
  BY DEF BadTable
<1>6. ASSUME left # {} PROVE next \in 1..SliceMax /\ ~Passed(x, t[next])
  <2>1. left \in SUBSET Nat /\ \A i \in left : i \in 1..SliceMax /\ ~Passed(x, t[i])
    BY Sizes
  <2> HIDE DEF left
  <2> QED
    BY <1>6, <2>1, LeastChosen
<1>7. ASSUME links # {} PROVE link \in 1..SliceMax /\ x.ext + t[link].start < Limit
  <2>1. links \in SUBSET Nat
        /\ \A i \in links : i \in 1..SliceMax /\ x.ext + t[i].start < Limit
    BY Sizes DEF Links
  <2> HIDE DEF links
  <2> QED
    BY <1>7, <2>1, LeastChosen
<1> HIDE DEF x, left, links, next, link, first
<1>8. ASSUME HasTable(d, x.offset), left # {}
      PROVE  /\ Slice(x, t[next], next) \in Cursor /\ Slice(x, t[next], next).part # None
             /\ RealDisks /\ Slice(x, t[next], next).start # 0 => Ends(Slice(x, t[next], next))
  <2>1. t[next] \in Entry /\ (RealDisks => t[next].len < Limit)
    BY <1>6, <1>8, EntryFacts
  <2> HIDE DEF t, d
  <2>2. Slice(x, t[next], next) \in Cursor /\ Slice(x, t[next], next).part # None
    BY <1>1, <1>6, <1>8, <2>1, SliceFacts
  <2>3. RealDisks => Limit + Limit <= Wide
    BY DEF RealDisks
  <2> QED
    BY <1>1, <1>6, <1>8, <2>1, <2>2, <2>3, SliceFacts
<1>9. ASSUME HasTable(d, x.offset), links # {}
      PROVE  /\ Follow(x, t[link]) \in Cursor
             /\ Follow(x, t[link]).part = w[c].part /\ Follow(x, t[link]).sub = w[c].sub
             /\ Bounded /\ c = "open" /\ Follow(x, t[link]).start # 0 => Ends(Follow(x, t[link]))
  <2>1. t[link] \in Entry
    BY <1>7, <1>9, EntryFacts
  <2> HIDE DEF t, d
  <2>2. /\ Follow(x, t[link]) \in Cursor /\ Follow(x, t[link]).start = w[c].start
        /\ Follow(x, t[link]).len = w[c].len
        /\ Follow(x, t[link]).part = w[c].part /\ Follow(x, t[link]).sub = w[c].sub
    BY <1>1, <1>7, <1>9, <2>1, FollowFacts
  <2> QED
    BY <2>2 DEF Bounded, Ends
<1> QED
  BY <1>3, <1>4, <1>5, <1>8, <1>9

LEMMA OverTableSafe ==
  ASSUME Typed, NEW c \in Walks, pc[c] = "slice", w[c].part # Last, OverTable(c)
  PROVE  Typed' /\ Ways(c) /\ (Bounded /\ RealDisks => Bounded' /\ ReadsStayInside')
<1>1. mbr' = <<>> /\ gpt_max' = gpt_max /\ gpt' = FALSE
  BY DEF OverTable
<1>2. mbr' \in Seq(SubEntry) /\ DOMAIN mbr' = {} /\ gpt' \in BOOLEAN /\ gpt_max' \in 0..None
  <2>1. <<>> \in Seq(SubEntry) /\ DOMAIN <<>> = {}
    OBVIOUS
  <2> QED
    BY <1>1, <2>1 DEF Typed
<1>3. CASE Fails(c)
  BY <1>1, <1>2, <1>3, Stops, StopsBounded DEF Ways
<1>4. ASSUME NEW x \in Cursor,
             \/ Reports(c, x) /\ x.part # None
             \/ Turns(c, x) /\ x.part = w[c].part /\ x.sub = w[c].sub,
             RealDisks /\ Bounded /\ c = "open" /\ x.start # 0 => Ends(x)
      PROVE  Typed' /\ Ways(c) /\ (Bounded /\ RealDisks => Bounded' /\ ReadsStayInside')
  <2>1. Ways(c)
    BY <1>1, <1>4 DEF Ways
  <2> QED
    BY <1>1, <1>2, <1>4, <2>1, Moves, MovesBounded
<1> QED
  BY <1>3, <1>4, OverTableMoves

\* The MBR taken for the table of a drive with a GPT is gone over like any.
LEMMA TurnSafe ==
  ASSUME Typed, NEW c \in Walks, MbrTurn(c) \/ HeaderUnread(c)
  PROVE  Typed' /\ Ways(c) /\ (Bounded /\ RealDisks => Bounded' /\ ReadsStayInside')
<1>1. Last # None
  BY Sizes
<1> QED
  BY <1>1, OverTableSafe DEF MbrTurn, ReadsTable, HeaderUnread

-----------------------------------------------------------------------------
(* The steps of real_open_partition and of find *)

\* The walk ends; of a label, it may go on in the slice it is in.
LEMMA UnreadSafe ==
  ASSUME Typed, NEW c \in Walks, TableUnread(c) \/ EntryUnread(c) \/ LabelUnread(c)
  PROVE  /\ Typed' /\ pc[c] \in {"call", "slice"} /\ pc'[c] \in {"slice", "done"}
         /\ fault' = TRUE /\ UNCHANGED <<disk, drive, dest, w, visited, opened>>
         /\ \A e \in Walks : e # c => pc'[e] = pc[e]
         /\ Bounded => Bounded' /\ ReadsStayInside'
<1> DEFINE g == Disk(c).gpt
<1>1. <<>> \in Seq(SubEntry) /\ DOMAIN <<>> = {}
  OBVIOUS
<1>2. Len(g) \in 0..None
  <2>1. g \in Seq(GptEntry) /\ Len(g) <= None
    BY DiskFacts DEF IsDisk, GptEntry, Disk
  <2> HIDE DEF g
  <2> QED
    BY <2>1, Sizes
<1>3. /\ mbr' = mbr \/ mbr' = <<>>
      /\ gpt' \in BOOLEAN /\ gpt_max' \in 0..None /\ fault' = TRUE
      /\ pc[c] \in {"call", "slice"}
  BY <1>2 DEF TableUnread, EntryUnread, LabelUnread, ReadsTable, Again, tables, Typed, Disk
<1>4. w' = w /\ (Goto(c, "done") \/ Goto(c, "slice"))
      /\ UNCHANGED <<disk, drive, dest, visited, opened, access>>
  <2>1. CASE TableUnread(c) \/ EntryUnread(c)
    BY <2>1 DEF TableUnread, EntryUnread, Fails
  <2>2. CASE LabelUnread(c)
    <3>1. w' = [w EXCEPT ![c] = w[c]] => w' = w
      BY DEF Typed
    <3> QED
      BY <2>2, <3>1 DEF LabelUnread, BsdError, Fails, Turns
  <2> QED
    BY <2>1, <2>2
<1> HIDE DEF g
<1>5. Typed'
  BY <1>1, <1>3, <1>4 DEF Typed, Goto
<1>6. ASSUME Bounded PROVE Bounded' /\ ReadsStayInside'
  <2>1. access' = <<>>
    BY <1>3, <1>4, <1>6, InWalk
  <2> QED
    BY <1>1, <1>3, <1>4, <1>6, <2>1 DEF Bounded, Ends, ReadsStayInside
<1>7. pc'[c] \in {"slice", "done"} /\ \A e \in Walks : e # c => pc'[e] = pc[e]
  BY <1>4 DEF Typed, Goto
<1> QED
  BY <1>3, <1>4, <1>5, <1>6, <1>7

LEMMA ReadFailsSafe ==
  ASSUME Typed, NEW c \in Walks, ReadFails(c)
  PROVE  Typed' /\ (Bounded /\ RealDisks => Bounded' /\ ReadsStayInside')
BY TurnSafe, UnreadSafe DEF ReadFails

LEMMA BeginFacts ==
  ASSUME Typed, NEW c \in Walks, NEW d \in Drives, NEW p, Begin(c, d, p)
  PROVE  /\ drive' \in [Walks -> Drives] /\ w' \in [Walks -> Cursor]
         /\ Bounded /\ w'["open"].start # 0 => Ends(w'["open"])
<1>1. drive' = [drive EXCEPT ![c] = d] /\ w' = [w EXCEPT ![c] = Fresh]
  BY DEF Begin
<1>2. drive' \in [Walks -> Drives] /\ w' \in [Walks -> Cursor]
  BY <1>1, FreshFacts DEF Typed
<1>3. \A e \in Walks : w'[e] = IF e = c THEN Fresh ELSE w[e]
  BY <1>1 DEF Typed
<1> QED
  BY <1>2, <1>3, FreshFacts DEF Bounded, Walks

LEMMA BeginSafe ==
  ASSUME Typed, NEW c \in Walks, NEW d \in Drives, NEW p, Begin(c, d, p), Goto(c, "call"),
         opened' = FALSE, access' = <<>>, UNCHANGED <<disk, tables>>
  PROVE  Typed' /\ (Bounded => Bounded' /\ ReadsStayInside')
<1>1. Typed'
  BY BeginFacts DEF Typed, Goto, tables
<1> QED
  BY <1>1, BeginFacts DEF Bounded, Ends, ReadsStayInside, tables

\* Steps that only move the program counter of one walk.
LEMMA GotoSafe ==
  ASSUME Typed, NEW c \in Walks, pc[c] # "off",
         NEW l \in {"off", "call", "done"}, Goto(c, l), opened' \in BOOLEAN,
         UNCHANGED <<disk, tables, drive, w, access>>
  PROVE  Typed' /\ (Bounded => Bounded' /\ ReadsStayInside')
<1>1. Typed'
  BY DEF Typed, Goto, tables
<1>2. ASSUME Bounded PROVE Bounded' /\ ReadsStayInside'
  <2>1. access' = <<>>
    BY <1>2, InWalk
  <2> QED
    BY <1>2, <2>1 DEF Bounded, Ends, ReadsStayInside, tables
<1> QED
  BY <1>1, <1>2

LEMMA OpenPartitionSafe ==
  ASSUME Typed, OpenPartition
  PROVE  Typed' /\ (Bounded => Bounded' /\ ReadsStayInside')
<1>1. PICK d \in Drives, p \in Dests : Begin("open", d, p)
  BY DEF OpenPartition
<1> QED
  BY <1>1, BeginSafe DEF OpenPartition, Walks

LEMMA FindSafe ==
  ASSUME Typed, Find
  PROVE  Typed' /\ (Bounded => Bounded' /\ ReadsStayInside')
<1>1. PICK d \in Drives : Begin("find", d, Whole)
  BY DEF Find
<1> QED
  BY <1>1, BeginSafe DEF Find, Walks

LEMMA OpenGotSafe ==
  ASSUME Typed, OpenGot
  PROVE  Typed' /\ (Bounded => Bounded' /\ ReadsStayInside')
<1>1. opened' \in BOOLEAN
  BY Zenon DEF OpenGot, IsDest
<1>2. PICK l \in {"off", "call", "done"} : Goto("open", l)
  BY DEF OpenGot
<1> QED
  BY <1>1, <1>2, GotoSafe DEF OpenGot, Walks

LEMMA OpenOverSafe ==
  ASSUME Typed, OpenOver
  PROVE  Typed' /\ (Bounded => Bounded' /\ ReadsStayInside')
<1>1. opened' \in BOOLEAN
  BY DEF OpenOver, Typed
<1> QED
  BY <1>1, GotoSafe DEF OpenOver, Walks

LEMMA FindPassesSafe ==
  ASSUME Typed, FindPasses \/ FindOn
  PROVE  Typed' /\ (Bounded => Bounded' /\ ReadsStayInside')
<1>1. opened' \in BOOLEAN
  BY DEF FindPasses, FindOn, Typed
<1> QED
  BY <1>1, GotoSafe DEF FindPasses, FindOn, Walks

LEMMA FindOverSafe ==
  ASSUME Typed, FindOver
  PROVE  Typed' /\ (Bounded => Bounded' /\ ReadsStayInside')
<1>1. /\ pc["find"] = "done" /\ Goto("find", "off") /\ w' = [w EXCEPT !["find"] = Fresh]
      /\ UNCHANGED <<disk, tables, drive, opened, access>>
  BY DEF FindOver
<1>2. w' \in [Walks -> Cursor]
  BY <1>1, FreshFacts DEF Typed
<1>3. Typed'
  BY <1>1, <1>2 DEF Typed, Goto, tables
<1>4. \A e \in Walks : w'[e] = IF e = "find" THEN Fresh ELSE w[e]
  BY <1>1 DEF Typed
<1>5. ASSUME Bounded PROVE Bounded' /\ ReadsStayInside'
  <2>1. access' = <<>>
    BY <1>1, <1>5, InWalk DEF Walks
  <2>2. w'["open"].start # 0 => Ends(w'["open"])
    BY <1>4, <1>5 DEF Bounded, Walks
  <2> QED
    BY <1>1, <1>5, <2>1, <2>2 DEF Bounded, Ends, ReadsStayInside, tables
<1> QED
  BY <1>3, <1>5

LEMMA FindLooksSafe ==
  ASSUME Typed, FindLooks
  PROVE  Typed' /\ (Bounded => Bounded' /\ ReadsStayInside')
<1>1. /\ pc["find"] = "got" /\ pc' = [pc EXCEPT !["find"] = "inside", !["open"] = "call"]
      /\ opened' = FALSE /\ UNCHANGED <<disk, tables, access>>
  BY DEF FindLooks
<1>2. PICK d \in Drives : \E p : Begin("open", d, p)
  <2>1. drive["find"] \in Drives
    BY DEF Typed, Walks
  <2> QED
    BY <2>1, WalkAssumption DEF FindLooks
<1>3. /\ drive' \in [Walks -> Drives] /\ w' \in [Walks -> Cursor]
      /\ Bounded /\ w'["open"].start # 0 => Ends(w'["open"])
  BY <1>2, BeginFacts DEF Walks
<1>4. pc' \in [Walks -> {"off", "call", "slice", "got", "inside", "done"}]
  BY <1>1 DEF Typed
<1>5. Typed'
  BY <1>1, <1>3, <1>4 DEF Typed, tables
<1>6. ASSUME Bounded PROVE Bounded' /\ ReadsStayInside'
  <2>1. access' = <<>>
    BY <1>1, <1>6, InWalk DEF Walks
  <2> QED
    BY <1>1, <1>3, <1>6, <2>1 DEF Bounded, Ends, ReadsStayInside, tables
<1> QED
  BY <1>5, <1>6

-----------------------------------------------------------------------------
(* devread *)

LEMMA DivMod ==
  ASSUME NEW x \in Nat, NEW n \in Nat \ {0}
  PROVE  x \div n \in Nat /\ x % n \in 0..(n - 1) /\ x = n * (x \div n) + (x % n)
<1>1. x \div n \in Nat
  BY SMT
<1>2. x % n \in 0..(n - 1)
  BY SMT
<1>3. x = n * (x \div n) + (x % n)
  BY SMT
<1> QED
  BY <1>1, <1>2, <1>3

LEMMA Small ==
  ASSUME NEW x \in Nat, NEW n \in Nat \ {0}, x < n
  PROVE  x % n = x
BY SMT

LEMMA Times ==
  ASSUME NEW n \in Nat, NEW x \in Nat, NEW y \in Nat
  PROVE  /\ n * (x + y) = n * x + n * y /\ n * (x + 1) = n * x + n
         /\ x * n = n * x /\ n * x \in Nat /\ (x <= y => n * x <= n * y)
<1>1. n * (x + y) = n * x + n * y
  BY SMT
<1>2. n * (x + 1) = n * x + n
  BY SMT
<1>3. x * n = n * x /\ n * x \in Nat
  BY SMT
<1>4. ASSUME x <= y PROVE n * x <= n * y
  <2>1. PICK k \in Nat : y = x + k
    <3>1. y - x \in Nat /\ y = x + (y - x)
      BY <1>4
    <3> QED
      BY <3>1
  <2>2. n * y = n * x + n * k /\ n * k \in Nat /\ n * x \in Nat
    <3>1. n * (x + k) = n * x + n * k
      BY SMT
    <3>2. n * k \in Nat /\ n * x \in Nat
      BY SMT
    <3> QED
      BY <2>1, <3>1, <3>2
  <2> QED
    BY <2>2
<1> QED
  BY <1>1, <1>2, <1>3, <1>4

\* A quotient of the larger number is not below that of the smaller; the last
\* byte of a request is in the sector counted from its first.
LEMMA Sector ==
  ASSUME NEW n \in Nat \ {0}, NEW a \in Nat, NEW q \in Nat, n * a < n * (q + 1)
  PROVE  a <= q
<1>1. CASE a >= q + 1
  BY <1>1, Times
<1> QED
  BY <1>1

LEMMA Unwrapped ==
  ASSUME NEW n \in Nat \ {0}, NEW x \in Nat, NEW y, x < n, x % n < y
  PROVE  x < y
<1>1. x % n = x
  BY Small
<1> QED
  BY <1>1

\* The first byte o = SS * a + b of a request is at most one sector behind that
\* of its last byte, SS * q + r; behind it only if there is none.
LEMMA Span ==
  ASSUME NEW a \in Nat, NEW b \in 0..(SS - 1), NEW q \in Nat, NEW r \in 0..(SS - 1),
         NEW o \in Nat, NEW l \in Nat, o = SS * a + b,
         o + l # 0 => o + l - 1 = SS * q + r
  PROVE  a <= q + 1 /\ o + l <= SS * q + SS
<1>0. SS * a \in Nat /\ SS * q \in Nat
  BY Times, Sizes
<1>1. CASE o + l = 0
  <2>0. o = 0 /\ b >= 0 /\ b \in Int
    BY <1>1, Sizes
  <2>1. SS * a = 0
    BY <1>0, <2>0
  <2>2. a = 0
    <3>1. CASE a >= 1
      BY <2>1, <3>1, Times, Sizes
    <3> QED
      BY <3>1
  <2> QED
    BY <1>0, <1>1, <2>2, Sizes
<1>2. CASE o + l # 0
  <2>1. o + l = SS * q + r + 1
    BY <1>0, <1>2
  <2>2. SS * ((q + 1) + 1) = SS * q + SS + SS
    BY Times, Sizes
  <2>3. SS * a < SS * ((q + 1) + 1)
    BY <1>0, <2>1, <2>2, Sizes
  <2>4. a <= q + 1
    BY <2>3, Sector, Sizes
  <2> QED
    BY <1>0, <2>1, <2>4, Sizes
<1> QED
  BY <1>1, <1>2

\* Both lie in a partition whose check the last one passes.
LEMMA Inside ==
  ASSUME NEW start \in Nat, NEW len \in Nat, start + len < Wide,
         NEW s \in Nat, NEW a \in Nat, NEW b \in 0..(SS - 1), NEW q \in Nat,
         NEW o \in Nat, NEW l \in Nat, o = SS * a + b,
         a <= q + 1, o + l <= SS * q + SS, s + q < len
  PROVE  /\ s + a + start < Wide
         /\ SS * (s + a + start) + b >= SS * start
         /\ SS * (s + a + start) + b + l - 1 < SS * (start + len)
<1>1. s + a + start < Wide
  BY Sizes
<1>2. /\ s + a + start = (s + start) + a
      /\ SS * ((s + start) + a) = SS * (s + start) + SS * a
  BY Times, Sizes
<1>3. SS * (s + start) \in Nat /\ SS * a \in Nat /\ SS * start \in Nat /\ SS * q \in Nat
      /\ SS * (start + len) \in Nat
  BY Times, Sizes
<1>4. SS * start <= SS * (s + start)
  BY Times, Sizes
<1>5. SS * (((s + start) + q) + 1) = SS * (s + start) + SS * q + SS
  BY Times, Sizes
<1>6. SS * (((s + start) + q) + 1) <= SS * (start + len)
  <2>1. ((s + start) + q) + 1 <= start + len
    OBVIOUS
  <2> QED
    BY <2>1, Times, Sizes
<1>7. SS * (s + a + start) + b = SS * (s + start) + o
  BY <1>2, <1>3
<1> QED
  BY <1>1, <1>3, <1>4, <1>5, <1>6, <1>7, Sizes

\* The bytes of a request that passes the check of the boundaries.
LEMMA Bytes ==
  ASSUME NEW start \in Nat, NEW len \in Nat, start + len < Wide,
         NEW s \in Nat, NEW o \in Nat, NEW l \in Nat, NEW m \in Nat, NEW lo,
         o + l # 0 => m = o + l - 1, s + m \div SS < len,
         lo = (((s + o \div SS + start) % Wide) * SS) + (o % SS)
  PROVE  lo \in Nat /\ lo >= start * SS /\ lo + l - 1 < (start + len) * SS
<1> DEFINE a == o \div SS
           b == o % SS
           q == m \div SS
           r == m % SS
<1>1. a \in Nat /\ b \in 0..(SS - 1) /\ o = SS * a + b
  BY DivMod, Sizes
<1>2. q \in Nat /\ r \in 0..(SS - 1) /\ m = SS * q + r
  BY DivMod, Sizes
<1>3. s + q < len /\ lo = (((s + a + start) % Wide) * SS) + b
  OBVIOUS
<1> HIDE DEF a, b, q, r
<1>4. a <= q + 1 /\ o + l <= SS * q + SS
  BY <1>1, <1>2, Span
<1>5. /\ s + a + start < Wide
      /\ SS * (s + a + start) + b >= SS * start
      /\ SS * (s + a + start) + b + l - 1 < SS * (start + len)
  BY <1>1, <1>2, <1>3, <1>4, Inside
<1>6. (s + a + start) % Wide = s + a + start
  BY <1>1, <1>5, Small, Sizes
<1>7. (s + a + start) * SS = SS * (s + a + start) /\ SS * (s + a + start) \in Nat
      /\ start * SS = SS * start /\ (start + len) * SS = SS * (start + len)
  <2>1. s + a + start \in Nat /\ start + len \in Nat
    BY <1>1
  <2> QED
    BY <2>1, Times, Sizes
<1>8. lo = SS * (s + a + start) + b
  BY <1>3, <1>6, <1>7
<1>9. lo \in Nat
  BY <1>1, <1>7, <1>8, Sizes
<1> QED
  BY <1>5, <1>7, <1>8, <1>9

LEMMA DevreadTyped ==
  ASSUME Typed, Devread
  PROVE  Typed'
BY DEF Devread, Typed, tables

LEMMA DevreadSafe ==
  ASSUME Typed, Bounded, NoWrap, Devread
  PROVE  Bounded' /\ ReadsStayInside'
<1>1. PICK s \in Sectors, o \in 0..(2 * SS), l \in Lengths :
        access' = IF Outside(w["open"], s, o, l) THEN <<>> ELSE Asked(w["open"], s, o, l)
  BY DEF Devread
<1>2. /\ s \in Nat /\ l \in Nat /\ o \in Nat
      /\ o + l <= Wide /\ s + ((o + l - 1) % Wide) \div SS < Wide
  BY WalkAssumption DEF NoWrap
<1> DEFINE x == w["open"]
<1>3. x.start \in Nat /\ x.len \in Nat /\ (x.start # 0 => Ends(x)) /\ w' = w
  BY CursorFacts DEF Bounded, Devread, Walks
<1>4. Bounded'
  BY DEF Devread, Bounded, Ends, Idle, tables
<1>5. ASSUME x.start # 0, access' # <<>>
      PROVE  /\ access'[1] >= x.start * SS
             /\ access'[2] < (x.start + x.len) * SS
  <2>1. ~Outside(x, s, o, l) /\ access' = Asked(x, s, o, l)
    BY <1>1, <1>5
  <2> DEFINE m == (o + l - 1) % Wide
             t == s + m \div SS
  <2>2. \A y \in Int : y % Wide \in Nat /\ y % Wide < Wide
    BY Sizes
  <2>3. m \in Nat /\ t < Wide
    BY <1>2, <2>2
  <2>4. ~(t % Wide >= x.len)
    BY <1>5, <2>1 DEF Outside
  <2>5. o + l # 0 => m = o + l - 1
    BY <1>2, Small, Sizes
  <2> HIDE DEF m
  <2>6. t \in Nat
    BY <1>2, <2>3, DivMod, Sizes
  <2> HIDE DEF t
  <2>7. t < x.len
    <3>1. t % Wide \in Nat
      BY <2>2, <2>6
    <3>2. t % Wide < x.len
      BY <1>3, <2>4, <3>1
    <3> QED
      BY <2>3, <2>6, <3>2, Unwrapped, Sizes
  <2> DEFINE lo == (((s + o \div SS + x.start) % Wide) * SS) + (o % SS)
  <2>8. lo \in Nat /\ lo >= x.start * SS /\ lo + l - 1 < (x.start + x.len) * SS
    <3>1. x.start + x.len < Wide /\ s + m \div SS < x.len
      BY <1>3, <1>5, <2>7 DEF Ends, t
    <3> QED
      BY <1>2, <1>3, <2>3, <2>5, <3>1, Bytes
  <2>9. access' = <<lo, lo + l - 1>>
    BY <2>1 DEF Asked
  <2> HIDE DEF lo
  <2> QED
    BY <2>8, <2>9
<1>6. ReadsStayInside'
  BY <1>3, <1>5 DEF ReadsStayInside
<1> QED
  BY <1>4, <1>6

-----------------------------------------------------------------------------
(* What a step of a walk does to its cursor and to the tables *)

Step(c) == NextPartition(c) \/ HeaderUnread(c)

LEMMA StepSafe ==
  ASSUME Typed, NEW c \in Walks, Step(c)
  PROVE  /\ Typed' /\ Ways(c)
         /\ Bounded /\ RealDisks /\ (c = "open" => ~GptAstray(c)) => Bounded' /\ ReadsStayInside'
BY BsdPartitionSafe, BsdOverSafe, NotBsdSafe, TooManySafe, GptAgainSafe, GptAstraySafe,
   GptFirstSafe, TurnSafe DEF NextPartition, Step

\* It moves one walk, by one of three ways.
LEMMA StepFrame ==
  ASSUME Typed, NEW c \in Walks, NEW e \in Walks, c # e, Step(c)
  PROVE  /\ pc[c] \in {"call", "slice"} /\ pc'[c] \in {"got", "slice", "done"}
         /\ pc'[e] = pc[e] /\ w'[e] = w[e]
         /\ UNCHANGED <<disk, drive, dest, visited, opened>>
         /\ \A y : Reports(c, y) => pc'[c] = "got" /\ w'[c] = y
         /\ \A y : Turns(c, y) => pc'[c] = "slice" /\ w'[c] = y
         /\ Fails(c) => pc'[c] = "done" /\ w' = w
         /\ pc'[c] = "got" => w'[c].part # None
         /\ pc'[c] = "slice" => w'[c].part = w[c].part /\ w'[c].sub = w[c].sub
<1>1. pc \in [Walks -> {"off", "call", "slice", "got", "inside", "done"}]
      /\ w \in [Walks -> Cursor]
  BY DEF Typed
<1>2. /\ \A y : Reports(c, y) => pc'[c] = "got" /\ w'[c] = y
      /\ \A y : Turns(c, y) => pc'[c] = "slice" /\ w'[c] = y
      /\ Fails(c) => pc'[c] = "done" /\ w' = w
      /\ (Fails(c) \/ \E y : Reports(c, y) \/ Turns(c, y)) =>
           /\ pc'[e] = pc[e] /\ w'[e] = w[e]
           /\ UNCHANGED <<disk, drive, dest, visited, opened>>
  BY <1>1 DEF Reports, Turns, Fails, Goto
<1>3. pc[c] \in {"call", "slice"}
  <2>1. CASE BsdPartition(c) \/ BsdOver(c) \/ NotBsd(c)
    BY <2>1 DEF BsdPartition, BsdOver, NotBsd
  <2>2. CASE TooMany(c) \/ GptAgain(c) \/ GptAstray(c) \/ GptFirst(c)
    BY <2>2, GptAstrayFacts DEF TooMany, GptAgain, Again, GptFirst
  <2>3. CASE MbrTurn(c) \/ HeaderUnread(c)
    BY <2>3 DEF MbrTurn, ReadsTable, HeaderUnread
  <2> QED
    BY <2>1, <2>2, <2>3 DEF Step, NextPartition
<1>4. Ways(c)
  BY StepSafe
<1> QED
  BY <1>2, <1>3, <1>4 DEF Ways

\* The first call says what kind of table there is; behind it that stays.
LEMMA StepTables ==
  ASSUME Typed, NEW c \in Walks, Step(c)
  PROVE  /\ w[c].part # None => gpt' = gpt /\ gpt_max' = gpt_max
         /\ w[c].part = None /\ pc[c] = "call" => pc'[c] = "slice"
         /\ w[c].part = None /\ pc[c] = "slice" =>
              /\ gpt' => Disk(c).gpt # <<>> /\ gpt_max' = Len(Disk(c).gpt)
              /\ fault' \/ gpt' = (Disk(c).gpt # <<>>)
         /\ NextPartition(c) => fault' = fault
         /\ NextPartition(c) /\ w[c].part = None /\ pc[c] = "slice" =>
              gpt' = (Disk(c).gpt # <<>>)
         /\ HeaderUnread(c) =>
              w[c].part = None /\ pc[c] = "slice" /\ gpt' = FALSE /\ fault' = TRUE
<1>1. gpt \in BOOLEAN /\ Last # None
  BY Sizes DEF Typed
<1>2. CASE BsdPartition(c) \/ BsdOver(c)
  BY <1>2 DEF BsdPartition, BsdOver, InBsd, HeaderUnread
<1>3. CASE NotBsd(c)
  <2>1. pc'[c] = "slice"
    BY <1>3 DEF NotBsd, Turns, Goto, Typed
  <2> QED
    BY <1>3, <2>1 DEF NotBsd, tables, HeaderUnread
<1>4. CASE TooMany(c)
  BY <1>1, <1>4 DEF TooMany, tables, HeaderUnread
<1>5. CASE GptAgain(c) \/ GptAstray(c)
  BY <1>5, GptAstrayFacts DEF GptAgain, Again, HeaderUnread
<1>6. CASE GptFirst(c)
  <2>1. Disk(c).gpt # <<>> /\ gpt' = TRUE /\ gpt_max' = Len(Disk(c).gpt) /\ fault' = fault
        /\ w[c].part = None /\ pc[c] = "slice"
    BY <1>6 DEF GptFirst, Disk
  <2>2. ~HeaderUnread(c)
    BY <2>1 DEF HeaderUnread, OverTable
  <2> QED
    BY <2>1, <2>2
<1>7. CASE MbrTurn(c)
  <2>1. /\ gpt' = FALSE /\ gpt_max' = gpt_max /\ fault' = fault /\ pc[c] = "slice"
        /\ w[c].part = None => Disk(c).gpt = <<>>
        /\ w[c].part # None => gpt = FALSE
    BY <1>1, <1>7 DEF MbrTurn, OverTable, ReadsTable, Disk
  <2>2. ~HeaderUnread(c)
    BY <2>1 DEF HeaderUnread, Disk
  <2> QED
    BY <2>1, <2>2
<1>8. CASE HeaderUnread(c)
  <2>1. /\ gpt' = FALSE /\ fault' = TRUE /\ pc[c] = "slice" /\ w[c].part = None
        /\ Disk(c).gpt # <<>>
    BY <1>8 DEF HeaderUnread, OverTable, Disk
  <2>2. ~NextPartition(c)
    <3>1. ASSUME NextPartition(c) PROVE GptFirst(c)
      BY <1>1, <2>1, <3>1, GptAstrayFacts
         DEF NextPartition, BsdPartition, BsdOver, NotBsd, TooMany, GptAgain, Again, MbrTurn, Disk
    <3>2. ~GptFirst(c)
      BY <2>1 DEF GptFirst
    <3> QED
      BY <3>1, <3>2
  <2> QED
    BY <2>1, <2>2
<1> QED
  BY <1>2, <1>3, <1>4, <1>5, <1>6, <1>7, <1>8 DEF Step, NextPartition

\* At the entries of a GPT the cursor says so.
LEMMA StepEntry ==
  ASSUME Typed, NEW c \in Walks, Step(c), gpt', pc'[c] # "done",
         w[c].part # None => AtArray(c), w'[c].part # None
  PROVE  w'[c].entry = Array
<1>1. w \in [Walks -> Cursor] /\ pc \in [Walks -> {"off", "call", "slice", "got", "inside", "done"}]
  BY DEF Typed
<1>2. CASE Fails(c)
  BY <1>1, <1>2 DEF Fails, Goto
<1>3. CASE \E y \in Cursor : Reports(c, y)
  <2>1. ~Fails(c) /\ ~ \E y \in Cursor : Turns(c, y)
    BY <1>1, <1>3 DEF Fails, Turns, Reports, Goto
  <2>2. PICK y \in Cursor : Reports(c, y) /\ y.entry = Array
    BY <2>1, StepSafe DEF Ways
  <2> QED
    BY <1>1, <2>2 DEF Reports
<1>4. CASE \E y : Turns(c, y) /\ ~Fails(c)
  <2>1. pc'[c] = "slice"
    BY <1>1, <1>4 DEF Turns, Goto
  <2>2. w'[c].part = w[c].part
    <3>1. PICK e \in Walks : e # c
      BY DEF Walks
    <3> QED
      BY <2>1, <3>1, StepFrame
  <2>3. AtArray(c)
    BY <2>2
  <2>4. CASE BsdOver(c) \/ NotBsd(c)
    <3>1. Turns(c, w[c])
      BY <1>4, <2>4 DEF BsdOver, NotBsd, BsdError
    <3> QED
      BY <1>1, <2>3, <3>1 DEF Turns, AtArray
  <2>5. ~MbrTurn(c) /\ ~HeaderUnread(c)
    BY DEF MbrTurn, HeaderUnread, OverTable
  <2>6. ~BsdPartition(c) /\ ~GptAgain(c) /\ ~GptAstray(c) /\ ~GptFirst(c) /\ ~TooMany(c)
    <3>1. ~Fails(c) /\ \A y : ~Reports(c, y)
      BY <1>1, <1>4, <2>1 DEF Reports, Goto
    <3>2. \A k, m : ~NextGpt(c, k, m)
      BY <3>1 DEF NextGpt
    <3>3. ~GptAstray(c)
      BY <3>1, GptAstrayFacts
    <3> QED
      BY <3>1, <3>2, <3>3 DEF BsdPartition, GptAgain, GptFirst, TooMany
  <2> QED
    BY <2>4, <2>5, <2>6 DEF Step, NextPartition
<1> QED
  BY <1>2, <1>3, <1>4, StepSafe DEF Ways

-----------------------------------------------------------------------------
(* Together *)

\* Whatever real_open_partition walks, it walks alone.
LEMMA StraightStep ==
  ASSUME Typed, Straight, NEW c \in Walks, Step(c)
  PROVE  Straight'
<1>1. /\ "open" \in Walks /\ "find" \in Walks
      /\ w \in [Walks -> Cursor] /\ gpt \in BOOLEAN
  BY DEF Typed, Walks
<1>2. CASE c = "find"
  <2>1. pc["find"] \in {"call", "slice"} /\ pc'["open"] = pc["open"]
    BY <1>1, <1>2, StepFrame
  <2>2. pc'["open"] = "off"
    BY <2>1 DEF Straight
  <2> QED
    BY <2>2 DEF Straight, Moving
<1>3. CASE c = "open"
  <2> DEFINE d == Disk("open")
             x == w["open"]
  <2>1. /\ pc["open"] \in {"call", "slice"} /\ pc'["open"] \in {"got", "slice", "done"}
        /\ pc'["find"] = pc["find"] /\ Disk("open")' = d
        /\ Fails("open") => pc'["open"] = "done"
        /\ pc'["open"] = "got" => w'["open"].part # None
        /\ pc'["open"] = "slice" => w'["open"].part = x.part /\ w'["open"].sub = x.sub
    BY <1>1, <1>3, StepFrame DEF Disk
  <2>2. /\ x.part # None => gpt' = gpt /\ gpt_max' = gpt_max
        /\ x.part = None /\ pc["open"] = "call" => pc'["open"] = "slice"
        /\ x.part = None /\ pc["open"] = "slice" =>
             /\ gpt' => d.gpt # <<>> /\ gpt_max' = Len(d.gpt)
             /\ fault' \/ gpt' = (d.gpt # <<>>)
        /\ fault => fault'
    BY <1>1, <1>3, StepTables DEF Step
  <2>3. /\ pc["find"] \in {"off", "inside"}
        /\ x.part = None => x.sub = None
        /\ x.part # None /\ gpt => d.gpt # <<>> /\ gpt_max = Len(d.gpt) /\ x.entry = Array
        /\ x.part # None => fault \/ Seen("open") = d
    BY <2>1 DEF Straight, Moving
  <2>4. ASSUME pc'["open"] # "done", w'["open"].part # None, gpt'
        PROVE  d.gpt # <<>> /\ gpt_max' = Len(d.gpt) /\ w'["open"].entry = Array
    <3>1. x.part # None => AtArray("open")
      BY <2>2, <2>3, <2>4 DEF AtArray, Disk
    <3>2. w'["open"].entry = Array
      BY <1>1, <1>3, <2>4, <3>1, StepEntry
    <3>3. x.part = None => pc["open"] = "slice"
      BY <2>1, <2>2, <2>4
    <3> QED
      BY <2>2, <2>3, <2>4, <3>2, <3>3
  <2>5. x.part # None \/ pc["open"] = "slice" => fault' \/ Seen("open")' = d
    <3>1. Seen("open")' = IF gpt' THEN d ELSE AsMbr(d)
      BY <2>1 DEF Seen, Disk
    <3>2. Seen("open") = IF gpt THEN d ELSE AsMbr(d)
      BY DEF Seen, Disk
    <3>3. d.gpt = <<>> => AsMbr(d) = d
      BY DEF AsMbr
    <3>4. CASE x.part # None
      <4>1. Seen("open")' = Seen("open")
        BY <2>2, <3>1, <3>2, <3>4
      <4> QED
        BY <2>2, <2>3, <3>4, <4>1
    <3>5. CASE x.part = None /\ pc["open"] = "slice"
      <4>1. CASE gpt'
        BY <3>1, <4>1
      <4>2. CASE ~gpt'
        BY <2>2, <3>1, <3>3, <3>5, <4>2
      <4> QED
        BY <4>1, <4>2
    <3> QED
      BY <3>4, <3>5
  <2>6. x.part = None /\ pc["open"] = "call" => pc'["open"] = "slice" /\ w'["open"].part = None
    BY <2>1, <2>2
  <2> HIDE DEF d, x
  <2> QED
    BY <2>1, <2>2, <2>3, <2>4, <2>5, <2>6 DEF Straight, Moving, d, x
<1> QED
  BY <1>2, <1>3 DEF Walks

LEMMA StraightUnread ==
  ASSUME Typed, Straight, NEW c \in Walks, TableUnread(c) \/ EntryUnread(c) \/ LabelUnread(c)
  PROVE  Straight'
<1>1. /\ "open" \in Walks /\ "find" \in Walks
      /\ pc[c] \in {"call", "slice"} /\ pc'[c] \in {"slice", "done"}
      /\ fault' = TRUE /\ w' = w /\ \A e \in Walks : e # c => pc'[e] = pc[e]
      /\ Disk("open")' = Disk("open")
  BY UnreadSafe DEF Walks, Disk
<1>2. CASE c = "find"
  <2>1. pc'["open"] = "off"
    BY <1>1, <1>2 DEF Straight
  <2> QED
    BY <2>1 DEF Straight, Moving
<1>3. CASE c = "open"
  <2>1. pc'["open"] = "slice" => LabelUnread("open") /\ gpt' = gpt /\ gpt_max' = gpt_max
    <3>1. ~LabelUnread("open") => pc'["open"] = "done"
      BY <1>1, <1>3 DEF TableUnread, EntryUnread, Fails, Goto, Typed
    <3> QED
      BY <3>1 DEF LabelUnread, tables
  <2> QED
    BY <1>1, <1>3, <2>1 DEF Straight, Moving
<1> QED
  BY <1>2, <1>3 DEF Walks

LEMMA StraightElse ==
  ASSUME Typed, Straight,
         \/ OpenGot \/ OpenOver \/ FindPasses \/ FindLooks \/ FindOn \/ FindOver
         \/ OpenPartition \/ Find \/ Devread \/ UNCHANGED vars
  PROVE  Straight'
<1>1. /\ "open" \in Walks /\ "find" \in Walks
      /\ w \in [Walks -> Cursor]
      /\ pc \in [Walks -> {"off", "call", "slice", "got", "inside", "done"}]
  BY DEF Typed, Walks
<1>2. CASE OpenPartition \/ FindLooks
  <2>1. pc'["open"] = "call" /\ w'["open"] = Fresh /\ pc'["find"] \in {"off", "inside"}
    BY <1>1, <1>2 DEF OpenPartition, FindLooks, Begin, Goto, Idle
  <2> QED
    BY <2>1 DEF Straight, Moving, Fresh
<1>3. CASE OpenGot
  <2>1. /\ pc["open"] = "got" /\ pc'["open"] \in {"call", "done"} /\ pc'["find"] = pc["find"]
        /\ UNCHANGED <<disk, tables, drive, w, fault>>
    BY <1>1, <1>3 DEF OpenGot, Goto
  <2> QED
    BY <2>1 DEF Straight, Moving, Seen, Disk, tables
<1>4. CASE OpenOver \/ FindPasses \/ FindOn \/ FindOver \/ Find \/ Devread
  <2>1. pc'["open"] = "off"
    BY <1>1, <1>4 DEF OpenOver, FindPasses, FindOn, FindOver, Find, Devread, Idle, Goto, Straight
  <2> QED
    BY <2>1 DEF Straight, Moving
<1>5. CASE UNCHANGED vars
  BY <1>5 DEF vars, tables, Straight, Moving, Disk, Seen
<1> QED
  BY <1>2, <1>3, <1>4, <1>5

LEMMA StraightNext ==
  ASSUME Typed, Straight, [Next]_vars
  PROVE  Straight'
BY StraightStep, StraightUnread, StraightElse DEF Next, Walking, ReadFails, Step

LEMMA InitStraight == Init => Straight
BY DEF Init, Straight, Moving, Walks

LEMMA InitTyped == Init => Typed
<1> SUFFICES ASSUME Init PROVE Typed
  OBVIOUS
<1>1. <<>> \in Seq(SubEntry) /\ 0 \in 0..None
  BY Sizes
<1>2. w \in [Walks -> Cursor] /\ pc \in [Walks -> {"off", "call", "slice", "got", "inside", "done"}]
  BY FreshFacts DEF Init
<1> QED
  BY <1>1, <1>2 DEF Init, Typed

LEMMA InitBounded == Init => Bounded /\ ReadsStayInside
<1> SUFFICES ASSUME Init PROVE Bounded /\ ReadsStayInside
  OBVIOUS
<1>1. /\ w = [c \in Walks |-> Fresh] /\ mbr = <<>> /\ access = <<>>
  BY DEF Init
<1>2. DOMAIN <<>> = {}
  OBVIOUS
<1> QED
  BY <1>1, <1>2, FreshFacts DEF Bounded, ReadsStayInside, Walks

LEMMA OpenSafe ==
  ASSUME Typed,
         OpenGot \/ OpenOver \/ FindPasses \/ FindLooks \/ FindOn \/ FindOver
           \/ OpenPartition \/ Find
  PROVE  Typed' /\ (Bounded => Bounded' /\ ReadsStayInside')
BY OpenGotSafe, OpenOverSafe, FindPassesSafe, FindLooksSafe, FindOverSafe,
   OpenPartitionSafe, FindSafe

LEMMA NextSafe ==
  ASSUME Typed, [Next]_vars
  PROVE  Typed' /\ (Straight /\ Bounded /\ ReadsStayInside /\ RealDisks /\ NoWrap
                      => Bounded' /\ ReadsStayInside')
<1>1. ASSUME NEW c \in Walks, NextPartition(c)
      PROVE  Typed' /\ (Straight /\ Bounded /\ RealDisks => Bounded' /\ ReadsStayInside')
  <2>1. Straight /\ c = "open" => ~GptAstray(c)
    BY GptAstrayFacts DEF Straight, Moving, AtArray, Disk
  <2> QED
    BY <1>1, <2>1, StepSafe DEF Step
<1>2. CASE \E c \in Walks : ReadFails(c)
  BY <1>2, ReadFailsSafe
<1>3. CASE OpenGot \/ OpenOver \/ FindPasses \/ FindLooks \/ FindOn \/ FindOver
             \/ OpenPartition \/ Find
  BY <1>3, OpenSafe
<1>4. CASE Devread
  BY <1>4, DevreadTyped, DevreadSafe
<1>5. CASE UNCHANGED vars
  BY <1>5 DEF vars, tables, Typed, Bounded, Ends, Idle, ReadsStayInside
<1> QED
  BY <1>1, <1>2, <1>3, <1>4, <1>5 DEF Next, Walking

\* The cursors of next_partition keep their types on every disk: a slice number
\* is never past PC_SLICE_MAX's end mark, and no offset of a table leaves 32 bits
\* (disk_io.c, next_pc_slice).
THEOREM Typing == Spec => []TypeOK
<1>1. Typed => TypeOK
  <2> SUFFICES ASSUME Typed PROVE TypeOK
    OBVIOUS
  <2>1. \A c \in Walks : w[c] \in Cursor
    BY DEF Typed
  <2> QED
    BY <2>1 DEF Typed, TypeOK, Cursor
<1>2. Typed /\ [Next]_vars => Typed'
  BY NextSafe
<1> QED
  BY <1>1, <1>2, InitTyped, PTL DEF Spec

\* devread moves no byte outside the partition that has been opened (disk_io.c,
\* devread's "Check partition boundaries"), whatever walks, conditions and read
\* errors came before, if partitions end below 2^64 and the request does not wrap.
THEOREM Confinement ==
  ASSUME RealDisks, NoWrap
  PROVE  Spec => []ReadsStayInside
<1>1. IInv /\ [Next]_vars => IInv'
  BY NextSafe, StraightNext DEF IInv
<1>2. Init => IInv
  BY InitTyped, InitStraight, InitBounded DEF IInv
<1>3. IInv => ReadsStayInside
  BY DEF IInv
<1> QED
  BY <1>1, <1>2, <1>3, PTL DEF Spec

-----------------------------------------------------------------------------
(* Where the walks stand *)

\* What is known of the tables and labels of a drive: a drive has finitely many
\* sectors, an entry's start is of 32 bits, and a label names at most eight
\* partitions (pc_slice.h, BSD_LABEL_NPARTS_MAX).
Real(d) ==
  /\ IsFiniteSet(DOMAIN d.table)
  /\ \A o \in DOMAIN d.table : \A i \in 1..SliceMax : d.table[o][i].start < Limit
  /\ \A o \in DOMAIN d.label : Len(d.label[o]) <= None
RealTables == \A d \in Disks : Real(d)

\* The logical partitions up to entry e of record k.
UpTo(d, k, e) == {b \in LogicalSlots(d) : b[1] < k \/ (b[1] = k /\ b[2] <= e)}

\* The cursor stands at an entry of the k-th record, and its number is the one
\* of the partition last passed.
Stands(d, x, k) ==
  /\ k \in Records(d) /\ Chain(d)[k] = x.offset
  /\ k = 0 => x.ext = 0 /\ x.entry \in 1..SliceMax /\ x.part = x.entry - 1
  /\ k # 0 => /\ x.ext = Base(d) /\ x.ext # 0
              /\ x.part = SliceMax - 1 + Cardinality(UpTo(d, k, x.entry))

NoneAfter(d, n) == \A s \in Slices(d) : s.part <= n

\* It followed a link to a sector that is no record of the chain.
BadRecord(d, b, o) ==
  \/ o \notin DOMAIN d.table
  \/ o # 0 /\ d.table[o] = d.table[0]
  \/ o # 0 /\ \E i \in 1..SliceMax : d.table[o][i].type = "ext" /\ b + d.table[o][i].start = o
Lost(d, x) == BadRecord(d, x.ext, x.offset) /\ NoneAfter(d, x.part)

\* The label of a slice, <<>> if it has none.
SliceLabel(d, s) ==
  IF s.type = "bsd" /\ s.len >= 2 /\ s.start + 1 \in DOMAIN d.label
  THEN d.label[s.start + 1] ELSE <<>>

\* The partition it reported last is the drive's of that number.
SubAt(d, s, x) ==
  LET t == SliceLabel(d, s)  i == x.sub + 1
  IN i \in DOMAIN t /\ t[i].type # "none" /\ x.start = t[i].start /\ x.len = t[i].len
InSlice(d, s, x) ==
  /\ s.part = x.part /\ s.type = x.type
  /\ IF x.sub = None THEN s.start = x.start /\ s.len = x.len ELSE SubAt(d, s, x)

Place(d, x, at) ==
  IF x.part = None THEN x.sub = None /\ at \in {"call", "slice"}
  ELSE /\ \E s \in Slices(d) : InSlice(d, s, x)
       /\ d.gpt = <<>> => (\E k \in Records(d) : Stands(d, x, k)) \/ (at = "slice" /\ Lost(d, x))

\* Behind the first slice, the kind of table, the number of entries and the
\* primary table that are remembered are the drive's, and the cursor is at the
\* entries if it has a GPT.
Known(d, x, g, max, first) ==
  x.part # None =>
    /\ g = (d.gpt # <<>>)
    /\ g => max = Len(d.gpt) /\ x.entry = Array
    /\ ~g => 0 \in DOMAIN d.table /\ first = d.table[0]

\* Behind a BSD partition, the label in the buffer is that of its slice.
Labelled(d, x, buf) ==
  x.sub # None => \A s \in Slices(d) : s.part = x.part => buf = SliceLabel(d, s)

\* Partition p comes before what the walk reports next, at this point of it.
Past(p, x, at) ==
  /\ x.part # None
  /\ \/ p.part < x.part
     \/ /\ p.part = x.part
        /\ \/ at = "slice"
           \/ at = "got" /\ x.sub # None /\ (p.sub = None \/ p.sub < x.sub)
           \/ at \in {"call", "inside"} /\ (p.sub = None \/ (x.sub # None /\ p.sub <= x.sub))

\* The cursor of a walk, in the middle of it.
Sound(d, x, at) ==
  /\ Place(d, x, at) /\ Known(d, x, gpt, gpt_max, primary)
  /\ at \in {"call", "got"} => Labelled(d, x, mbr)

\* real_open_partition has not passed what it looks for, nor, if that is a
\* partition of the first BSD slice, a BSD slice.
NotPassed(d, x, q, at) ==
  \A p \in Partitions[d] : Past(p, x, at) =>
    /\ ~IsDest(p, q)
    /\ q.part = None /\ p.type = "bsd" => p.part = x.part /\ at # "slice"

\* Who walks, and where to.
Turnwise ==
  /\ DOMAIN dest = Walks
  /\ pc["open"] # "off" => pc["find"] \in {"off", "inside"}
  /\ pc["open"] # "off" =>
       /\ dest["open"] # Whole /\ dest["open"].part \in 0..None /\ dest["open"].sub \in Nat
       /\ dest["open"].part = None => dest["open"].sub # None
  /\ pc["open"] # "inside"
  /\ Moving("open") => ~opened
  /\ pc["find"] # "off" => dest["find"] = Whole
  /\ pc["find"] = "got" => w["find"].part # None

Opening ==
  LET d == Seen("open")  x == w["open"]
  IN d \notin Cyclic =>
       /\ Moving("open") /\ x.part # None =>
            Sound(d, x, pc["open"]) /\ NotPassed(d, x, dest["open"], pc["open"])
       /\ pc["open"] = "done" /\ opened => Labelled(d, x, mbr)

\* `find` has looked into the partitions it has passed.
Visits == [part : Nat, sub : Nat, start : Nat, len : Nat]
Wanted(d, x, at) ==
  {Visit(p) : p \in {p \in Partitions[d] : Past(p, x, at) /\ Looks(p) /\ ~Reserved(d, p)}}
Finding ==
  LET d == Disk("find")  x == w["find"]  at == pc["find"]
  IN Moving("find") /\ ~fault /\ d \notin Cyclic =>
       /\ Sound(d, x, at) /\ (at = "got" => ~Reserved(d, x))
       /\ {visited[i] : i \in DOMAIN visited} = Wanted(d, x, at)
       /\ \A i, j \in DOMAIN visited : i # j => visited[i] # visited[j]

\* In the middle of `find` the partition it is at is opened.
Nested ==
  LET d == Disk("find")  x == w["find"]
  IN pc["find"] = "inside" /\ ~fault /\ d \notin Cyclic =>
       /\ drive["open"] = drive["find"] /\ dest["open"] = [part |-> x.part, sub |-> x.sub]
       /\ pc["open"] = "off" => Labelled(d, x, mbr)

\* The invariant of real_open_partition, that of `find`, and both.
OpensIt == Typed /\ Straight /\ Turnwise /\ Opening /\ OpenFindsIt
VisitsAll == visited \in Seq(Visits) /\ Finding /\ FindVisitsAll /\ Nested
Located == OpensIt /\ VisitsAll

-----------------------------------------------------------------------------
(* The records of an extended partition *)

\* What a drive is taken for is as well formed as the drive.
LEMMA ReadingFacts ==
  ASSUME NEW d \in Readings
  PROVE  IsDisk(d) /\ (RealTables => Real(d))
<1>1. CASE d \in Disks
  BY <1>1, WalkAssumption DEF RealTables
<1>2. ASSUME NEW e \in Disks, d = AsMbr(e), e.gpt # <<>> PROVE IsDisk(d) /\ (RealTables => Real(d))
  <2>1. d.table = e.table /\ d.label = e.label /\ d.gpt = <<>>
    BY <1>2 DEF AsMbr
  <2>2. d.gpt \in Seq([start : Nat, len : Nat, reserved : BOOLEAN]) /\ Len(d.gpt) <= None
    BY <2>1, Sizes
  <2>3. IsDisk(e) /\ (RealTables => Real(e))
    BY WalkAssumption DEF RealTables
  <2> QED
    BY <2>1, <2>2, <2>3 DEF IsDisk, Real
<1>3. d \in Disks \/ \E e \in Disks : d = AsMbr(e) /\ e.gpt # <<>>
  BY DEF Readings, AsMbr
<1> QED
  BY <1>1, <1>2, <1>3

LEMMA TableFacts ==
  ASSUME NEW d \in Readings
  PROVE  \A o \in DOMAIN d.table : \A i \in 1..SliceMax :
           /\ d.table[o][i] \in Entry /\ d.table[o][i].start \in Nat
           /\ d.table[o][i].len \in Nat /\ d.table[o][i].type \in Types
<1>1. \A o \in DOMAIN d.table : d.table[o] \in [1..SliceMax -> Entry]
  BY ReadingFacts DEF IsDisk
<1> QED
  BY <1>1 DEF Entry

LEMMA RecordFacts ==
  ASSUME RealTables, NEW d \in Readings
  PROVE  /\ IsFiniteSet(DOMAIN d.table) /\ Cardinality(DOMAIN d.table) \in Nat
         /\ Records(d) \subseteq Nat /\ 0 \in Records(d) /\ 1 \in Records(d)
         /\ \A k \in Records(d) : k # 0 => k - 1 \in Records(d) /\ k - 1 \in Nat
         /\ IsFiniteSet(Records(d))
<1>1. IsFiniteSet(DOMAIN d.table)
  BY ReadingFacts DEF Real
<1>2. Cardinality(DOMAIN d.table) \in Nat
  BY <1>1, FS_CardinalityType
<1>3. IsFiniteSet(Records(d))
  BY <1>2, FS_Interval DEF Records
<1> QED
  BY <1>1, <1>2, <1>3 DEF Records

\* The record after record o, as Chain says.
NextRecord(d, o) ==
  LET b == IF o = 0 THEN 0 ELSE Base(d)
      S == ExtFrom(d, b, o)
      p == b + d.table[o][First(S)].start
  IN IF S = {} THEN -1
     ELSE IF p = 0 THEN 0
     ELSE IF p \notin DOMAIN d.table THEN -1
     ELSE IF d.table[p] = d.table[0] THEN -1
     ELSE IF \E i \in 1..SliceMax :
               d.table[p][i].type = "ext" /\ Base(d) + d.table[p][i].start = p THEN -1
     ELSE p
Linked(d, f, k) ==
  IF k = 0 THEN IF 0 \in DOMAIN d.table THEN 0 ELSE -1
  ELSE IF f[k - 1] = -1 THEN -1 ELSE NextRecord(d, f[k - 1])

Fine(d, p) ==
  /\ d.table[p] # d.table[0]
  /\ ~ \E i \in 1..SliceMax : d.table[p][i].type = "ext" /\ Base(d) + d.table[p][i].start = p

LEMMA NextRecordIs ==
  ASSUME NEW d, NEW o, NextRecord(d, o) # -1
  PROVE  NextRecord(d, o) = 0 \/ (NextRecord(d, o) \in DOMAIN d.table /\ Fine(d, NextRecord(d, o)))
<1> DEFINE b == IF o = 0 THEN 0 ELSE Base(d)
           S == ExtFrom(d, b, o)
           p == b + d.table[o][First(S)].start
<1>1. NextRecord(d, o) \in {-1, 0} \/ (NextRecord(d, o) = p /\ p \in DOMAIN d.table /\ Fine(d, p))
  BY Zenon DEF NextRecord, Fine
<1> HIDE DEF p
<1> QED
  BY <1>1

\* Chain is the function its definition says: there is one.
LEMMA ChainIs ==
  ASSUME RealTables, NEW d \in Readings
  PROVE  Chain(d) = [k \in Records(d) |-> Linked(d, Chain(d), k)]
<1> DEFINE upto(p, b) == p = [k \in 0..b |-> Linked(d, p, k)]
           N == Cardinality(DOMAIN d.table) + 1
           bad == {b \in Nat : ~ \E p : upto(p, b)}
<1>1. ASSUME bad # {} PROVE FALSE
  <2>1. PICK b \in bad : \A c \in bad : b <= c
    <3>1. bad \in SUBSET Nat
      OBVIOUS
    <3> HIDE DEF bad
    <3> QED
      BY <1>1, <3>1, Least
  <2>2. b # 0
    <3>1. \E p : upto(p, 0)
      <4>1. upto([k \in 0..0 |-> IF 0 \in DOMAIN d.table THEN 0 ELSE -1], 0)
        BY DEF Linked
      <4> QED
        BY <4>1
    <3> QED
      BY <2>1, <3>1
  <2>3. b \in Nat /\ b - 1 \in Nat /\ b - 1 \notin bad
    <3>1. b \in Nat
      BY <2>1
    <3>2. b - 1 \in Nat /\ ~(b <= b - 1)
      BY <2>2, <3>1
    <3> HIDE DEF bad
    <3> QED
      BY <2>1, <3>1, <3>2
  <2>4. PICK p : upto(p, b - 1)
    BY <2>3
  <2> DEFINE q == [k \in 0..b |-> IF k = b THEN Linked(d, p, b) ELSE p[k]]
  <2>5. upto(q, b)
    <3>1. \A n \in 0..b : q[n] = Linked(d, q, n)
      <4> TAKE n \in 0..b
      <4>1. \A k \in 0..b - 1 : q[k] = p[k]
        BY <2>3
      <4>2. n # 0 => n - 1 \in 0..b - 1
        BY <2>3
      <4>3. Linked(d, q, n) = Linked(d, p, n)
        BY <4>1, <4>2 DEF Linked
      <4>4. n # b => n \in 0..b - 1
        BY <2>3
      <4>5. n # b => p[n] = Linked(d, p, n)
        BY <2>4, <4>4
      <4> QED
        BY <4>3, <4>5
    <3> QED
      BY <3>1
  <2>6. b \notin bad
    BY <2>5
  <2> QED
    BY <2>1, <2>6
<1>2. \E p : upto(p, N)
  <2>1. N \in Nat
    BY RecordFacts
  <2> QED
    BY <1>1, <2>1
<1>3. Chain(d) = CHOOSE p : upto(p, N)
  BY Zenon DEF Chain, Linked, NextRecord, Records
<1>4. upto(Chain(d), N)
  <2> HIDE DEF upto
  <2> QED
    BY <1>2, <1>3
<1> QED
  BY <1>4 DEF Records

LEMMA ChainSteps ==
  ASSUME RealTables, NEW d \in Readings
  PROVE  /\ Chain(d)[0] = IF 0 \in DOMAIN d.table THEN 0 ELSE -1
         /\ \A k \in Records(d) : k # 0 =>
              Chain(d)[k] = IF Chain(d)[k - 1] = -1 THEN -1 ELSE NextRecord(d, Chain(d)[k - 1])
<1> DEFINE f == Chain(d)
<1>1. f = [k \in Records(d) |-> Linked(d, f, k)]
  BY ChainIs
<1>2. 0 \in Records(d)
  BY RecordFacts
<1> HIDE DEF f
<1>3. \A k \in Records(d) : f[k] = Linked(d, f, k)
  BY <1>1
<1> QED
  BY <1>2, <1>3 DEF Linked, f

\* A record is a table of the drive; behind the first, none that would be
\* refused; and what comes before a record is one.
LEMMA ChainFacts ==
  ASSUME RealTables, NEW d \in Readings
  PROVE  \A k \in Records(d) : Chain(d)[k] # -1 =>
           /\ 0 \in DOMAIN d.table /\ Chain(d)[k] \in DOMAIN d.table
           /\ ~BadRecord(d, Base(d), Chain(d)[k])
           /\ k # 0 => Chain(d)[k - 1] # -1
<1> DEFINE f == Chain(d)
           good(k) == f[k] # -1 => /\ 0 \in DOMAIN d.table /\ f[k] \in DOMAIN d.table
                                   /\ ~BadRecord(d, Base(d), f[k])
           bad == {k \in Records(d) : ~good(k)}
<1>1. /\ f[0] = IF 0 \in DOMAIN d.table THEN 0 ELSE -1
      /\ \A k \in Records(d) : k # 0 =>
           f[k] = IF f[k - 1] = -1 THEN -1 ELSE NextRecord(d, f[k - 1])
  BY ChainSteps
<1> HIDE DEF f
<1>2. good(0)
  BY <1>1 DEF BadRecord
<1>3. ASSUME NEW k \in Records(d), k # 0, good(k - 1) PROVE good(k)
  <2>1. f[k] = IF f[k - 1] = -1 THEN -1 ELSE NextRecord(d, f[k - 1])
    BY <1>1, <1>3
  <2> SUFFICES ASSUME f[k] # -1 PROVE good(k)
    OBVIOUS
  <2>2. f[k - 1] # -1 /\ f[k] = NextRecord(d, f[k - 1])
    BY <2>1
  <2>3. 0 \in DOMAIN d.table
    BY <1>3, <2>2
  <2>4. f[k] = 0 \/ (f[k] \in DOMAIN d.table /\ Fine(d, f[k]))
    BY <2>2, f[k] # -1, NextRecordIs
  <2> QED
    BY <2>3, <2>4 DEF BadRecord, Fine
<1>4. bad = {}
  <2> SUFFICES ASSUME bad # {} PROVE FALSE
    OBVIOUS
  <2>1. bad \in SUBSET Nat
    BY RecordFacts
  <2>2. PICK k \in bad : \A j \in bad : k <= j
    <3> HIDE DEF bad
    <3> QED
      BY <2>1, Least
  <2>3. k \in Records(d) /\ k # 0 /\ ~good(k)
    BY <1>2, <2>2
  <2>4. k - 1 \in Records(d) /\ ~(k <= k - 1)
    BY <2>3, RecordFacts
  <2>5. good(k - 1)
    BY <2>2, <2>4
  <2> QED
    BY <1>3, <2>3, <2>5
<1>5. ASSUME NEW k \in Records(d), f[k] # -1, k # 0 PROVE f[k - 1] # -1
  BY <1>1, <1>5
<1> QED
  BY <1>4, <1>5 DEF f

\* Where it has ended it does not go on.
LEMMA ChainEnds ==
  ASSUME RealTables, NEW d \in Readings, NEW k \in Records(d), Chain(d)[k] = -1,
         NEW j \in Records(d), k <= j
  PROVE  Chain(d)[j] = -1
<1> DEFINE bad == {n \in Records(d) : k <= n /\ Chain(d)[n] # -1}
<1> SUFFICES ASSUME bad # {} PROVE FALSE
  OBVIOUS
<1>1. bad \in SUBSET Nat
  BY RecordFacts
<1>2. PICK n \in bad : \A m \in bad : n <= m
  <2> HIDE DEF bad
  <2> QED
    BY <1>1, Least
<1>3. n \in Records(d) /\ k <= n /\ Chain(d)[n] # -1 /\ n # k /\ n \in Nat /\ k \in Nat
  BY <1>2, RecordFacts
<1>4. n - 1 \in Records(d) /\ k <= n - 1 /\ ~(n <= n - 1) /\ n # 0
  BY <1>3, RecordFacts
<1>5. Chain(d)[n - 1] = -1
  BY <1>2, <1>4
<1> QED
  BY <1>3, <1>4, <1>5, ChainFacts

\* No record comes twice, unless there is a cycle: so it has ended before the
\* records that are looked at have.
LEMMA ChainShort ==
  ASSUME RealTables, NEW d \in Readings \ Cyclic, d.gpt = <<>>,
         NEW k \in Records(d), Chain(d)[k] # -1
  PROVE  k + 1 \in Records(d) /\ (k # 0 => Chain(d)[k] # 0)
<1> DEFINE f == Chain(d)
           n == Cardinality(DOMAIN d.table)
<1>1. k \in Nat /\ n \in Nat /\ 0..k \subseteq Records(d) /\ 0 \in Records(d)
  BY RecordFacts DEF Records
<1>2. \A j \in 0..k : f[j] # -1 /\ f[j] \in DOMAIN d.table
  <2> TAKE j \in 0..k
  <2>1. j \in Records(d) /\ j <= k
    BY <1>1
  <2>2. f[j] # -1
    BY <2>1, ChainEnds
  <2> QED
    BY <2>1, <2>2, ChainFacts
<1>3. \A i, j \in 0..k : f[i] = f[j] => i = j
  <2>1. Cycles(d) = {}
    BY DEF Cyclic
  <2>2. ASSUME NEW i \in 0..k, NEW j \in 0..k, f[i] = f[j], i < j PROVE FALSE
    <3>1. <<i, j>> \in Cycles(d)
      BY <1>1, <1>2, <2>2 DEF Cycles
    <3> QED
      BY <2>1, <3>1
  <2>3. \A i, j \in 0..k : i < j \/ i = j \/ j < i
    BY <1>1
  <2> QED
    BY <2>2, <2>3
<1> DEFINE g == [j \in 0..k |-> f[j]]
<1> HIDE DEF f, n
<1>4. g \in [0..k -> DOMAIN d.table] /\ \A i, j \in 0..k : i # j => g[i] # g[j]
  BY <1>2, <1>3
<1>5. ~(n < Cardinality(0..k))
  <2>1. IsFiniteSet(0..k) /\ IsFiniteSet(DOMAIN d.table)
    BY <1>1, FS_Interval, RecordFacts
  <2> DEFINE S == 0..k
             T == DOMAIN d.table
  <2> HIDE DEF g, S, T
  <2>2. g \in [S -> T] /\ IsFiniteSet(S) /\ IsFiniteSet(T)
    BY <1>4, <2>1 DEF S, T
  <2>3. ASSUME Cardinality(T) < Cardinality(S) PROVE \E x, y \in S : x # y /\ g[x] = g[y]
    BY <2>2, <2>3, FS_PigeonHole
  <2> QED
    BY <1>4, <2>3 DEF n, S, T
<1>6. Cardinality(0..k) = k + 1
  BY <1>1, FS_Interval
<1>7. k + 1 \in Records(d)
  BY <1>1, <1>5, <1>6 DEF Records, n
<1>8. k # 0 => f[k] # 0
  <2>1. 0 \in 0..k /\ k \in 0..k
    BY <1>1
  <2>2. f[0] = 0
    BY <1>2, <2>1, ChainSteps DEF f
  <2> QED
    BY <1>3, <2>1, <2>2
<1> QED
  BY <1>7, <1>8 DEF f

-----------------------------------------------------------------------------
(* The numbers of the logical partitions *)

Rank(d, a) == SliceMax + Cardinality({b \in LogicalSlots(d) : Before(b, a)})
PrimaryAt(d, i) ==
  LET e == d.table[0][i]  v == IF e.ok THEN e ELSE Null
  IN [part |-> i - 1, type |-> v.type, start |-> v.start, len |-> v.len]
LogicalAt(d, a) ==
  LET o == Chain(d)[a[1]]  e == d.table[o][a[2]]
  IN [part |-> Rank(d, a), type |-> e.type, start |-> o + e.start, len |-> e.len]

LEMMA SlotFacts ==
  ASSUME RealTables, NEW d \in Readings
  PROVE  /\ IsFiniteSet(LogicalSlots(d))
         /\ \A a \in LogicalSlots(d) :
              /\ a = <<a[1], a[2]>> /\ a[1] \in Records(d) /\ a[1] \in Nat \ {0}
              /\ a[2] \in 1..SliceMax /\ a[2] \in Nat
              /\ Chain(d)[a[1]] # -1 /\ Holds(d, Chain(d)[a[1]], a[2])
<1>1. Records(d) \subseteq Nat /\ IsFiniteSet(Records(d))
  BY RecordFacts
<1>2. \A a \in LogicalSlots(d) :
        /\ a = <<a[1], a[2]>> /\ a[1] \in Records(d) /\ a[1] \in Nat \ {0}
        /\ a[2] \in 1..SliceMax /\ a[2] \in Nat
        /\ Chain(d)[a[1]] # -1 /\ Holds(d, Chain(d)[a[1]], a[2])
  BY <1>1 DEF LogicalSlots
<1>3. IsFiniteSet(LogicalSlots(d))
  <2> DEFINE R == (Records(d) \X (1..SliceMax))
  <2>1. IsFiniteSet(1..SliceMax)
    BY Sizes, FS_Interval
  <2>2. IsFiniteSet(R)
    BY <1>1, <2>1, FS_Product
  <2>3. LogicalSlots(d) \in SUBSET R
    BY DEF LogicalSlots
  <2> QED
    BY <2>2, <2>3, FS_Subset
<1> QED
  BY <1>2, <1>3

\* Parts of a set of slots are counted.
LEMMA SomeSlots ==
  ASSUME RealTables, NEW d \in Readings, NEW S \in SUBSET LogicalSlots(d)
  PROVE  /\ IsFiniteSet(S) /\ Cardinality(S) \in Nat
         /\ \A T \in SUBSET S : Cardinality(T) <= Cardinality(S)
         /\ \A a \in LogicalSlots(d) : a \notin S => Cardinality(S \cup {a}) = Cardinality(S) + 1
<1>1. IsFiniteSet(S)
  BY SlotFacts, FS_Subset
<1>2. Cardinality(S) \in Nat
  BY <1>1, FS_CardinalityType
<1>3. \A T \in SUBSET S : Cardinality(T) <= Cardinality(S)
  BY <1>1, FS_Subset
<1>4. \A a \in LogicalSlots(d) : a \notin S => Cardinality(S \cup {a}) = Cardinality(S) + 1
  BY <1>1, FS_AddElement
<1> QED
  BY <1>1, <1>2, <1>3, <1>4

LEMMA RankGrows ==
  ASSUME RealTables, NEW d \in Readings, NEW a \in LogicalSlots(d), NEW S \in SUBSET LogicalSlots(d),
         a \in S, \A b \in LogicalSlots(d) : Before(b, a) => b \in S
  PROVE  Rank(d, a) \in Nat /\ Rank(d, a) < SliceMax + Cardinality(S)
<1> DEFINE B == {b \in LogicalSlots(d) : Before(b, a)}
<1>1. a \notin B
  BY SlotFacts DEF Before
<1>2. Cardinality(B) \in Nat /\ Cardinality(B \cup {a}) = Cardinality(B) + 1
  BY <1>1, SomeSlots
<1>3. B \cup {a} \in SUBSET S
  OBVIOUS
<1>4. Cardinality(B \cup {a}) <= Cardinality(S) /\ Cardinality(S) \in Nat
  <2> HIDE DEF B
  <2> QED
    BY <1>3, SomeSlots
<1> HIDE DEF B
<1>5. Rank(d, a) = SliceMax + Cardinality(B)
  BY DEF Rank, B
<1> QED
  BY <1>2, <1>4, <1>5, Sizes

LEMMA RankUnique ==
  ASSUME RealTables, NEW d \in Readings, NEW a \in LogicalSlots(d), NEW b \in LogicalSlots(d),
         Rank(d, a) = Rank(d, b)
  PROVE  a = b
<1>1. ASSUME NEW x \in LogicalSlots(d), NEW y \in LogicalSlots(d), Before(x, y)
      PROVE  Rank(d, x) \in Nat /\ Rank(d, x) < Rank(d, y)
  <2> DEFINE S == {z \in LogicalSlots(d) : Before(z, y)}
  <2>1. x \in S /\ \A z \in LogicalSlots(d) : Before(z, x) => z \in S
    BY <1>1, SlotFacts DEF Before
  <2>2. Rank(d, y) = SliceMax + Cardinality(S)
    BY DEF Rank
  <2>3. S \in SUBSET LogicalSlots(d)
    OBVIOUS
  <2> HIDE DEF S
  <2> QED
    BY <2>1, <2>2, <2>3, RankGrows
<1>2. a = b \/ Before(a, b) \/ Before(b, a)
  <2>1. /\ a = <<a[1], a[2]>> /\ b = <<b[1], b[2]>>
        /\ a[1] \in Nat /\ a[2] \in Nat /\ b[1] \in Nat /\ b[2] \in Nat
    BY SlotFacts
  <2>2. a[1] < b[1] \/ b[1] < a[1] \/ (a[1] = b[1] /\ (a[2] < b[2] \/ b[2] < a[2] \/ a[2] = b[2]))
    BY <2>1
  <2> QED
    BY <2>1, <2>2 DEF Before
<1>3. Before(a, b) => Rank(d, a) \in Nat /\ Rank(d, a) < Rank(d, b)
  BY <1>1
<1>4. Before(b, a) => Rank(d, b) \in Nat /\ Rank(d, b) < Rank(d, a)
  BY <1>1
<1> QED
  BY <1>2, <1>3, <1>4

LEMMA MbrSlices ==
  ASSUME NEW d \in Readings, d.gpt = <<>>
  PROVE  Slices(d) = IF 0 \notin DOMAIN d.table THEN {}
                     ELSE {PrimaryAt(d, i) : i \in 1..SliceMax}
                            \cup {LogicalAt(d, a) : a \in LogicalSlots(d)}
BY DEF Slices, PrimaryAt, LogicalAt, Rank

GptAt(d, i) == [part |-> i - 1, type |-> "data", start |-> d.gpt[i].start, len |-> d.gpt[i].len]

LEMMA GptSlices ==
  ASSUME NEW d \in Readings, d.gpt # <<>>
  PROVE  /\ Slices(d) = {GptAt(d, i) : i \in {i \in DOMAIN d.gpt : d.gpt[i].start # 0}}
         /\ DOMAIN d.gpt = 1..Len(d.gpt) /\ Len(d.gpt) \in Nat /\ Len(d.gpt) <= None
         /\ \A i \in DOMAIN d.gpt : d.gpt[i] \in GptEntry
<1> DEFINE g == d.gpt
<1>1. g \in Seq(GptEntry) /\ Len(g) <= None
  BY ReadingFacts DEF IsDisk, GptEntry
<1> HIDE DEF g
<1>2. DOMAIN g = 1..Len(g) /\ Len(g) \in Nat /\ \A i \in DOMAIN g : g[i] \in GptEntry
  BY <1>1
<1> QED
  BY <1>1, <1>2 DEF g, Slices, GptAt

LEMMA SliceTypes ==
  ASSUME RealTables, NEW d \in Readings, NEW s \in Slices(d)
  PROVE  s.part \in Nat /\ (d.gpt = <<>> => 0 \in DOMAIN d.table) /\ (d.gpt # <<>> => s.type = "data")
<1>1. CASE d.gpt # <<>>
  <2>1. PICK i \in 1..Len(d.gpt) : s = GptAt(d, i)
    BY <1>1, GptSlices
  <2>2. Len(d.gpt) \in Nat
    BY <1>1, GptSlices
  <2> QED
    BY <1>1, <2>1, <2>2 DEF GptAt
<1>2. CASE d.gpt = <<>>
  <2>1. 0 \in DOMAIN d.table
    BY <1>2, MbrSlices
  <2>2. CASE \E i \in 1..SliceMax : s = PrimaryAt(d, i)
    BY <1>2, <2>1, <2>2, Sizes DEF PrimaryAt
  <2>3. ASSUME NEW a \in LogicalSlots(d), s = LogicalAt(d, a) PROVE s.part \in Nat
    <3>1. Rank(d, a) \in Nat
      BY RankGrows
    <3> QED
      BY <2>3, <3>1 DEF LogicalAt
  <2> QED
    BY <1>2, <2>1, <2>2, <2>3, MbrSlices
<1> QED
  BY <1>1, <1>2

\* No two slices have the same number.
LEMMA OneOfANumber ==
  ASSUME RealTables, NEW d \in Readings, NEW s \in Slices(d), NEW t \in Slices(d), s.part = t.part
  PROVE  s = t
<1>1. CASE d.gpt # <<>>
  <2>1. PICK i \in 1..Len(d.gpt) : s = GptAt(d, i)
    BY <1>1, GptSlices
  <2>2. PICK j \in 1..Len(d.gpt) : t = GptAt(d, j)
    BY <1>1, GptSlices
  <2>3. i - 1 = j - 1 /\ i \in Nat /\ j \in Nat
    BY <1>1, <2>1, <2>2, GptSlices DEF GptAt
  <2>4. i = j
    BY <2>3
  <2> QED
    BY <2>1, <2>2, <2>4
<1>2. CASE d.gpt = <<>>
  <2>1. Slices(d) = {PrimaryAt(d, i) : i \in 1..SliceMax} \cup {LogicalAt(d, a) : a \in LogicalSlots(d)}
    BY <1>2, MbrSlices
  <2>2. \A i \in 1..SliceMax : PrimaryAt(d, i).part = i - 1 /\ i - 1 < SliceMax
    BY Sizes DEF PrimaryAt
  <2>3. \A a \in LogicalSlots(d) : LogicalAt(d, a).part = Rank(d, a) /\ Rank(d, a) >= SliceMax
    <3> TAKE a \in LogicalSlots(d)
    <3> DEFINE B == {b \in LogicalSlots(d) : Before(b, a)}
    <3>1. Cardinality(B) \in Nat
      BY SomeSlots
    <3>2. Rank(d, a) = SliceMax + Cardinality(B)
      BY DEF Rank
    <3> HIDE DEF B
    <3> QED
      BY <3>1, <3>2, Sizes DEF LogicalAt
  <2>4. CASE \E i, j \in 1..SliceMax : s = PrimaryAt(d, i) /\ t = PrimaryAt(d, j)
    <3>1. PICK i \in 1..SliceMax, j \in 1..SliceMax : s = PrimaryAt(d, i) /\ t = PrimaryAt(d, j)
      BY <2>4
    <3>2. i - 1 = j - 1
      BY <2>2, <3>1
    <3>3. i = j
      BY <3>2, Sizes
    <3> QED
      BY <3>1, <3>3
  <2>5. CASE \E a, b \in LogicalSlots(d) : s = LogicalAt(d, a) /\ t = LogicalAt(d, b)
    <3>1. PICK a \in LogicalSlots(d), b \in LogicalSlots(d) :
            s = LogicalAt(d, a) /\ t = LogicalAt(d, b)
      BY <2>5
    <3>2. a = b
      BY <2>3, <3>1, RankUnique
    <3> QED
      BY <3>1, <3>2
  <2>6. ASSUME NEW i \in 1..SliceMax, NEW a \in LogicalSlots(d),
               PrimaryAt(d, i).part = LogicalAt(d, a).part
        PROVE  FALSE
    <3>1. Rank(d, a) \in Nat
      BY RankGrows
    <3> QED
      BY <2>2, <2>3, <2>6, <3>1, Sizes
  <2> QED
    BY <2>1, <2>4, <2>5, <2>6
<1> QED
  BY <1>1, <1>2

-----------------------------------------------------------------------------
(* One turn over a table, of a drive whose chain ends *)

MbrDisk(d) == d \in Readings \ Cyclic /\ d.gpt = <<>>
Remain(d, x) == {i \in 1..SliceMax : i > x.entry /\ ~Passed(x, d.table[x.offset][i])}

LEMMA UpToFacts ==
  ASSUME RealTables, NEW d \in Readings, NEW k \in Nat, NEW e \in Nat
  PROVE  /\ UpTo(d, k, e) \in SUBSET LogicalSlots(d) /\ Cardinality(UpTo(d, k, e)) \in Nat
         /\ \A b \in UpTo(d, k, e) :
              Rank(d, b) \in Nat /\ Rank(d, b) <= SliceMax - 1 + Cardinality(UpTo(d, k, e))
<1> DEFINE U == UpTo(d, k, e)
<1>1. U \in SUBSET LogicalSlots(d)
  BY DEF UpTo
<1>2. Cardinality(U) \in Nat
  <2> HIDE DEF U
  <2> QED
    BY <1>1, SomeSlots
<1>3. ASSUME NEW b \in U
      PROVE  Rank(d, b) \in Nat /\ Rank(d, b) <= SliceMax - 1 + Cardinality(U)
  <2>1. \A a \in LogicalSlots(d) : Before(a, b) => a \in U
    <3> TAKE a \in LogicalSlots(d)
    <3> HAVE Before(a, b)
    <3>1. a[1] \in Nat /\ a[2] \in Nat /\ b[1] \in Nat /\ b[2] \in Nat
          /\ (b[1] < k \/ (b[1] = k /\ b[2] <= e)) /\ (a[1] < b[1] \/ (a[1] = b[1] /\ a[2] < b[2]))
      BY <1>1, SlotFacts DEF Before, UpTo
    <3>2. a[1] < k \/ (a[1] = k /\ a[2] <= e)
      BY <3>1
    <3> QED
      BY <3>2 DEF UpTo
  <2> HIDE DEF U
  <2>2. Rank(d, b) \in Nat /\ Rank(d, b) < SliceMax + Cardinality(U)
    BY <1>1, <1>3, <2>1, RankGrows
  <2> QED
    BY <1>2, <2>2, Sizes
<1> QED
  BY <1>1, <1>2, <1>3

\* The next slot of a record has the next number.
LEMMA NextSlot ==
  ASSUME RealTables, NEW d \in Readings, NEW k \in Nat, NEW e \in Nat, NEW i \in 1..SliceMax, e < i,
         <<k, i>> \in LogicalSlots(d),
         \A j \in 1..SliceMax : e < j /\ j < i => <<k, j>> \notin LogicalSlots(d)
  PROVE  /\ Rank(d, <<k, i>>) = SliceMax + Cardinality(UpTo(d, k, e))
         /\ Cardinality(UpTo(d, k, i)) = Cardinality(UpTo(d, k, e)) + 1
<1> DEFINE a == <<k, i>>
           U == UpTo(d, k, e)
<1>1. i \in Nat
  BY Sizes
<1>2. ASSUME NEW b \in LogicalSlots(d)
      PROVE  /\ Before(b, a) <=> b \in U
             /\ b \in UpTo(d, k, i) <=> b \in U \/ b = a
  <2>1. b = <<b[1], b[2]>> /\ b[1] \in Nat /\ b[2] \in 1..SliceMax /\ b[2] \in Nat
    BY SlotFacts
  <2>2. b[1] = k => ~(e < b[2] /\ b[2] < i)
    BY <2>1
  <2>3. b \in U <=> b[1] < k \/ (b[1] = k /\ b[2] <= e)
    BY DEF UpTo
  <2>4. b \in UpTo(d, k, i) <=> b[1] < k \/ (b[1] = k /\ b[2] <= i)
    BY DEF UpTo
  <2>5. Before(b, a) <=> b[1] < k \/ (b[1] = k /\ b[2] < i)
    BY DEF Before
  <2>6. b = a <=> b[1] = k /\ b[2] = i
    BY <2>1
  <2> QED
    BY <1>1, <2>1, <2>2, <2>3, <2>4, <2>5, <2>6
<1>3. U \in SUBSET LogicalSlots(d) /\ UpTo(d, k, i) \in SUBSET LogicalSlots(d) /\ a \in LogicalSlots(d)
  BY DEF UpTo
<1>4. a \notin U
  BY <1>1 DEF UpTo
<1> HIDE DEF U, a
<1>5. {b \in LogicalSlots(d) : Before(b, a)} = U /\ UpTo(d, k, i) = U \cup {a}
  BY <1>2, <1>3
<1>6. Cardinality(U \cup {a}) = Cardinality(U) + 1
  BY <1>3, <1>4, SomeSlots
<1> QED
  BY <1>5, <1>6 DEF Rank, U, a

\* Behind the last slot of a record the next one is in a later record.
LEMMA NextRecordSlots ==
  ASSUME RealTables, NEW d \in Readings, NEW k \in Nat, NEW e \in Nat,
         \A j \in 1..SliceMax : e < j => <<k, j>> \notin LogicalSlots(d)
  PROVE  UpTo(d, k + 1, 0) = UpTo(d, k, e)
<1>1. ASSUME NEW b \in LogicalSlots(d)
      PROVE  b[1] < k + 1 \/ (b[1] = k + 1 /\ b[2] <= 0) <=> b[1] < k \/ (b[1] = k /\ b[2] <= e)
  <2>1. b = <<b[1], b[2]>> /\ b[1] \in Nat /\ b[2] \in 1..SliceMax /\ b[2] \in Nat /\ b[2] # 0
    BY SlotFacts
  <2>2. b[1] = k => ~(e < b[2])
    BY <2>1
  <2> QED
    BY <2>1, <2>2
<1> QED
  BY <1>1 DEF UpTo

LEMMA NothingFirst ==
  ASSUME RealTables, NEW d \in Readings
  PROVE  UpTo(d, 1, 0) = {} /\ Cardinality(UpTo(d, 1, 0)) = 0
<1>1. \A b \in LogicalSlots(d) : b[1] \in Nat \ {0} /\ b[2] \in Nat \ {0}
  BY SlotFacts, Sizes
<1>2. UpTo(d, 1, 0) = {}
  BY <1>1 DEF UpTo
<1> QED
  BY <1>2, FS_EmptySet

\* What is left of a record are its slots.
LEMMA Remaining ==
  ASSUME RealTables, NEW d, MbrDisk(d), NEW x \in Cursor, x.part # None,
         NEW k \in Records(d), Stands(d, x, k)
  PROVE  /\ x.offset \in DOMAIN d.table /\ ~BadRecord(d, x.ext, x.offset)
         /\ k = 0 => /\ x.offset = 0
                     /\ \A i \in 1..SliceMax : i \in Remain(d, x) <=> i > x.entry
         /\ k # 0 => /\ Logical(x) /\ x.offset # 0
                     /\ \A i \in 1..SliceMax :
                          i \in Remain(d, x) <=> i > x.entry /\ <<k, i>> \in LogicalSlots(d)
<1> DEFINE o == x.offset
           t == d.table[x.offset]
<1>1. /\ d \in Readings /\ Chain(d)[k] = o /\ o # -1 /\ o \in Nat /\ o < Limit /\ k \in Nat
      /\ x.entry \in Nat /\ x.entry <= SliceMax /\ x.part \in Nat
  BY RecordFacts, Sizes DEF MbrDisk, Stands, Cursor
<1>2. o \in DOMAIN d.table /\ ~BadRecord(d, Base(d), o)
  BY <1>1, ChainFacts
<1>3. \A i \in 1..SliceMax : t[i].start \in Nat /\ t[i].start < Limit
  BY <1>1, <1>2, TableFacts, ReadingFacts DEF Real
<1>4. CASE k = 0
  <2>1. o = 0 /\ x.entry \in 1..SliceMax /\ x.part = x.entry - 1
    BY <1>1, <1>2, <1>4, ChainSteps DEF Stands
  <2>2. ~BadRecord(d, x.ext, o)
    BY <1>2, <2>1 DEF BadRecord
  <2>3. Logical(x) => x.entry = SliceMax
    BY <1>1, <2>1, Sizes DEF Logical
  <2>4. ASSUME NEW i \in 1..SliceMax, i > x.entry PROVE ~Passed(x, t[i])
    <3>1. ~Logical(x)
      BY <1>1, <2>3, <2>4, Sizes
    <3>2. ~(o + t[i].start >= Limit)
      BY <1>3, <2>1, Sizes
    <3> QED
      BY <3>1, <3>2 DEF Passed
  <2> QED
    BY <1>2, <1>4, <2>1, <2>2, <2>4 DEF Remain
<1>5. CASE k # 0
  <2>1. /\ x.ext = Base(d) /\ x.part = SliceMax - 1 + Cardinality(UpTo(d, k, x.entry))
        /\ Cardinality(UpTo(d, k, x.entry)) \in Nat
    BY <1>1, <1>5, UpToFacts DEF Stands
  <2>2. Logical(x)
    BY <1>1, <2>1, Sizes DEF Logical
  <2>3. o # 0
    BY <1>1, <1>5, ChainShort DEF MbrDisk
  <2>4. ASSUME NEW i \in 1..SliceMax PROVE ~Passed(x, t[i]) <=> <<k, i>> \in LogicalSlots(d)
    <3>1. ~(o + t[i].start >= Limit) <=> o + t[i].start < Limit
      BY <1>1, <1>3, Sizes
    <3>2. ~Passed(x, t[i]) <=> Holds(d, o, i)
      BY <2>2, <3>1 DEF Passed, Holds
    <3>3. <<k, i>> \in LogicalSlots(d) <=> Holds(d, o, i)
      BY <1>1, <1>5 DEF LogicalSlots
    <3> QED
      BY <3>2, <3>3
  <2> QED
    BY <1>2, <1>5, <2>1, <2>2, <2>3, <2>4 DEF Remain
<1> QED
  BY <1>4, <1>5

\* Nothing is left, and the chain ends here: no slice has a higher number.
LEMMA NoMore ==
  ASSUME RealTables, NEW d, MbrDisk(d), NEW x \in Cursor, x.part # None,
         NEW k \in Records(d), Stands(d, x, k), Remain(d, x) = {},
         k + 1 \in Records(d) => Chain(d)[k + 1] = -1
  PROVE  NoneAfter(d, x.part)
<1>1. /\ d \in Readings /\ d.gpt = <<>> /\ Chain(d)[k] # -1 /\ k \in Nat /\ x.part \in Nat
      /\ x.entry \in Nat /\ x.entry <= SliceMax
  BY RecordFacts, Sizes DEF MbrDisk, Stands, Cursor
<1>2. 0 \in DOMAIN d.table
  BY <1>1, ChainFacts
<1>3. k + 1 \in Records(d) /\ Chain(d)[k + 1] = -1
  BY <1>1, ChainShort DEF MbrDisk
<1>4. \A b \in LogicalSlots(d) : b[1] <= k
  <2> TAKE b \in LogicalSlots(d)
  <2>1. b[1] \in Records(d) /\ b[1] \in Nat /\ Chain(d)[b[1]] # -1
    BY <1>1, SlotFacts
  <2>2. ~(k + 1 <= b[1])
    BY <1>1, <1>3, <2>1, ChainEnds
  <2> QED
    BY <1>1, <2>1, <2>2
<1>5. x.part >= SliceMax - 1 /\ \A b \in LogicalSlots(d) : Rank(d, b) <= x.part
  <2>1. CASE k = 0
    <3>1. LogicalSlots(d) = {}
      BY <1>1, <1>4, <2>1, SlotFacts
    <3>2. x.entry \in 1..SliceMax /\ x.part = x.entry - 1
      BY <2>1 DEF Stands
    <3>3. ~(SliceMax > x.entry)
      BY <2>1, Remaining, Sizes
    <3> QED
      BY <3>1, <3>2, <3>3, Sizes
  <2>2. CASE k # 0
    <3>1. x.part = SliceMax - 1 + Cardinality(UpTo(d, k, x.entry))
      BY <2>2 DEF Stands
    <3>2. ASSUME NEW b \in LogicalSlots(d) PROVE b \in UpTo(d, k, x.entry)
      <4>1. b = <<b[1], b[2]>> /\ b[1] \in Nat /\ b[2] \in 1..SliceMax /\ b[2] \in Nat
        BY <1>1, SlotFacts
      <4>2. b[1] = k => ~(b[2] > x.entry)
        BY <2>2, <4>1, Remaining
      <4>3. b[1] < k \/ (b[1] = k /\ b[2] <= x.entry)
        BY <1>1, <1>4, <4>1, <4>2
      <4> QED
        BY <4>3 DEF UpTo
    <3>3. Cardinality(UpTo(d, k, x.entry)) \in Nat
          /\ \A b \in UpTo(d, k, x.entry) :
               Rank(d, b) \in Nat /\ Rank(d, b) <= SliceMax - 1 + Cardinality(UpTo(d, k, x.entry))
      BY <1>1, UpToFacts
    <3> QED
      BY <3>1, <3>2, <3>3, Sizes
  <2> QED
    BY <2>1, <2>2
<1>6. \A i \in 1..SliceMax : PrimaryAt(d, i).part <= x.part
  BY <1>1, <1>5, Sizes DEF PrimaryAt
<1>7. \A b \in LogicalSlots(d) : LogicalAt(d, b).part <= x.part
  BY <1>5 DEF LogicalAt
<1> QED
  BY <1>1, <1>2, <1>6, <1>7, MbrSlices DEF NoneAfter

FreshAt(x) == x.part = None /\ x.offset = 0 /\ x.ext = 0 /\ x.entry = 0

\* The entry reported is the slice of the next number.
LEMMA TurnReports ==
  ASSUME RealTables, NEW d, MbrDisk(d), NEW x \in Cursor, x.offset \in DOMAIN d.table,
         FreshAt(x) \/ (x.part # None /\ \E k \in Records(d) : Stands(d, x, k)),
         x.part # Last, Remain(d, x) # {}
  PROVE  LET i == First(Remain(d, x))
             y == Slice(x, d.table[x.offset][i], i)
         IN /\ y.part = (IF x.part = None THEN 0 ELSE x.part + 1) /\ y.sub = None /\ y.part # None
            /\ \E s \in Slices(d) : InSlice(d, s, y)
            /\ \E k \in Records(d) : Stands(d, y, k)
<1> DEFINE t == d.table[x.offset]
           i == First(Remain(d, x))
           e == t[i]
           y == Slice(x, e, i)
           n == IF x.part = None THEN 0 ELSE x.part + 1
<1>1. i \in Remain(d, x) /\ \A j \in Remain(d, x) : i <= j
  <2>1. Remain(d, x) \in SUBSET Nat
    BY Sizes DEF Remain
  <2> QED
    BY <2>1, Least DEF First
<1> HIDE DEF i
<1>2. i \in 1..SliceMax /\ i \in Nat /\ i > x.entry /\ ~Passed(x, e)
  BY <1>1, Sizes DEF Remain
<1>3. /\ d \in Readings /\ d.gpt = <<>> /\ x.offset \in Nat /\ x.entry \in Nat
      /\ x.part \in 0..None /\ x.part \in Nat
  BY Sizes DEF MbrDisk, Cursor
<1>4. e \in Entry
  BY <1>2, <1>3, TableFacts
<1> HIDE DEF e
<1>5. /\ y.part = n /\ y.sub = None /\ y.entry = i /\ y.offset = x.offset /\ y.ext = x.ext
      /\ y.type = (IF ~Logical(x) /\ ~e.ok THEN "none" ELSE e.type)
      /\ y.start = (IF ~Logical(x) /\ ~e.ok THEN 0 ELSE x.offset + e.start)
      /\ y.len = (IF ~Logical(x) /\ ~e.ok THEN 0 ELSE e.len)
  <2> DEFINE z == [x EXCEPT !.part = n, !.sub = None, !.entry = i]
  <2>1. DOMAIN x = {"part", "sub", "type", "start", "len", "offset", "entry", "ext"}
    BY DEF Cursor
  <2>2. y = IF ~Logical(x) /\ ~e.ok THEN [z EXCEPT !.type = "none", !.start = 0, !.len = 0]
            ELSE [z EXCEPT !.type = e.type, !.start = x.offset + e.start, !.len = e.len]
    BY DEF Slice
  <2>3. /\ DOMAIN z = DOMAIN x /\ z.part = n /\ z.sub = None /\ z.entry = i
        /\ z.offset = x.offset /\ z.ext = x.ext
    BY <2>1
  <2> HIDE DEF z, n
  <2>4. CASE ~Logical(x) /\ ~e.ok
    BY <2>1, <2>2, <2>3, <2>4
  <2>5. CASE ~(~Logical(x) /\ ~e.ok)
    BY <2>1, <2>2, <2>3, <2>5
  <2> QED
    BY <2>4, <2>5
<1>6. n # None
  BY <1>3, Sizes
<1> HIDE DEF y
\* In the primary table, entry by entry.
<1>7. ASSUME x.offset = 0, x.ext = 0, ~Logical(x), n = i - 1
      PROVE  (\E s \in Slices(d) : InSlice(d, s, y)) /\ Stands(d, y, 0) /\ 0 \in Records(d)
  <2> DEFINE s == PrimaryAt(d, i)
  <2>1. s \in Slices(d)
    BY <1>2, <1>3, <1>7, MbrSlices
  <2>2. /\ s.part = i - 1
        /\ s.type = (IF e.ok THEN e.type ELSE "none")
        /\ s.start = (IF e.ok THEN e.start ELSE 0)
        /\ s.len = (IF e.ok THEN e.len ELSE 0)
    <3>1. e = d.table[0][i]
      BY <1>7 DEF e
    <3> QED
      BY <3>1 DEF PrimaryAt, Null
  <2>3. 0 + e.start = e.start
    BY <1>4 DEF Entry
  <2> HIDE DEF s
  <2>4. InSlice(d, s, y)
    BY <1>5, <1>7, <2>2, <2>3 DEF InSlice
  <2>5. Chain(d)[0] = 0 /\ 0 \in Records(d)
    BY <1>3, <1>7, ChainSteps, RecordFacts
  <2>6. Stands(d, y, 0)
    BY <1>2, <1>5, <1>7, <2>5 DEF Stands
  <2> QED
    BY <2>1, <2>4, <2>5, <2>6
<1>8. CASE FreshAt(x)
  <2>1. ~Logical(x) /\ x.offset = 0 /\ x.ext = 0 /\ x.entry = 0 /\ n = 0
    BY <1>8 DEF FreshAt, Logical
  <2>2. 1 \in Remain(d, x)
    <3>1. 1 \in 1..SliceMax /\ d.table[0][1].start \in Nat /\ d.table[0][1].start < Limit
      BY <1>3, <2>1, TableFacts, ReadingFacts, Sizes DEF Real
    <3>2. ~(0 + d.table[0][1].start >= Limit)
      BY <3>1, Sizes
    <3> QED
      BY <2>1, <3>1, <3>2 DEF Remain, Passed
  <2>3. i = 1
    BY <1>1, <1>2, <2>2
  <2>4. n = i - 1
    BY <2>1, <2>3
  <2> QED
    BY <1>5, <1>6, <1>7, <2>1, <2>4 DEF y, i, e
<1>9. ASSUME x.part # None, NEW k \in Records(d), Stands(d, x, k)
      PROVE  (\E s \in Slices(d) : InSlice(d, s, y)) /\ \E m \in Records(d) : Stands(d, y, m)
  <2>1. n = x.part + 1 /\ k \in Nat
    BY <1>9, RecordFacts, <1>3
  <2>2. CASE k = 0
    <3>1. x.offset = 0 /\ x.ext = 0 /\ x.entry \in 1..SliceMax /\ x.part = x.entry - 1
          /\ \A j \in 1..SliceMax : j \in Remain(d, x) <=> j > x.entry
      BY <1>9, <2>2, Remaining DEF Stands
    <3>2. ~Logical(x)
      BY <1>2, <1>3, <3>1, Sizes DEF Logical
    <3>3. i = x.entry + 1
      <4>1. x.entry + 1 \in 1..SliceMax /\ x.entry + 1 > x.entry
        BY <1>2, <1>3, Sizes, SMTT(30)
      <4>2. i <= x.entry + 1
        BY <1>1, <3>1, <4>1
      <4> QED
        BY <1>2, <1>3, <4>2
    <3>4. n = i - 1
      BY <1>3, <2>1, <3>1, <3>3
    <3> QED
      BY <1>7, <3>1, <3>2, <3>4
  <2>3. CASE k # 0
    <3> DEFINE a == <<k, i>>
               s == LogicalAt(d, a)
    <3>1. /\ Logical(x) /\ x.offset # 0 /\ a \in LogicalSlots(d)
          /\ \A j \in 1..SliceMax : x.entry < j /\ j < i => <<k, j>> \notin LogicalSlots(d)
      <4>1. Logical(x) /\ x.offset # 0
            /\ \A j \in 1..SliceMax : j \in Remain(d, x) <=> j > x.entry /\ <<k, j>> \in LogicalSlots(d)
        BY <1>9, <2>3, Remaining
      <4>2. \A j \in 1..SliceMax : j < i => j \notin Remain(d, x)
        BY <1>1, <1>2, Sizes
      <4>3. \A j \in 1..SliceMax : x.entry < j <=> j > x.entry
        BY <1>3, Sizes
      <4> QED
        BY <1>1, <1>2, <4>1, <4>2, <4>3
    <3>2. /\ x.ext = Base(d) /\ x.ext # 0 /\ Chain(d)[k] = x.offset
          /\ x.part = SliceMax - 1 + Cardinality(UpTo(d, k, x.entry))
      BY <1>9, <2>3 DEF Stands
    <3>3. Cardinality(UpTo(d, k, x.entry)) \in Nat
      BY <1>3, <2>1, UpToFacts
    <3>4. /\ Rank(d, a) = SliceMax + Cardinality(UpTo(d, k, x.entry))
          /\ Cardinality(UpTo(d, k, i)) = Cardinality(UpTo(d, k, x.entry)) + 1
      <4>1. x.entry < i
        BY <1>2, <1>3
      <4> QED
        BY <1>2, <1>3, <2>1, <3>1, <4>1, NextSlot
    <3>5. n = Rank(d, a) /\ n = SliceMax - 1 + Cardinality(UpTo(d, k, i))
      BY <2>1, <3>2, <3>3, <3>4, Sizes
    <3>6. s \in Slices(d)
      <4>1. 0 \in DOMAIN d.table
        BY <1>3, <1>9, ChainFacts, <3>2, x.offset # -1
      <4> QED
        BY <1>3, <3>1, <4>1, MbrSlices
    <3>7. s.part = Rank(d, a) /\ s.type = e.type /\ s.start = x.offset + e.start /\ s.len = e.len
      BY <3>2 DEF LogicalAt, e
    <3> HIDE DEF s, a
    <3>8. InSlice(d, s, y)
      BY <1>5, <3>1, <3>5, <3>7 DEF InSlice
    <3>9. Stands(d, y, k)
      BY <1>5, <2>3, <3>2, <3>5, <1>9 DEF Stands
    <3> QED
      BY <3>6, <3>8, <3>9, <1>9
  <2> QED
    BY <2>2, <2>3
<1> QED
  BY <1>5, <1>6, <1>8, <1>9 DEF y, i, e

\* A link leads to the next record of the chain, or behind its end.
LEMMA TurnFollows ==
  ASSUME RealTables, NEW d, MbrDisk(d), NEW x \in Cursor, x.part # None,
         NEW k \in Records(d), Stands(d, x, k), Remain(d, x) = {},
         Links(x, d.table[x.offset]) # {}
  PROVE  LET t == d.table[x.offset]
             y == Follow(x, t[First(Links(x, t))])
         IN (\E m \in Records(d) : Stands(d, y, m)) \/ Lost(d, y)
<1> DEFINE t == d.table[x.offset]
           L == Links(x, t)
           e == t[First(L)]
           y == Follow(x, e)
           o == x.ext + e.start
<1>1. /\ d \in Readings /\ d.gpt = <<>> /\ Chain(d)[k] = x.offset /\ x.offset \in Nat
      /\ x.offset # -1 /\ k \in Nat /\ x.entry \in Nat /\ x.ext \in Nat /\ x.part \in Nat
  BY RecordFacts, Sizes DEF MbrDisk, Stands, Cursor
<1>2. First(L) \in 1..SliceMax /\ o < Limit
  <2>1. L \in SUBSET Nat /\ L # {} /\ \A i \in L : i \in 1..SliceMax /\ x.ext + t[i].start < Limit
    BY Sizes DEF Links
  <2> HIDE DEF L
  <2>2. First(L) \in L
    BY <2>1, LeastChosen DEF First
  <2> QED
    BY <2>1, <2>2
<1>3. x.offset \in DOMAIN d.table
  BY Remaining
<1>4. e \in Entry /\ e.start \in Nat
  BY <1>1, <1>2, <1>3, TableFacts
<1>5. y.offset = o /\ y.entry = 0 /\ y.ext = (IF x.ext = 0 THEN e.start ELSE x.ext) /\ y.part = x.part
  <2> HIDE DEF e
  <2>1. y = [x EXCEPT !.offset = o, !.entry = 0, !.ext = IF x.ext = 0 THEN e.start ELSE x.ext]
    BY DEF Follow
  <2>2. DOMAIN x = {"part", "sub", "type", "start", "len", "offset", "entry", "ext"}
    BY DEF Cursor
  <2> QED
    BY <2>1, <2>2
\* Both in the primary table and in an extended one, the link is the chain's.
<1>6. /\ L = ExtFrom(d, IF x.offset = 0 THEN 0 ELSE Base(d), x.offset)
      /\ x.ext = (IF x.offset = 0 THEN 0 ELSE Base(d))
      /\ y.ext = Base(d)
      /\ k = 0 <=> x.offset = 0
  <2>1. CASE k = 0
    <3>1. x.offset = 0 /\ x.ext = 0
      BY <2>1, Remaining DEF Stands
    <3>2. L = ExtFrom(d, 0, 0)
      BY <3>1 DEF Links, ExtFrom
    <3>3. Base(d) = e.start
      BY <3>1, <3>2 DEF Base
    <3> QED
      BY <1>5, <2>1, <3>1, <3>2, <3>3
  <2>2. CASE k # 0
    <3>1. x.offset # 0 /\ x.ext = Base(d) /\ x.ext # 0
      BY <2>2, Remaining DEF Stands
    <3>2. L = ExtFrom(d, Base(d), x.offset)
      BY <3>1 DEF Links, ExtFrom
    <3> QED
      BY <1>5, <2>2, <3>1, <3>2
  <2> QED
    BY <2>1, <2>2
<1>7. NextRecord(d, x.offset) =
        IF o = 0 THEN 0
        ELSE IF o \notin DOMAIN d.table THEN -1
        ELSE IF d.table[o] = d.table[0] THEN -1
        ELSE IF \E i \in 1..SliceMax :
                  d.table[o][i].type = "ext" /\ Base(d) + d.table[o][i].start = o THEN -1
        ELSE o
  <2> DEFINE b == IF x.offset = 0 THEN 0 ELSE Base(d)
             S == ExtFrom(d, b, x.offset)
             p == b + d.table[x.offset][First(S)].start
  <2>1. S = L /\ S # {} /\ p = o
    BY <1>6
  <2>2. NextRecord(d, x.offset) =
          IF S = {} THEN -1
          ELSE IF p = 0 THEN 0
          ELSE IF p \notin DOMAIN d.table THEN -1
          ELSE IF d.table[p] = d.table[0] THEN -1
          ELSE IF \E i \in 1..SliceMax :
                    d.table[p][i].type = "ext" /\ Base(d) + d.table[p][i].start = p THEN -1
          ELSE p
    BY Zenon DEF NextRecord
  <2> HIDE DEF S, p, b, L, e, o
  <2> QED
    BY <2>1, <2>2
<1>8. k + 1 \in Records(d) /\ Chain(d)[k + 1] = NextRecord(d, x.offset)
  <2>1. k + 1 \in Records(d) /\ k + 1 # 0 /\ k + 1 - 1 = k
    BY <1>1, ChainShort DEF MbrDisk
  <2> QED
    BY <1>1, <2>1, ChainSteps
<1>11. o \in Nat
  BY <1>1, <1>4, SMTT(30)
<1> HIDE DEF L, e, y, o
<1>9. CASE Chain(d)[k + 1] = -1
  <2>1. BadRecord(d, Base(d), o)
    BY <1>7, <1>8, <1>9, <1>11 DEF BadRecord
  <2>2. NoneAfter(d, x.part)
    BY <1>9, NoMore
  <2> QED
    BY <1>5, <1>6, <2>1, <2>2 DEF Lost, y, e, L
<1>10. CASE Chain(d)[k + 1] # -1
  <2>1. Chain(d)[k + 1] # 0
    BY <1>1, <1>8, <1>10, ChainShort DEF MbrDisk
  <2>2. Chain(d)[k + 1] = o /\ o # 0
    BY <1>7, <1>8, <1>10, <2>1
  <2>3. y.ext # 0
    <3>1. CASE k = 0
      <4>1. x.ext = 0 /\ y.ext = e.start
        BY <1>5, <3>1 DEF Stands
      <4> QED
        BY <1>4, <2>2, <4>1 DEF o
    <3>2. CASE k # 0
      BY <1>5, <3>2 DEF Stands
    <3> QED
      BY <3>1, <3>2
  <2>4. x.part = SliceMax - 1 + Cardinality(UpTo(d, k + 1, 0))
    <3>1. CASE k = 0
      <4>1. x.entry \in 1..SliceMax /\ x.part = x.entry - 1 /\ ~(SliceMax > x.entry)
        BY <3>1, Remaining, Sizes DEF Stands
      <4>2. Cardinality(UpTo(d, 1, 0)) = 0
        BY <1>1, NothingFirst
      <4> QED
        BY <3>1, <4>1, <4>2, Sizes
    <3>2. CASE k # 0
      <4>1. \A j \in 1..SliceMax : x.entry < j => <<k, j>> \notin LogicalSlots(d)
        <5>1. \A j \in 1..SliceMax : ~(j > x.entry /\ <<k, j>> \in LogicalSlots(d))
          BY <3>2, Remaining
        <5> QED
          BY <5>1, <1>1, Sizes
      <4>2. UpTo(d, k + 1, 0) = UpTo(d, k, x.entry)
        BY <1>1, <4>1, NextRecordSlots
      <4> QED
        BY <3>2, <4>2 DEF Stands
    <3> QED
      BY <3>1, <3>2
  <2>5. Stands(d, y, k + 1)
    <3>1. k + 1 # 0
      BY <1>1
    <3> QED
      BY <1>5, <1>6, <1>8, <2>2, <2>3, <2>4, <3>1 DEF Stands
  <2> QED
    BY <1>8, <2>5 DEF y, e, L
<1> QED
  BY <1>9, <1>10

\* No link: the chain ends here.
LEMMA TurnEnds ==
  ASSUME RealTables, NEW d, MbrDisk(d), NEW x \in Cursor, x.part # None,
         NEW k \in Records(d), Stands(d, x, k), Remain(d, x) = {},
         Links(x, d.table[x.offset]) = {}
  PROVE  NoneAfter(d, x.part)
<1> DEFINE t == d.table[x.offset]
<1>1. d \in Readings /\ Chain(d)[k] = x.offset /\ k \in Nat
  BY RecordFacts DEF MbrDisk, Stands
<1>2. ExtFrom(d, IF x.offset = 0 THEN 0 ELSE Base(d), x.offset) = {}
  <2>1. CASE k = 0
    <3>1. x.offset = 0 /\ x.ext = 0
      BY <2>1, Remaining DEF Stands
    <3> QED
      BY <3>1 DEF Links, ExtFrom
  <2>2. CASE k # 0
    <3>1. x.offset # 0 /\ x.ext = Base(d)
      BY <2>2, Remaining DEF Stands
    <3> QED
      BY <3>1 DEF Links, ExtFrom
  <2> QED
    BY <2>1, <2>2
<1>3. NextRecord(d, x.offset) = -1
  BY <1>2, Zenon DEF NextRecord
<1>4. k + 1 \in Records(d) => Chain(d)[k + 1] = -1
  <2>1. k + 1 # 0 /\ k + 1 - 1 = k
    BY <1>1
  <2> QED
    BY <1>1, <1>3, <2>1, ChainSteps
<1> QED
  BY <1>4, NoMore

-----------------------------------------------------------------------------
(* The partitions of a drive, slice by slice *)

\* p is slice s, or a BSD partition in it.
PartOf(d, s, p) ==
  /\ p.part = s.part /\ p.sub \in Nat
  /\ \/ p = [part |-> s.part, sub |-> None, type |-> s.type, start |-> s.start, len |-> s.len]
     \/ /\ s.type = "bsd" /\ p.type = "bsd" /\ p.sub # None /\ p.sub <= Last
        /\ LET t == SliceLabel(d, s)  i == p.sub + 1
           IN i \in DOMAIN t /\ t[i].type # "none" /\ p.start = t[i].start /\ p.len = t[i].len

LEMMA SliceLabelFacts ==
  ASSUME RealTables, NEW d \in Readings, NEW s
  PROVE  LET t == SliceLabel(d, s)
         IN /\ t \in Seq(SubEntry) /\ Len(t) \in Nat /\ Len(t) <= None /\ DOMAIN t = 1..Len(t)
            /\ \A i \in DOMAIN t : i \in Nat \ {0} /\ i - 1 \in 0..Last /\ i - 1 # None
                                   /\ t[i] \in SubEntry
            /\ s.type # "bsd" => DOMAIN t = {}
<1> DEFINE t == SliceLabel(d, s)
<1>1. \A o \in DOMAIN d.label : d.label[o] \in Seq(SubEntry) /\ Len(d.label[o]) <= None
  BY ReadingFacts DEF IsDisk, SubEntry, Real
<1>2. <<>> \in Seq(SubEntry) /\ Len(<<>>) <= None /\ DOMAIN <<>> = {}
  BY Sizes
<1>3. t \in Seq(SubEntry) /\ Len(t) <= None
  BY <1>1, <1>2 DEF SliceLabel
<1>4. s.type # "bsd" => DOMAIN t = {}
  BY <1>2 DEF SliceLabel
<1> HIDE DEF t
<1>5. Len(t) \in Nat /\ DOMAIN t = 1..Len(t) /\ \A i \in DOMAIN t : t[i] \in SubEntry
  BY <1>3
<1>6. \A i \in DOMAIN t : i \in Nat \ {0} /\ i - 1 \in 0..Last /\ i - 1 # None
  BY <1>3, <1>5, Sizes
<1> QED
  BY <1>3, <1>4, <1>5, <1>6 DEF t

LEMMA BsdLen ==
  ASSUME RealTables, NEW d \in Readings, NEW s \in Slices(d)
  PROVE  s.len \in Nat
<1>1. CASE d.gpt # <<>>
  <2>1. PICK i \in DOMAIN d.gpt : s = GptAt(d, i)
    BY <1>1, GptSlices
  <2>2. d.gpt[i] \in GptEntry
    BY <1>1, GptSlices
  <2> QED
    BY <2>1, <2>2 DEF GptAt, GptEntry
<1>2. CASE d.gpt = <<>>
  <2>1. 0 \in DOMAIN d.table
    BY <1>2, MbrSlices
  <2>2. ASSUME NEW i \in 1..SliceMax, s = PrimaryAt(d, i) PROVE s.len \in Nat
    <3>1. d.table[0][i].len \in Nat
      BY <2>1, TableFacts
    <3> QED
      BY <2>2, <3>1 DEF PrimaryAt, Null
  <2>3. ASSUME NEW a \in LogicalSlots(d), s = LogicalAt(d, a) PROVE s.len \in Nat
    <3>1. Chain(d)[a[1]] \in DOMAIN d.table /\ a[2] \in 1..SliceMax
      BY SlotFacts, ChainFacts
    <3>2. d.table[Chain(d)[a[1]]][a[2]].len \in Nat
      BY <3>1, TableFacts
    <3> QED
      BY <2>3, <3>2 DEF LogicalAt
  <2> QED
    BY <1>2, <2>1, <2>2, <2>3, MbrSlices
<1> QED
  BY <1>1, <1>2

LEMMA PartsAre ==
  ASSUME RealTables, NEW d \in Readings \ Cyclic
  PROVE  /\ \A p \in Partitions[d] : \E s \in Slices(d) : s.part <= Last /\ PartOf(d, s, p)
         /\ \A s \in Slices(d) : s.part <= Last =>
              /\ [part |-> s.part, sub |-> None, type |-> s.type, start |-> s.start,
                  len |-> s.len] \in Partitions[d]
              /\ LET t == SliceLabel(d, s)
                 IN \A i \in DOMAIN t : t[i].type # "none" =>
                      [part |-> s.part, sub |-> i - 1, type |-> "bsd", start |-> t[i].start,
                       len |-> t[i].len] \in Partitions[d]
<1> DEFINE whole(s) == [part |-> s.part, sub |-> None, type |-> s.type, start |-> s.start,
                        len |-> s.len]
           subs(s) == {[part |-> s.part, sub |-> i - 1, type |-> "bsd",
                        start |-> SliceLabel(d, s)[i].start, len |-> SliceLabel(d, s)[i].len] :
                         i \in {i \in DOMAIN SliceLabel(d, s) : SliceLabel(d, s)[i].type # "none"}}
<1>1. Partitions[d] = UNION {{whole(s)} \cup SubsOf(d, s) : s \in {s \in Slices(d) : s.part <= Last}}
  BY DEF Partitions
<1>2. ASSUME NEW s \in Slices(d) PROVE SubsOf(d, s) = subs(s)
  <2>1. CASE s.type # "bsd" \/ s.len < 2 \/ s.start + 1 \notin DOMAIN d.label
    <3>1. SubsOf(d, s) = {}
      BY <2>1 DEF SubsOf
    <3>2. SliceLabel(d, s) = <<>>
      <4>1. CASE s.len < 2 /\ s.type = "bsd"
        <5>1. s.len \in Nat
          BY <4>1, BsdLen
        <5> QED
          BY <4>1, <5>1 DEF SliceLabel
      <4> QED
        BY <2>1, <4>1 DEF SliceLabel
    <3>3. DOMAIN SliceLabel(d, s) = {}
      <4>1. DOMAIN <<>> = {}
        OBVIOUS
      <4> QED
        BY <3>2, <4>1
    <3> QED
      BY <3>1, <3>3
  <2>2. CASE ~(s.type # "bsd" \/ s.len < 2 \/ s.start + 1 \notin DOMAIN d.label)
    <3>1. SliceLabel(d, s) = d.label[s.start + 1]
      <4>1. s.len \in Nat
        BY <2>2, BsdLen
      <4> QED
        BY <2>2, <4>1 DEF SliceLabel
    <3>2. SubsOf(d, s) = LET t == d.label[s.start + 1]
                         IN {[part |-> s.part, sub |-> i - 1, type |-> "bsd", start |-> t[i].start,
                              len |-> t[i].len] : i \in {i \in DOMAIN t : t[i].type # "none"}}
      BY <2>2, Zenon DEF SubsOf
    <3> QED
      BY <3>1, <3>2
  <2> QED
    BY <2>1, <2>2
<1>3. ASSUME NEW p \in Partitions[d]
      PROVE  \E s \in Slices(d) : s.part <= Last /\ PartOf(d, s, p)
  <2>1. PICK s \in Slices(d) : s.part <= Last /\ (p = whole(s) \/ p \in subs(s))
    BY <1>1, <1>2, Zenon
  <2>2. None \in Nat
    BY Sizes
  <2>3. CASE p = whole(s)
    BY <2>1, <2>2, <2>3 DEF PartOf
  <2>4. CASE p \in subs(s)
    <3> DEFINE t == SliceLabel(d, s)
    <3>1. PICK i \in DOMAIN t :
            /\ t[i].type # "none"
            /\ p = [part |-> s.part, sub |-> i - 1, type |-> "bsd", start |-> t[i].start,
                    len |-> t[i].len]
      BY <2>4, Zenon
    <3>2. i \in Nat \ {0} /\ i - 1 \in 0..Last /\ i - 1 # None /\ s.type = "bsd"
      BY SliceLabelFacts
    <3>3. p.part = s.part /\ p.sub = i - 1 /\ p.type = "bsd" /\ p.start = t[i].start /\ p.len = t[i].len
      BY <3>1
    <3> HIDE DEF t
    <3>4. p.sub + 1 = i /\ p.sub \in Nat /\ p.sub <= Last
      BY <3>2, <3>3, Sizes
    <3> QED
      BY <2>1, <3>1, <3>2, <3>3, <3>4 DEF PartOf, t
  <2> QED
    BY <2>1, <2>3, <2>4
<1>4. ASSUME NEW s \in Slices(d), s.part <= Last
      PROVE  /\ whole(s) \in Partitions[d]
             /\ \A i \in DOMAIN SliceLabel(d, s) : SliceLabel(d, s)[i].type # "none" =>
                  [part |-> s.part, sub |-> i - 1, type |-> "bsd", start |-> SliceLabel(d, s)[i].start,
                   len |-> SliceLabel(d, s)[i].len] \in subs(s)
             /\ subs(s) \subseteq Partitions[d]
  <2>1. {whole(s)} \cup subs(s) \subseteq Partitions[d]
    BY <1>1, <1>2, <1>4, Zenon
  <2>2. \A i \in DOMAIN SliceLabel(d, s) : SliceLabel(d, s)[i].type # "none" =>
          [part |-> s.part, sub |-> i - 1, type |-> "bsd", start |-> SliceLabel(d, s)[i].start,
           len |-> SliceLabel(d, s)[i].len] \in subs(s)
    OBVIOUS
  <2> QED
    BY <2>1, <2>2, Zenon
<1> QED
  BY <1>3, <1>4

-----------------------------------------------------------------------------
(* One step of next_partition *)

\* The entries of a GPT that a walk to q leaves out: the reserved ones, or those
\* before the one it goes to.
Skips(d, p, q) ==
  d.gpt # <<>> /\ IF q = Whole THEN Reserved(d, p) ELSE p.part < q.part

\* A step from a sound cursor reports a partition of the drive and passes none,
\* turns to the next slice, or ends behind the last partition or behind the
\* partitions of the slice it was to look in.
ReportsNext(c, d) ==
  \E y \in Cursor :
    /\ Reports(c, y) /\ y.part # None
    /\ Place(d, y, "got") /\ Known(d, y, gpt', gpt_max', primary') /\ Labelled(d, y, mbr')
    /\ pc[c] = "call" => y.part = w[c].part
    /\ dest[c] = Whole => ~Reserved(d, y)
    /\ \A p \in Partitions[d] :
         /\ Past(p, w[c], pc[c]) => Past(p, y, "got")
         /\ Past(p, y, "got") => Past(p, w[c], pc[c]) \/ Skips(d, p, dest[c])
LooksIn(x, q) == x.part # None /\ x.type = "bsd" /\ q.sub # None /\ q.part \in {None, x.part}
TurnsOn(c, d) ==
  \E y \in Cursor :
    /\ Turns(c, y) /\ y.part = w[c].part
    /\ Place(d, y, "slice") /\ Known(d, y, gpt', gpt_max', primary')
    /\ pc[c] = "call" => ~LooksIn(w[c], dest[c])
    /\ \A p \in Partitions[d] : Past(p, w[c], pc[c]) <=> Past(p, y, "slice")
EndsWalk(c, d) ==
  /\ Fails(c)
  /\ \/ /\ pc[c] = "slice"
        /\ \A p \in Partitions[d] : Past(p, w[c], "slice") \/ Skips(d, p, dest[c])
     \/ /\ pc[c] = "call" /\ LooksIn(w[c], dest[c])
        /\ \A p \in Partitions[d] : p.part = w[c].part => Past(p, w[c], "call")
StepsOn(c, d) == ReportsNext(c, d) \/ TurnsOn(c, d) \/ EndsWalk(c, d)

\* The walk goes over d, its drive or what it takes that for.
OnDisk(c, d) ==
  /\ Typed /\ c \in Walks /\ d \in {Disk(c), AsMbr(Disk(c))} /\ d \in Readings \ Cyclic
  /\ dest[c] = Whole \/ dest[c].part \in 0..None
  /\ Sound(d, w[c], pc[c])

LEMMA OnDiskFacts ==
  ASSUME NEW c, NEW d, OnDisk(c, d)
  PROVE  /\ d.table = Disk(c).table /\ d.label = Disk(c).label
         /\ d.gpt # <<>> => d = Disk(c)
BY DEF OnDisk, AsMbr

LEMMA CursorParts ==
  ASSUME Typed, NEW c \in Walks
  PROVE  /\ w[c] \in Cursor /\ w[c].part \in Nat /\ w[c].part <= None /\ w[c].sub \in Nat
         /\ None \in Nat /\ (w[c].part # None => w[c].part <= Last)
<1>1. w[c] \in Cursor
  BY CursorFacts
<1> QED
  BY <1>1, Sizes DEF Cursor

\* Where the cursor is in a BSD slice, its label is what is looked at.
LEMMA LabelRight ==
  ASSUME RealTables, NEW c, NEW d, OnDisk(c, d), pc[c] = "call", InBsd(c),
         NEW s \in Slices(d), InSlice(d, s, w[c])
  PROVE  Label(c) = SliceLabel(d, s)
<1>1. s.type = "bsd" /\ s.part = w[c].part
  BY DEF InBsd, InSlice
<1>2. CASE w[c].sub # None
  BY <1>1, <1>2 DEF OnDisk, Sound, Labelled, Label
<1>3. CASE w[c].sub = None
  <2>1. s.start = w[c].start /\ s.len = w[c].len
    BY <1>3 DEF InSlice
  <2> QED
    BY <1>1, <1>3, <2>1, OnDiskFacts DEF Label, SliceLabel, Disk
<1> QED
  BY <1>2, <1>3

\* The partitions of the slice it is in are those of its label.
LEMMA SamePart ==
  ASSUME RealTables, NEW d \in Readings \ Cyclic, NEW x, NEW s \in Slices(d), s.part = x.part,
         NEW p \in Partitions[d]
  PROVE  /\ p.part \in Nat /\ p.part <= Last /\ p.sub \in Nat
         /\ p.part = x.part => PartOf(d, s, p)
<1>1. PICK t \in Slices(d) : t.part <= Last /\ PartOf(d, t, p)
  BY PartsAre
<1>2. p.part = t.part /\ p.sub \in Nat /\ t.part \in Nat
  BY <1>1, SliceTypes DEF PartOf
<1>3. p.part = x.part => t = s
  BY <1>2, OneOfANumber
<1> QED
  BY <1>1, <1>2, <1>3

\* A BSD partition is behind slice and label: its place in the table stays.
LEMMA SamePlace ==
  ASSUME NEW d, NEW x, NEW y, NEW s \in Slices(d), InSlice(d, s, y), x.part # None,
         y.part = x.part, y.offset = x.offset, y.ext = x.ext, y.entry = x.entry,
         Place(d, x, "call")
  PROVE  Place(d, y, "got") /\ Place(d, x, "slice")
<1>1. \A k : Stands(d, x, k) <=> Stands(d, y, k)
  BY DEF Stands
<1>2. Place(d, y, "got")
  BY <1>1 DEF Place
<1>3. Place(d, x, "slice")
  BY DEF Place
<1> QED
  BY <1>2, <1>3

LEMMA BsdPartitionStep ==
  ASSUME RealTables, NEW c, NEW d, OnDisk(c, d), BsdPartition(c)
  PROVE  ReportsNext(c, d)
<1> DEFINE x == w[c]
           i == CHOOSE i \in SubsLeft(c) : \A j \in SubsLeft(c) : i <= j
           y == SubCursor(c, i)
           t == Label(c)
<1>1. /\ Typed /\ c \in Walks /\ d \in Readings /\ pc[c] = "call" /\ InBsd(c) /\ SubsLeft(c) # {}
      /\ Reports(c, y) /\ mbr' = Label(c) /\ gpt' = gpt /\ gpt_max' = gpt_max /\ primary' = primary
      /\ Place(d, x, "call") /\ Known(d, x, gpt, gpt_max, primary)
  BY DEF BsdPartition, OnDisk, SubCursor, Sound
<1>2. x \in Cursor /\ x.part # None /\ x.type = "bsd" /\ x.part \in Nat /\ x.sub \in Nat
  BY <1>1, CursorParts DEF InBsd
<1>3. PICK s \in Slices(d) : InSlice(d, s, x)
  BY <1>1, <1>2 DEF Place
<1>4. t = SliceLabel(d, s) /\ s.part = x.part /\ s.type = "bsd"
  BY <1>1, <1>2, <1>3, LabelRight DEF InSlice
<1>5. /\ \A j \in DOMAIN t : j \in Nat \ {0} /\ j - 1 # None /\ j - 1 \in Nat /\ t[j] \in SubEntry
  BY <1>1, <1>4, SliceLabelFacts, Sizes
<1>6. i \in SubsLeft(c) /\ \A j \in SubsLeft(c) : i <= j
  <2>1. SubsLeft(c) \in SUBSET Nat
    BY <1>5 DEF SubsLeft
  <2> QED
    BY <1>1, <2>1, Least
<1>7. i \in DOMAIN t /\ t[i].type # "none" /\ (x.sub # None => i > x.sub + 1)
  BY <1>6 DEF SubsLeft
<1> HIDE DEF i
<1>8. /\ y \in Cursor /\ y.part = x.part /\ y.sub = i - 1 /\ y.type = x.type
      /\ y.start = t[i].start /\ y.len = t[i].len
      /\ y.offset = x.offset /\ y.ext = x.ext /\ y.entry = x.entry
  <2>1. y \in Cursor /\ y.start = t[i].start /\ y.len = t[i].len
    BY <1>1, <1>5, <1>7, SubCursorFacts
  <2>2. DOMAIN x = {"part", "sub", "type", "start", "len", "offset", "entry", "ext"}
    BY <1>2 DEF Cursor
  <2>3. y = [x EXCEPT !.sub = i - 1, !.start = t[i].start, !.len = t[i].len]
    BY DEF SubCursor
  <2> QED
    BY <2>1, <2>2, <2>3
<1> HIDE DEF y
<1>9. InSlice(d, s, y)
  <2>1. y.sub # None /\ y.sub + 1 = i
    BY <1>5, <1>7, <1>8
  <2> HIDE DEF t
  <2>2. SubAt(d, s, y)
    BY <1>4, <1>7, <1>8, <2>1 DEF SubAt
  <2> QED
    BY <1>2, <1>4, <1>8, <2>1, <2>2 DEF InSlice
<1>10. Place(d, y, "got")
  BY <1>1, <1>2, <1>8, <1>9, SamePlace
<1>11. Known(d, y, gpt', gpt_max', primary') /\ Labelled(d, y, mbr')
  <2>1. \A s2 \in Slices(d) : s2.part = y.part => s2 = s
    BY <1>1, <1>4, <1>8, OneOfANumber
  <2> QED
    BY <1>1, <1>2, <1>4, <1>8, <2>1 DEF Known, Labelled
<1>12. ASSUME NEW p \in Partitions[d]
       PROVE  /\ Past(p, x, "call") => Past(p, y, "got")
              /\ Past(p, y, "got") => Past(p, x, "call")
  <2>1. p.part \in Nat /\ p.sub \in Nat /\ (p.part = x.part => PartOf(d, s, p))
    BY <1>4, SamePart DEF OnDisk
  <2>2. y.sub # None /\ y.sub = i - 1 /\ i \in Nat
    BY <1>5, <1>7, <1>8
  <2>3. ASSUME p.part = x.part, p.sub # None
        PROVE  p.sub + 1 \in DOMAIN t /\ t[p.sub + 1].type # "none"
    <3>1. PartOf(d, s, p)
      BY <2>1, <2>3
    <3> HIDE DEF t
    <3> QED
      BY <1>4, <2>3, <3>1 DEF PartOf
  <2>4. ASSUME p.part = x.part, p.sub # None, p.sub < y.sub
        PROVE  x.sub # None /\ p.sub <= x.sub
    <3>1. p.sub + 1 \notin SubsLeft(c)
      BY <1>6, <2>1, <2>2, <2>4
    <3>2. x.sub # None /\ ~(p.sub + 1 > x.sub + 1)
      BY <2>3, <2>4, <3>1 DEF SubsLeft
    <3> QED
      BY <1>2, <2>1, <3>2
  <2>5. ASSUME x.sub # None, p.sub <= x.sub PROVE p.sub < y.sub
    BY <1>2, <1>7, <2>1, <2>2, <2>5
  <2> QED
    BY <1>2, <1>8, <2>1, <2>2, <2>4, <2>5 DEF Past
<1>13. ~Reserved(d, y)
  BY <1>1, <1>4, SliceTypes DEF Reserved
<1> QED
  BY <1>1, <1>2, <1>8, <1>10, <1>11, <1>12, <1>13 DEF ReportsNext, y

LEMMA BsdOverStep ==
  ASSUME RealTables, NEW c, NEW d, OnDisk(c, d), BsdOver(c)
  PROVE  TurnsOn(c, d) \/ EndsWalk(c, d)
<1> DEFINE x == w[c]
           q == dest[c]
           t == Label(c)
<1>1. /\ Typed /\ c \in Walks /\ d \in Readings /\ pc[c] = "call" /\ InBsd(c) /\ SubsLeft(c) = {}
      /\ IF q.sub # None /\ q.part \in {None, x.part} THEN Fails(c) ELSE Turns(c, x)
      /\ gpt' = gpt /\ gpt_max' = gpt_max /\ primary' = primary
      /\ Place(d, x, "call") /\ Known(d, x, gpt, gpt_max, primary)
  BY DEF BsdOver, BsdError, OnDisk, Sound
<1>2. x \in Cursor /\ x.part # None /\ x.type = "bsd" /\ x.part \in Nat /\ x.sub \in Nat
  BY <1>1, CursorParts DEF InBsd
<1>3. PICK s \in Slices(d) : InSlice(d, s, x)
  BY <1>1, <1>2 DEF Place
<1>4. t = SliceLabel(d, s) /\ s.part = x.part /\ s.type = "bsd"
  BY <1>1, <1>2, <1>3, LabelRight DEF InSlice
<1>5. ASSUME NEW p \in Partitions[d]
      PROVE  /\ p.part = x.part => Past(p, x, "call")
             /\ Past(p, x, "call") <=> Past(p, x, "slice")
  <2>1. p.part \in Nat /\ p.sub \in Nat /\ (p.part = x.part => PartOf(d, s, p))
    BY <1>4, SamePart DEF OnDisk
  <2>2. ASSUME p.part = x.part, p.sub # None
        PROVE  x.sub # None /\ p.sub <= x.sub
    <3>1. p.sub + 1 \in DOMAIN t /\ t[p.sub + 1].type # "none"
      <4>1. PartOf(d, s, p)
        BY <2>1, <2>2
      <4> HIDE DEF t
      <4> QED
        BY <1>4, <2>2, <4>1 DEF PartOf
    <3>2. x.sub # None /\ ~(p.sub + 1 > x.sub + 1)
      BY <1>1, <3>1 DEF SubsLeft
    <3> QED
      BY <1>2, <2>1, <3>2
  <2> QED
    BY <1>2, <2>1, <2>2 DEF Past
<1>6. Place(d, x, "slice")
  BY <1>1, <1>2, <1>3, SamePlace DEF Place
<1>7. CASE q.sub # None /\ q.part \in {None, x.part}
  BY <1>1, <1>2, <1>5, <1>7 DEF EndsWalk, LooksIn
<1>8. CASE ~(q.sub # None /\ q.part \in {None, x.part})
  <2>1. Turns(c, x) /\ ~LooksIn(x, q) /\ Known(d, x, gpt', gpt_max', primary')
    BY <1>1, <1>8 DEF LooksIn
  <2> QED
    BY <1>1, <1>2, <1>5, <1>6, <2>1 DEF TurnsOn
<1> QED
  BY <1>7, <1>8

LEMMA NotBsdStep ==
  ASSUME RealTables, NEW c, NEW d, OnDisk(c, d), NotBsd(c)
  PROVE  TurnsOn(c, d)
<1> DEFINE x == w[c]
<1>1. /\ Typed /\ c \in Walks /\ d \in Readings /\ pc[c] = "call" /\ Turns(c, x)
      /\ x.part = None \/ x.type # "bsd"
      /\ gpt' = gpt /\ gpt_max' = gpt_max /\ primary' = primary
      /\ Place(d, x, "call") /\ Known(d, x, gpt, gpt_max, primary)
  BY DEF NotBsd, OnDisk, Sound, tables, InBsd
<1>2. x \in Cursor
  BY <1>1, CursorParts
<1>3. Place(d, x, "slice")
  BY <1>1 DEF Place
<1>4. ASSUME NEW p \in Partitions[d] PROVE Past(p, x, "call") <=> Past(p, x, "slice")
  <2>1. CASE x.part = None
    BY <2>1 DEF Past
  <2>2. CASE x.part # None
    <3>1. PICK s \in Slices(d) : InSlice(d, s, x)
      BY <1>1, <2>2 DEF Place
    <3>2. s.part = x.part /\ s.type # "bsd"
      BY <1>1, <2>2, <3>1 DEF InSlice
    <3>3. p.part = x.part => p.sub = None
      <4>1. p.part = x.part => PartOf(d, s, p)
        BY <3>2, SamePart DEF OnDisk
      <4> QED
        BY <3>2, <4>1 DEF PartOf
    <3> QED
      BY <3>3 DEF Past
  <2> QED
    BY <2>1, <2>2
<1> QED
  BY <1>1, <1>2, <1>3, <1>4 DEF TurnsOn, LooksIn

LEMMA TooManyStep ==
  ASSUME RealTables, NEW c, NEW d, OnDisk(c, d), TooMany(c)
  PROVE  EndsWalk(c, d)
<1>1. Fails(c) /\ pc[c] = "slice" /\ w[c].part = Last /\ Last # None
  BY Sizes DEF TooMany
<1>2. \A p \in Partitions[d] : Past(p, w[c], "slice")
  <2> TAKE p \in Partitions[d]
  <2>1. PICK s \in Slices(d) : s.part <= Last /\ PartOf(d, s, p)
    BY PartsAre DEF OnDisk
  <2>2. p.part = s.part /\ s.part \in Nat
    BY <2>1, SliceTypes DEF PartOf, OnDisk
  <2>3. p.part < Last \/ p.part = Last
    BY <2>1, <2>2, Sizes
  <2> QED
    BY <1>1, <2>3 DEF Past
<1> QED
  BY <1>1, <1>2 DEF EndsWalk

\* Among the entries behind k, the walk goes to the first in use.
LEMMA GptStep ==
  ASSUME RealTables, NEW c, NEW d, OnDisk(c, d), d.gpt # <<>>, pc[c] = "slice",
         NEW k \in Int, NextGpt(c, k, Len(d.gpt)),
         gpt' = TRUE, gpt_max' = Len(d.gpt),
         \A p \in Partitions[d] :
           /\ Past(p, w[c], "slice") => p.part <= k
           /\ p.part <= k => Past(p, w[c], "slice") \/ Skips(d, p, dest[c])
  PROVE  ReportsNext(c, d) \/ EndsWalk(c, d)
<1> DEFINE x == w[c]
           g == d.gpt
           L == GptLeft(c, k, Len(g))
           i == CHOOSE i \in L : \A j \in L : i <= j
           y == GptCursor(c, i)
<1>1. /\ Typed /\ c \in Walks /\ d \in Readings /\ d = disk[drive[c]]
  BY OnDiskFacts DEF OnDisk, Disk
<1>2. /\ DOMAIN g = 1..Len(g) /\ Len(g) \in Nat /\ Len(g) <= None
      /\ \A n \in DOMAIN g : g[n] \in GptEntry
      /\ Slices(d) = {GptAt(d, n) : n \in {n \in DOMAIN g : g[n].start # 0}}
  BY <1>1, GptSlices
\* Its partitions are the entries in use.
<1>3. ASSUME NEW p \in Partitions[d]
      PROVE  /\ p.part \in Nat /\ p.sub = None /\ p.part + 1 \in 1..Len(g) /\ g[p.part + 1].start # 0
             /\ p.part + 1 \in L \/ p.part <= k \/ Skips(d, p, dest[c])
  <2>1. PICK s \in Slices(d) : PartOf(d, s, p)
    BY <1>1, PartsAre DEF OnDisk
  <2>2. PICK n \in DOMAIN g : g[n].start # 0 /\ s = GptAt(d, n)
    BY <1>2
  <2>3. p.part = n - 1 /\ p.sub = None
    BY <2>1, <2>2 DEF GptAt, PartOf
  <2>4. p.part \in Nat /\ p.part + 1 = n /\ n \in 1..Len(g)
    BY <1>2, <2>2, <2>3
  <2>5. p.part + 1 \in L \/ p.part <= k \/ (g[n].reserved /\ dest[c] = Whole)
    <3>1. n > k + 1 \/ p.part <= k
      BY <2>4
    <3>2. n <= Len(g)
      BY <1>2, <2>2
    <3> QED
      BY <1>1, <2>2, <2>4, <3>1, <3>2 DEF GptLeft
  <2>6. g[n].reserved /\ dest[c] = Whole => Skips(d, p, dest[c])
    BY <2>4 DEF Skips, Reserved
  <2> QED
    BY <2>2, <2>3, <2>4, <2>5, <2>6
<1>4. CASE L = {}
  <2>1. Fails(c)
    BY <1>4 DEF NextGpt
  <2>2. \A p \in Partitions[d] : Past(p, x, "slice") \/ Skips(d, p, dest[c])
    BY <1>3, <1>4
  <2> QED
    BY <2>1, <2>2 DEF EndsWalk
<1>5. CASE L # {}
  <2>1. Reports(c, y)
    BY <1>5 DEF NextGpt, GptCursor
  <2>2. i \in L /\ \A j \in L : i <= j
    <3>1. L \in SUBSET Nat
      BY <1>1, <1>2 DEF GptLeft
    <3> HIDE DEF L
    <3> QED
      BY <1>5, <3>1, Least
  <2> HIDE DEF i
  <2>3. i \in DOMAIN g /\ i \in 1..Len(g) /\ i \in Nat /\ i > k + 1 /\ g[i].start # 0 /\ g[i] \in GptEntry
    BY <1>1, <1>2, <2>2 DEF GptLeft
  <2>4. /\ y \in Cursor /\ y.part = i - 1 /\ y.sub = None /\ y.type = "data"
        /\ y.start = g[i].start /\ y.len = g[i].len /\ y.entry = Array
    <3> DEFINE z == Start(c)
    <3>1. z \in Cursor /\ None \in Nat /\ i - 1 \in 0..None /\ Array \in 0..SliceMax
      BY <1>1, <1>2, <2>3, StartFacts, Sizes, ArrayFacts
    <3>2. DOMAIN z = {"part", "sub", "type", "start", "len", "offset", "entry", "ext"}
      BY <3>1 DEF Cursor
    <3>3. y = [z EXCEPT !.part = i - 1, !.sub = None, !.type = "data",
                        !.start = g[i].start, !.len = g[i].len, !.entry = Array]
      BY <1>1 DEF GptCursor
    <3> HIDE DEF g, y, z
    <3>4. y \in Cursor
      BY <2>3, <3>1, <3>3 DEF Cursor, GptEntry, Types
    <3> QED
      BY <3>2, <3>3, <3>4
  <2> HIDE DEF y
  <2>5. y.part # None /\ y.part \in Nat
    BY <1>2, <2>3, <2>4, Sizes
  <2>6. Place(d, y, "got")
    <3>1. GptAt(d, i) \in Slices(d)
      BY <1>2, <2>3
    <3>2. InSlice(d, GptAt(d, i), y)
      BY <2>4 DEF InSlice, GptAt
    <3> QED
      BY <2>5, <3>1, <3>2 DEF Place
  <2>7. Known(d, y, gpt', gpt_max', primary') /\ Labelled(d, y, mbr')
    BY <2>4 DEF Known, Labelled
  <2>8. ASSUME NEW p \in Partitions[d]
        PROVE  /\ Past(p, x, "slice") => Past(p, y, "got")
               /\ Past(p, y, "got") => Past(p, x, "slice") \/ Skips(d, p, dest[c])
    <3>1. p.part \in Nat
      BY <1>3
    <3>2. p.part <= k => p.part < y.part
      BY <2>3, <2>4, <3>1
    <3>3. Past(p, y, "got") => p.part < y.part
      BY <2>4 DEF Past
    <3>4. p.part < y.part => p.part + 1 \notin L
      BY <2>2, <2>3, <2>4, <3>1
    <3> QED
      BY <1>3, <2>5, <3>2, <3>3, <3>4 DEF Past
  <2>9. dest[c] = Whole => ~Reserved(d, y)
    <3>1. dest[c] = Whole => ~g[i].reserved
      BY <1>1, <2>2 DEF GptLeft
    <3>2. y.part + 1 = i
      BY <2>3, <2>4
    <3> QED
      BY <3>1, <3>2 DEF Reserved
  <2> QED
    BY <2>1, <2>4, <2>5, <2>6, <2>7, <2>8, <2>9 DEF ReportsNext, y
<1> QED
  BY <1>4, <1>5

LEMMA GptAgainStep ==
  ASSUME RealTables, NEW c, NEW d, OnDisk(c, d), GptAgain(c)
  PROVE  ReportsNext(c, d) \/ EndsWalk(c, d)
<1> DEFINE x == w[c]
<1>1. /\ Typed /\ c \in Walks /\ pc[c] = "slice" /\ x.part # None /\ gpt
      /\ NextGpt(c, x.part, gpt_max) /\ gpt' = gpt /\ gpt_max' = gpt_max
      /\ Known(d, x, gpt, gpt_max, primary) /\ gpt \in BOOLEAN
  BY DEF GptAgain, Again, OnDisk, Sound, Typed
<1>2. d.gpt # <<>> /\ gpt_max = Len(d.gpt) /\ x.part \in Int /\ x.part \in Nat
  <2>1. gpt = (d.gpt # <<>>) /\ (gpt => gpt_max = Len(d.gpt))
    BY <1>1 DEF Known
  <2>2. d.gpt # <<>> /\ gpt_max = Len(d.gpt)
    BY <1>1, <2>1
  <2>3. x.part \in Nat /\ x.part \in Int
    BY <1>1, CursorParts
  <2> QED
    BY <2>2, <2>3
<1>3. gpt' = TRUE
  BY <1>1
<1>4. \A p \in Partitions[d] : p.part \in Nat
  BY PartsAre, SliceTypes DEF PartOf, OnDisk
<1>5. \A p \in Partitions[d] : Past(p, x, "slice") <=> p.part <= x.part
  BY <1>1, <1>2, <1>4 DEF Past
<1> QED
  BY <1>1, <1>2, <1>3, <1>5, GptStep

\* A sound cursor does not go astray.
LEMMA NotAstray ==
  ASSUME NEW c, NEW d, OnDisk(c, d)
  PROVE  ~GptAstray(c)
<1> SUFFICES ASSUME GptAstray(c) PROVE FALSE
  OBVIOUS
<1>1. c \in Walks /\ gpt /\ w[c].part # None /\ ~AtArray(c)
  BY GptAstrayFacts DEF OnDisk
<1>2. d.gpt # <<>> /\ gpt_max = Len(d.gpt) /\ w[c].entry = Array
  BY <1>1 DEF OnDisk, Sound, Known
<1> QED
  BY <1>1, <1>2, OnDiskFacts DEF AtArray, Disk

LEMMA GptFirstStep ==
  ASSUME RealTables, NEW c, NEW d, OnDisk(c, d), GptFirst(c), d.gpt # <<>>
  PROVE  ReportsNext(c, d) \/ EndsWalk(c, d)
<1> DEFINE x == w[c]
           q == dest[c]
           k == FirstGpt(c)
<1>0. d = disk[drive[c]]
  BY OnDiskFacts DEF Disk
<1>1. /\ Typed /\ c \in Walks /\ pc[c] = "slice" /\ x.part = None /\ d.gpt # <<>>
      /\ gpt' = TRUE /\ gpt_max' = Len(d.gpt) /\ NextGpt(c, k, Len(d.gpt))
  BY <1>0 DEF GptFirst, OnDisk
<1>2. k \in Int
  BY Sizes DEF OnDisk, FirstGpt
<1>3. ASSUME NEW p \in Partitions[d]
      PROVE  ~Past(p, x, "slice") /\ (p.part <= k => Skips(d, p, q))
  <2>1. p.part \in Nat
    BY PartsAre, SliceTypes DEF PartOf, OnDisk
  <2>2. ~Past(p, x, "slice")
    BY <1>1 DEF Past
  <2>3. ASSUME p.part <= k PROVE Skips(d, p, q)
    <3>1. q # Whole
      BY <2>1, <2>3 DEF FirstGpt
    <3>2. q.part \in Nat
      BY <3>1, Sizes DEF OnDisk
    <3> QED
      BY <1>1, <2>1, <2>3, <3>1, <3>2 DEF Skips, FirstGpt
  <2> QED
    BY <2>2, <2>3
<1> HIDE DEF k
<1> QED
  BY <1>1, <1>2, <1>3, GptStep

LEMMA OverTableStep ==
  ASSUME RealTables, NEW c, NEW d, OnDisk(c, d), d.gpt = <<>>,
         pc[c] = "slice", w[c].part # Last, OverTable(c)
  PROVE  StepsOn(c, d)
<1> DEFINE x == Start(c)
           v == drive[c]
           first == IF x.offset = 0 /\ HasTable(v, 0) THEN TableAt(v, 0) ELSE primary
           t == d.table[x.offset]
           i == First(Remain(d, x))
           y == Slice(x, t[i], i)
           j == First(Links(x, t))
           z == Follow(x, t[j])
<1>1. /\ Typed /\ c \in Walks /\ d \in Readings /\ d \in Readings \ Cyclic
      /\ d.table = disk[v].table /\ pc[c] = "slice" /\ w[c].part # Last
      /\ Place(d, w[c], "slice") /\ Known(d, w[c], gpt, gpt_max, primary) /\ gpt \in BOOLEAN
  BY OnDiskFacts DEF OnDisk, Disk, Sound, Typed
<1>2. /\ x \in Cursor /\ x.part = w[c].part /\ x.part # Last
      /\ w[c].part # None => x = w[c]
      /\ w[c].part = None => FreshAt(x)
  <2>1. x \in Cursor /\ x.part = w[c].part
    BY <1>1, StartFacts
  <2>2. w[c].part # None => x = w[c]
    BY DEF Start
  <2>3. w[c].part = None => FreshAt(x)
    <3>1. w[c] \in Cursor
      BY <1>1, CursorFacts
    <3> QED
      BY <3>1 DEF Start, FreshAt, Cursor
  <2> QED
    BY <1>1, <2>1, <2>2, <2>3
<1>3. d.gpt = <<>> /\ MbrDisk(d) /\ gpt' = FALSE
  BY <1>1 DEF OverTable, MbrDisk
<1>4. primary' = first /\ (x.offset = 0 \/ w[c].part # None)
  BY <1>2 DEF OverTable, FreshAt
<1>5. 0 \in DOMAIN d.table => first = d.table[0]
  <2>1. CASE x.offset = 0
    BY <1>1, <2>1 DEF HasTable, TableAt
  <2>2. CASE x.offset # 0
    <3>1. w[c].part # None
      BY <1>4, <2>2
    <3>2. primary = d.table[0]
      BY <1>1, <1>3, <3>1 DEF Known
    <3> QED
      BY <2>2, <3>2
  <2> QED
    BY <2>1, <2>2
<1>6. w[c].part # None => 0 \in DOMAIN d.table
  BY <1>1, <1>3 DEF Known
<1>7. BadTable(v, x.ext, x.offset, first) <=> BadRecord(d, x.ext, x.offset)
  <2>1. x.offset # 0 => first = d.table[0]
    BY <1>4, <1>5, <1>6
  <2> QED
    BY <1>1, <2>1 DEF BadTable, BadRecord, HasTable, TableAt
<1>8. /\ BadTable(v, x.ext, x.offset, first) => Fails(c)
      /\ ~BadTable(v, x.ext, x.offset, first) =>
           IF Remain(d, x) # {} THEN Reports(c, y)
           ELSE IF Links(x, t) # {} THEN Turns(c, z) ELSE Fails(c)
  <2> DEFINE tt == TableAt(v, x.offset)
             left == {n \in 1..SliceMax : n > x.entry /\ ~Passed(x, tt[n])}
  <2>1. tt = t /\ left = Remain(d, x)
    BY <1>1 DEF TableAt, Remain
  <2>2. /\ BadTable(v, x.ext, x.offset, first) => Fails(c)
        /\ ~BadTable(v, x.ext, x.offset, first) =>
             IF left # {} THEN Reports(c, Slice(x, tt[First(left)], First(left)))
             ELSE IF Links(x, tt) # {} THEN Turns(c, Follow(x, tt[First(Links(x, tt))]))
             ELSE Fails(c)
    BY DEF OverTable, First
  <2> HIDE DEF tt, left, x, first, t
  <2> QED
    BY <2>1, <2>2
<1> HIDE DEF x, first, v, y, z
<1>9. ASSUME NEW u \in Cursor, u.part # None, ~BadRecord(d, x.ext, x.offset)
      PROVE  Known(d, u, gpt', gpt_max', primary')
  <2>1. 0 \in DOMAIN d.table
    <3>1. CASE w[c].part = None
      BY <1>2, <1>9, <3>1 DEF BadRecord, FreshAt
    <3> QED
      BY <1>6, <3>1
  <2> QED
    BY <1>3, <1>4, <1>5, <2>1 DEF Known
<1>10. \A p \in Partitions[d] : p.part \in Nat /\ p.part <= Last /\ p.sub \in Nat
         /\ \E s \in Slices(d) : p.part = s.part
  BY <1>1, PartsAre, SliceTypes DEF PartOf
\* Behind the last slice.
<1>11. ASSUME w[c].part # None, NoneAfter(d, w[c].part), Fails(c) PROVE EndsWalk(c, d)
  <2>1. w[c].part \in Nat
    BY <1>1, CursorParts
  <2>2. \A p \in Partitions[d] : p.part < w[c].part \/ p.part = w[c].part
    BY <1>10, <1>11, <2>1 DEF NoneAfter
  <2>3. \A p \in Partitions[d] : Past(p, w[c], "slice")
    BY <1>11, <2>2 DEF Past
  <2> QED
    BY <1>1, <1>11, <2>3 DEF EndsWalk
<1>12. CASE BadRecord(d, x.ext, x.offset)
  <2>1. Fails(c)
    BY <1>7, <1>8, <1>12
  <2>2. CASE w[c].part = None
    <3>1. 0 \notin DOMAIN d.table
      BY <1>2, <1>12, <2>2 DEF BadRecord, FreshAt
    <3>2. Slices(d) = {}
      BY <1>1, <1>3, <3>1, MbrSlices
    <3> QED
      BY <1>1, <1>10, <2>1, <3>2 DEF EndsWalk, StepsOn
  <2>3. CASE w[c].part # None
    <3>1. x = w[c] /\ x \in Cursor
      BY <1>2, <2>3
    <3>2. ~ \E k \in Records(d) : Stands(d, x, k)
      BY <1>3, <1>12, <2>3, <3>1, Remaining
    <3>3. Lost(d, x)
      BY <1>1, <1>3, <2>3, <3>1, <3>2 DEF Place
    <3> QED
      BY <1>11, <2>1, <2>3, <3>1, <3>3 DEF Lost, StepsOn
  <2> QED
    BY <2>2, <2>3
<1>13. CASE ~BadRecord(d, x.ext, x.offset)
  <2>1. x.offset \in DOMAIN d.table
    BY <1>13 DEF BadRecord
  <2>2. FreshAt(x) \/ (x.part # None /\ \E k \in Records(d) : Stands(d, x, k))
    <3>1. CASE w[c].part = None
      BY <1>2, <3>1
    <3>2. CASE w[c].part # None
      <4>1. x = w[c]
        BY <1>2, <3>2
      <4>2. ~Lost(d, x)
        BY <1>13 DEF Lost
      <4> QED
        BY <1>1, <1>3, <3>2, <4>1, <4>2 DEF Place
    <3> QED
      BY <3>1, <3>2
  <2>3. CASE Remain(d, x) # {}
    <3>1. Reports(c, y)
      BY <1>7, <1>8, <1>13, <2>3
    <3>2. /\ y.part = (IF x.part = None THEN 0 ELSE x.part + 1) /\ y.sub = None /\ y.part # None
          /\ \E s \in Slices(d) : InSlice(d, s, y)
          /\ \E k \in Records(d) : Stands(d, y, k)
      BY <1>2, <1>3, <2>1, <2>2, <2>3, TurnReports DEF y
    <3>3. y \in Cursor
      <4>1. i \in 1..SliceMax /\ ~Passed(x, t[i])
        <5>1. Remain(d, x) \in SUBSET Nat
          BY Sizes DEF Remain
        <5>2. i \in Remain(d, x)
          BY <2>3, <5>1, LeastChosen DEF First
        <5> HIDE DEF i
        <5> QED
          BY <5>2 DEF Remain
      <4> HIDE DEF i
      <4>2. t[i] \in Entry
        BY <1>1, <2>1, <4>1, TableFacts
      <4> QED
        BY <1>2, <4>1, <4>2, SliceFacts DEF y, i
    <3>4. Place(d, y, "got")
      BY <3>2 DEF Place
    <3>5. Known(d, y, gpt', gpt_max', primary') /\ Labelled(d, y, mbr')
      BY <1>9, <1>13, <3>2, <3>3 DEF Labelled
    <3>6. ASSUME NEW p \in Partitions[d]
          PROVE  Past(p, w[c], "slice") <=> Past(p, y, "got")
      <4>1. w[c].part \in Nat
        BY <1>1, CursorParts
      <4>2. Past(p, y, "got") <=> p.part < y.part
        BY <3>2 DEF Past
      <4>3. CASE w[c].part = None
        BY <1>2, <1>10, <3>2, <4>2, <4>3 DEF Past
      <4>4. CASE w[c].part # None
        BY <1>2, <1>10, <3>2, <4>1, <4>2, <4>4 DEF Past
      <4> QED
        BY <4>3, <4>4
    <3>7. ~Reserved(d, y)
      BY <1>3 DEF Reserved
    <3> QED
      BY <1>1, <3>1, <3>2, <3>3, <3>4, <3>5, <3>6, <3>7 DEF StepsOn, ReportsNext
  <2>4. ASSUME Remain(d, x) = {} PROVE w[c].part # None /\ x = w[c]
    <3>1. ~FreshAt(x)
      <4>1. ASSUME FreshAt(x) PROVE 1 \in Remain(d, x)
        <5>1. x.offset = 0 /\ x.entry = 0 /\ ~Logical(x)
          BY <4>1 DEF FreshAt, Logical
        <5>2. 1 \in 1..SliceMax /\ d.table[0][1].start \in Nat /\ d.table[0][1].start < Limit
          BY <1>1, <2>1, <5>1, TableFacts, ReadingFacts, Sizes DEF Real
        <5>3. ~(0 + d.table[0][1].start >= Limit)
          BY <5>2, Sizes
        <5> QED
          BY <5>1, <5>2, <5>3 DEF Remain, Passed
      <4> QED
        BY <2>4, <4>1
    <3> QED
      BY <1>2, <3>1
  <2>5. CASE Remain(d, x) = {} /\ Links(x, t) # {}
    <3>1. Turns(c, z) /\ w[c].part # None /\ x = w[c]
      BY <1>7, <1>8, <1>13, <2>4, <2>5
    <3>2. PICK k \in Records(d) : Stands(d, x, k)
      BY <1>2, <2>2, <3>1 DEF FreshAt
    <3>3. (\E m \in Records(d) : Stands(d, z, m)) \/ Lost(d, z)
      BY <1>2, <1>3, <2>5, <3>1, <3>2, TurnFollows DEF z
    <3>4. j \in 1..SliceMax /\ x.ext + t[j].start < Limit
      <4> DEFINE S == Links(x, t)
      <4>1. S \in SUBSET Nat /\ S # {} /\ \A n \in S : n \in 1..SliceMax /\ x.ext + t[n].start < Limit
        BY <2>5, Sizes DEF Links
      <4> HIDE DEF S
      <4>2. First(S) \in S
        BY <4>1, LeastChosen DEF First
      <4> QED
        BY <4>1, <4>2 DEF S
    <3> HIDE DEF j
    <3>5. t[j] \in Entry
      BY <1>1, <2>1, <3>4, TableFacts
    <3>6. /\ z \in Cursor /\ z.part = x.part /\ z.sub = x.sub /\ z.type = x.type
          /\ z.start = x.start /\ z.len = x.len
      <4>1. z \in Cursor
        BY <1>2, <3>4, <3>5, FollowFacts DEF z
      <4>2. DOMAIN x = {"part", "sub", "type", "start", "len", "offset", "entry", "ext"}
        BY <1>2 DEF Cursor
      <4> QED
        BY <4>1, <4>2 DEF z, Follow
    <3>7. Place(d, z, "slice")
      <4>1. PICK s \in Slices(d) : InSlice(d, s, x)
        BY <1>1, <3>1 DEF Place
      <4>2. InSlice(d, s, z)
        BY <3>6, <4>1 DEF InSlice, SubAt
      <4> QED
        BY <3>1, <3>3, <3>6, <4>2 DEF Place
    <3>8. Known(d, z, gpt', gpt_max', primary')
      BY <1>9, <1>13, <3>1, <3>6
    <3>9. \A p \in Partitions[d] : Past(p, w[c], "slice") <=> Past(p, z, "slice")
      BY <3>1, <3>6 DEF Past
    <3> QED
      BY <1>1, <3>1, <3>6, <3>7, <3>8, <3>9 DEF StepsOn, TurnsOn
  <2>6. CASE Remain(d, x) = {} /\ Links(x, t) = {}
    <3>1. Fails(c) /\ w[c].part # None /\ x = w[c]
      BY <1>7, <1>8, <1>13, <2>4, <2>6
    <3>2. PICK k \in Records(d) : Stands(d, x, k)
      BY <1>2, <2>2, <3>1 DEF FreshAt
    <3>3. NoneAfter(d, x.part)
      BY <1>2, <1>3, <2>6, <3>1, <3>2, TurnEnds
    <3> QED
      BY <1>11, <3>1, <3>3 DEF StepsOn
  <2> QED
    BY <2>3, <2>5, <2>6
<1> QED
  BY <1>12, <1>13 DEF StepsOn

\* The first call takes the drive for d.
Takes(c, d) == pc[c] = "slice" /\ w[c].part = None => gpt' = (d.gpt # <<>>)

LEMMA TurnStep ==
  ASSUME RealTables, NEW c, NEW d, OnDisk(c, d), MbrTurn(c) \/ HeaderUnread(c), Takes(c, d)
  PROVE  StepsOn(c, d) /\ d.gpt = <<>>
<1>1. /\ OverTable(c) /\ gpt' = FALSE /\ pc[c] = "slice" /\ w[c].part # Last
      /\ w[c].part = None \/ ~gpt
  <2>1. Last # None
    BY Sizes
  <2>2. OverTable(c) => gpt' = FALSE
    BY DEF OverTable
  <2> QED
    BY <2>1, <2>2 DEF MbrTurn, HeaderUnread, ReadsTable
<1>2. d.gpt = <<>>
  <2>1. CASE w[c].part = None
    BY <1>1, <2>1 DEF Takes
  <2>2. CASE w[c].part # None
    BY <1>1, <2>2 DEF OnDisk, Sound, Known
  <2> QED
    BY <2>1, <2>2
<1> QED
  BY <1>1, <1>2, OverTableStep

LEMMA StepStep ==
  ASSUME RealTables, NEW c, NEW d, OnDisk(c, d), Step(c), Takes(c, d)
  PROVE  StepsOn(c, d)
<1>1. CASE GptFirst(c)
  <2>1. d.gpt # <<>>
    BY <1>1 DEF GptFirst, Takes
  <2> QED
    BY <1>1, <2>1, GptFirstStep DEF StepsOn
<1> QED
  BY <1>1, BsdPartitionStep, BsdOverStep, NotBsdStep, TooManyStep, GptAgainStep, NotAstray, TurnStep
     DEF NextPartition, StepsOn, Step

-----------------------------------------------------------------------------
(* Both walks *)

\* The partition the cursor is at.
LEMMA CurrentFacts ==
  ASSUME RealTables, NEW d \in Readings \ Cyclic, NEW x \in Cursor, x.part # None, NEW at,
         Place(d, x, at)
  PROVE  /\ \E p \in Partitions[d] : /\ p.part = x.part /\ p.sub = x.sub /\ p.type = x.type
                                     /\ Visit(p) = Visit(x) /\ (Looks(p) <=> Looks(x))
         /\ x.sub # None => x.type = "bsd"
         /\ \A p \in Partitions[d] :
              /\ p.part = x.part /\ p.sub = x.sub =>
                   p.type = x.type /\ Visit(p) = Visit(x) /\ (Looks(p) <=> Looks(x))
              /\ Past(p, x, "call") <=> Past(p, x, "got") \/ (p.part = x.part /\ p.sub = x.sub)
              /\ Past(p, x, "got") => ~(p.part = x.part /\ p.sub = x.sub)
<1> DEFINE t(s) == SliceLabel(d, s)
<1>1. /\ x.part \in Nat /\ x.part <= Last /\ x.sub \in Nat /\ None \in Nat
  BY Sizes DEF Cursor
<1>2. PICK s \in Slices(d) : InSlice(d, s, x)
  BY DEF Place
<1>3. s.part = x.part /\ s.type = x.type
  BY <1>2 DEF InSlice
<1>4. x.sub # None =>
        /\ x.sub + 1 \in DOMAIN t(s) /\ t(s)[x.sub + 1].type # "none" /\ x.type = "bsd"
        /\ x.start = t(s)[x.sub + 1].start /\ x.len = t(s)[x.sub + 1].len
  <2>1. t(s) = SliceLabel(d, s) /\ (s.type # "bsd" => DOMAIN t(s) = {})
    BY SliceLabelFacts
  <2> QED
    BY <1>2, <1>3, <2>1 DEF InSlice, SubAt
<1>5. \E p \in Partitions[d] : p.part = x.part /\ p.sub = x.sub
  <2>1. CASE x.sub = None
    <3>1. [part |-> s.part, sub |-> None, type |-> s.type, start |-> s.start,
           len |-> s.len] \in Partitions[d]
      BY <1>1, <1>3, PartsAre
    <3> QED
      BY <1>3, <2>1, <3>1
  <2>2. CASE x.sub # None
    <3> DEFINE i == x.sub + 1
    <3>1. [part |-> s.part, sub |-> i - 1, type |-> "bsd", start |-> SliceLabel(d, s)[i].start,
           len |-> SliceLabel(d, s)[i].len] \in Partitions[d]
      BY <1>1, <1>3, <1>4, <2>2, PartsAre
    <3>2. i - 1 = x.sub
      BY <1>1
    <3> HIDE DEF i
    <3> QED
      BY <1>3, <3>1, <3>2
  <2> QED
    BY <2>1, <2>2
<1>6. ASSUME NEW p \in Partitions[d], p.part = x.part, p.sub = x.sub
      PROVE  p.type = x.type /\ p.start = x.start /\ p.len = x.len
  <2>1. PartOf(d, s, p)
    BY <1>3, <1>6, SamePart
  <2>2. CASE x.sub = None
    <3>1. p = [part |-> s.part, sub |-> None, type |-> s.type, start |-> s.start, len |-> s.len]
      BY <1>6, <2>1, <2>2 DEF PartOf
    <3>2. s.start = x.start /\ s.len = x.len
      BY <1>2, <2>2 DEF InSlice
    <3> QED
      BY <1>3, <3>1, <3>2
  <2>3. CASE x.sub # None
    BY <1>4, <1>6, <2>1, <2>3 DEF PartOf
  <2> QED
    BY <2>2, <2>3
<1>7. ASSUME NEW p \in Partitions[d], p.part = x.part, p.sub = x.sub
      PROVE  p.type = x.type /\ Visit(p) = Visit(x) /\ (Looks(p) <=> Looks(x))
  BY <1>6, <1>7 DEF Visit, Looks
<1>8. ASSUME NEW p \in Partitions[d]
      PROVE  /\ Past(p, x, "call") <=> Past(p, x, "got") \/ (p.part = x.part /\ p.sub = x.sub)
             /\ Past(p, x, "got") => ~(p.part = x.part /\ p.sub = x.sub)
  <2>1. p.part \in Nat /\ p.sub \in Nat
    BY <1>3, SamePart
  <2> QED
    BY <1>1, <2>1 DEF Past
<1> QED
  BY <1>4, <1>5, <1>7, <1>8

\* A step of one walk leaves what is known of the drive to the other.
LEMMA KnownStays ==
  ASSUME NEW c, NEW d, RealTables, OnDisk(c, d), Step(c), Takes(c, d),
         NEW z, Known(d, z, gpt, gpt_max, primary)
  PROVE  Known(d, z, gpt', gpt_max', primary')
<1>1. Known(d, w[c], gpt, gpt_max, primary) /\ gpt \in BOOLEAN
  BY DEF OnDisk, Sound, Typed
<1>2. CASE BsdPartition(c) \/ BsdOver(c) \/ NotBsd(c) \/ TooMany(c) \/ GptAgain(c)
  BY <1>2 DEF BsdPartition, BsdOver, NotBsd, TooMany, GptAgain, tables
<1>3. CASE GptFirst(c)
  <2>1. d.gpt # <<>> /\ d = Disk(c)
    BY <1>3, OnDiskFacts DEF GptFirst, Takes
  <2> QED
    BY <1>3, <2>1 DEF GptFirst, Known, Disk
<1>4. CASE MbrTurn(c) \/ HeaderUnread(c)
  <2>1. gpt' = FALSE /\ gpt_max' = gpt_max /\ d.gpt = <<>>
    BY <1>4, TurnStep DEF MbrTurn, HeaderUnread, OverTable
  <2>2. z.part # None => 0 \in DOMAIN d.table /\ primary = d.table[0]
    BY <2>1 DEF Known
  <2>3. primary' = primary \/ primary' = d.table[0]
    <3>1. primary' = primary \/ primary' = TableAt(drive[c], 0)
      <4>1. OverTable(c)
        BY <1>4 DEF MbrTurn, HeaderUnread
      <4> QED
        BY <4>1 DEF OverTable
    <3> QED
      BY <3>1, OnDiskFacts DEF TableAt, Disk
  <2> QED
    BY <2>1, <2>2, <2>3 DEF Known
<1> QED
  BY <1>2, <1>3, <1>4, NotAstray DEF NextPartition, Step

-----------------------------------------------------------------------------
(* The walk of real_open_partition *)

\* What real_open_partition looks for is not among what it leaves out.
LEMMA SkippedFacts ==
  ASSUME RealTables, NEW d \in Readings \ Cyclic, NEW p \in Partitions[d], NEW q,
         Skips(d, p, q), q # Whole, q.part \in 0..None, q.part = None => q.sub # None
  PROVE  ~IsDest(p, q) /\ p.type # "bsd"
<1>1. PICK s \in Slices(d) : s.part <= Last /\ PartOf(d, s, p)
  BY PartsAre
<1>2. s.type = "data" /\ s.part \in Nat /\ p.part = s.part /\ p.part < q.part /\ q.part \in Nat
  BY <1>1, SliceTypes, Sizes DEF Skips, PartOf
<1>3. p.sub = None /\ p.type = "data"
  BY <1>1, <1>2 DEF PartOf
<1>4. ASSUME IsDest(p, q) PROVE FALSE
  <2>1. CASE q = [part |-> p.part, sub |-> p.sub]
    <3>1. q.part = p.part
      BY <2>1
    <3> QED
      BY <1>2, <3>1
  <2>2. CASE q.part = None /\ q.sub = p.sub
    BY <1>3, <2>2
  <2> QED
    BY <1>4, <2>1, <2>2 DEF IsDest
<1> QED
  BY <1>3, <1>4

\* A BSD slice is one for its BSD partitions, too.
LEMMA BsdSame ==
  ASSUME RealTables, NEW d \in Readings \ Cyclic, NEW x, x.part # None, NEW at, Place(d, x, at),
         NEW p \in Partitions[d], p.part = x.part, p.type = "bsd"
  PROVE  x.type = "bsd"
<1>1. PICK s \in Slices(d) : InSlice(d, s, x)
  BY DEF Place
<1>2. s.part = x.part /\ s.type = x.type
  BY <1>1 DEF InSlice
<1>3. PartOf(d, s, p)
  BY <1>2, SamePart
<1> QED
  BY <1>2, <1>3 DEF PartOf

\* A walk that ends without having found it has passed all it could be.
LEMMA NothingNamed ==
  ASSUME RealTables, NEW d \in Readings \ Cyclic, NEW x \in Cursor, NEW q, NEW at,
         Place(d, x, at), NotPassed(d, x, q, at),
         q # Whole, q.part \in 0..None, q.part = None => q.sub # None,
         \/ /\ at = "slice"
            /\ \A p \in Partitions[d] : Past(p, x, "slice") \/ Skips(d, p, q)
         \/ /\ at = "call" /\ LooksIn(x, q)
            /\ \A p \in Partitions[d] : p.part = x.part => Past(p, x, "call")
  PROVE  Named(d, q) = {}
<1> SUFFICES ASSUME NEW p \in Partitions[d], p \in Named(d, q) PROVE FALSE
  BY DEF Named
<1>1. IsDest(p, q) /\ ~Past(p, x, at)
  BY DEF Named, NotPassed
<1>2. p.part \in Nat /\ p.part <= Last /\ x.part \in Nat
  <2>1. PICK s \in Slices(d) : s.part <= Last /\ PartOf(d, s, p)
    BY PartsAre
  <2> QED
    BY <2>1, SliceTypes, Sizes DEF PartOf, Cursor
<1>3. ~(at = "slice" /\ \A z \in Partitions[d] : Past(z, x, "slice") \/ Skips(d, z, q))
  BY <1>1, SkippedFacts
<1>4. /\ at = "call" /\ LooksIn(x, q)
      /\ \A z \in Partitions[d] : z.part = x.part => Past(z, x, "call")
  BY <1>3
<1>5. p.part # x.part
  BY <1>1, <1>4
<1>6. q # [part |-> p.part, sub |-> p.sub]
  <2>1. ASSUME q.part = p.part PROVE FALSE
    <3>1. p.part # None
      BY <1>2, Sizes
    <3> QED
      BY <1>4, <1>5, <2>1, <3>1 DEF LooksIn
  <2> QED
    BY <2>1
<1>7. q.part = None
  BY <1>1, <1>6 DEF IsDest
<1>8. \A z \in Partitions[d] : z.type = "bsd" => z.part >= p.part
  BY <1>7 DEF Named
<1>9. PICK z \in Partitions[d] : z.part = x.part /\ z.type = x.type
  BY <1>4, CurrentFacts DEF LooksIn
<1>10. x.part >= p.part
  BY <1>4, <1>8, <1>9 DEF LooksIn
<1>11. p.part < x.part
  BY <1>2, <1>5, <1>10
<1> QED
  BY <1>1, <1>4, <1>11 DEF Past, LooksIn

LEMMA OpensItFacts ==
  ASSUME OpensIt
  PROVE  /\ Typed /\ Straight /\ Turnwise /\ Opening /\ OpenFindsIt
         /\ \A c \in Walks : w[c] \in Cursor /\ Disk(c) \in Readings /\ Seen(c) \in Readings
         /\ "open" \in Walks /\ "find" \in Walks
         /\ pc \in [Walks -> {"off", "call", "slice", "got", "inside", "done"}]
BY DiskFacts DEF OpensIt, Typed, Walks, Disk, Seen, Readings

\* What a walk is at before its first slice.
LEMMA StartSound ==
  ASSUME NEW d, NEW x, x.part = None, x.sub = None, NEW at \in {"call", "slice"}, NEW q
  PROVE  /\ Sound(d, x, at) /\ NotPassed(d, x, q, at)
         /\ \A p : ~Past(p, x, at)
BY DEF Sound, Place, Known, Labelled, NotPassed, Past

\* The cursor stays sound, and what is looked for is not passed, on the drive as
\* the first call takes it.
LEMMA OpenStep ==
  ASSUME RealTables, OpensIt, Step("open")
  PROVE  Opening' /\ OpenFindsIt'
<1> DEFINE d == IF gpt' THEN Disk("open") ELSE AsMbr(Disk("open"))
           x == w["open"]
           q == dest["open"]
<1>1. /\ Typed /\ Straight /\ Turnwise /\ Opening /\ x \in Cursor /\ d \in Readings
      /\ "open" \in Walks /\ "find" \in Walks
  BY OpensItFacts, DiskFacts DEF Readings, Disk
<1>2. /\ pc["open"] \in {"call", "slice"} /\ pc'["open"] \in {"got", "slice", "done"}
      /\ UNCHANGED <<disk, drive, dest, visited, opened>>
      /\ \A y : Reports("open", y) => pc'["open"] = "got" /\ w'["open"] = y
      /\ \A y : Turns("open", y) => pc'["open"] = "slice" /\ w'["open"] = y
      /\ Fails("open") => pc'["open"] = "done" /\ w' = w
  BY <1>1, StepFrame
<1>3. ~opened /\ opened' = FALSE /\ q # Whole /\ q.part \in 0..None /\ (q.part = None => q.sub # None)
  BY <1>1, <1>2 DEF Turnwise, Moving, Typed
<1>4. /\ Disk("open")' = Disk("open") /\ Seen("open")' = d /\ dest' = dest
      /\ fault' \/ pc'["open"] # "done" \/ d = Disk("open")
  <2>1. Disk("open")' = Disk("open") /\ Seen("open")' = d
    BY <1>2 DEF Disk, Seen
  <2>2. Straight'
    BY <1>1, StraightStep
  <2> HIDE DEF d
  <2> QED
    BY <1>2, <2>1, <2>2 DEF Straight
\* Behind the first slice that is as before.
<1>5. /\ x.part # None => Seen("open") = d
      /\ Takes("open", d)
  <2>1. /\ x.part # None => gpt' = gpt
        /\ x.part = None /\ pc["open"] = "slice" => (gpt' => Disk("open").gpt # <<>>)
    BY <1>1, StepTables
  <2>2. AsMbr(Disk("open")).gpt = <<>>
    BY DEF AsMbr
  <2>3. gpt \in BOOLEAN /\ gpt' \in BOOLEAN
    BY <1>1, StepSafe DEF Typed
  <2>4. x.part # None => Seen("open") = d
    BY <2>1 DEF Seen, Disk
  <2>5. ASSUME pc["open"] = "slice", x.part = None PROVE gpt' = (d.gpt # <<>>)
    <3>1. CASE gpt'
      <4>1. d = Disk("open") /\ Disk("open").gpt # <<>>
        BY <2>1, <2>5, <3>1
      <4> QED
        BY <2>3, <3>1, <4>1
    <3>2. CASE ~gpt'
      <4>1. d = AsMbr(Disk("open"))
        BY <3>2
      <4> QED
        BY <2>2, <2>3, <3>2, <4>1
    <3> QED
      BY <3>1, <3>2
  <2> QED
    BY <2>4, <2>5 DEF Takes
<1>6. d \in {Disk("open"), AsMbr(Disk("open"))}
  OBVIOUS
<1>7. (fault' \/ pc'["open"] # "done" \/ d = Disk("open")) /\ disk'[drive'["open"]] = Disk("open")
  BY <1>2, <1>4 DEF Disk
<1> HIDE DEF d
<1>8. CASE d \in Cyclic
  BY <1>4, <1>7, <1>8 DEF Opening, OpenFindsIt
<1>9. CASE d \notin Cyclic
  <2>1. OnDisk("open", d) /\ NotPassed(d, x, q, pc["open"]) /\ d \in Readings \ Cyclic
    <3>1. Sound(d, x, pc["open"]) /\ NotPassed(d, x, q, pc["open"])
      <4>1. CASE x.part = None
        <5>1. x.sub = None
          BY <1>1, <1>2, <4>1 DEF Straight, Moving
        <5> QED
          BY <1>2, <4>1, <5>1, StartSound
      <4>2. CASE x.part # None
        BY <1>1, <1>2, <1>5, <1>9, <4>2 DEF Opening, Moving
      <4> QED
        BY <4>1, <4>2
    <3> QED
      BY <1>1, <1>3, <1>6, <1>9, <3>1 DEF OnDisk
  <2>2. StepsOn("open", d) /\ Place(d, x, pc["open"])
    BY <1>5, <2>1, StepStep DEF OnDisk, Sound
  <2>3. CASE ReportsNext("open", d)
    <3>1. PICK y \in Cursor :
            /\ Reports("open", y)
            /\ Place(d, y, "got") /\ Known(d, y, gpt', gpt_max', primary') /\ Labelled(d, y, mbr')
            /\ pc["open"] = "call" => y.part = x.part
            /\ \A p \in Partitions[d] : Past(p, y, "got") => Past(p, x, pc["open"]) \/ Skips(d, p, q)
      BY <2>3 DEF ReportsNext
    <3>2. NotPassed(d, y, q, "got")
      <4> SUFFICES ASSUME NEW p \in Partitions[d], Past(p, y, "got")
                   PROVE  /\ ~IsDest(p, q)
                          /\ q.part = None /\ p.type = "bsd" => p.part = y.part
        BY DEF NotPassed
      <4>1. CASE Skips(d, p, q)
        BY <1>3, <2>1, <4>1, SkippedFacts
      <4>2. CASE Past(p, x, pc["open"])
        BY <1>2, <2>1, <3>1, <4>2 DEF NotPassed
      <4> QED
        BY <3>1, <4>1, <4>2
    <3>3. pc'["open"] = "got" /\ w'["open"] = y
      BY <1>2, <3>1
    <3> QED
      BY <1>4, <3>1, <3>2, <3>3 DEF Opening, OpenFindsIt, Sound, Moving
  <2>4. CASE TurnsOn("open", d)
    <3>1. PICK y \in Cursor :
            /\ Turns("open", y) /\ y.part = x.part
            /\ Place(d, y, "slice") /\ Known(d, y, gpt', gpt_max', primary')
            /\ pc["open"] = "call" => ~LooksIn(x, q)
            /\ \A p \in Partitions[d] : Past(p, x, pc["open"]) <=> Past(p, y, "slice")
      BY <2>4 DEF TurnsOn
    <3>2. NotPassed(d, y, q, "slice")
      <4> SUFFICES ASSUME NEW p \in Partitions[d], Past(p, y, "slice")
                   PROVE  ~IsDest(p, q) /\ ~(q.part = None /\ p.type = "bsd")
        BY DEF NotPassed
      <4>1. Past(p, x, pc["open"]) /\ x.part # None
        BY <3>1 DEF Past
      <4>2. ~IsDest(p, q) /\ (q.part = None /\ p.type = "bsd" => p.part = x.part /\ pc["open"] # "slice")
        BY <2>1, <4>1 DEF NotPassed
      <4>3. ASSUME q.part = None, p.type = "bsd" PROVE FALSE
        <5>1. x.type = "bsd" /\ pc["open"] = "call"
          BY <1>2, <2>1, <2>2, <4>1, <4>2, <4>3, BsdSame
        <5> QED
          BY <1>3, <3>1, <4>1, <4>3, <5>1 DEF LooksIn
      <4> QED
        BY <4>2, <4>3
    <3>3. pc'["open"] = "slice" /\ w'["open"] = y
      BY <1>2, <3>1
    <3> QED
      BY <1>4, <3>1, <3>2, <3>3 DEF Opening, OpenFindsIt, Sound, Moving
  <2>5. CASE EndsWalk("open", d)
    <3>1. Named(d, q) = {}
      BY <1>1, <1>3, <2>1, <2>2, <2>5, NothingNamed DEF EndsWalk
    <3>2. pc'["open"] = "done"
      BY <1>2, <2>5 DEF EndsWalk
    <3> QED
      BY <1>3, <1>4, <1>7, <3>1, <3>2 DEF Opening, OpenFindsIt, Moving
  <2> QED
    BY <2>2, <2>3, <2>4, <2>5 DEF StepsOn
<1> QED
  BY <1>8, <1>9

\* What a walk begins with.
LEMMA BeginSound ==
  ASSUME NEW d, NEW q
  PROVE  /\ Sound(d, Fresh, "call")' /\ NotPassed(d, Fresh, q, "call")
         /\ \A p : ~Past(p, Fresh, "call")
<1>1. Fresh.part = None /\ Fresh.sub = None
  BY DEF Fresh
<1> QED
  BY <1>1 DEF Sound, Place, Known, Labelled, NotPassed, Past

LEMMA OpenNextPartition ==
  ASSUME RealTables, OpensIt, NEW c \in Walks, Step(c)
  PROVE  OpensIt'
<1>1. /\ Typed /\ Turnwise /\ Typed' /\ Straight'
      /\ "open" \in Walks /\ "find" \in Walks
  BY OpensItFacts, StepSafe, StraightStep
<1>2. CASE c = "open"
  <2>1. /\ pc["open"] \in {"call", "slice"} /\ pc'["open"] \in {"got", "slice", "done"}
        /\ pc'["find"] = pc["find"] /\ w'["find"] = w["find"]
        /\ UNCHANGED <<dest, opened>>
    BY <1>1, <1>2, StepFrame
  <2>2. Turnwise'
    BY <1>1, <2>1 DEF Turnwise, Moving
  <2> QED
    BY <1>1, <1>2, <2>2, OpenStep DEF OpensIt
<1>3. CASE c = "find"
  <2>1. /\ pc["find"] \in {"call", "slice"} /\ pc'["find"] \in {"got", "slice", "done"}
        /\ pc'["open"] = pc["open"] /\ UNCHANGED <<dest, opened>>
        /\ pc'["find"] = "got" => w'["find"].part # None
    BY <1>1, <1>3, StepFrame
  <2>2. pc'["open"] = "off"
    BY <1>1, <2>1 DEF Turnwise
  <2>3. dest'["find"] = Whole
    BY <1>1, <2>1 DEF Turnwise
  <2>4. Turnwise'
    BY <1>1, <2>1, <2>2, <2>3 DEF Turnwise, Moving
  <2> QED
    BY <1>1, <2>2, <2>4 DEF OpensIt, Opening, OpenFindsIt, Moving
<1> QED
  BY <1>2, <1>3 DEF Walks

\* Where a label could not be read, the next slice is turned to without it.
LEMMA OpenUnread ==
  ASSUME RealTables, OpensIt, NEW c \in Walks, TableUnread(c) \/ EntryUnread(c) \/ LabelUnread(c)
  PROVE  OpensIt'
<1>1. /\ Typed /\ Turnwise /\ Opening /\ Typed' /\ Straight' /\ w["open"] \in Cursor
      /\ "open" \in Walks /\ "find" \in Walks
  BY OpensItFacts, UnreadSafe, StraightUnread
<1>2. /\ pc[c] \in {"call", "slice"} /\ pc'[c] \in {"slice", "done"} /\ fault' = TRUE
      /\ \A e \in Walks : e # c => pc'[e] = pc[e]
      /\ UNCHANGED <<disk, drive, dest, w, opened>>
  BY <1>1, UnreadSafe
<1>3. CASE c = "find"
  <2>1. pc'["open"] = "off" /\ pc'["find"] # "got"
    BY <1>1, <1>2, <1>3 DEF Turnwise
  <2>2. Turnwise'
    BY <1>1, <1>2, <1>3, <2>1 DEF Turnwise, Moving
  <2> QED
    BY <1>1, <2>1, <2>2 DEF OpensIt, Opening, OpenFindsIt, Moving
<1>4. CASE c = "open"
  <2> DEFINE d == Seen("open")
             x == w["open"]
             q == dest["open"]
  <2>1. pc'["find"] = pc["find"]
    BY <1>1, <1>2, <1>4
  <2>2. Turnwise' /\ opened' = FALSE
    BY <1>1, <1>2, <1>4, <2>1 DEF Turnwise, Moving, Typed
  <2>3. OpenFindsIt'
    BY <1>2, <2>2 DEF OpenFindsIt
  <2>4. CASE pc'["open"] = "done"
    BY <1>1, <2>2, <2>3, <2>4 DEF OpensIt, Opening, Moving
  <2>5. CASE pc'["open"] = "slice"
    <3>0. LabelUnread("open") /\ ~Fails("open")
      BY <1>1, <1>4, <2>5 DEF TableUnread, EntryUnread, Fails, Goto, Typed
    <3>1. /\ pc["open"] = "call" /\ InBsd("open") /\ x.sub = None
          /\ ~(q.sub # None /\ q.part \in {None, x.part})
          /\ gpt' = gpt /\ gpt_max' = gpt_max /\ primary' = primary
      BY <3>0 DEF LabelUnread, BsdError, tables
    <3>2. ASSUME d \notin Cyclic
          PROVE  /\ Place(d, x, "slice") /\ Known(d, x, gpt', gpt_max', primary')
                 /\ NotPassed(d, x, q, "slice")
      <4>1. Sound(d, x, "call") /\ NotPassed(d, x, q, "call") /\ x.part # None
        BY <1>1, <3>1, <3>2 DEF Opening, Moving, InBsd
      <4>2. Place(d, x, "slice")
        BY <4>1 DEF Sound, Place
      <4>3. Known(d, x, gpt', gpt_max', primary')
        BY <3>1, <4>1 DEF Sound
      <4>4. ASSUME NEW p \in Partitions[d], Past(p, x, "slice")
            PROVE  ~IsDest(p, q) /\ ~(q.part = None /\ p.type = "bsd")
        <5>1. q.part # None
          BY <1>1, <3>1 DEF Turnwise
        <5>2. ASSUME p.part = x.part, p.sub # None PROVE ~IsDest(p, q)
          <6>1. q # [part |-> p.part, sub |-> p.sub]
            <7>1. ASSUME q = [part |-> p.part, sub |-> p.sub] PROVE FALSE
              <8>1. q.part = x.part /\ q.sub # None
                BY <5>2, <7>1
              <8> QED
                BY <3>1, <8>1
            <7> QED
              BY <7>1
          <6> QED
            BY <5>1, <6>1 DEF IsDest
        <5>3. p.part = x.part /\ p.sub = None => Past(p, x, "call")
          BY <4>1 DEF Past
        <5>4. p.part < x.part => Past(p, x, "call")
          BY <4>1 DEF Past
        <5>5. p.part < x.part \/ p.part = x.part
          BY <4>4 DEF Past
        <5> QED
          BY <4>1, <5>1, <5>2, <5>3, <5>4, <5>5 DEF NotPassed
      <4> QED
        BY <4>2, <4>3, <4>4 DEF NotPassed
    <3>3. Opening'
      <4>1. Seen("open")' = d /\ dest'["open"] = q /\ w'["open"] = x
        BY <1>2, <3>1 DEF Seen
      <4> HIDE DEF d, x, q
      <4> QED
        BY <2>2, <2>5, <3>2, <4>1 DEF Opening, Moving, Sound
    <3> QED
      BY <1>1, <2>2, <2>3, <3>3 DEF OpensIt
  <2> QED
    BY <1>2, <1>4, <2>4, <2>5
<1> QED
  BY <1>3, <1>4 DEF Walks

LEMMA OpenReadFails ==
  ASSUME RealTables, OpensIt, NEW c \in Walks, ReadFails(c)
  PROVE  OpensIt'
BY OpenNextPartition, OpenUnread DEF ReadFails, Step

LEMMA OpenBegins ==
  ASSUME RealTables, OpensIt, OpenPartition \/ Find \/ FindLooks
  PROVE  OpensIt'
<1>1. /\ Typed /\ Turnwise /\ Opening /\ Typed' /\ Straight'
      /\ "open" \in Walks /\ "find" \in Walks
      /\ pc \in [Walks -> {"off", "call", "slice", "got", "inside", "done"}]
  BY OpensItFacts, OpenSafe, StraightElse
<1>3. CASE Find
  <2>1. pc'["open"] = "off" /\ pc'["find"] = "call" /\ opened' = FALSE
    BY <1>1, <1>3 DEF Find, Idle, Goto
  <2>2. PICK d \in Drives : Begin("find", d, Whole)
    BY <1>3 DEF Find
  <2>3. dest'["find"] = Whole /\ DOMAIN dest' = Walks
    BY <1>1, <2>2 DEF Begin, Turnwise
  <2>4. Turnwise'
    BY <2>1, <2>3 DEF Turnwise, Moving
  <2> QED
    BY <1>1, <2>1, <2>4 DEF OpensIt, Opening, OpenFindsIt, Moving
<1>4. ASSUME NEW d \in Drives, NEW q, Begin("open", d, q), opened' = FALSE,
             pc'["open"] = "call", pc'["find"] \in {"off", "inside"},
             pc["find"] # "off" \/ pc'["find"] = "off",
             q # Whole, q.part \in 0..None, q.sub \in Nat, q.part = None => q.sub # None
      PROVE  OpensIt'
  <2>1. w'["open"] = Fresh /\ dest'["open"] = q /\ dest'["find"] = dest["find"]
        /\ DOMAIN dest' = Walks
    BY <1>1, <1>4 DEF Begin, Typed, Turnwise
  <2>2. Turnwise'
    BY <1>1, <1>4, <2>1 DEF Turnwise, Moving
  <2>3. Opening'
    BY <1>4, <2>1 DEF Opening, Moving, Fresh
  <2> QED
    BY <1>1, <1>4, <2>2, <2>3 DEF OpensIt, OpenFindsIt
<1>5. CASE OpenPartition
  <2>1. PICK d \in Drives, q \in Dests : Begin("open", d, q)
    BY <1>5 DEF OpenPartition
  <2>2. q \in [part : 0..None, sub : Nat] /\ q # Whole
    BY WalkAssumption
  <2>3. q.part = None => q.sub # None
    BY <2>2 DEF Whole
  <2>4. pc'["open"] = "call" /\ pc'["find"] = "off" /\ opened' = FALSE
    BY <1>1, <1>5 DEF OpenPartition, Idle, Goto
  <2> QED
    BY <1>4, <2>1, <2>2, <2>3, <2>4
<1>6. CASE FindLooks
  <2>1. pc'["open"] = "call" /\ pc'["find"] = "inside" /\ pc["find"] = "got" /\ opened' = FALSE
    BY <1>1, <1>6 DEF FindLooks
  <2>2. w["find"].part # None /\ w["find"].part \in 0..None /\ w["find"].sub \in Nat
    BY <1>1, <2>1, OpensItFacts DEF Turnwise, Cursor
  <2>3. PICK d \in Drives, q \in {[part |-> w["find"].part, sub |-> w["find"].sub],
                                  [part |-> 0, sub |-> None]} : Begin("open", d, q)
    <3>1. drive["find"] \in Drives
      BY <1>1 DEF Typed
    <3> QED
      BY <1>6, <3>1, WalkAssumption DEF FindLooks
  <2>4. q.part # None /\ q.part \in 0..None /\ q.sub \in Nat
    <3>1. 0 # None /\ 0 \in 0..None /\ None \in Nat
      BY Sizes
    <3> QED
      BY <2>2, <3>1
  <2>5. q # Whole
    BY <2>4 DEF Whole
  <2> QED
    BY <1>4, <2>1, <2>3, <2>4, <2>5
<1> QED
  BY <1>3, <1>5, <1>6

LEMMA OpenGotStep ==
  ASSUME RealTables, OpensIt, OpenGot
  PROVE  OpensIt'
<1> DEFINE d == Seen("open")
           x == w["open"]
           q == dest["open"]
<1>1. /\ Typed /\ Straight /\ Turnwise /\ Opening /\ Typed' /\ Straight' /\ x \in Cursor /\ d \in Readings
      /\ "open" \in Walks /\ "find" \in Walks
      /\ pc \in [Walks -> {"off", "call", "slice", "got", "inside", "done"}]
  BY OpensItFacts, OpenSafe, StraightElse
<1>2. /\ pc["open"] = "got" /\ opened' = IsDest(x, q)
      /\ pc'["open"] = (IF IsDest(x, q) THEN "done" ELSE "call") /\ pc'["find"] = pc["find"]
      /\ UNCHANGED <<disk, tables, drive, dest, w, fault>>
  BY <1>1 DEF OpenGot, Goto
<1>3. Turnwise'
  BY <1>1, <1>2 DEF Turnwise, Moving
<1>4. ASSUME d \notin Cyclic
      PROVE  /\ Sound(d, x, "got") /\ NotPassed(d, x, q, "got") /\ x.part # None
             /\ Place(d, x, "got") /\ d \in Readings \ Cyclic
  <2>1. x.part # None
    BY <1>1, <1>2 DEF Straight, Moving
  <2> QED
    BY <1>1, <1>2, <1>4, <2>1 DEF Opening, Moving, Sound
<1>5. CASE IsDest(x, q)
  <2>1. pc'["open"] = "done" /\ opened'
    BY <1>2, <1>5
  <2>2. ASSUME d \notin Cyclic
        PROVE  /\ Labelled(d, x, mbr)
               /\ \E y \in Named(d, q) : Visit(y) = Visit(x) /\ y.type = x.type
    <3>1. PICK p \in Partitions[d] : /\ p.part = x.part /\ p.sub = x.sub /\ p.type = x.type
                                     /\ Visit(p) = Visit(x)
      BY <1>1, <1>4, <2>2, CurrentFacts
    <3>2. IsDest(p, q)
      BY <1>5, <3>1 DEF IsDest
    <3>3. ASSUME q.part = None, NEW y \in Partitions[d], y.type = "bsd" PROVE y.part >= p.part
      <4>1. y.part \in Nat
        BY <1>4, <2>2, PartsAre, SliceTypes DEF PartOf
      <4>2. x.part \in Nat
        BY <1>1, Sizes DEF Cursor
      <4>3. ~(y.part < x.part)
        <5>1. y.part < x.part => y.part = x.part
          BY <1>4, <2>2, <3>3 DEF NotPassed, Past
        <5> QED
          BY <4>1, <4>2, <5>1
      <4> QED
        BY <3>1, <4>1, <4>2, <4>3
    <3>4. p \in Named(d, q)
      BY <3>2, <3>3 DEF Named
    <3> QED
      BY <1>4, <2>2, <3>1, <3>4 DEF Sound
  <2> QED
    <3>1. /\ Seen("open")' = d /\ dest'["open"] = q /\ w'["open"] = x /\ mbr' = mbr
          /\ fault' \/ Seen("open")' = disk'[drive'["open"]]
      BY <1>1, <1>2, <2>1 DEF Seen, tables, Straight, Disk
    <3> HIDE DEF d, x, q
    <3> QED
      BY <1>1, <1>3, <2>1, <2>2, <3>1 DEF OpensIt, Opening, OpenFindsIt, Moving
<1>6. CASE ~IsDest(x, q)
  <2>1. pc'["open"] = "call" /\ ~opened'
    BY <1>2, <1>6
  <2>2. ASSUME d \notin Cyclic
        PROVE  Sound(d, x, "call") /\ NotPassed(d, x, q, "call")
    <3>1. Sound(d, x, "call")
      BY <1>4, <2>2 DEF Sound, Place
    <3>2. ASSUME NEW p \in Partitions[d], Past(p, x, "call")
          PROVE  ~IsDest(p, q) /\ (q.part = None /\ p.type = "bsd" => p.part = x.part)
      <4>1. Past(p, x, "got") \/ (p.part = x.part /\ p.sub = x.sub /\ p.type = x.type)
        BY <1>1, <1>4, <2>2, <3>2, CurrentFacts
      <4>2. CASE Past(p, x, "got")
        BY <1>4, <2>2, <4>2 DEF NotPassed
      <4>3. CASE p.part = x.part /\ p.sub = x.sub /\ p.type = x.type
        BY <1>6, <4>3 DEF IsDest
      <4> QED
        BY <4>1, <4>2, <4>3
    <3> QED
      BY <3>1, <3>2 DEF NotPassed
  <2>3. Opening'
    BY <1>2, <2>1, <2>2 DEF Opening, Seen, Moving, Sound, tables
  <2> QED
    BY <1>1, <1>3, <2>1, <2>3 DEF OpensIt, OpenFindsIt
<1> QED
  BY <1>5, <1>6

\* Nothing is being opened then.
LEMMA OpenElse ==
  ASSUME RealTables, OpensIt, OpenOver \/ FindPasses \/ FindOn \/ FindOver \/ Devread
  PROVE  OpensIt'
<1>1. /\ Typed /\ Turnwise /\ Typed' /\ Straight'
      /\ "open" \in Walks /\ "find" \in Walks
      /\ pc \in [Walks -> {"off", "call", "slice", "got", "inside", "done"}]
  BY OpensItFacts, OpenSafe, DevreadTyped, StraightElse
<1>2. dest' = dest /\ pc'["open"] = "off" /\ (pc'["find"] = "off" \/ pc["find"] # "off")
      /\ (pc'["find"] = "got" => pc["find"] = "got" /\ w' = w)
  <2>1. CASE OpenOver
    BY <1>1, <2>1 DEF OpenOver, Goto, Turnwise
  <2>2. CASE FindPasses \/ FindOn
    BY <1>1, <2>2 DEF FindPasses, FindOn, Goto, Turnwise
  <2>3. CASE FindOver
    BY <1>1, <2>3 DEF FindOver, Goto, Turnwise
  <2>4. CASE Devread
    BY <1>1, <2>4 DEF Devread, Idle
  <2> QED
    BY <2>1, <2>2, <2>3, <2>4
<1>3. Turnwise'
  BY <1>1, <1>2 DEF Turnwise, Moving
<1> QED
  BY <1>1, <1>2, <1>3 DEF OpensIt, Opening, OpenFindsIt, Moving

LEMMA OpenNext ==
  ASSUME RealTables, OpensIt, [Next]_vars
  PROVE  OpensIt'
<1>1. CASE UNCHANGED vars
  <2>1. Typed' /\ Straight'
    BY <1>1, NextSafe, StraightElse DEF OpensIt
  <2> QED
    BY <1>1, <2>1 DEF vars, tables, OpensIt, Turnwise, Opening, OpenFindsIt, Sound, Moving, Seen
<1>2. CASE OpenPartition \/ Find \/ FindLooks
  BY <1>2, OpenBegins
<1>3. CASE OpenOver \/ FindPasses \/ FindOn \/ FindOver \/ Devread
  BY <1>3, OpenElse
<1> QED
  BY <1>1, <1>2, <1>3, OpenNextPartition, OpenReadFails, OpenGotStep DEF Next, Walking, Step

LEMMA OpenInit == Init => OpensIt
<1> SUFFICES ASSUME Init PROVE OpensIt
  OBVIOUS
<1>1. Typed /\ pc["open"] = "off" /\ pc["find"] = "off" /\ DOMAIN dest = Walks
  BY InitTyped DEF Init, Walks
<1> QED
  BY <1>1, InitStraight DEF OpensIt, Turnwise, Opening, OpenFindsIt, Moving

\* real_open_partition opens the partition of the number it is given, with its
\* extent, or finds that there is none, whatever slices, logical partitions, BSD
\* partitions and GPT entries it walks over, and whatever walks were before: of
\* the drive or, when the header of its GPT could not be read, of what the MBR
\* alone says (disk_io.c, real_open_partition, next_partition, is_gpt_part).
THEOREM FoundByName ==
  ASSUME RealTables
  PROVE  Spec => []OpenFindsIt
<1>1. OpensIt /\ [Next]_vars => OpensIt'
  BY OpenNext
<1>2. OpensIt => OpenFindsIt
  BY DEF OpensIt
<1> QED
  BY <1>1, <1>2, OpenInit, PTL DEF Spec

-----------------------------------------------------------------------------
(* The walk of `find` *)

LEMMA LocatedFacts ==
  ASSUME Located
  PROVE  /\ OpensIt /\ Typed /\ Straight /\ Turnwise /\ Opening /\ OpenFindsIt
         /\ Finding /\ FindVisitsAll /\ Nested /\ visited \in Seq(Visits)
         /\ \A c \in Walks : w[c] \in Cursor /\ Disk(c) \in Readings
         /\ "open" \in Walks /\ "find" \in Walks
         /\ pc \in [Walks -> {"off", "call", "slice", "got", "inside", "done"}]
BY OpensItFacts DEF Located, VisitsAll

\* After a failed read nothing is promised to it.
LEMMA FaultEnds ==
  ASSUME visited' \in Seq(Visits), fault' \/ pc'["find"] = "off"
  PROVE  VisitsAll'
BY DEF VisitsAll, Finding, FindVisitsAll, Nested, Moving

LEMMA FindNextOpen ==
  ASSUME RealTables, Located, NextPartition("open")
  PROVE  VisitsAll'
<1> DEFINE d == Disk("find")
           x == w["find"]
<1>1. /\ Typed /\ Straight /\ Turnwise /\ Opening /\ Finding /\ Nested
      /\ visited \in Seq(Visits) /\ d \in Readings
      /\ "open" \in Walks /\ "find" \in Walks /\ Step("open")
  BY LocatedFacts DEF Step
<1>2. /\ pc["open"] \in {"call", "slice"} /\ pc'["open"] \in {"got", "slice", "done"}
      /\ pc'["find"] = pc["find"] /\ w'["find"] = x
      /\ UNCHANGED <<disk, drive, dest, fault, visited>>
  BY <1>1, StepFrame, StepTables
<1>3. pc["find"] \in {"off", "inside"} /\ Disk("find")' = d
  BY <1>1, <1>2 DEF Turnwise, Disk
<1>4. ASSUME pc["find"] = "inside", ~fault, d \notin Cyclic
      PROVE  Sound(d, x, "inside")'
  <2>1. Disk("open") = d
    BY <1>1, <1>4 DEF Nested, Disk
  <2>2. Sound(d, w["open"], pc["open"])
    <3>1. CASE w["open"].part = None
      <4>1. w["open"].sub = None
        BY <1>1, <1>2, <3>1 DEF Straight, Moving
      <4> QED
        BY <1>2, <3>1, <4>1, StartSound
    <3>2. CASE w["open"].part # None
      <4>1. Seen("open") = d
        BY <1>1, <1>2, <1>4, <2>1, <3>2 DEF Straight, Moving
      <4> HIDE DEF d
      <4> QED
        BY <1>1, <1>2, <1>4, <3>2, <4>1 DEF Opening, Moving
    <3> QED
      BY <3>1, <3>2
  <2>3. OnDisk("open", d) /\ Takes("open", d)
    <3>1. pc["open"] # "off"
      BY <1>2
    <3>2. dest["open"].part \in 0..None
      BY <1>1, <3>1 DEF Turnwise
    <3>3. Takes("open", d)
      BY <1>1, <2>1, StepTables DEF Takes
    <3> QED
      BY <1>1, <1>4, <2>1, <2>2, <3>2, <3>3 DEF OnDisk
  <2>4. Place(d, x, "inside") /\ Known(d, x, gpt, gpt_max, primary)
    BY <1>1, <1>4 DEF Finding, Moving, Sound
  <2>5. Known(d, x, gpt', gpt_max', primary')
    BY <1>1, <2>3, <2>4, KnownStays
  <2> QED
    BY <1>2, <1>3, <2>4, <2>5 DEF Sound
<1>5. Finding'
  <2> SUFFICES ASSUME Moving("find")', ~fault', d \notin Cyclic
               PROVE  /\ Sound(d, x, "inside")'
                      /\ {visited[i] : i \in DOMAIN visited} = Wanted(d, x, "inside")
                      /\ \A i, j \in DOMAIN visited : i # j => visited[i] # visited[j]
    BY <1>2, <1>3 DEF Finding, Moving
  <2>1. pc["find"] = "inside" /\ ~fault
    BY <1>2, <1>3 DEF Moving
  <2> QED
    BY <1>1, <1>4, <2>1 DEF Finding, Moving
<1>6. FindVisitsAll' /\ Nested'
  BY <1>1, <1>2, <1>3 DEF FindVisitsAll, Nested
<1> QED
  BY <1>1, <1>2, <1>5, <1>6 DEF VisitsAll

\* What is looked into depends on what comes before.
LEMMA SameWanted ==
  ASSUME NEW d, NEW x, NEW at, NEW y, NEW yat,
         \A p \in Partitions[d] : Looks(p) /\ ~Reserved(d, p) => (Past(p, x, at) <=> Past(p, y, yat))
  PROVE  Wanted(d, x, at) = Wanted(d, y, yat)
BY DEF Wanted

LEMMA FindNextFind ==
  ASSUME RealTables, Located, NextPartition("find")
  PROVE  VisitsAll'
<1> DEFINE d == Disk("find")
           x == w["find"]
           at == pc["find"]
<1>1. /\ Typed /\ Turnwise /\ Finding /\ visited \in Seq(Visits) /\ d \in Readings
      /\ "open" \in Walks /\ "find" \in Walks /\ Step("find") /\ Takes("find", d)
  BY LocatedFacts, StepTables DEF Step, Takes
<1>2. /\ at \in {"call", "slice"} /\ pc'["find"] \in {"got", "slice", "done"}
      /\ UNCHANGED <<disk, drive, dest, fault, visited>>
      /\ \A y : Reports("find", y) => pc'["find"] = "got" /\ w'["find"] = y
      /\ \A y : Turns("find", y) => pc'["find"] = "slice" /\ w'["find"] = y
      /\ Fails("find") => pc'["find"] = "done" /\ w' = w
  BY <1>1, StepFrame, StepTables
<1>3. Disk("find")' = d /\ dest["find"] = Whole /\ visited' \in Seq(Visits) /\ Nested'
  BY <1>1, <1>2 DEF Disk, Turnwise, Nested
<1>4. CASE fault \/ d \in Cyclic
  BY <1>2, <1>3, <1>4 DEF VisitsAll, Finding, FindVisitsAll, Disk
<1>5. CASE ~fault /\ d \notin Cyclic
  <2>1. /\ OnDisk("find", d) /\ {visited[i] : i \in DOMAIN visited} = Wanted(d, x, at)
        /\ \A i, j \in DOMAIN visited : i # j => visited[i] # visited[j]
    BY <1>1, <1>2, <1>3, <1>5 DEF OnDisk, Finding, Moving
  <2>2. StepsOn("find", d)
    BY <1>1, <2>1, StepStep
  <2>3. \A p : Skips(d, p, Whole) => Reserved(d, p)
    BY DEF Skips
  <2>4. CASE ReportsNext("find", d)
    <3>1. PICK y \in Cursor :
            /\ Reports("find", y)
            /\ Place(d, y, "got") /\ Known(d, y, gpt', gpt_max', primary') /\ Labelled(d, y, mbr')
            /\ ~Reserved(d, y)
            /\ \A p \in Partitions[d] :
                 /\ Past(p, x, at) => Past(p, y, "got")
                 /\ Past(p, y, "got") => Past(p, x, at) \/ Skips(d, p, Whole)
      BY <1>3, <2>4 DEF ReportsNext
    <3>2. Wanted(d, x, at) = Wanted(d, y, "got")
      BY <2>3, <3>1, SameWanted
    <3>3. pc'["find"] = "got" /\ w'["find"] = y
      BY <1>2, <3>1
    <3>4. Finding'
      BY <1>2, <1>3, <2>1, <3>1, <3>2, <3>3 DEF Finding, Sound
    <3> QED
      BY <1>3, <3>3, <3>4 DEF VisitsAll, FindVisitsAll
  <2>5. CASE TurnsOn("find", d)
    <3>1. PICK y \in Cursor :
            /\ Turns("find", y)
            /\ Place(d, y, "slice") /\ Known(d, y, gpt', gpt_max', primary')
            /\ \A p \in Partitions[d] : Past(p, x, at) <=> Past(p, y, "slice")
      BY <2>5 DEF TurnsOn
    <3>2. Wanted(d, x, at) = Wanted(d, y, "slice")
      BY <3>1, SameWanted
    <3>3. pc'["find"] = "slice" /\ w'["find"] = y
      BY <1>2, <3>1
    <3>4. Finding'
      BY <1>2, <1>3, <2>1, <3>1, <3>2, <3>3 DEF Finding, Sound
    <3> QED
      BY <1>3, <3>3, <3>4 DEF VisitsAll, FindVisitsAll
  <2>6. CASE EndsWalk("find", d)
    <3>1. /\ Fails("find") /\ at = "slice"
          /\ \A p \in Partitions[d] : Past(p, x, "slice") \/ Skips(d, p, Whole)
      BY <1>3, <2>6 DEF EndsWalk, LooksIn, Whole
    <3>2. Wanted(d, x, at) =
            {Visit(p) : p \in {p \in Partitions[d] : Looks(p) /\ ~Reserved(d, p)}}
      BY <2>3, <3>1 DEF Wanted
    <3>3. pc'["find"] = "done"
      BY <1>2, <3>1
    <3>4. FindVisitsAll' /\ Finding'
      BY <1>2, <1>3, <2>1, <3>2, <3>3 DEF FindVisitsAll, Finding, Moving, Disk
    <3> QED
      BY <1>3, <3>4 DEF VisitsAll
  <2> QED
    BY <2>2, <2>4, <2>5, <2>6 DEF StepsOn
<1> QED
  BY <1>4, <1>5

LEMMA FindBegins ==
  ASSUME RealTables, Located, Find
  PROVE  VisitsAll'
<1>1. /\ Turnwise /\ Typed /\ "find" \in Walks /\ "open" \in Walks
      /\ pc \in [Walks -> {"off", "call", "slice", "got", "inside", "done"}]
  BY LocatedFacts
<1>2. pc'["find"] = "call" /\ visited' = <<>> /\ w'["find"] = Fresh
  BY <1>1 DEF Find, Goto, Begin, Typed
<1>3. DOMAIN <<>> = {} /\ <<>> \in Seq(Visits)
  OBVIOUS
<1>4. \A d : Wanted(d, Fresh, "call") = {}
  BY BeginSound DEF Wanted
<1>5. \A d : Sound(d, Fresh, "call")'
  BY BeginSound
<1>6. {visited'[i] : i \in DOMAIN visited'} = {}
  BY <1>2, <1>3
<1>7. Finding'
  BY <1>2, <1>3, <1>4, <1>5, <1>6 DEF Finding
<1> QED
  BY <1>2, <1>3, <1>7 DEF VisitsAll, FindVisitsAll, Nested

\* The partition that has been opened is the one `find` is at, and its label is
\* in the buffer.
LEMMA FindOpened ==
  ASSUME RealTables, Located, OpenOver
  PROVE  VisitsAll'
<1> DEFINE d == Disk("find")
           x == w["find"]
           o == w["open"]
           q == dest["open"]
<1>1. /\ Typed /\ Straight /\ Turnwise /\ Opening /\ OpenFindsIt /\ Finding /\ Nested /\ visited \in Seq(Visits)
      /\ d \in Readings /\ x \in Cursor /\ "open" \in Walks /\ "find" \in Walks
      /\ pc \in [Walks -> {"off", "call", "slice", "got", "inside", "done"}]
  BY LocatedFacts
<1>2. /\ pc["open"] = "done" /\ pc'["open"] = "off" /\ pc'["find"] = pc["find"]
      /\ UNCHANGED <<disk, tables, drive, dest, w, fault, visited>>
  BY <1>1 DEF OpenOver, Goto
<1>3. pc["find"] \in {"off", "inside"} /\ Disk("find")' = d
  BY <1>1, <1>2 DEF Turnwise, Disk
<1>4. Finding' /\ FindVisitsAll'
  BY <1>1, <1>2, <1>3 DEF Finding, FindVisitsAll, Sound, Moving, Disk, tables
<1>5. ASSUME pc["find"] = "inside", ~fault, d \notin Cyclic
      PROVE  Labelled(d, x, mbr)
  <2>1. /\ drive["open"] = drive["find"] /\ q = [part |-> x.part, sub |-> x.sub]
        /\ Seen("open") = d /\ Place(d, x, "inside") /\ x.part # None
    <3>1. Disk("open") = d
      BY <1>1, <1>5 DEF Nested, Disk
    <3>2. Seen("open") = d
      BY <1>1, <1>2, <1>5, <3>1 DEF Straight
    <3> QED
      BY <1>1, <1>5, <3>2 DEF Nested, Finding, Moving, Sound, Place
  <2>2. SUFFICES ASSUME x.sub # None PROVE Labelled(d, x, mbr)
    BY DEF Labelled
  <2>3. PICK p \in Partitions[d] : p.part = x.part /\ p.sub = x.sub /\ p.type = "bsd"
    BY <1>1, <1>5, <2>1, <2>2, CurrentFacts
  <2>4. IsDest(p, q)
    BY <2>1, <2>3 DEF IsDest
  <2>5. p \in Named(d, q)
    BY <2>1, <2>4 DEF Named
  <2>6. opened
    BY <1>1, <1>2, <1>5, <2>1, <2>5 DEF OpenFindsIt
  <2>7. PICK y \in Named(d, q) : Visit(y) = Visit(o)
    BY <1>1, <1>2, <1>5, <2>1, <2>6 DEF OpenFindsIt
  <2>8. y.part = x.part /\ y.sub = x.sub
    <3>1. IsDest(y, q) /\ q.part = x.part /\ q.sub = x.sub
      BY <2>1, <2>7 DEF Named
    <3>2. q = [part |-> y.part, sub |-> y.sub]
      BY <2>1, <3>1 DEF IsDest
    <3> QED
      BY <3>1, <3>2
  <2>9. o.part = y.part /\ o.sub = y.sub
    BY <2>7 DEF Visit
  <2>10. Labelled(d, o, mbr)
    BY <1>1, <1>2, <1>5, <2>1, <2>6 DEF Opening
  <2> QED
    BY <2>8, <2>9, <2>10 DEF Labelled
<1>6. Nested'
  BY <1>1, <1>2, <1>3, <1>5 DEF Nested, Disk, tables
<1> QED
  BY <1>1, <1>2, <1>4, <1>6 DEF VisitsAll

\* One that is not looked into.
LEMMA FindPassesStep ==
  ASSUME RealTables, Located, FindPasses
  PROVE  VisitsAll'
<1> DEFINE d == Disk("find")
           x == w["find"]
<1>1. /\ Typed /\ Turnwise /\ Finding /\ visited \in Seq(Visits)
      /\ d \in Readings /\ x \in Cursor /\ "open" \in Walks /\ "find" \in Walks
      /\ pc \in [Walks -> {"off", "call", "slice", "got", "inside", "done"}]
  BY LocatedFacts
<1>2. /\ pc["find"] = "got" /\ ~Looks(x) /\ pc'["find"] = "call"
      /\ UNCHANGED <<disk, tables, drive, dest, w, fault, visited>>
  BY <1>1 DEF FindPasses, Goto
<1>3. Disk("find")' = d
  BY <1>2 DEF Disk
<1>4. ASSUME ~fault, d \notin Cyclic
      PROVE  Sound(d, x, "call") /\ Wanted(d, x, "call") = Wanted(d, x, "got")
  <2>1. Sound(d, x, "got") /\ Place(d, x, "got")
    BY <1>1, <1>2, <1>4 DEF Finding, Moving, Sound
  <2>2. x.part # None
    BY <2>1 DEF Place
  <2>3. Sound(d, x, "call")
    BY <2>1, <2>2 DEF Sound, Place
  <2>4. \A p \in Partitions[d] : Looks(p) => (Past(p, x, "call") <=> Past(p, x, "got"))
    BY <1>1, <1>2, <1>4, <2>1, <2>2, CurrentFacts
  <2> QED
    BY <2>3, <2>4, SameWanted
<1>5. Finding'
  BY <1>1, <1>2, <1>3, <1>4 DEF Finding, Moving, Sound, tables
<1> QED
  BY <1>1, <1>2, <1>5 DEF VisitsAll, FindVisitsAll, Nested

\* A list with something new at its end.
LEMMA Appended ==
  ASSUME NEW S, NEW s \in Seq(S), NEW e \in S,
         \A i, j \in DOMAIN s : i # j => s[i] # s[j],
         e \notin {s[i] : i \in DOMAIN s}
  PROVE  LET t == Append(s, e)
         IN /\ t \in Seq(S) /\ {t[i] : i \in DOMAIN t} = {s[i] : i \in DOMAIN s} \cup {e}
            /\ \A i, j \in DOMAIN t : i # j => t[i] # t[j]
<1> DEFINE t == Append(s, e)
           n == Len(s)
<1>1. /\ n \in Nat /\ DOMAIN s = 1..n /\ t \in Seq(S) /\ Len(t) = n + 1 /\ DOMAIN t = 1..(n + 1)
      /\ \A i \in 1..n : t[i] = s[i]
      /\ t[n + 1] = e
  OBVIOUS
<1> HIDE DEF t
<1>2. 1..(n + 1) = (1..n) \cup {n + 1}
  BY <1>1
<1>3. {t[i] : i \in DOMAIN t} = {s[i] : i \in DOMAIN s} \cup {e}
  BY <1>1, <1>2
<1>4. \A i, j \in DOMAIN t : i # j => t[i] # t[j]
  <2> SUFFICES ASSUME NEW i \in DOMAIN t, NEW j \in DOMAIN t, i # j PROVE t[i] # t[j]
    OBVIOUS
  <2>1. i \in 1..n \/ i = n + 1
    BY <1>1
  <2>2. j \in 1..n \/ j = n + 1
    BY <1>1
  <2>3. \A m \in 1..n : s[m] # e
    BY <1>1
  <2> QED
    BY <1>1, <2>1, <2>2, <2>3
<1> QED
  BY <1>1, <1>3, <1>4 DEF t

\* One that is.
LEMMA FindLooksStep ==
  ASSUME RealTables, Conditions = {}, Located, FindLooks
  PROVE  VisitsAll'
<1> DEFINE d == Disk("find")
           x == w["find"]
<1>1. /\ Typed /\ Turnwise /\ Finding /\ visited \in Seq(Visits)
      /\ d \in Readings /\ x \in Cursor /\ "open" \in Walks /\ "find" \in Walks
      /\ pc \in [Walks -> {"off", "call", "slice", "got", "inside", "done"}]
  BY LocatedFacts
<1>2. /\ pc["find"] = "got" /\ Looks(x) /\ pc'["find"] = "inside" /\ pc'["open"] = "call"
      /\ visited' = Append(visited, Visit(x))
      /\ Begin("open", drive["find"], [part |-> x.part, sub |-> x.sub])
      /\ UNCHANGED <<disk, tables, fault>>
  BY <1>1 DEF FindLooks
<1>3. /\ drive'["find"] = drive["find"] /\ drive'["open"] = drive["find"] /\ w'["find"] = x
      /\ dest'["open"] = [part |-> x.part, sub |-> x.sub]
  BY <1>1, <1>2 DEF Begin, Typed, Turnwise
<1>4. Disk("find")' = d /\ Nested'
  BY <1>2, <1>3 DEF Disk, Nested
<1>5. Visit(x) \in Visits
  BY <1>1, Sizes DEF Visit, Visits, Cursor
<1>6. visited' \in Seq(Visits)
  BY <1>1, <1>2, <1>5
<1>7. ASSUME ~fault, d \notin Cyclic
      PROVE  /\ Sound(d, x, "inside")
             /\ {visited'[i] : i \in DOMAIN visited'} = Wanted(d, x, "inside")
             /\ \A i, j \in DOMAIN visited' : i # j => visited'[i] # visited'[j]
  <2>1. /\ Sound(d, x, "got") /\ Place(d, x, "got") /\ ~Reserved(d, x)
        /\ {visited[i] : i \in DOMAIN visited} = Wanted(d, x, "got")
        /\ \A i, j \in DOMAIN visited : i # j => visited[i] # visited[j]
    BY <1>1, <1>2, <1>7 DEF Finding, Moving, Sound
  <2>2. x.part # None
    BY <2>1 DEF Place
  <2>3. Sound(d, x, "inside")
    BY <2>1, <2>2 DEF Sound, Place
  <2>4. PICK p \in Partitions[d] :
          p.part = x.part /\ p.sub = x.sub /\ Visit(p) = Visit(x) /\ Looks(p)
    BY <1>1, <1>2, <1>7, <2>1, <2>2, CurrentFacts
  <2>5. \A y \in Partitions[d] :
          /\ Past(y, x, "inside") <=> Past(y, x, "got") \/ (y.part = x.part /\ y.sub = x.sub)
          /\ y.part = x.part /\ y.sub = x.sub => Visit(y) = Visit(x)
          /\ Past(y, x, "got") => ~(y.part = x.part /\ y.sub = x.sub)
    <3>1. \A y : Past(y, x, "inside") <=> Past(y, x, "call")
      BY DEF Past
    <3> QED
      BY <1>1, <1>7, <2>1, <2>2, <3>1, CurrentFacts
  <2>6. ~Reserved(d, p)
    BY <2>1, <2>4 DEF Reserved
  <2>7. Wanted(d, x, "inside") = Wanted(d, x, "got") \cup {Visit(x)}
    BY <2>4, <2>5, <2>6 DEF Wanted
  <2>8. Visit(x) \notin Wanted(d, x, "got")
    <3> SUFFICES ASSUME NEW y \in Partitions[d], Past(y, x, "got"), Visit(y) = Visit(x)
                 PROVE  FALSE
      BY DEF Wanted
    <3>1. y.part = x.part /\ y.sub = x.sub
      BY DEF Visit
    <3> QED
      BY <2>5, <3>1
  <2> QED
    BY <1>1, <1>2, <1>5, <2>1, <2>3, <2>7, <2>8, Appended
<1>8. Finding'
  BY <1>2, <1>3, <1>4, <1>7 DEF Finding, Sound, tables
<1> QED
  BY <1>2, <1>4, <1>6, <1>8 DEF VisitsAll, FindVisitsAll

LEMMA FindOnStep ==
  ASSUME RealTables, Located, FindOn
  PROVE  VisitsAll'
<1> DEFINE d == Disk("find")
           x == w["find"]
<1>1. /\ Typed /\ Finding /\ Nested /\ visited \in Seq(Visits) /\ "find" \in Walks
      /\ pc \in [Walks -> {"off", "call", "slice", "got", "inside", "done"}]
  BY LocatedFacts
<1>2. /\ pc["find"] = "inside" /\ pc["open"] = "off" /\ pc'["find"] = "call"
      /\ UNCHANGED <<disk, tables, drive, dest, w, fault, visited>>
  BY <1>1 DEF FindOn, Goto
<1>3. Disk("find")' = d
  BY <1>2 DEF Disk
<1>4. ASSUME ~fault, d \notin Cyclic
      PROVE  Sound(d, x, "call") /\ Wanted(d, x, "call") = Wanted(d, x, "inside")
  <2>1. Sound(d, x, "inside") /\ Labelled(d, x, mbr)
    BY <1>1, <1>2, <1>4 DEF Finding, Moving, Nested
  <2>2. Sound(d, x, "call")
    BY <2>1 DEF Sound, Place
  <2>3. \A p : Past(p, x, "call") <=> Past(p, x, "inside")
    BY DEF Past
  <2> QED
    BY <2>2, <2>3, SameWanted
<1>5. Finding'
  BY <1>1, <1>2, <1>3, <1>4 DEF Finding, Moving, Sound, tables
<1> QED
  BY <1>1, <1>2, <1>5 DEF VisitsAll, FindVisitsAll, Nested

\* Steps that leave `find` where it is.
LEMMA FindStays ==
  ASSUME RealTables, Located, OpenGot \/ Devread \/ UNCHANGED vars
  PROVE  VisitsAll'
<1>1. /\ Finding /\ FindVisitsAll /\ Nested /\ visited \in Seq(Visits)
      /\ "open" \in Walks /\ "find" \in Walks
      /\ pc \in [Walks -> {"off", "call", "slice", "got", "inside", "done"}]
  BY LocatedFacts
<1>2. /\ pc'["find"] = pc["find"] /\ (pc'["open"] = "off" => pc["open"] = "off")
      /\ UNCHANGED <<disk, tables, drive, dest, w, fault, visited>>
  BY <1>1 DEF OpenGot, Devread, Goto, vars, tables
<1> QED
  BY <1>1, <1>2 DEF VisitsAll, Finding, FindVisitsAll, Nested, Sound, Moving, Disk, tables

LEMMA FindEnds ==
  ASSUME Located, OpenPartition \/ FindOver \/ \E c \in Walks : ReadFails(c)
  PROVE  VisitsAll'
<1>1. /\ Typed /\ visited \in Seq(Visits) /\ <<>> \in Seq(Visits)
      /\ "open" \in Walks /\ "find" \in Walks
      /\ pc \in [Walks -> {"off", "call", "slice", "got", "inside", "done"}]
  BY LocatedFacts
<1>2. CASE OpenPartition \/ FindOver
  <2>1. visited' \in Seq(Visits) /\ pc'["find"] = "off"
    BY <1>1, <1>2 DEF OpenPartition, FindOver, Idle, Goto
  <2> QED
    BY <2>1, FaultEnds
<1>3. ASSUME NEW c \in Walks, ReadFails(c) PROVE VisitsAll'
  <2>1. visited' = visited /\ fault' = TRUE
    <3>1. CASE HeaderUnread(c)
      <4>1. PICK e \in Walks : c # e
        BY DEF Walks
      <4> QED
        BY <1>1, <3>1, <4>1, StepFrame DEF Step, HeaderUnread
    <3>2. CASE TableUnread(c) \/ EntryUnread(c) \/ LabelUnread(c)
      BY <1>1, <3>2, UnreadSafe
    <3> QED
      BY <1>3, <3>1, <3>2 DEF ReadFails
  <2> QED
    BY <1>1, <2>1, FaultEnds
<1> QED
  BY <1>2, <1>3

LEMMA FindNext ==
  ASSUME RealTables, Conditions = {}, Located, [Next]_vars
  PROVE  Located'
<1>1. OpensIt'
  BY OpenNext DEF Located
<1>2. (\E c \in Walks : NextPartition(c)) => VisitsAll'
  BY FindNextOpen, FindNextFind DEF Walks
<1>3. (\E c \in Walks : ReadFails(c)) => VisitsAll'
  BY FindEnds
<1>4. OpenPartition \/ Find \/ FindOver \/ Devread => VisitsAll'
  BY FindEnds, FindBegins, FindStays
<1>5. OpenGot \/ OpenOver \/ FindPasses \/ FindLooks \/ FindOn \/ UNCHANGED vars => VisitsAll'
  BY FindStays, FindOpened, FindPassesStep, FindLooksStep, FindOnStep
<1> QED
  BY <1>1, <1>2, <1>3, <1>4, <1>5 DEF Located, Next, Walking

LEMMA FindInit == Init => Located
<1> SUFFICES ASSUME Init PROVE Located
  OBVIOUS
<1>1. pc["find"] = "off" /\ visited = <<>> /\ <<>> \in Seq(Visits)
  BY DEF Init, Walks
<1> QED
  BY <1>1, OpenInit DEF Located, VisitsAll, Finding, FindVisitsAll, Nested, Moving

\* `find` looks into each partition of a drive exactly once, unless a read fails
\* or the chain of records bites its tail, although each look opens a partition
\* in the middle of its walk (disk_io.c's next_partition, builtins.c's
\* find_func); no CONDITION opens another drive.
THEOREM Visiting ==
  ASSUME RealTables, Conditions = {}
  PROVE  Spec => []FindVisitsAll
<1>1. Located /\ [Next]_vars => Located'
  BY FindNext
<1>2. Located => FindVisitsAll
  BY DEF Located, VisitsAll
<1> QED
  BY <1>1, <1>2, FindInit, PTL DEF Spec

=============================================================================
