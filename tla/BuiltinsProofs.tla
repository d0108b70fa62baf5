---------------------------- MODULE BuiltinsProofs ----------------------------
(***************************************************************************)
(* The commands of builtins.c that keep a state of their own: map, and the *)
(* scripts that run commands.                                              *)
(*                                                                         *)
(* Where map --mem puts memory drives, for every memory map, page size,    *)
(* table and sequence of commands: apart from each other and in usable     *)
(* memory; with room in the table, a --rehook finds a place for each one   *)
(* it has taken out; and a drive number means what it was mapped to, when  *)
(* it was mapped: the drive map implements DriveNames.                     *)
(*                                                                         *)
(* The scope of setlocal, for every script: whatever it holds, however the *)
(* subroutines and the scripts call each other, wherever an error, an exit *)
(* or Ctrl-C ends them.  The activations of bat_run_script and the saved   *)
(* variables are two stacks; what keeps them in step is bc, which each     *)
(* activation takes over and gives back.                                   *)
(***************************************************************************)
EXTENDS DriveMap, BatchRun, SequenceTheorems, FiniteSetTheorems, WellFoundedInduction, TLAPS

-----------------------------------------------------------------------------
(* The drive map *)

Slots == [from : Numbers, to : Numbers \cup {MEM}, start : Nat, count : Nat, img : Nat]
Table == Seq(Slots)

\* A memory drive has sectors, within a usable range.
First(s) == Down(s.start)
PastEnd(s) == Up(s.start + s.count)
Within(s) ==
  s.count > 0 /\ \E r \in Regions : s.start >= Lowest(r) /\ s.start + s.count <= Highest(r, TRUE)

\* Two memory drives of a table have no page in common.
Above(s, q) == PastEnd(q) <= First(s)
Apart(t) == \A i, j \in InMemory(t) : i # j => Above(t[i], t[j]) \/ Above(t[j], t[i])
Placed(t) == (\A i \in InMemory(t) : Within(t[i])) /\ Apart(t)

\* While a --rehook is at work, memory drives wait, in the order of their old
\* places, highest first, and below those that have their new ones.
Moving(q) == \A i \in DOMAIN q : q[i].to = MEM /\ Within(q[i])
Descending(q) == \A i, j \in DOMAIN q : i < j => Above(q[i], q[j])
Below(q, t) == \A i \in DOMAIN q : \A k \in InMemory(t) : Above(t[k], q[i])

PlacedInv ==
  /\ TypeOK /\ Placed(bios_drive_map)
  /\ pc = "rehook" => Moving(hooked_drive_map)
MovedInv ==
  /\ PlacedInv /\ pc # "fatal"
  /\ pc = "rehook" =>
       Descending(hooked_drive_map) /\ Below(hooked_drive_map, bios_drive_map)

-----------------------------------------------------------------------------
(* Numbers: pages, the least and the greatest of a set *)

LEMMA Constants ==
  /\ DRIVE_MAP_SIZE \in Nat \ {0} /\ Page \in Nat \ {0} /\ Memory \in Nat \ {0}
  /\ map_mem_min \in Nat /\ map_mem_max \in Nat /\ FourGB \in Nat
BY DriveMapAssumption

LEMMA RegionFacts ==
  ASSUME NEW r \in Regions
  PROVE  r[1] \in Nat /\ r[2] \in Nat /\ r[2] <= Memory
BY DriveMapAssumption

LEMMA Least ==
  ASSUME NEW S \in SUBSET Nat, S # {}
  PROVE  \E i \in S : \A j \in S : i <= j
<1> DEFINE R == {ss \in Nat \X Nat : ss[1] < ss[2]}
<1>1. IsWellFoundedOn(R, Nat)
  BY NatLessThanWellFounded DEF OpToRel
<1>2. \E i \in S : \A j \in S : ~(<<j, i>> \in R)
  <2> HIDE DEF R
  <2> QED
    BY <1>1, WFMin
<1>3. PICK i \in S : \A j \in S : ~(<<j, i>> \in R)
  BY <1>2
<1>4. \A j \in S : ~(j < i)
  BY <1>3
<1> QED
  BY <1>3, <1>4

\* A bounded set of numbers has a greatest one: the least distance to the bound.
LEMMA Greatest ==
  ASSUME NEW n \in Nat, NEW S \in SUBSET (0..n), S # {}
  PROVE  \E i \in S : \A j \in S : j <= i
<1> DEFINE D == {d \in 0..n : n - d \in S}
<1>1. D \in SUBSET Nat /\ D # {}
  <2>1. PICK j \in S : TRUE
    OBVIOUS
  <2>2. n - j \in D
    BY <2>1
  <2>3. D \in SUBSET Nat
    OBVIOUS
  <2> HIDE DEF D
  <2> QED
    BY <2>2, <2>3
<1>2. PICK d \in D : \A e \in D : d <= e
  <2> HIDE DEF D
  <2> QED
    BY <1>1, Least
<1>3. \A j \in S : d <= n - j
  <2> SUFFICES ASSUME NEW j \in S PROVE d <= n - j
    OBVIOUS
  <2>1. n - j \in D
    OBVIOUS
  <2> QED
    BY <1>2, <2>1
<1>4. n - d \in S
  OBVIOUS
<1> QED
  BY <1>3, <1>4

LEMMA Cancel ==
  ASSUME NEW p \in Nat \ {0}, NEW j \in Nat, NEW m \in Nat, j * p < m * p
  PROVE  j < m
<1>1. SUFFICES ASSUME m <= j PROVE FALSE
  OBVIOUS
<1>2. PICK e \in Nat : j = m + e
  BY <1>1
<1>3. j * p = m * p + e * p
  BY <1>2
<1>4. e * p \in Nat /\ m * p \in Nat
  OBVIOUS
<1> QED
  BY <1>3, <1>4

LEMMA Quotient ==
  ASSUME NEW n \in Nat
  PROVE  /\ n \div Page \in Nat /\ Down(n) = (n \div Page) * Page
         /\ Down(n) \in Nat /\ Down(n) <= n /\ n < Down(n) + Page
<1>1. n \div Page \in Nat /\ n = Page * (n \div Page) + (n % Page) /\ n % Page \in 0..(Page - 1)
  BY Constants
<1> DEFINE q == n \div Page
<1>2. q \in Nat /\ Down(n) = q * Page
  BY <1>1 DEF Down
<1>3. q * Page = Page * q /\ q * Page \in Nat
  BY <1>2, Constants
<1> QED
  BY <1>1, <1>2, <1>3, Constants

\* A page boundary at or below n is at or below the last one there.
LEMMA Multiple ==
  ASSUME NEW k \in Nat
  PROVE  k * Page \in Nat /\ Down(k * Page) = k * Page
<1>1. k * Page \in Nat
  BY Constants
<1>2. (k * Page) \div Page = k
  BY Constants
<1> QED
  BY <1>1, <1>2 DEF Down

LEMMA DownFacts ==
  ASSUME NEW n \in Nat
  PROVE  /\ Down(n) \in Nat /\ Down(n) <= n /\ n < Down(n) + Page
         /\ Down(Down(n)) = Down(n)
         /\ \A a \in Nat : Down(a) = a /\ a <= n => a <= Down(n)
<1>1. Down(Down(n)) = Down(n)
  BY Quotient, Multiple
<1>2. ASSUME NEW a \in Nat, Down(a) = a, a <= n PROVE a <= Down(n)
  <2> DEFINE j == a \div Page
             k == n \div Page
  <2>1. j \in Nat /\ k \in Nat /\ a = j * Page /\ Down(n) = k * Page /\ n < k * Page + Page
    BY <1>2, Quotient
  <2> HIDE DEF j, k
  <2>2. (k + 1) * Page = k * Page + Page
    BY <2>1, Constants
  <2>3. j * Page < (k + 1) * Page
    <3>1. a < k * Page + Page
      BY <2>1, <1>2, Constants
    <3> QED
      BY <2>1, <2>2, <3>1
  <2>4. j < k + 1
    BY <2>1, <2>3, Cancel, Constants
  <2>5. PICK e \in Nat : k = j + e
    BY <2>1, <2>4
  <2>6. k * Page = j * Page + e * Page /\ e * Page \in Nat /\ j * Page \in Nat
    BY <2>1, <2>5, Constants
  <2> QED
    BY <2>1, <2>6
<1> QED
  BY <1>1, <1>2, Quotient

LEMMA SumAligned ==
  ASSUME NEW a \in Nat, NEW b \in Nat, Down(a) = a, Down(b) = b
  PROVE  Down(a + b) = a + b
<1>1. PICK j \in Nat, k \in Nat : a = j * Page /\ b = k * Page
  BY Quotient
<1>2. a + b = (j + k) * Page
  BY <1>1, Constants
<1> QED
  BY <1>2, Multiple

LEMMA UpFacts ==
  ASSUME NEW n \in Nat
  PROVE  /\ Up(n) \in Nat /\ n <= Up(n) /\ Up(n) < n + Page
         /\ Down(Up(n)) = Up(n)
         /\ \A a \in Nat : Down(a) = a /\ n <= a => Up(n) <= a
<1>1. n + Page - 1 \in Nat
  BY Constants
<1>2. /\ Up(n) \in Nat /\ Up(n) <= n + Page - 1 /\ n + Page - 1 < Up(n) + Page
      /\ Down(Up(n)) = Up(n)
  BY <1>1, DownFacts DEF Up
<1>3. ASSUME NEW a \in Nat, Down(a) = a, n <= a, a < Up(n) PROVE FALSE
  <2>1. a <= n + Page - 1 - 0 /\ Down(Page) = Page
    BY <1>2, <1>3, Constants, Multiple
  <2>2. Down(a + Page) = a + Page
    BY <1>3, <2>1, SumAligned, Constants
  <2>3. a + Page <= Up(n)
    <3>1. PICK j \in Nat, k \in Nat : a = j * Page /\ Up(n) = k * Page
      BY <1>2, <1>3, Quotient
    <3>2. j < k
      BY <3>1, <1>3, Cancel, Constants
    <3>3. PICK e \in Nat : k = (j + 1) + e
      BY <3>2
    <3>4. k * Page = j * Page + Page + e * Page /\ e * Page \in Nat
      BY <3>3, Constants
    <3> QED
      BY <3>1, <3>4, Constants
  <2> QED
    BY <2>3, <1>2, <1>3, Constants
<1> QED
  BY <1>2, <1>3, Constants

LEMMA LeastChosen ==
  ASSUME NEW S \in SUBSET Nat, S # {}
  PROVE  Min(S) \in S /\ \A j \in S : Min(S) <= j
BY Least DEF Min

-----------------------------------------------------------------------------
(* Usable ranges and the places that map --mem finds *)

LEMMA RangeFacts ==
  ASSUME NEW r \in Regions
  PROVE  /\ Lowest(r) \in Nat /\ Down(Lowest(r)) = Lowest(r)
         /\ \A top \in BOOLEAN :
              /\ Highest(r, top) \in Nat /\ Down(Highest(r, top)) = Highest(r, top)
              /\ Highest(r, top) <= Highest(r, TRUE) /\ Highest(r, top) <= r[2]
              /\ Highest(r, top) <= Memory
<1>1. (IF r[1] > map_mem_min THEN r[1] ELSE map_mem_min) \in Nat
  BY RegionFacts, Constants
<1>2. Lowest(r) \in Nat /\ Down(Lowest(r)) = Lowest(r)
  BY <1>1, UpFacts DEF Lowest
<1>3. ASSUME NEW top \in BOOLEAN
      PROVE  /\ Highest(r, top) \in Nat /\ Down(Highest(r, top)) = Highest(r, top)
             /\ Highest(r, top) <= Highest(r, TRUE) /\ Highest(r, top) <= r[2]
             /\ Highest(r, top) <= Memory
  <2> DEFINE limit(x) == IF ~x /\ map_mem_max > FourGB THEN FourGB ELSE map_mem_max
             end(x) == IF r[2] < limit(x) THEN r[2] ELSE limit(x)
             a == end(top)
             b == end(TRUE)
             m == r[2]
  <2>1. a \in Nat /\ b \in Nat /\ a <= b /\ a <= m /\ m \in Nat /\ m <= Memory /\ Memory \in Nat
    BY RegionFacts, Constants
  <2>2. Highest(r, top) = Down(a) /\ Highest(r, TRUE) = Down(b)
    BY DEF Highest
  <2>3. m = r[2]
    OBVIOUS
  <2> HIDE DEF a, b, m
  <2>4. /\ Down(a) \in Nat /\ Down(a) <= a /\ Down(Down(a)) = Down(a) /\ Down(b) \in Nat
        /\ Down(a) <= b => Down(a) <= Down(b)
    BY <2>1, DownFacts
  <2>5. Down(a) <= b /\ Down(a) <= m /\ Down(a) <= Memory
    BY <2>1, <2>4
  <2> QED
    BY <2>2, <2>3, <2>4, <2>5
<1> QED
  BY <1>2, <1>3

LEMMA SlotFacts ==
  ASSUME NEW t \in Table, NEW i \in DOMAIN t
  PROVE  /\ t[i] \in Slots /\ t[i].start \in Nat /\ t[i].count \in Nat
         /\ InMemory(t) \subseteq DOMAIN t /\ DOMAIN t = 1..Len(t) /\ Len(t) \in Nat
<1>1. DOMAIN t = 1..Len(t) /\ Len(t) \in Nat /\ t[i] \in Slots
  <2>1. t \in Seq(Slots)
    BY DEF Table
  <2> HIDE DEF Slots, Table
  <2> QED
    BY <2>1
<1>2. InMemory(t) \subseteq DOMAIN t
  BY DEF InMemory
<1> QED
  BY <1>1, <1>2 DEF Slots

\* The pages of a memory drive.
LEMMA PageFacts ==
  ASSUME NEW s, s.start \in Nat, s.count \in Nat
  PROVE  /\ First(s) \in Nat /\ PastEnd(s) \in Nat
         /\ Down(First(s)) = First(s) /\ Down(PastEnd(s)) = PastEnd(s)
         /\ First(s) <= s.start /\ s.start + s.count <= PastEnd(s)
         /\ s.start < First(s) + Page
         /\ s.count > 0 => First(s) < PastEnd(s)
         /\ Span(s) = First(s)..(PastEnd(s) - 1)
<1> DEFINE a == s.start
           b == s.start + s.count
<1>1. a \in Nat /\ b \in Nat /\ a <= b /\ (s.count > 0 => a < b)
  OBVIOUS
<1>2. First(s) = Down(a) /\ PastEnd(s) = Up(b) /\ Span(s) = Down(a)..(Up(b) - 1)
  BY DEF First, PastEnd, Span
<1> HIDE DEF a, b
<1>3. /\ Down(a) \in Nat /\ Down(a) <= a /\ a < Down(a) + Page /\ Down(Down(a)) = Down(a)
      /\ Up(b) \in Nat /\ b <= Up(b) /\ Down(Up(b)) = Up(b)
  BY <1>1, DownFacts, UpFacts
<1>4. s.count > 0 => Down(a) < Up(b)
  BY <1>1, <1>3
<1> QED
  BY <1>2, <1>3, <1>4 DEF a, b

\* What is not taken lies before or behind each memory drive of the table.
LEMMA TakenFacts ==
  ASSUME bios_drive_map \in Table
  PROVE  /\ Taken \in SUBSET Nat
         /\ \A a \in Nat :
              a \in Taken <=>
                \E i \in InMemory(bios_drive_map) :
                   First(bios_drive_map[i]) <= a /\ a < PastEnd(bios_drive_map[i])
<1> DEFINE S(i) == Span(bios_drive_map[i])
<1>1. ASSUME NEW i \in InMemory(bios_drive_map)
      PROVE  /\ S(i) \in SUBSET Nat
             /\ \A a \in Nat : a \in S(i) <=> First(bios_drive_map[i]) <= a /\ a < PastEnd(bios_drive_map[i])
  <2>1. i \in DOMAIN bios_drive_map
    BY DEF InMemory
  <2>2. bios_drive_map[i].start \in Nat /\ bios_drive_map[i].count \in Nat
    BY <2>1, SlotFacts
  <2>3. /\ First(bios_drive_map[i]) \in Nat /\ PastEnd(bios_drive_map[i]) \in Nat
        /\ S(i) = First(bios_drive_map[i])..(PastEnd(bios_drive_map[i]) - 1)
    BY <2>2, PageFacts
  <2> HIDE DEF S
  <2> QED
    BY <2>3
<1>2. Taken = UNION {S(i) : i \in InMemory(bios_drive_map)}
  BY DEF Taken
<1> HIDE DEF S
<1> QED
  BY <1>1, <1>2

\* A range of whole pages none of which is taken is apart from each memory drive.
LEMMA FreeRange ==
  ASSUME bios_drive_map \in Table, Placed(bios_drive_map), NEW i \in InMemory(bios_drive_map),
         NEW a \in Nat, NEW b \in Nat, a < b, (a..(b - 1)) \cap Taken = {}
  PROVE  PastEnd(bios_drive_map[i]) <= a \/ b <= First(bios_drive_map[i])
<1> DEFINE f == First(bios_drive_map[i])
           e == PastEnd(bios_drive_map[i])
<1>1. i \in DOMAIN bios_drive_map
  BY DEF InMemory
<1>2. bios_drive_map[i].start \in Nat /\ bios_drive_map[i].count \in Nat /\ bios_drive_map[i].count > 0
  BY <1>1, SlotFacts DEF Placed, Within
<1>3. f \in Nat /\ e \in Nat /\ f < e
  BY <1>2, PageFacts
<1>4. \A n \in Nat : f <= n /\ n < e => n \in Taken
  BY TakenFacts
<1> HIDE DEF f, e
<1>5. SUFFICES ASSUME a < e, f < b PROVE FALSE
  BY <1>3 DEF f, e
<1>6. CASE a <= f
  BY <1>3, <1>4, <1>5, <1>6
<1>7. CASE f < a
  <2>1. a \in Taken
    BY <1>3, <1>4, <1>5, <1>7
  <2>2. a \in a..(b - 1)
    OBVIOUS
  <2> QED
    BY <2>1, <2>2
<1> QED
  BY <1>3, <1>6, <1>7

LEMMA BaseFacts ==
  ASSUME NEW need \in Nat, NEW top \in BOOLEAN, NEW b \in Bases(need, top)
  PROVE  /\ b \in DOMAIN memory /\ b % Page = 0 /\ (b..(b + need - 1)) \cap Taken = {}
         /\ \E r \in Regions : b >= Lowest(r) /\ b + need <= Highest(r, top)
BY DEF Bases

\* Page boundaries are the multiples of Page.
LEMMA Boundary ==
  ASSUME NEW b \in Nat, b % Page = 0
  PROVE  Down(b) = b
<1>1. b = Page * (b \div Page) + (b % Page) /\ b \div Page \in Nat
  BY Constants
<1> DEFINE q == b \div Page
<1>2. q \in Nat /\ b = Page * q + 0 /\ Down(b) = q * Page
  BY <1>1 DEF Down
<1> HIDE DEF q
<1>3. Page * q = q * Page /\ Page * q \in Nat
  BY <1>2, Constants
<1> QED
  BY <1>2, <1>3

LEMMA BoundaryMod ==
  ASSUME NEW b \in Nat, Down(b) = b
  PROVE  b % Page = 0
<1>1. b = Page * (b \div Page) + (b % Page) /\ b \div Page \in Nat /\ b % Page \in 0..(Page - 1)
  BY Constants
<1> DEFINE q == b \div Page
           m == b % Page
<1>2. q \in Nat /\ b = Page * q + m /\ b = q * Page /\ m \in 0..(Page - 1)
  BY <1>1 DEF Down
<1>3. m = b % Page
  OBVIOUS
<1> HIDE DEF q, m
<1>4. Page * q = q * Page /\ Page * q \in Nat
  BY <1>2, Constants
<1>5. m = 0
  BY <1>2, <1>4, Constants
<1> QED
  BY <1>3, <1>5

\* The place found for a memory drive.
Fresh(p) ==
  /\ p[1] \in Nat /\ p[2] \in Nat \ {0}
  /\ \E r \in Regions : p[1] >= Lowest(r) /\ p[1] + p[2] <= Highest(r, TRUE)
  /\ \A i \in InMemory(bios_drive_map) :
       \/ PastEnd(bios_drive_map[i]) <= Down(p[1])
       \/ Up(p[1] + p[2]) <= First(bios_drive_map[i])

\* `need` is the number of sectors asked for, in whole pages.
LEMMA NeedFacts ==
  ASSUME NEW n \in Nat \ {0}, NEW mem \in Int
  PROVE  LET need == Up(IF mem < 0 /\ n < -mem THEN -mem ELSE n)
         IN  need \in Nat \ {0} /\ Down(need) = need
<1> DEFINE m == IF mem < 0 /\ n < -mem THEN -mem ELSE n
<1>1. m \in Nat \ {0}
  OBVIOUS
<1> HIDE DEF m
<1>2. Up(m) \in Nat /\ m <= Up(m) /\ Down(Up(m)) = Up(m)
  BY <1>1, UpFacts
<1>3. Up(m) \in Nat \ {0} /\ Down(Up(m)) = Up(m)
  BY <1>1, <1>2
<1> QED
  BY <1>3 DEF m

\* The highest base.
LEMMA TopPlace ==
  ASSUME bios_drive_map \in Table, Placed(bios_drive_map), DOMAIN memory = 0..(Memory - 1),
         NEW need \in Nat \ {0}, Down(need) = need, NEW top \in BOOLEAN,
         NEW b \in Bases(need, top)
  PROVE  b \in Nat /\ Down(b) = b /\ Up(b + need) = b + need /\ Fresh(<<b, need>>)
<1>1. b \in Nat
  BY BaseFacts, Constants
<1>2. Down(b) = b /\ (b..(b + need - 1)) \cap Taken = {}
  BY <1>1, BaseFacts, Boundary
<1>3. PICK r \in Regions : b >= Lowest(r) /\ b + need <= Highest(r, top)
  BY BaseFacts
<1>4. b + need <= Highest(r, TRUE)
  <2> DEFINE h == Highest(r, top)
             g == Highest(r, TRUE)
  <2>1. h \in Nat /\ g \in Nat /\ h <= g
    BY RangeFacts
  <2>2. b + need <= h
    BY <1>3
  <2> HIDE DEF h, g
  <2>3. b + need <= g
    BY <1>1, <2>1, <2>2
  <2> QED
    BY <2>3 DEF g
<1>5. Down(b + need) = b + need /\ b + need \in Nat
  BY <1>1, <1>2, SumAligned
<1>6. Up(b + need) = b + need
  <2> DEFINE e == b + need
  <2>1. e \in Nat /\ Down(e) = e
    BY <1>5
  <2> HIDE DEF e
  <2>2. Up(e) = e
    BY <2>1, UpFacts
  <2> QED
    BY <2>2 DEF e
<1>7. ASSUME NEW i \in InMemory(bios_drive_map)
      PROVE  PastEnd(bios_drive_map[i]) <= b \/ b + need <= First(bios_drive_map[i])
  <2>1. b + need \in Nat /\ b < b + need
    BY <1>1
  <2> QED
    BY <1>1, <1>2, <2>1, FreeRange
<1> QED
  BY <1>1, <1>2, <1>3, <1>4, <1>6, <1>7 DEF Fresh

\* --mem=BASE: all that is free from the base on.
LEMMA FixedPlace ==
  ASSUME bios_drive_map \in Table, Placed(bios_drive_map),
         NEW mem \in Nat, NEW need \in Nat \ {0}, NEW top \in BOOLEAN, NEW r \in Regions,
         mem >= Lowest(r), mem + need <= Highest(r, top),
         (mem..(mem + need - 1)) \cap Taken = {}
  PROVE  LET end == Min({Highest(r, top)} \cup {t \in Taken : t > mem})
         IN  Fresh(<<mem, end - mem>>)
<1> DEFINE h == Highest(r, top)
           g == Highest(r, TRUE)
           T == {t \in Taken : t > mem}
           end == Min({h} \cup T)
<1>1. h \in Nat /\ Down(h) = h /\ g \in Nat /\ h <= g
  BY RangeFacts
<1>2. mem + need <= h
  OBVIOUS
<1>3. T \in SUBSET Nat /\ \A t \in T : t > mem /\ t \in Taken
  BY TakenFacts
<1>4. \A t \in Taken : t \in Nat /\ (t > mem => t \in T)
  BY TakenFacts
<1>5. mem \notin Taken
  <2>1. mem \in mem..(mem + need - 1)
    OBVIOUS
  <2> QED
    BY <2>1
<1> HIDE DEF h, g, T
<1>6. end \in {h} \cup T /\ \A t \in {h} \cup T : end <= t
  BY <1>1, <1>3, LeastChosen
<1> HIDE DEF end
<1>7. end \in Nat /\ end > mem /\ end <= h
  BY <1>1, <1>2, <1>3, <1>6
\* A memory drive that does not end before mem begins at `end` or behind it.
<1>8. ASSUME NEW i \in InMemory(bios_drive_map)
      PROVE  LET q == bios_drive_map[i]
             IN  /\ First(q) \in Nat /\ PastEnd(q) \in Nat /\ First(q) < PastEnd(q)
                 /\ Down(First(q)) = First(q) /\ Down(PastEnd(q)) = PastEnd(q)
                 /\ PastEnd(q) <= mem \/ end <= First(q)
  <2> DEFINE f == First(bios_drive_map[i])
             e == PastEnd(bios_drive_map[i])
  <2>1. i \in DOMAIN bios_drive_map
    BY DEF InMemory
  <2>2. bios_drive_map[i].start \in Nat /\ bios_drive_map[i].count \in Nat /\ bios_drive_map[i].count > 0
    BY <2>1, SlotFacts DEF Placed, Within
  <2>3. f \in Nat /\ e \in Nat /\ f < e /\ Down(f) = f /\ Down(e) = e
    BY <2>2, PageFacts
  <2>4. \A n \in Nat : f <= n /\ n < e => n \in Taken
    BY TakenFacts
  <2> HIDE DEF f, e
  <2>5. ASSUME f <= mem PROVE e <= mem
    BY <1>5, <2>3, <2>4, <2>5
  <2>6. ASSUME f > mem PROVE end <= f
    <3>1. f \in Taken
      BY <2>3, <2>4
    <3>2. end <= f
      BY <1>4, <1>6, <2>6, <3>1
    <3> QED
      BY <3>2
  <2>7. e <= mem \/ end <= f
    BY <2>3, <2>5, <2>6
  <2> QED
    BY <2>3, <2>7 DEF f, e
<1>9. Down(end) = end
  <2>1. CASE end = h
    BY <1>1, <2>1
  <2>2. CASE end \in T
    <3>1. PICK i \in InMemory(bios_drive_map) :
            First(bios_drive_map[i]) <= end /\ end < PastEnd(bios_drive_map[i])
      BY <1>3, <2>2, <1>7, TakenFacts
    <3> DEFINE f == First(bios_drive_map[i])
               e == PastEnd(bios_drive_map[i])
    <3>2. f \in Nat /\ e \in Nat /\ Down(f) = f /\ (e <= mem \/ end <= f) /\ f <= end /\ end < e
      BY <1>8, <3>1
    <3> HIDE DEF f, e
    <3>3. end = f
      BY <1>7, <3>2
    <3> QED
      BY <3>2, <3>3
  <2> QED
    BY <1>6, <2>1, <2>2
<1>10. Up(end) = end /\ mem + (end - mem) = end /\ end - mem \in Nat \ {0}
  <2>1. Up(end) \in Nat /\ end <= Up(end) /\ Up(end) <= end
    BY <1>7, <1>9, UpFacts
  <2> QED
    BY <1>7, <2>1
<1>11. ASSUME NEW i \in InMemory(bios_drive_map)
       PROVE  \/ PastEnd(bios_drive_map[i]) <= Down(mem)
              \/ end <= First(bios_drive_map[i])
  BY <1>8, DownFacts
<1>12. mem + (end - mem) <= g
  BY <1>1, <1>7, <1>10
<1>13. Fresh(<<mem, end - mem>>)
  <2>1. mem + (end - mem) <= Highest(r, TRUE)
    BY <1>12 DEF g
  <2>2. Up(mem + (end - mem)) = end
    BY <1>10
  <2> QED
    BY <1>10, <1>11, <2>1, <2>2 DEF Fresh
<1> QED
  BY <1>13 DEF end, h, T

LEMMA PlaceFacts ==
  ASSUME TypeOK, Placed(bios_drive_map),
         NEW n \in Nat \ {0}, NEW mem \in Int, NEW top \in BOOLEAN, NEW p \in Places(n, mem, top)
  PROVE  Fresh(p)
<1> DEFINE need == Up(IF mem < 0 /\ n < -mem THEN -mem ELSE n)
<1>1. need \in Nat \ {0} /\ Down(need) = need
  BY NeedFacts
<1>2. bios_drive_map \in Table /\ DOMAIN memory = 0..(Memory - 1)
  BY DEF TypeOK, Table, Slots
<1>3. CASE mem <= 0
  <2>1. PICK b \in Bases(need, top) : p = <<b, need>>
    BY <1>3 DEF Places
  <2> HIDE DEF need
  <2> QED
    BY <1>1, <1>2, <2>1, TopPlace
<1>4. CASE mem > 0
  <2>1. PICK r \in Regions :
          /\ mem >= Lowest(r) /\ mem + need <= Highest(r, top)
          /\ (mem..(mem + need - 1)) \cap Taken = {}
          /\ p = <<mem, Min({Highest(r, top)} \cup {t \in Taken : t > mem}) - mem>>
    BY <1>4 DEF Places
  <2>2. mem \in Nat
    BY <1>4
  <2> HIDE DEF need
  <2> QED
    BY <1>1, <1>2, <2>1, <2>2, FixedPlace
<1> QED
  BY <1>3, <1>4

-----------------------------------------------------------------------------
(* Tables *)

\* The memory drives of t are where those of u are, each of them once.
Same(s, q) == s.start = q.start /\ s.count = q.count
Maps(f, t, u) ==
  /\ f \in [InMemory(t) -> InMemory(u)]
  /\ \A i \in InMemory(t) : Same(t[i], u[f[i]])
  /\ \A i, j \in InMemory(t) : f[i] = f[j] => i = j
Fewer(t, u) == \E f : Maps(f, t, u)

LEMMA SamePlace ==
  ASSUME NEW s, NEW q, Same(s, q)
  PROVE  First(s) = First(q) /\ PastEnd(s) = PastEnd(q) /\ (Within(s) <=> Within(q))
BY DEF Same, First, PastEnd, Within

LEMMA FewerPlaced ==
  ASSUME NEW t, NEW u, Fewer(t, u), Placed(u)
  PROVE  Placed(t)
<1>1. PICK f : Maps(f, t, u)
  BY DEF Fewer
<1>2. ASSUME NEW i \in InMemory(t)
      PROVE  /\ f[i] \in InMemory(u) /\ Within(t[i])
             /\ First(t[i]) = First(u[f[i]]) /\ PastEnd(t[i]) = PastEnd(u[f[i]])
  <2>1. f[i] \in InMemory(u) /\ Same(t[i], u[f[i]])
    BY <1>1 DEF Maps
  <2> QED
    BY <2>1, SamePlace DEF Placed
<1>3. ASSUME NEW i \in InMemory(t), NEW j \in InMemory(t), i # j
      PROVE  Above(t[i], t[j]) \/ Above(t[j], t[i])
  <2>1. f[i] # f[j] /\ f[i] \in InMemory(u) /\ f[j] \in InMemory(u)
    BY <1>1, <1>3 DEF Maps
  <2>2. Above(u[f[i]], u[f[j]]) \/ Above(u[f[j]], u[f[i]])
    BY <2>1 DEF Placed, Apart
  <2> QED
    BY <1>2, <2>2 DEF Above
<1> QED
  BY <1>2, <1>3 DEF Placed, Apart

LEMMA FewerTransitive ==
  ASSUME NEW t, NEW u, NEW v, Fewer(t, u), Fewer(u, v)
  PROVE  Fewer(t, v)
<1>1. PICK f : Maps(f, t, u)
  BY DEF Fewer
<1>2. PICK g : Maps(g, u, v)
  BY DEF Fewer
<1> DEFINE h == [i \in InMemory(t) |-> g[f[i]]]
<1>3. h \in [InMemory(t) -> InMemory(v)]
  BY <1>1, <1>2 DEF Maps
<1>4. \A i \in InMemory(t) : Same(t[i], v[h[i]])
  BY <1>1, <1>2 DEF Maps, Same
<1>5. \A i, j \in InMemory(t) : h[i] = h[j] => i = j
  BY <1>1, <1>2 DEF Maps
<1> HIDE DEF h
<1> QED
  BY <1>3, <1>4, <1>5 DEF Fewer, Maps

LEMMA KeptFewer ==
  ASSUME NEW t, NEW u, \A i \in InMemory(t) : i \in InMemory(u) /\ Same(t[i], u[i])
  PROVE  Fewer(t, u)
<1> DEFINE f == [i \in InMemory(t) |-> i]
<1>1. Maps(f, t, u)
  BY DEF Maps
<1> QED
  BY <1>1 DEF Fewer

LEMMA FewerItself ==
  ASSUME NEW t
  PROVE  Fewer(t, t)
BY KeptFewer DEF Same

LEMMA FindFacts ==
  ASSUME NEW t \in Table, NEW d
  PROVE  Find(t, d) \in 0..Len(t)
<1> DEFINE I == {i \in 1..Len(t) : t[i].from = d}
<1>1. Find(t, d) = IF I # {} THEN Min(I) ELSE 0
  BY DEF Find, SelectInSeq
<1>2. Len(t) \in Nat
  BY DEF Table
<1>3. I \subseteq 1..Len(t) /\ I \in SUBSET Nat
  BY <1>2
<1> HIDE DEF I
<1>4. CASE I = {}
  BY <1>1, <1>2, <1>4
<1>5. CASE I # {}
  <2>1. Min(I) \in I
    BY <1>3, <1>5, LeastChosen
  <2>2. Find(t, d) = Min(I)
    BY <1>1, <1>5
  <2>3. Min(I) \in 1..Len(t)
    BY <1>3, <2>1, Zenon
  <2> DEFINE m == Min(I)
  <2>4. m \in 1..Len(t) /\ Find(t, d) = m
    BY <2>2, <2>3
  <2> HIDE DEF m
  <2>5. m \in 0..Len(t)
    BY <1>2, <2>4
  <2> QED
    BY <2>4, <2>5
<1> QED
  BY <1>4, <1>5

LEMMA AppendFacts ==
  ASSUME NEW t \in Table, NEW s \in Slots
  PROVE  /\ Append(t, s) \in Table
         /\ InMemory(Append(t, s)) = InMemory(t) \cup (IF s.to = MEM THEN {Len(t) + 1} ELSE {})
         /\ Append(t, s)[Len(t) + 1] = s /\ Len(t) + 1 \notin InMemory(t)
         /\ \A i \in InMemory(t) : Append(t, s)[i] = t[i]
<1>1. t \in Seq(Slots) /\ Len(t) \in Nat /\ DOMAIN t = 1..Len(t)
  BY DEF Table
<1> HIDE DEF Slots
<1>2. /\ Append(t, s) \in Seq(Slots) /\ DOMAIN Append(t, s) = 1..(Len(t) + 1)
      /\ Append(t, s)[Len(t) + 1] = s /\ \A i \in 1..Len(t) : Append(t, s)[i] = t[i]
  BY <1>1
<1>3. Len(t) + 1 \notin 1..Len(t) /\ 1..(Len(t) + 1) = (1..Len(t)) \cup {Len(t) + 1}
  BY <1>1
<1>4. InMemory(t) \subseteq 1..Len(t)
  BY <1>1 DEF InMemory
<1>5. ASSUME NEW i
      PROVE  i \in InMemory(Append(t, s)) <=>
               i \in InMemory(t) \/ (s.to = MEM /\ i = Len(t) + 1)
  <2> DEFINE u == Append(t, s)
             n == Len(t) + 1
  <2>1. /\ DOMAIN u = (1..Len(t)) \cup {n} /\ u[n] = s /\ n \notin 1..Len(t)
        /\ \A j \in 1..Len(t) : u[j] = t[j]
    BY <1>2, <1>3
  <2> HIDE DEF u, n
  <2>2. i \in InMemory(u) <=> i \in InMemory(t) \/ (s.to = MEM /\ i = n)
    BY <1>1, <2>1 DEF InMemory
  <2> QED
    BY <2>2 DEF u, n
<1> QED
  BY <1>2, <1>3, <1>4, <1>5 DEF Table

LEMMA ExceptFacts ==
  ASSUME NEW t \in Table, NEW s \in Slots, NEW k \in DOMAIN t, NEW u, u = [t EXCEPT ![k] = s]
  PROVE  /\ u \in Table /\ DOMAIN u = DOMAIN t /\ u[k] = s
         /\ \A i \in DOMAIN t \ {k} : u[i] = t[i]
<1>1. t \in Seq(Slots) /\ Len(t) \in Nat /\ DOMAIN t = 1..Len(t)
  BY DEF Table
<1> HIDE DEF Slots
<1>2. /\ u \in Seq(Slots) /\ DOMAIN u = DOMAIN t /\ u[k] = s
      /\ \A i \in DOMAIN t \ {k} : u[i] = t[i]
  BY <1>1
<1> QED
  BY <1>2 DEF Table

LEMMA StoredFewer ==
  ASSUME NEW t \in Table, NEW s \in Slots, s.to # MEM
  PROVE  Stored(t, s) \in Table /\ Fewer(Stored(t, s), t)
<1> DEFINE k == Find(t, s.from)
<1>1. k \in 0..Len(t) /\ DOMAIN t = 1..Len(t) /\ Len(t) \in Nat
  BY FindFacts DEF Table
<1>2. Stored(t, s) = IF k = 0 THEN Append(t, s) ELSE [t EXCEPT ![k] = s]
  BY DEF Stored
<1> HIDE DEF k
<1>3. CASE k = 0
  <2>1. Stored(t, s) = Append(t, s)
    BY <1>2, <1>3
  <2>2. /\ Append(t, s) \in Table /\ InMemory(Append(t, s)) = InMemory(t)
        /\ \A i \in InMemory(t) : Append(t, s)[i] = t[i]
    <3>1. InMemory(Append(t, s)) = InMemory(t) \cup {}
      BY AppendFacts
    <3> QED
      BY <3>1, AppendFacts
  <2> DEFINE u == Append(t, s)
  <2>3. \A i \in InMemory(u) : i \in InMemory(t) /\ Same(u[i], t[i])
    BY <2>2 DEF Same
  <2> HIDE DEF u
  <2>4. Fewer(u, t)
    BY <2>3, KeptFewer
  <2> QED
    BY <2>1, <2>2, <2>4 DEF u
<1>4. CASE k # 0
  <2>1. Stored(t, s) = [t EXCEPT ![k] = s] /\ k \in DOMAIN t
    BY <1>1, <1>2, <1>4
  <2> DEFINE u == [t EXCEPT ![k] = s]
  <2>2. /\ u \in Table /\ InMemory(u) = InMemory(t) \ {k}
        /\ \A i \in InMemory(t) \ {k} : u[i] = t[i]
    <3>1. u = [t EXCEPT ![k] = s]
      OBVIOUS
    <3> HIDE DEF u
    <3>2. u \in Table
      BY <2>1, <3>1, ExceptFacts
    <3>3. DOMAIN u = DOMAIN t /\ u[k] = s
      BY <2>1, <3>1, ExceptFacts
    <3>4. ASSUME NEW i \in DOMAIN t \ {k} PROVE u[i] = t[i]
      BY <2>1, <3>1, ExceptFacts
    <3> QED
      BY <2>1, <3>2, <3>3, <3>4 DEF InMemory
  <2>3. u = Stored(t, s)
    BY <2>1
  <2> HIDE DEF u
  <2>4. \A i \in InMemory(u) : i \in InMemory(t) /\ Same(u[i], t[i])
    BY <2>2 DEF Same
  <2>5. Fewer(u, t)
    BY <2>4, KeptFewer
  <2> QED
    BY <2>2, <2>3, <2>5
<1> QED
  BY <1>3, <1>4

\* In a set of n numbers one has k of them below it, for each k < n.
LEMMA NthExists ==
  ASSUME NEW L \in Nat, NEW left \in SUBSET (1..L), NEW n \in 1..Cardinality(left)
  PROVE  \E i \in left : Cardinality({j \in left : j < i}) = n - 1
<1> DEFINE C == Cardinality(left)
           Before(i) == {j \in left : j < i}
           Has(m) == \E i \in left : Cardinality(Before(i)) = m - 1
           S == {m \in 1..C : ~Has(m)}
<1>1. IsFiniteSet(left) /\ C \in Nat /\ left \subseteq Nat
  <2>1. IsFiniteSet(1..L)
    BY FS_Interval
  <2>2. IsFiniteSet(left) /\ Cardinality(left) \in Nat
    BY <2>1, FS_Subset, FS_CardinalityType
  <2>3. left \subseteq Nat
    OBVIOUS
  <2> QED
    BY <2>2, <2>3
<1>2. SUFFICES ASSUME S # {} PROVE FALSE
  OBVIOUS
<1>3. PICK m \in S : \A k \in S : m <= k
  <2>1. S \in SUBSET Nat
    BY <1>1
  <2> HIDE DEF S
  <2> QED
    BY <1>2, <2>1, Least
<1>4. m \in 1..C /\ ~Has(m) /\ C \in Nat
  BY <1>1
<1>5. CASE m = 1
  <2>1. left # {}
    BY <1>1, <1>4, FS_EmptySet
  <2>2. PICK i \in left : \A j \in left : i <= j
    BY <1>1, <2>1, Least
  <2>3. Before(i) = {}
    <3>1. \A j \in left : j \in Nat /\ i \in Nat /\ i <= j
      BY <1>1, <2>2
    <3>2. \A j \in left : ~(j < i)
      BY <3>1
    <3> QED
      BY <3>2, Zenon
  <2> QED
    BY <1>4, <1>5, <2>3, FS_EmptySet
<1>6. CASE m > 1
  <2>1. m - 1 \in 1..C /\ m - 1 \notin S
    BY <1>3, <1>4, <1>6
  <2>2. PICK k \in left : Cardinality(Before(k)) = m - 1 - 1
    <3>1. Has(m - 1)
      <4> HIDE DEF Has
      <4> QED
        BY <2>1
    <3> HIDE DEF Before
    <3> QED
      BY <3>1
  <2> DEFINE B == Before(k) \cup {k}
  <2>3. IsFiniteSet(Before(k)) /\ IsFiniteSet(B) /\ Cardinality(B) = m - 1
    <3>1. IsFiniteSet(Before(k)) /\ k \notin Before(k)
      <4>1. Before(k) \in SUBSET left
        OBVIOUS
      <4>2. k \notin Before(k)
        BY <1>1
      <4> HIDE DEF Before
      <4> QED
        BY <1>1, <4>1, <4>2, FS_Subset
    <3>2. IsFiniteSet(B) /\ Cardinality(B) = Cardinality(Before(k)) + 1
      BY <3>1, FS_AddElement
    <3> QED
      BY <3>1, <3>2, <2>2, <1>4
  <2>4. left \ B # {}
    <3>1. B \subseteq left
      OBVIOUS
    <3>2. B # left
      <4>1. Cardinality(B) # C
        BY <1>4, <2>3
      <4> HIDE DEF B
      <4> QED
        BY <4>1
    <3> QED
      BY <3>1, <3>2
  <2>5. PICK i \in left \ B : \A j \in left \ B : i <= j
    <3>1. left \ B \in SUBSET Nat
      BY <1>1
    <3> QED
      BY <2>4, <3>1, Least
  <2>6. i \in Nat /\ k \in Nat /\ i \in left /\ k < i
    BY <1>1, <2>5
  <2>7. Before(i) = B
    <3>1. ASSUME NEW j \in left, j < i PROVE j \in B
      <4>1. j \in Nat /\ ~(i <= j)
        BY <1>1, <2>6, <3>1
      <4> HIDE DEF B
      <4> QED
        BY <2>5, <4>1
    <3>2. ASSUME NEW j \in B PROVE j \in left /\ j < i
      <4>1. j \in left /\ (j < k \/ j = k)
        OBVIOUS
      <4> QED
        BY <1>1, <2>6, <4>1
    <3>3. \A j \in Before(i) : j \in left /\ j < i
      OBVIOUS
    <3>4. \A j \in left : j < i => j \in Before(i)
      OBVIOUS
    <3> HIDE DEF B, Before
    <3> QED
      BY <3>1, <3>2, <3>3, <3>4
  <2> QED
    BY <1>4, <2>3, <2>6, <2>7
<1> QED
  BY <1>4, <1>5, <1>6

LEMMA DeletedFewer ==
  ASSUME NEW t \in Table, NEW range
  PROVE  Deleted(t, range) \in Table /\ Fewer(Deleted(t, range), t)
<1> DEFINE left == {i \in DOMAIN t : t[i].from \notin range}
           C == Cardinality(left)
           Nth(n) == CHOOSE i \in left : Cardinality({j \in left : j < i}) = n - 1
           u == Deleted(t, range)
           f == [n \in InMemory(u) |-> Nth(n)]
<1>1. DOMAIN t = 1..Len(t) /\ Len(t) \in Nat /\ \A i \in DOMAIN t : t[i] \in Slots
  <2>1. t \in Seq(Slots)
    BY DEF Table
  <2> HIDE DEF Slots
  <2> QED
    BY <2>1
<1>2. left \in SUBSET (1..Len(t)) /\ C \in Nat
  <2>1. IsFiniteSet(1..Len(t)) /\ left \in SUBSET (1..Len(t))
    BY <1>1, FS_Interval
  <2> QED
    BY <2>1, FS_Subset, FS_CardinalityType
<1>3. u = [n \in 1..C |-> t[Nth(n)]]
  BY DEF Deleted
<1> HIDE DEF left, u
<1>4. ASSUME NEW n \in 1..C
      PROVE  Nth(n) \in left /\ Cardinality({j \in left : j < Nth(n)}) = n - 1
  <2>1. \E i \in left : Cardinality({j \in left : j < i}) = n - 1
    BY <1>1, <1>2, NthExists
  <2> QED
    BY <2>1
<1> HIDE DEF Nth, C
<1>5. \A n \in 1..C : t[Nth(n)] \in Slots /\ Nth(n) \in DOMAIN t
  BY <1>1, <1>2, <1>4
<1>6. u \in Table
  <2>1. u \in [1..C -> Slots]
    BY <1>3, <1>5
  <2> HIDE DEF Slots
  <2> QED
    BY <1>2, <2>1 DEF Table
<1>7. DOMAIN u = 1..C /\ \A n \in 1..C : u[n] = t[Nth(n)]
  BY <1>3
<1>8. f \in [InMemory(u) -> InMemory(t)]
  BY <1>5, <1>7 DEF InMemory
<1>9. \A n \in InMemory(u) : Same(u[n], t[f[n]])
  BY <1>7 DEF InMemory, Same
<1>10. ASSUME NEW n \in InMemory(u), NEW m \in InMemory(u), f[n] = f[m]
       PROVE  n = m
  <2>1. n \in 1..C /\ m \in 1..C /\ Nth(n) = Nth(m)
    BY <1>7, <1>10 DEF InMemory
  <2>2. n - 1 = m - 1
    BY <1>4, <2>1
  <2> QED
    BY <1>2, <2>1, <2>2
<1> HIDE DEF f
<1>11. Maps(f, u, t)
  BY <1>8, <1>9, <1>10 DEF Maps
<1> QED
  BY <1>6, <1>11 DEF Fewer, u

\* A table without one of its slots.
LEMMA RemovedAt ==
  ASSUME NEW t \in Table, NEW k \in DOMAIN t
  PROVE  /\ RemoveAt(t, k) \in Table /\ Len(RemoveAt(t, k)) = Len(t) - 1
         /\ \A i \in DOMAIN RemoveAt(t, k) :
              RemoveAt(t, k)[i] = t[IF i < k THEN i ELSE i + 1]
<1> DEFINE a == SubSeq(t, 1, k - 1)
           b == SubSeq(t, k + 1, Len(t))
<1>1. t \in Seq(Slots) /\ Len(t) \in Nat /\ k \in 1..Len(t)
  BY DEF Table
<1> HIDE DEF Slots
<1>2. /\ a \in Seq(Slots) /\ Len(a) = k - 1
      /\ \A i \in 1..(k - 1) : a[i] = t[i]
  BY <1>1
<1>3. /\ b \in Seq(Slots) /\ Len(b) = Len(t) - k
      /\ \A i \in 1..(Len(t) - k) : b[i] = t[k + i]
  BY <1>1
<1>4. RemoveAt(t, k) = a \o b
  BY DEF RemoveAt
<1> HIDE DEF a, b
<1>5. /\ a \o b \in Seq(Slots) /\ Len(a \o b) = Len(t) - 1 /\ DOMAIN (a \o b) = 1..(Len(t) - 1)
      /\ \A i \in 1..(Len(t) - 1) : (a \o b)[i] = IF i <= k - 1 THEN a[i] ELSE b[i - (k - 1)]
  BY <1>1, <1>2, <1>3
<1>6. ASSUME NEW i \in 1..(Len(t) - 1)
      PROVE  (a \o b)[i] = t[IF i < k THEN i ELSE i + 1]
  <2>1. CASE i < k
    BY <1>1, <1>2, <1>5, <2>1
  <2>2. CASE i >= k
    <3>1. i - (k - 1) \in 1..(Len(t) - k) /\ k + (i - (k - 1)) = i + 1
      BY <1>1, <2>2
    <3>2. (a \o b)[i] = b[i - (k - 1)]
      BY <1>1, <1>5, <2>2
    <3>3. b[i - (k - 1)] = t[k + (i - (k - 1))]
      BY <1>3, <3>1
    <3>4. (a \o b)[i] = t[i + 1]
      BY <3>1, <3>2, <3>3
    <3>5. ~(i < k)
      BY <1>1, <2>2
    <3> QED
      BY <3>4, <3>5
  <2>3. i < k \/ i >= k
    BY <1>1
  <2> QED
    BY <2>1, <2>2, <2>3, Zenon
<1> QED
  BY <1>4, <1>5, <1>6 DEF Table

LEMMA RemovedFewer ==
  ASSUME NEW t \in Table, NEW k \in DOMAIN t
  PROVE  /\ RemoveAt(t, k) \in Table /\ Len(RemoveAt(t, k)) = Len(t) - 1
         /\ \E f : Maps(f, RemoveAt(t, k), t) /\ \A i \in InMemory(RemoveAt(t, k)) : f[i] # k
<1> DEFINE u == RemoveAt(t, k)
           f == [i \in InMemory(u) |-> IF i < k THEN i ELSE i + 1]
<1>1. /\ u \in Table /\ Len(u) = Len(t) - 1
      /\ \A i \in DOMAIN u : u[i] = t[IF i < k THEN i ELSE i + 1]
  BY RemovedAt
<1>2. Len(t) \in Nat /\ DOMAIN t = 1..Len(t) /\ DOMAIN u = 1..Len(u)
  BY <1>1 DEF Table
<1> HIDE DEF u
<1>3. ASSUME NEW i \in InMemory(u)
      PROVE  f[i] \in InMemory(t) /\ u[i] = t[f[i]] /\ i \in Nat /\ f[i] # k
  <2>1. i \in DOMAIN u /\ u[i].to = MEM
    BY DEF InMemory
  <2>2. f[i] \in DOMAIN t /\ u[i] = t[f[i]] /\ f[i] # k /\ i \in Nat
    BY <1>1, <1>2, <2>1
  <2> QED
    BY <2>1, <2>2 DEF InMemory
<1>4. \A i, j \in InMemory(u) : f[i] = f[j] => i = j
  BY <1>2, <1>3
<1>5. f \in [InMemory(u) -> InMemory(t)]
  <2>1. \A i \in InMemory(u) : (IF i < k THEN i ELSE i + 1) \in InMemory(t)
    BY <1>3
  <2> QED
    BY <2>1
<1> HIDE DEF f
<1>6. Maps(f, u, t)
  BY <1>3, <1>4, <1>5 DEF Maps, Same
<1> QED
  BY <1>1, <1>3, <1>6 DEF u

LEMMA OnTopFewer ==
  ASSUME NEW t \in Table, NEW first
  PROVE  OnTop(t, first) \in Table /\ Fewer(OnTop(t, first), t)
<1> DEFINE k == Find(t, first)
           b == RemoveAt(t, k)
           u == <<t[k]>> \o b
<1>1. k \in 0..Len(t) /\ Len(t) \in Nat /\ DOMAIN t = 1..Len(t)
  BY FindFacts DEF Table
<1>2. k = SelectInSeq(t, LAMBDA s : s.from = first)
  BY DEF Find
<1>3. OnTop(t, first) = IF k = 0 \/ k = DRIVE_MAP_SIZE THEN t ELSE u
  BY DEF OnTop, Find
<1>4. CASE k = 0 \/ k = DRIVE_MAP_SIZE
  BY <1>3, <1>4, FewerItself
<1>5. CASE k # 0 /\ k # DRIVE_MAP_SIZE
  <2>1. k \in DOMAIN t
    BY <1>1, <1>5
  <2>2. /\ b \in Table /\ Len(b) = Len(t) - 1
        /\ \A i \in DOMAIN b : b[i] = t[IF i < k THEN i ELSE i + 1]
    BY <2>1, RemovedAt
  <2>3. OnTop(t, first) = u
    BY <1>3, <1>5
  <2>4. t[k] \in Slots
    BY <2>1, SlotFacts
  <2> HIDE DEF b
  <2>5. u \in Table /\ Len(u) = Len(t) /\ \A i \in 1..Len(t) : u[i] = IF i = 1 THEN t[k] ELSE b[i - 1]
    <3>1. b \in Seq(Slots) /\ t[k] \in Slots
      BY <2>2, <2>4 DEF Table
    <3> HIDE DEF Slots
    <3>2. u \in Seq(Slots) /\ Len(u) = 1 + Len(b) /\ \A i \in 1..(1 + Len(b)) : u[i] = IF i = 1 THEN t[k] ELSE b[i - 1]
      BY <3>1
    <3>3. 1 + Len(b) = Len(t)
      BY <1>1, <2>2
    <3> HIDE DEF u
    <3> QED
      BY <3>2, <3>3 DEF Table
  <2> HIDE DEF u
  <2> DEFINE p(i) == IF i = 1 THEN k ELSE IF i - 1 < k THEN i - 1 ELSE i
             f == [i \in InMemory(u) |-> p(i)]
  <2>6. DOMAIN u = 1..Len(t) /\ DOMAIN b = 1..(Len(t) - 1)
    BY <2>2, <2>5 DEF Table
  <2>7. ASSUME NEW i \in 1..Len(t) PROVE p(i) \in 1..Len(t) /\ u[i] = t[p(i)]
    <3>1. CASE i = 1
      BY <2>1, <2>5, <3>1, <1>1
    <3>2. CASE i # 1
      <4>1. i - 1 \in DOMAIN b /\ u[i] = b[i - 1] /\ i - 1 + 1 = i
        BY <2>5, <2>6, <3>2, <1>1
      <4>2. b[i - 1] = t[IF i - 1 < k THEN i - 1 ELSE i - 1 + 1]
        BY <2>2, <4>1
      <4>3. b[i - 1] = t[IF i - 1 < k THEN i - 1 ELSE i]
        BY <4>1, <4>2
      <4>4. p(i) = IF i - 1 < k THEN i - 1 ELSE i
        BY <3>2
      <4>5. p(i) \in 1..Len(t)
        BY <1>1, <3>2, <4>4
      <4> QED
        BY <4>1, <4>3, <4>4, <4>5
    <3> QED
      BY <3>1, <3>2
  <2>8. ASSUME NEW i \in 1..Len(t), NEW j \in 1..Len(t), p(i) = p(j) PROVE i = j
    BY <1>1, <2>1, <2>8
  <2>9. \A i \in InMemory(u) : i \in 1..Len(t) /\ u[i].to = MEM
    BY <2>6 DEF InMemory
  <2> HIDE DEF p
  <2>10. \A i \in InMemory(u) : p(i) \in InMemory(t)
    BY <1>1, <2>7, <2>9 DEF InMemory
  <2>11. Maps(f, u, t)
    BY <2>7, <2>8, <2>9, <2>10 DEF Maps, Same
  <2> QED
    BY <2>3, <2>5, <2>11 DEF Fewer
<1> QED
  BY <1>4, <1>5

LEMMA RenamedFewer ==
  ASSUME NEW t \in Table, NEW a \in Numbers, NEW b \in Numbers
  PROVE  Renamed(t, a, b) \in Table /\ Fewer(Renamed(t, a, b), t)
<1> DEFINE N(s) == [s EXCEPT !.from = IF @ = a THEN b ELSE IF @ = b THEN a ELSE @]
           u == Renamed(t, a, b)
<1>1. \A s \in Slots : N(s) \in Slots /\ N(s).to = s.to /\ Same(N(s), s)
  BY DEF Slots, Same
<1>2. u = [i \in DOMAIN t |-> N(t[i])]
  BY DEF Renamed
<1>3. DOMAIN t = 1..Len(t) /\ Len(t) \in Nat /\ \A i \in DOMAIN t : t[i] \in Slots
  <2>1. t \in Seq(Slots)
    BY DEF Table
  <2> HIDE DEF Slots
  <2> QED
    BY <2>1
<1> HIDE DEF N, u
<1>4. u \in [1..Len(t) -> Slots] /\ DOMAIN u = DOMAIN t
  BY <1>1, <1>2, <1>3
<1>5. u \in Table
  <2> HIDE DEF Slots
  <2> QED
    BY <1>3, <1>4 DEF Table
<1>6. \A i \in InMemory(u) : i \in InMemory(t) /\ Same(u[i], t[i])
  BY <1>1, <1>2, <1>3, <1>4 DEF InMemory
<1>7. Fewer(u, t)
  BY <1>6, KeptFewer
<1> QED
  BY <1>5, <1>7 DEF u

LEMMA ThroughSlot ==
  ASSUME hooked_drive_map \in Table, NEW from \in Numbers, NEW to \in Numbers,
         NEW start \in Nat, NEW n \in Nat
  PROVE  Through(from, to, start, n) \in Slots
<1> DEFINE k == Find(hooked_drive_map, to)
<1>1. k \in 0..Len(hooked_drive_map) /\ Len(hooked_drive_map) \in Nat
      /\ DOMAIN hooked_drive_map = 1..Len(hooked_drive_map)
  BY FindFacts DEF Table
<1>2. CASE ~int13 \/ k = 0
  <2>1. Through(from, to, start, n) = Slot(from, to, start, n, n)
    BY <1>2 DEF Through
  <2> QED
    BY <2>1 DEF Slot, Slots
<1>3. CASE int13 /\ k # 0
  <2>1. k \in DOMAIN hooked_drive_map
    BY <1>1, <1>3
  <2> DEFINE h == hooked_drive_map[k]
  <2>2. h \in Slots
    BY <2>1, SlotFacts
  <2>3. Through(from, to, start, n) =
          Slot(from, h.to, start + h.start,
               IF n = 0 THEN h.count ELSE n, IF n = 0 THEN h.img ELSE n)
    BY <1>3 DEF Through
  <2> HIDE DEF h
  <2>4. h.to \in Numbers \cup {MEM} /\ h.start \in Nat /\ h.count \in Nat /\ h.img \in Nat
    BY <2>2 DEF Slots
  <2> QED
    BY <2>3, <2>4 DEF Slot, Slots
<1> QED
  BY <1>2, <1>3

LEMMA MappedFewer ==
  ASSUME NEW t \in Table, NEW s \in Slots, s.to # MEM
  PROVE  Mapped(t, s) \in Table /\ Fewer(Mapped(t, s), t)
BY DeletedFewer, StoredFewer DEF Mapped

LEMMA GivenFewer ==
  ASSUME hooked_drive_map \in Table, NEW t \in Table, NEW from \in Numbers, NEW to \in Numbers,
         Through(from, to, 0, 0).to # MEM
  PROVE  Given(t, from, to) \in Table /\ Fewer(Given(t, from, to), t)
<1>1. Through(from, to, 0, 0) \in Slots
  BY ThroughSlot
<1>2. Mapped(t, Through(from, to, 0, 0)) \in Table /\ Fewer(Mapped(t, Through(from, to, 0, 0)), t)
  BY <1>1, MappedFewer
<1> QED
  BY <1>2, FewerItself DEF Given

LEMMA StoredTable ==
  ASSUME NEW t \in Table, NEW s \in Slots
  PROVE  Stored(t, s) \in Table
<1>1. Find(t, s.from) \in 0..Len(t) /\ Len(t) \in Nat /\ DOMAIN t = 1..Len(t)
  BY FindFacts DEF Table
<1>2. CASE Find(t, s.from) = 0
  BY <1>2, AppendFacts DEF Stored
<1>3. CASE Find(t, s.from) # 0
  <2>1. Find(t, s.from) \in DOMAIN t
    BY <1>1, <1>3
  <2> DEFINE u == Stored(t, s)
             k == Find(t, s.from)
  <2>2. u = [t EXCEPT ![k] = s] /\ k \in DOMAIN t
    BY <1>3, <2>1 DEF Stored
  <2> HIDE DEF u, k
  <2>3. u \in Table
    BY <2>2, ExceptFacts, Zenon
  <2> QED
    BY <2>3 DEF u
<1> QED
  BY <1>2, <1>3

LEMMA GivenTable ==
  ASSUME hooked_drive_map \in Table, NEW t \in Table, NEW from \in Numbers, NEW to \in Numbers
  PROVE  Given(t, from, to) \in Table
<1>1. Through(from, to, 0, 0) \in Slots
  BY ThroughSlot
<1>2. Mapped(t, Through(from, to, 0, 0)) \in Table
  BY <1>1, DeletedFewer, StoredTable DEF Mapped
<1> QED
  BY <1>2 DEF Given

-----------------------------------------------------------------------------
(* The memory drives taken out of the table *)

\* One of the memory drives at the places looked at is picked.
LEMMA PickedFacts ==
  ASSUME NEW t, NEW i \in Picked(t)
  PROVE  /\ i \in InMemory(t) /\ i < DRIVE_MAP_SIZE
         /\ \A j \in InMemory(t) : j < DRIVE_MAP_SIZE =>
              t[j].start < t[i].start \/ (t[j].start = t[i].start /\ i <= j)
BY DEF Picked

\* What each step of TakenOut keeps: `left` and `list` are tables, `list` of
\* memory drives.
Apiece(o) ==
  /\ o.left \in Table /\ o.list \in Table
  /\ \A i \in DOMAIN o.list : o.list[i].to = MEM

LEMMA TakeTypes ==
  ASSUME NEW o, Apiece(o)
  PROVE  Apiece(TakeHighest(o))
<1>1. CASE Picked(o.left) = {}
  BY <1>1 DEF TakeHighest
<1>2. CASE Picked(o.left) # {}
  <2> DEFINE k == CHOOSE i \in Picked(o.left) : TRUE
  <2>1. k \in InMemory(o.left) /\ k \in DOMAIN o.left /\ o.left[k].to = MEM
    <3>1. k \in Picked(o.left)
      BY <1>2
    <3> HIDE DEF k
    <3> QED
      BY <3>1, PickedFacts DEF InMemory
  <2>2. TakeHighest(o) = [left |-> RemoveAt(o.left, k), list |-> Append(o.list, o.left[k])]
    BY <1>2 DEF TakeHighest
  <2> HIDE DEF k
  <2> DEFINE s == o.left[k]
  <2>3. o.left \in Table /\ o.list \in Table /\ \A i \in DOMAIN o.list : o.list[i].to = MEM
    BY DEF Apiece
  <2>4. s \in Slots /\ RemoveAt(o.left, k) \in Table
    BY <2>1, <2>3, SlotFacts, RemovedAt
  <2>5. s.to = MEM
    BY <2>1
  <2> HIDE DEF s
  <2>6. Append(o.list, s) \in Table
    BY <2>3, <2>4, AppendFacts
  <2>7. \A i \in DOMAIN Append(o.list, s) : Append(o.list, s)[i].to = MEM
    <3>1. o.list \in Seq(Slots)
      BY <2>3 DEF Table
    <3> HIDE DEF Slots
    <3>2. \A i \in DOMAIN Append(o.list, s) :
            IF i \in DOMAIN o.list THEN Append(o.list, s)[i] = o.list[i] ELSE Append(o.list, s)[i] = s
      BY <3>1
    <3> QED
      BY <2>3, <2>5, <3>2
  <2> QED
    BY <2>2, <2>4, <2>6, <2>7 DEF Apiece, s
<1> QED
  BY <1>1, <1>2

\* The steps of TakenOut.
Step(f, n) ==
  f = [k \in 0..n |-> IF k = 0 THEN [left |-> bios_drive_map, list |-> <<>>]
                      ELSE TakeHighest(f[k - 1])]

LEMMA StepsExist ==
  ASSUME NEW n \in Nat
  PROVE  \E f : Step(f, n)
<1> DEFINE base == [left |-> bios_drive_map, list |-> <<>>]
           Missing == {m \in Nat : ~\E f : Step(f, m)}
<1>1. SUFFICES ASSUME Missing # {} PROVE FALSE
  OBVIOUS
<1>2. PICK m \in Missing : \A j \in Missing : m <= j
  <2>1. Missing \in SUBSET Nat
    OBVIOUS
  <2> HIDE DEF Missing
  <2> QED
    BY <1>1, <2>1, Least
<1>3. m \in Nat /\ ~\E f : Step(f, m)
  OBVIOUS
<1>4. CASE m = 0
  <2> DEFINE f == [k \in 0..0 |-> base]
  <2>1. f = [k \in 0..0 |-> IF k = 0 THEN base ELSE TakeHighest(f[k - 1])]
    <3>1. \A k \in 0..0 : k = 0
      OBVIOUS
    <3> HIDE DEF base
    <3> QED
      BY <3>1
  <2> HIDE DEF f
  <2>2. Step(f, 0)
    BY <2>1 DEF Step
  <2> QED
    BY <1>3, <1>4, <2>2
<1>5. CASE m # 0
  <2>1. m - 1 \in Nat /\ m - 1 \notin Missing
    BY <1>2, <1>3, <1>5
  <2>2. PICK g : Step(g, m - 1)
    BY <2>1
  <2> DEFINE f == [k \in 0..m |-> IF k = m THEN TakeHighest(g[m - 1]) ELSE g[k]]
  <2>3. ASSUME NEW k \in 0..m
        PROVE  f[k] = IF k = 0 THEN base ELSE TakeHighest(f[k - 1])
    <3>1. CASE k = m
      <4>1. k # 0 /\ k - 1 \in 0..m /\ k - 1 # m
        BY <1>3, <1>5, <3>1
      <4>2. f[k] = TakeHighest(g[m - 1]) /\ f[k - 1] = g[m - 1]
        BY <3>1, <4>1
      <4> HIDE DEF f
      <4> QED
        BY <4>1, <4>2
    <3>2. CASE k # m
      <4>1. k \in 0..(m - 1)
        BY <1>3, <3>2
      <4>2. f[k] = g[k] /\ g[k] = IF k = 0 THEN base ELSE TakeHighest(g[k - 1])
        BY <2>2, <3>2, <4>1 DEF Step
      <4>3. ASSUME k # 0 PROVE f[k - 1] = g[k - 1]
        <5>1. k - 1 \in 0..m /\ k - 1 # m
          BY <1>3, <4>1, <4>3
        <5> QED
          BY <5>1
      <4> HIDE DEF f, base
      <4> QED
        BY <4>2, <4>3
    <3> QED
      BY <3>1, <3>2
  <2>4. DOMAIN f = 0..m /\ f = [k \in 0..m |-> f[k]]
    OBVIOUS
  <2> HIDE DEF f, base
  <2>5. f = [k \in 0..m |-> IF k = 0 THEN base ELSE TakeHighest(f[k - 1])]
    BY <2>3, <2>4
  <2>6. Step(f, m)
    BY <2>5 DEF Step, base
  <2> QED
    BY <1>3, <2>6
<1> QED
  BY <1>4, <1>5

LEMMA TakenSteps ==
  \E f : Step(f, DRIVE_MAP_SIZE - 1) /\ TakenOut = f[DRIVE_MAP_SIZE - 1]
<1> DEFINE N == DRIVE_MAP_SIZE - 1
           out == CHOOSE f : Step(f, N)
<1>1. N \in Nat
  BY Constants
<1>2. Step(out, N)
  <2>1. \E f : Step(f, N)
    BY <1>1, StepsExist
  <2> HIDE DEF N
  <2> QED
    BY <2>1
<1>3. TakenOut = out[N]
  BY DEF TakenOut, Step
<1> QED
  BY <1>2, <1>3

LEMMA StepFacts ==
  ASSUME NEW f, NEW n \in Nat, Step(f, n)
  PROVE  /\ f[0] = [left |-> bios_drive_map, list |-> <<>>]
         /\ \A k \in 0..n : k # 0 => k - 1 \in 0..n /\ f[k] = TakeHighest(f[k - 1])
<1> DEFINE base == [left |-> bios_drive_map, list |-> <<>>]
<1>1. \A k \in 0..n : f[k] = IF k = 0 THEN base ELSE TakeHighest(f[k - 1])
  BY DEF Step
<1> HIDE DEF base
<1>2. f[0] = base /\ \A k \in 0..n : k # 0 => k - 1 \in 0..n /\ f[k] = TakeHighest(f[k - 1])
  BY <1>1
<1> QED
  BY <1>2 DEF base

LEMMA TakenTypes ==
  ASSUME bios_drive_map \in Table
  PROVE  Apiece(TakenOut)
<1> DEFINE N == DRIVE_MAP_SIZE - 1
<1>1. N \in Nat
  BY Constants
<1>2. PICK f : Step(f, N) /\ TakenOut = f[N]
  BY TakenSteps
<1> HIDE DEF N
<1> DEFINE Bad == {k \in 0..N : ~Apiece(f[k])}
<1>3. SUFFICES ASSUME Bad # {} PROVE FALSE
  BY <1>1, <1>2
<1>4. PICK k \in Bad : \A j \in Bad : k <= j
  <2>1. Bad \in SUBSET Nat
    BY <1>1
  <2> HIDE DEF Bad
  <2> QED
    BY <1>3, <2>1, Least
<1>5. k \in 0..N /\ ~Apiece(f[k])
  OBVIOUS
<1>6. CASE k = 0
  <2>1. f[0] = [left |-> bios_drive_map, list |-> <<>>]
    BY <1>1, <1>2, StepFacts
  <2>2. <<>> \in Table /\ DOMAIN <<>> = {}
    BY DEF Table
  <2>3. Apiece(f[0])
    BY <2>1, <2>2 DEF Apiece
  <2> QED
    BY <1>5, <1>6, <2>3
<1>7. CASE k # 0
  <2>1. k - 1 \in 0..N /\ f[k] = TakeHighest(f[k - 1])
    BY <1>1, <1>2, <1>5, <1>7, StepFacts
  <2>2. Apiece(f[k - 1])
    BY <1>1, <1>4, <1>5, <2>1
  <2> QED
    BY <1>5, <2>1, <2>2, TakeTypes
<1> QED
  BY <1>6, <1>7

-----------------------------------------------------------------------------
(* Types *)

\* The places found have numbers, whatever the table holds.
LEMMA PlaceTypes ==
  ASSUME bios_drive_map \in Table, DOMAIN memory = 0..(Memory - 1),
         NEW n \in Nat, NEW mem \in Int, NEW top \in BOOLEAN, NEW p \in Places(n, mem, top)
  PROVE  p[1] \in Nat /\ p[2] \in Nat
<1> DEFINE need == Up(IF mem < 0 /\ n < -mem THEN -mem ELSE n)
<1>1. need \in Nat
  <2> DEFINE m == IF mem < 0 /\ n < -mem THEN -mem ELSE n
  <2>1. m \in Nat
    OBVIOUS
  <2> HIDE DEF m
  <2>2. Up(m) \in Nat
    BY <2>1, UpFacts
  <2> QED
    BY <2>2 DEF m
<1>2. CASE mem <= 0
  <2>1. PICK b \in Bases(need, top) : p = <<b, need>>
    BY <1>2 DEF Places
  <2> HIDE DEF need
  <2>2. b \in 0..(Memory - 1)
    BY <1>1, BaseFacts
  <2> QED
    BY <1>1, <2>1, <2>2, Constants
<1>3. CASE mem > 0
  <2>1. PICK r \in Regions :
          /\ mem >= Lowest(r) /\ mem + need <= Highest(r, top)
          /\ (mem..(mem + need - 1)) \cap Taken = {}
          /\ p = <<mem, Min({Highest(r, top)} \cup {t \in Taken : t > mem}) - mem>>
    <3> DEFINE E(r) == <<mem, Min({Highest(r, top)} \cup {t \in Taken : t > mem}) - mem>>
               free == {r \in Regions : /\ mem >= Lowest(r) /\ mem + need <= Highest(r, top)
                                        /\ (mem..(mem + need - 1)) \cap Taken = {}}
    <3>1. ~(mem <= 0)
      BY <1>3
    <3>2. p \in {E(r) : r \in free}
      BY <3>1, Zenon DEF Places
    <3>3. \A r \in free : /\ r \in Regions /\ mem >= Lowest(r) /\ mem + need <= Highest(r, top)
                          /\ (mem..(mem + need - 1)) \cap Taken = {}
      OBVIOUS
    <3> HIDE DEF free
    <3> QED
      BY <3>2, <3>3, Zenon
  <2> HIDE DEF need
  <2> DEFINE h == Highest(r, top)
             T == {h} \cup {t \in Taken : t > mem}
             e == Min(T)
  <2>2. h \in Nat /\ mem + need <= h
    BY <2>1, RangeFacts
  <2> HIDE DEF h
  <2>3. T \in SUBSET Nat /\ T # {} /\ \A t \in T : t >= mem
    BY <1>1, <1>3, <2>2, TakenFacts
  <2>4. p = <<mem, e - mem>>
    BY <2>1 DEF h
  <2> HIDE DEF T
  <2>5. e \in T
    BY <2>3, LeastChosen
  <2> HIDE DEF e
  <2>6. e \in Nat /\ e >= mem
    BY <2>3, <2>5
  <2> QED
    BY <1>3, <2>4, <2>6
<1> QED
  BY <1>2, <1>3

LEMMA TableTypes ==
  TypeOK <=>
    /\ bios_drive_map \in Table /\ hooked_drive_map \in Table
    /\ int13 \in BOOLEAN /\ DOMAIN memory = 0..(Memory - 1)
    /\ pc \in {"idle", "rehook", "fatal"} /\ commands \in 0..MaxCommands
BY DEF TypeOK, Table, Slots

LEMMA ImageFacts ==
  ASSUME NEW i \in Images
  PROVE  i[1] \in Numbers /\ i[2] \in Nat /\ i[3] \in Nat \ {0} /\ i[3] \in Nat
BY DriveMapAssumption

LEMMA OptionFacts ==
  ASSUME NEW o \in Options
  PROVE  o[1] \in Int /\ o[2] \in BOOLEAN
BY DriveMapAssumption

LEMMA SlotType ==
  ASSUME NEW from \in Numbers, NEW to \in Numbers \cup {MEM},
         NEW start \in Nat, NEW count \in Nat, NEW img \in Nat
  PROVE  /\ Slot(from, to, start, count, img) \in Slots
         /\ Slot(from, to, start, count, img).start = start
         /\ Slot(from, to, start, count, img).count = count
         /\ Slot(from, to, start, count, img).to = to
         /\ Slot(from, to, start, count, img).from = from
BY DEF Slot, Slots

LEMMA TypesInit ==
  Init => TypeOK
<1>1. SUFFICES ASSUME Init PROVE TypeOK
  OBVIOUS
<1>2. <<>> \in Table
  BY DEF Table
<1>3. DOMAIN memory = 0..(Memory - 1)
  BY <1>1 DEF Init
<1>4. 0 \in 0..MaxCommands
  BY DriveMapAssumption
<1> QED
  BY <1>1, <1>2, <1>3, <1>4, TableTypes DEF Init

\* A command is counted; memory is kept or forgotten.
LEMMA CommandTypes ==
  ASSUME commands \in 0..MaxCommands, Command \/ OtherCommand
  PROVE  commands' \in 0..MaxCommands
BY DriveMapAssumption DEF Command, OtherCommand

LEMMA MemoryTypes ==
  ASSUME DOMAIN memory = 0..(Memory - 1), KeepMemory
  PROVE  DOMAIN memory' = 0..(Memory - 1)
BY DEF KeepMemory, Kept

LEMMA TypesStep ==
  TypeOK /\ [Next]_vars => TypeOK'
<1>1. SUFFICES ASSUME TypeOK, [Next]_vars PROVE TypeOK'
  OBVIOUS
<1>2. /\ bios_drive_map \in Table /\ hooked_drive_map \in Table
      /\ int13 \in BOOLEAN /\ DOMAIN memory = 0..(Memory - 1)
      /\ pc \in {"idle", "rehook", "fatal"} /\ commands \in 0..MaxCommands
  BY <1>1, TableTypes
<1>3. SUFFICES /\ bios_drive_map' \in Table /\ hooked_drive_map' \in Table
               /\ int13' \in BOOLEAN /\ DOMAIN memory' = 0..(Memory - 1)
               /\ pc' \in {"idle", "rehook", "fatal"} /\ commands' \in 0..MaxCommands
  BY DEF TypeOK, Table, Slots
\* What the steps that keep the hooked table have in common.
<1>4. ASSUME Command, KeepMemory, UNCHANGED <<hooked_drive_map, int13, pc>>
      PROVE  /\ hooked_drive_map' \in Table /\ int13' \in BOOLEAN
             /\ DOMAIN memory' = 0..(Memory - 1)
             /\ pc' \in {"idle", "rehook", "fatal"} /\ commands' \in 0..MaxCommands
  BY <1>2, <1>4, CommandTypes, MemoryTypes
<1>5. <<>> \in Table
  BY DEF Table
<1>6. ASSUME NEW from \in Numbers, NEW i \in Images, MapRange(from, i[1], i[2], i[3])
      PROVE  bios_drive_map' \in Table
  <2>1. Through(from, i[1], i[2], i[3]) \in Slots
    BY <1>2, ImageFacts, ThroughSlot
  <2>2. bios_drive_map' = Mapped(bios_drive_map, Through(from, i[1], i[2], i[3]))
    BY <1>6 DEF MapRange
  <2> QED
    BY <1>2, <2>1, <2>2, DeletedFewer, StoredTable DEF Mapped
<1>7. ASSUME NEW from \in Numbers, NEW i \in Images, MapRange(from, i[1], i[2], i[3])
      PROVE  Command /\ KeepMemory /\ UNCHANGED <<hooked_drive_map, int13, pc>>
  BY <1>7 DEF MapRange
<1>8. ASSUME NEW from \in Numbers, NEW to \in Numbers, MapWhole(from, to)
      PROVE  /\ bios_drive_map' \in Table
             /\ Command /\ KeepMemory /\ UNCHANGED <<hooked_drive_map, int13, pc>>
  BY <1>2, <1>8, GivenTable DEF MapWhole
<1>9. ASSUME NEW from \in Numbers, NEW i \in Images, NEW o \in Options,
             MapMemory(from, i[1], i[2], i[3], o[1], o[2])
      PROVE  /\ bios_drive_map' \in Table /\ DOMAIN memory' = 0..(Memory - 1)
             /\ Command /\ UNCHANGED <<hooked_drive_map, int13, pc>>
  <2>1. /\ Command /\ UNCHANGED <<hooked_drive_map, int13, pc>>
        /\ DOMAIN memory' = DOMAIN memory
    BY <1>9 DEF MapMemory, Kept
  <2>2. PICK p \in Places(i[3], o[1], o[2]) :
          bios_drive_map' = Stored(bios_drive_map, Slot(from, MEM, p[1], p[2], i[3]))
    BY <1>9 DEF MapMemory
  <2>3. p[1] \in Nat /\ p[2] \in Nat
    BY <1>2, ImageFacts, OptionFacts, PlaceTypes
  <2>4. Slot(from, MEM, p[1], p[2], i[3]) \in Slots
    BY <2>3, ImageFacts, SlotType
  <2> QED
    BY <1>2, <2>1, <2>2, <2>4, StoredTable
<1>10. ASSUME NEW range \in SUBSET Numbers, Unmap(range)
       PROVE  /\ bios_drive_map' \in Table
              /\ Command /\ KeepMemory /\ UNCHANGED <<hooked_drive_map, int13, pc>>
  BY <1>2, <1>10, DeletedFewer DEF Unmap
<1>11. ASSUME NEW a \in Numbers, NEW b \in Numbers, Swap(a, b)
       PROVE  bios_drive_map' \in Table
  <2> DEFINE t1 == Renamed(bios_drive_map, a, b)
             t2 == IF Find(bios_drive_map, a) = 0 THEN Given(t1, b, a) ELSE t1
  <2>1. t1 \in Table
    BY <1>2, RenamedFewer
  <2>2. t2 \in Table
    BY <1>2, <2>1, GivenTable
  <2>3. bios_drive_map' = IF Find(bios_drive_map, b) = 0 THEN Given(t2, a, b) ELSE t2
    BY <1>11 DEF Swap
  <2> HIDE DEF t2
  <2> QED
    BY <1>2, <2>2, <2>3, GivenTable
<1>12. ASSUME NEW a \in Numbers, NEW b \in Numbers, Swap(a, b)
       PROVE  Command /\ KeepMemory /\ UNCHANGED <<hooked_drive_map, int13, pc>>
  BY <1>12 DEF Swap
<1>13. ASSUME NEW first, Hook(first)
       PROVE  /\ bios_drive_map' \in Table /\ hooked_drive_map' \in Table /\ int13' = TRUE
              /\ KeepMemory /\ OtherCommand /\ UNCHANGED pc
  BY <1>2, <1>13, OnTopFewer DEF Hook, Hooked
<1>14. ASSUME Rehook
       PROVE  /\ bios_drive_map' \in Table /\ hooked_drive_map' \in Table /\ int13' = FALSE
              /\ KeepMemory /\ OtherCommand /\ pc' = "rehook"
  BY <1>2, <1>14, TakenTypes DEF Rehook, Apiece
<1>15. ASSUME RehookOne
       PROVE  /\ bios_drive_map' \in Table /\ hooked_drive_map' \in Table
              /\ DOMAIN memory' = 0..(Memory - 1) /\ pc' \in {pc, "fatal"}
              /\ UNCHANGED <<int13, commands>>
  <2> DEFINE s == Head(hooked_drive_map)
             places == Places(s.count, 0, s.start >= FourGB)
  <2>1. hooked_drive_map \in Seq(Slots) /\ hooked_drive_map # <<>>
    BY <1>2, <1>15 DEF RehookOne, Table
  <2>2. s \in Slots /\ Tail(hooked_drive_map) \in Table
    <3> HIDE DEF Slots
    <3> QED
      BY <2>1 DEF Table
  <2>3. hooked_drive_map' = Tail(hooked_drive_map) /\ UNCHANGED <<int13, commands>>
    BY <1>15 DEF RehookOne
  <2>4. CASE places = {}
    <3>1. pc' = "fatal" /\ UNCHANGED <<bios_drive_map, memory>>
      BY <1>15, <2>4 DEF RehookOne
    <3> QED
      BY <1>2, <2>2, <2>3, <3>1
  <2>5. CASE places # {}
    <3>1. PICK p \in places :
            bios_drive_map' = Append(bios_drive_map, Slot(s.from, MEM, p[1], p[2], s.img))
      BY <1>15, <2>5 DEF RehookOne
    <3>2. pc' = pc /\ DOMAIN memory' = DOMAIN memory
      BY <1>15, <2>5 DEF RehookOne, Kept
    <3>3. s.from \in Numbers /\ s.count \in Nat /\ s.img \in Nat
      BY <2>2 DEF Slots
    <3>4. p[1] \in Nat /\ p[2] \in Nat
      <4>1. (s.start >= FourGB) \in BOOLEAN /\ 0 \in Int
        OBVIOUS
      <4> QED
        BY <1>2, <3>3, <4>1, PlaceTypes
    <3>5. Slot(s.from, MEM, p[1], p[2], s.img) \in Slots
      <4> HIDE DEF s
      <4> QED
        BY <3>3, <3>4 DEF Slot, Slots
    <3> QED
      BY <1>2, <2>2, <2>3, <3>1, <3>2, <3>5, AppendFacts
  <2> QED
    BY <2>4, <2>5
<1>16. CASE \E from \in Numbers, i \in Images : MapRange(from, i[1], i[2], i[3])
  BY <1>4, <1>6, <1>7, <1>16
<1>17. CASE \E from, to \in Numbers : MapWhole(from, to)
  BY <1>4, <1>8, <1>17
<1>18. CASE \E from \in Numbers, i \in Images, o \in Options :
              MapMemory(from, i[1], i[2], i[3], o[1], o[2])
  BY <1>2, <1>9, <1>18, CommandTypes
<1>19. CASE \E range \in SUBSET Numbers \ {{}} : Unmap(range)
  BY <1>4, <1>10, <1>19
<1>20. CASE \E a, b \in Numbers : Swap(a, b)
  BY <1>4, <1>11, <1>12, <1>20
<1>21. CASE \E first \in Numbers \cup {None} : Hook(first)
  BY <1>2, <1>13, <1>21, CommandTypes, MemoryTypes
<1>22. CASE Boot
  BY <1>2, <1>22, CommandTypes DEF Boot, Hooked
<1>23. CASE Unhook
  BY <1>2, <1>5, <1>23, CommandTypes, MemoryTypes DEF Unhook, Off
<1>24. CASE Rehook
  BY <1>2, <1>14, <1>24, CommandTypes, MemoryTypes
<1>25. CASE RehookOne
  BY <1>2, <1>15, <1>25
<1>26. CASE RehookDone
  BY <1>2, <1>26 DEF RehookDone, Hooked
<1>27. CASE UNCHANGED vars
  BY <1>2, <1>27 DEF vars
<1> QED
  BY <1>1, <1>16, <1>17, <1>18, <1>19, <1>20, <1>21, <1>22, <1>23, <1>24, <1>25, <1>26, <1>27
     DEF Next

\* The tables hold slots, memory keeps its size: the type invariant, for every
\* memory map, every table size and every set of images.
THEOREM Types == Spec => []TypeOK
<1>1. Init => TypeOK
  BY TypesInit
<1>2. TypeOK /\ [Next]_vars => TypeOK'
  BY TypesStep
<1> QED
  BY <1>1, <1>2, PTL DEF Spec

-----------------------------------------------------------------------------
(* Memory drives lie apart in usable memory *)

LEMMA SlotPages ==
  ASSUME NEW t \in Table, NEW i \in InMemory(t), Placed(t)
  PROVE  /\ t[i].start \in Nat /\ t[i].count \in Nat \ {0} /\ Within(t[i])
         /\ First(t[i]) \in Nat /\ PastEnd(t[i]) \in Nat /\ First(t[i]) < PastEnd(t[i])
         /\ First(t[i]) <= t[i].start /\ t[i].start < PastEnd(t[i])
         /\ Span(t[i]) = First(t[i])..(PastEnd(t[i]) - 1)
<1>1. i \in DOMAIN t
  BY DEF InMemory
<1>2. t[i].start \in Nat /\ t[i].count \in Nat
  BY <1>1, SlotFacts
<1>3. Within(t[i]) /\ t[i].count > 0
  BY DEF Placed, Within
<1>4. /\ First(t[i]) \in Nat /\ PastEnd(t[i]) \in Nat /\ First(t[i]) < PastEnd(t[i])
      /\ First(t[i]) <= t[i].start /\ t[i].start + t[i].count <= PastEnd(t[i])
      /\ Span(t[i]) = First(t[i])..(PastEnd(t[i]) - 1)
  BY <1>2, <1>3, PageFacts
<1> QED
  BY <1>2, <1>3, <1>4

LEMMA FreshSlot ==
  ASSUME NEW s, Fresh(<<s.start, s.count>>)
  PROVE  /\ Within(s)
         /\ \A i \in InMemory(bios_drive_map) :
              Above(s, bios_drive_map[i]) \/ Above(bios_drive_map[i], s)
<1> DEFINE p == <<s.start, s.count>>
           a == s.start
           c == s.count
<1>1. p[1] = a /\ p[2] = c
  OBVIOUS
<1>2. Fresh(p)
  OBVIOUS
<1> HIDE DEF p, a, c
<1>3. /\ c \in Nat \ {0} /\ \E r \in Regions : a >= Lowest(r) /\ a + c <= Highest(r, TRUE)
      /\ \A i \in InMemory(bios_drive_map) :
           PastEnd(bios_drive_map[i]) <= Down(a) \/ Up(a + c) <= First(bios_drive_map[i])
  BY <1>1, <1>2 DEF Fresh
<1>4. c > 0
  BY <1>3
<1>5. Within(s) <=> c > 0 /\ \E r \in Regions : a >= Lowest(r) /\ a + c <= Highest(r, TRUE)
  BY DEF Within, a, c
<1>6. First(s) = Down(a) /\ PastEnd(s) = Up(a + c)
  BY DEF First, PastEnd, a, c
<1> QED
  BY <1>3, <1>4, <1>5, <1>6 DEF Above

\* A memory drive at a fresh place, beside some of those in the table.
LEMMA AddedPlaced ==
  ASSUME Placed(bios_drive_map), NEW u, NEW k, NEW I \in SUBSET InMemory(bios_drive_map),
         InMemory(u) = I \cup {k}, \A i \in I : u[i] = bios_drive_map[i],
         Fresh(<<u[k].start, u[k].count>>)
  PROVE  Placed(u)
<1>1. Within(u[k])
  BY FreshSlot
<1>2. ASSUME NEW i \in I
      PROVE  Within(u[i]) /\ (Above(u[k], u[i]) \/ Above(u[i], u[k]))
  BY FreshSlot DEF Placed
<1>3. \A i, j \in I : i # j => Above(u[i], u[j]) \/ Above(u[j], u[i])
  BY DEF Placed, Apart
<1> QED
  BY <1>1, <1>2, <1>3 DEF Placed, Apart

LEMMA FreshStored ==
  ASSUME bios_drive_map \in Table, Placed(bios_drive_map), NEW s \in Slots, s.to = MEM,
         Fresh(<<s.start, s.count>>)
  PROVE  Placed(Stored(bios_drive_map, s)) /\ Placed(Append(bios_drive_map, s))
<1> DEFINE t == bios_drive_map
           k == Find(t, s.from)
<1>1. k \in 0..Len(t) /\ DOMAIN t = 1..Len(t) /\ Len(t) \in Nat
  BY FindFacts DEF Table
<1>2. Placed(Append(t, s))
  <2> DEFINE u == Append(t, s)
             m == Len(t) + 1
  <2>1. InMemory(u) = InMemory(t) \cup {m} /\ u[m] = s /\ \A i \in InMemory(t) : u[i] = t[i]
    BY AppendFacts
  <2> HIDE DEF u, m
  <2>2. Placed(u)
    BY <2>1, AddedPlaced
  <2> QED
    BY <2>2 DEF u
<1>3. ASSUME k # 0 PROVE Placed([t EXCEPT ![k] = s])
  <2> DEFINE u == [t EXCEPT ![k] = s]
             I == InMemory(t) \ {k}
  <2>1. k \in DOMAIN t
    BY <1>1, <1>3
  <2>2. InMemory(u) = I \cup {k} /\ u[k] = s /\ \A i \in I : u[i] = t[i]
    <3>1. u = [t EXCEPT ![k] = s]
      OBVIOUS
    <3> HIDE DEF u, k
    <3>2. DOMAIN u = DOMAIN t /\ u[k] = s
      BY <2>1, <3>1, ExceptFacts
    <3>3. ASSUME NEW i \in DOMAIN t \ {k} PROVE u[i] = t[i]
      BY <2>1, <3>1, ExceptFacts
    <3> QED
      BY <2>1, <3>2, <3>3 DEF InMemory
  <2>3. I \in SUBSET InMemory(t)
    OBVIOUS
  <2> HIDE DEF u, I, k
  <2>4. Placed(u)
    BY <2>2, <2>3, AddedPlaced
  <2> QED
    BY <2>4 DEF u
<1> QED
  BY <1>2, <1>3 DEF Stored

\* What the steps of TakenOut keep besides.
Moves(o) == Apiece(o) /\ Fewer(o.left, bios_drive_map) /\ Moving(o.list)

LEMMA AppendMoving ==
  ASSUME NEW q \in Table, NEW s \in Slots, Moving(q), s.to = MEM, Within(s)
  PROVE  Moving(Append(q, s))
<1>1. q \in Seq(Slots)
  BY DEF Table
<1>2. \A i \in DOMAIN Append(q, s) :
        IF i \in DOMAIN q THEN Append(q, s)[i] = q[i] ELSE Append(q, s)[i] = s
  <2> HIDE DEF Slots
  <2> QED
    BY <1>1
<1> QED
  BY <1>2 DEF Moving

\* The memory drive that is picked goes from one to the other.
LEMMA TakeFacts ==
  ASSUME NEW o, Apiece(o), Picked(o.left) # {}
  PROVE  \E k \in Picked(o.left) :
           /\ k \in DOMAIN o.left /\ o.left[k] \in Slots /\ o.left[k].to = MEM
           /\ TakeHighest(o).left = RemoveAt(o.left, k)
           /\ TakeHighest(o).list = Append(o.list, o.left[k])
<1> DEFINE k == CHOOSE i \in Picked(o.left) : TRUE
<1>1. k \in Picked(o.left)
  OBVIOUS
<1>2. TakeHighest(o) = [left |-> RemoveAt(o.left, k), list |-> Append(o.list, o.left[k])]
  BY DEF TakeHighest
<1> HIDE DEF k
<1>3. k \in DOMAIN o.left /\ o.left[k].to = MEM
  BY <1>1, PickedFacts DEF InMemory
<1>4. o.left[k] \in Slots
  BY <1>3, SlotFacts DEF Apiece
<1> QED
  BY <1>1, <1>2, <1>3, <1>4

LEMMA TakeMoves ==
  ASSUME Placed(bios_drive_map), NEW o, Moves(o)
  PROVE  Moves(TakeHighest(o))
<1>1. Apiece(o) /\ Apiece(TakeHighest(o))
  BY TakeTypes DEF Moves
<1>2. CASE Picked(o.left) = {}
  BY <1>2 DEF TakeHighest
<1>3. CASE Picked(o.left) # {}
  <2>1. PICK k \in Picked(o.left) :
          /\ k \in DOMAIN o.left /\ o.left[k] \in Slots /\ o.left[k].to = MEM
          /\ TakeHighest(o).left = RemoveAt(o.left, k)
          /\ TakeHighest(o).list = Append(o.list, o.left[k])
    BY <1>1, <1>3, TakeFacts
  <2>2. o.left \in Table /\ o.list \in Table /\ Fewer(o.left, bios_drive_map) /\ Moving(o.list)
    BY DEF Moves, Apiece
  <2>3. Fewer(RemoveAt(o.left, k), bios_drive_map)
    <3>1. Fewer(RemoveAt(o.left, k), o.left)
      BY <2>1, <2>2, RemovedFewer DEF Fewer
    <3> QED
      BY <2>2, <3>1, FewerTransitive
  <2>4. Within(o.left[k])
    <3>1. Placed(o.left)
      BY <2>2, FewerPlaced
    <3> QED
      BY <2>1, <3>1, PickedFacts DEF Placed
  <2>5. Moving(Append(o.list, o.left[k]))
    <3> DEFINE s == o.left[k]
    <3>1. s \in Slots /\ s.to = MEM /\ Within(s)
      BY <2>1, <2>4
    <3> HIDE DEF s
    <3>2. Moving(Append(o.list, s))
      BY <2>2, <3>1, AppendMoving
    <3> QED
      BY <3>2 DEF s
  <2> QED
    BY <1>1, <2>1, <2>3, <2>5 DEF Moves
<1> QED
  BY <1>2, <1>3

LEMMA FirstMoves ==
  ASSUME bios_drive_map \in Table
  PROVE  Moves([left |-> bios_drive_map, list |-> <<>>])
<1>1. <<>> \in Table /\ DOMAIN <<>> = {}
  BY DEF Table
<1> QED
  BY <1>1, FewerItself DEF Moves, Apiece, Moving

LEMMA TakenMoves ==
  ASSUME bios_drive_map \in Table, Placed(bios_drive_map)
  PROVE  Moves(TakenOut)
<1> DEFINE N == DRIVE_MAP_SIZE - 1
<1>1. N \in Nat
  BY Constants
<1>2. PICK f : Step(f, N) /\ TakenOut = f[N]
  BY TakenSteps
<1> HIDE DEF N
<1> DEFINE Bad == {k \in 0..N : ~Moves(f[k])}
<1>3. SUFFICES ASSUME Bad # {} PROVE FALSE
  BY <1>1, <1>2
<1>4. PICK k \in Bad : \A j \in Bad : k <= j
  <2>1. Bad \in SUBSET Nat
    BY <1>1
  <2> HIDE DEF Bad
  <2> QED
    BY <1>3, <2>1, Least
<1>5. k \in 0..N /\ ~Moves(f[k])
  OBVIOUS
<1>6. CASE k = 0
  <2>1. f[0] = [left |-> bios_drive_map, list |-> <<>>]
    BY <1>1, <1>2, StepFacts
  <2> QED
    BY <1>5, <1>6, <2>1, FirstMoves
<1>7. CASE k # 0
  <2>1. k - 1 \in 0..N /\ f[k] = TakeHighest(f[k - 1])
    BY <1>1, <1>2, <1>5, <1>7, StepFacts
  <2>2. Moves(f[k - 1])
    BY <1>1, <1>4, <1>5, <2>1
  <2> QED
    BY <1>5, <2>1, <2>2, TakeMoves
<1> QED
  BY <1>6, <1>7

LEMMA SwapFewer ==
  ASSUME bios_drive_map \in Table, hooked_drive_map \in Table, Aliases = FALSE,
         NEW a \in Numbers, NEW b \in Numbers, Swap(a, b)
  PROVE  Fewer(bios_drive_map', bios_drive_map)
<1> DEFINE k == Find(bios_drive_map, a) = 0
           l == Find(bios_drive_map, b) = 0
           t1 == Renamed(bios_drive_map, a, b)
           t2 == IF k THEN Given(t1, b, a) ELSE t1
<1>1. t1 \in Table /\ Fewer(t1, bios_drive_map)
  BY RenamedFewer
<1>2. /\ k => Through(b, a, 0, 0).to # MEM
      /\ l => Through(a, b, 0, 0).to # MEM
      /\ bios_drive_map' = IF l THEN Given(t2, a, b) ELSE t2
  BY DEF Swap, AliasFree
<1> HIDE DEF k, l, t1
<1>3. t2 \in Table /\ Fewer(t2, bios_drive_map)
  <2>1. CASE ~k
    BY <1>1, <2>1
  <2>2. CASE k
    <3>1. Given(t1, b, a) \in Table /\ Fewer(Given(t1, b, a), t1)
      BY <1>1, <1>2, <2>2, GivenFewer
    <3> QED
      BY <1>1, <2>2, <3>1, FewerTransitive
  <2> QED
    BY <2>1, <2>2
<1> HIDE DEF t2
<1>4. CASE ~l
  BY <1>2, <1>3, <1>4
<1>5. CASE l
  <2>1. Fewer(Given(t2, a, b), t2)
    BY <1>2, <1>3, <1>5, GivenFewer
  <2> QED
    BY <1>2, <1>3, <1>5, <2>1, FewerTransitive
<1> QED
  BY <1>4, <1>5

\* A drive that has waited gets its new place.
LEMMA RehookOnePlaced ==
  ASSUME TypeOK, Placed(bios_drive_map), Moving(hooked_drive_map), RehookOne
  PROVE  Placed(bios_drive_map') /\ Moving(hooked_drive_map')
<1> DEFINE s == Head(hooked_drive_map)
           top == s.start >= FourGB
           places == Places(s.count, 0, top)
<1>1. bios_drive_map \in Table /\ hooked_drive_map \in Table
  BY TableTypes
<1>2. /\ hooked_drive_map \in Seq(Slots) /\ hooked_drive_map # <<>>
      /\ hooked_drive_map' = Tail(hooked_drive_map)
  BY <1>1 DEF RehookOne, Table
<1>3. /\ s \in Slots /\ 1 \in DOMAIN hooked_drive_map /\ s = hooked_drive_map[1]
      /\ \A i \in DOMAIN Tail(hooked_drive_map) :
           i + 1 \in DOMAIN hooked_drive_map /\ Tail(hooked_drive_map)[i] = hooked_drive_map[i + 1]
  <2> HIDE DEF Slots
  <2> QED
    BY <1>2
<1>4. Moving(hooked_drive_map')
  BY <1>2, <1>3 DEF Moving
<1>5. s.count \in Nat \ {0} /\ s.from \in Numbers /\ s.img \in Nat
  <2>1. Within(s)
    BY <1>3 DEF Moving
  <2>2. s.count \in Nat /\ s.from \in Numbers /\ s.img \in Nat
    BY <1>3 DEF Slots
  <2>3. s.count > 0
    BY <2>1 DEF Within
  <2> QED
    BY <2>2, <2>3
<1>6. CASE places = {}
  <2>1. UNCHANGED bios_drive_map
    BY <1>6 DEF RehookOne
  <2> QED
    BY <1>4, <2>1
<1>7. CASE places # {}
  <2>1. PICK p \in places :
          bios_drive_map' = Append(bios_drive_map, Slot(s.from, MEM, p[1], p[2], s.img))
    BY <1>7 DEF RehookOne
  <2>2. Fresh(p) /\ \E b, n : p = <<b, n>>
    <3>1. top \in BOOLEAN /\ 0 \in Int
      OBVIOUS
    <3> HIDE DEF s, top
    <3>2. Fresh(p)
      BY <1>5, <3>1, PlaceFacts
    <3>3. \E b, n : p = <<b, n>>
      BY DEF Places
    <3> QED
      BY <3>2, <3>3
  <2> DEFINE d == Slot(s.from, MEM, p[1], p[2], s.img)
  <2>3. d \in Slots /\ d.to = MEM /\ d.start = p[1] /\ d.count = p[2]
    <3>1. p[1] \in Nat /\ p[2] \in Nat
      BY <2>2 DEF Fresh
    <3> HIDE DEF s
    <3> QED
      BY <1>5, <3>1 DEF Slot, Slots
  <2> HIDE DEF d
  <2>4. Fresh(<<d.start, d.count>>)
    BY <2>2, <2>3
  <2>5. Placed(Append(bios_drive_map, d))
    BY <1>1, <2>3, <2>4, FreshStored
  <2> QED
    BY <1>4, <2>1, <2>5 DEF d
<1> QED
  BY <1>6, <1>7

LEMMA PlacedInit ==
  Init => PlacedInv
<1>1. SUFFICES ASSUME Init PROVE PlacedInv
  OBVIOUS
<1>2. TypeOK /\ pc # "rehook" /\ bios_drive_map = <<>>
  BY <1>1, TypesInit DEF Init
<1>3. InMemory(bios_drive_map) = {}
  BY <1>2 DEF InMemory
<1>4. Placed(bios_drive_map)
  BY <1>3 DEF Placed, Apart
<1> QED
  BY <1>2, <1>4 DEF PlacedInv

LEMMA PlacedStep ==
  ASSUME Aliases = FALSE
  PROVE  PlacedInv /\ [Next]_vars => PlacedInv'
<1>1. SUFFICES ASSUME PlacedInv, [Next]_vars PROVE PlacedInv'
  OBVIOUS
<1>2. TypeOK /\ Placed(bios_drive_map) /\ (pc = "rehook" => Moving(hooked_drive_map))
  BY <1>1 DEF PlacedInv
<1>3. TypeOK'
  BY <1>1, <1>2, TypesStep
<1>4. SUFFICES Placed(bios_drive_map') /\ (pc' = "rehook" => Moving(hooked_drive_map'))
  BY <1>3 DEF PlacedInv, Placed, Apart, InMemory, Moving
<1>5. bios_drive_map \in Table /\ hooked_drive_map \in Table /\ DOMAIN memory = 0..(Memory - 1)
  BY <1>2, TableTypes
\* Commands leave a --rehook alone.
<1>6. ASSUME Command \/ OtherCommand, pc' = pc
      PROVE  pc' # "rehook"
  BY <1>6 DEF Command, OtherCommand
<1>7. ASSUME NEW from \in Numbers, NEW i \in Images, MapRange(from, i[1], i[2], i[3])
      PROVE  Fewer(bios_drive_map', bios_drive_map)
  <2> DEFINE s == Through(from, i[1], i[2], i[3])
  <2>1. s \in Slots /\ s.to # MEM /\ bios_drive_map' = Mapped(bios_drive_map, s)
    BY <1>5, <1>7, ImageFacts, ThroughSlot DEF MapRange, AliasFree
  <2> HIDE DEF s
  <2> QED
    BY <1>5, <2>1, MappedFewer
<1>8. ASSUME NEW from \in Numbers, NEW to \in Numbers, MapWhole(from, to)
      PROVE  Fewer(bios_drive_map', bios_drive_map)
  BY <1>5, <1>8, GivenFewer DEF MapWhole, AliasFree
<1>9. ASSUME NEW from \in Numbers, NEW i \in Images, NEW o \in Options,
             MapMemory(from, i[1], i[2], i[3], o[1], o[2])
      PROVE  Placed(bios_drive_map')
  <2>1. PICK p \in Places(i[3], o[1], o[2]) :
          bios_drive_map' = Stored(bios_drive_map, Slot(from, MEM, p[1], p[2], i[3]))
    BY <1>9 DEF MapMemory
  <2> DEFINE n == i[3]
             m == o[1]
             top == o[2]
  <2>2. n \in Nat \ {0} /\ m \in Int /\ top \in BOOLEAN /\ n \in Nat
    BY ImageFacts, OptionFacts
  <2>3. p \in Places(n, m, top)
    BY <2>1
  <2> DEFINE d == Slot(from, MEM, p[1], p[2], n)
  <2>4. bios_drive_map' = Stored(bios_drive_map, d)
    BY <2>1
  <2> HIDE DEF n, m, top
  <2>5. Fresh(p) /\ \E b, q : p = <<b, q>>
    <3>1. Fresh(p)
      BY <1>2, <2>2, <2>3, PlaceFacts
    <3>2. \E b, q : p = <<b, q>>
      BY <2>3 DEF Places
    <3> QED
      BY <3>1, <3>2
  <2>6. d \in Slots /\ d.to = MEM /\ d.start = p[1] /\ d.count = p[2]
    <3>1. p[1] \in Nat /\ p[2] \in Nat
      BY <2>5 DEF Fresh
    <3> QED
      BY <2>2, <3>1 DEF Slot, Slots
  <2> HIDE DEF d
  <2>7. Fresh(<<d.start, d.count>>)
    BY <2>5, <2>6
  <2> QED
    BY <1>2, <1>5, <2>4, <2>6, <2>7, FreshStored
<1>10. ASSUME NEW range, Unmap(range)
       PROVE  Fewer(bios_drive_map', bios_drive_map)
  BY <1>5, <1>10, DeletedFewer DEF Unmap
<1>11. ASSUME NEW first, Hook(first)
       PROVE  Fewer(bios_drive_map', bios_drive_map)
  BY <1>5, <1>11, OnTopFewer DEF Hook
<1>12. ASSUME Rehook
       PROVE  Placed(bios_drive_map') /\ Moving(hooked_drive_map')
  <2>1. Moves(TakenOut)
    BY <1>2, <1>5, TakenMoves
  <2>2. Fewer(TakenOut.left, bios_drive_map) /\ Moving(TakenOut.list)
    BY <2>1 DEF Moves
  <2>3. Placed(TakenOut.left)
    BY <1>2, <2>2, FewerPlaced
  <2> QED
    BY <1>12, <2>2, <2>3 DEF Rehook
<1>13. CASE \E from \in Numbers, i \in Images : MapRange(from, i[1], i[2], i[3])
  <2>1. Fewer(bios_drive_map', bios_drive_map) /\ Command /\ pc' = pc
    BY <1>7, <1>13 DEF MapRange
  <2> QED
    BY <1>2, <1>6, <2>1, FewerPlaced
<1>14. CASE \E from, to \in Numbers : MapWhole(from, to)
  <2>1. Fewer(bios_drive_map', bios_drive_map) /\ Command /\ pc' = pc
    BY <1>8, <1>14 DEF MapWhole
  <2> QED
    BY <1>2, <1>6, <2>1, FewerPlaced
<1>15. CASE \E from \in Numbers, i \in Images, o \in Options :
              MapMemory(from, i[1], i[2], i[3], o[1], o[2])
  <2>1. Placed(bios_drive_map') /\ Command /\ pc' = pc
    BY <1>9, <1>15 DEF MapMemory
  <2> QED
    BY <1>6, <2>1
<1>16. CASE \E range \in SUBSET Numbers \ {{}} : Unmap(range)
  <2>1. Fewer(bios_drive_map', bios_drive_map) /\ Command /\ pc' = pc
    BY <1>10, <1>16 DEF Unmap
  <2> QED
    BY <1>2, <1>6, <2>1, FewerPlaced
<1>17. CASE \E a, b \in Numbers : Swap(a, b)
  <2>1. Fewer(bios_drive_map', bios_drive_map)
    BY <1>5, <1>17, SwapFewer
  <2>2. Command /\ pc' = pc
    BY <1>17 DEF Swap
  <2> QED
    BY <1>2, <1>6, <2>1, <2>2, FewerPlaced
<1>18. CASE \E first \in Numbers \cup {None} : Hook(first)
  <2>1. Fewer(bios_drive_map', bios_drive_map) /\ OtherCommand /\ pc' = pc
    BY <1>11, <1>18 DEF Hook
  <2> QED
    BY <1>2, <1>6, <2>1, FewerPlaced
<1>19. CASE Boot
  <2>1. bios_drive_map' = bios_drive_map /\ OtherCommand /\ pc' = pc
    BY <1>19 DEF Boot
  <2> QED
    BY <1>2, <1>6, <2>1
<1>20. CASE Unhook
  <2>1. bios_drive_map' = bios_drive_map /\ OtherCommand /\ pc' = pc
    BY <1>20 DEF Unhook
  <2> QED
    BY <1>2, <1>6, <2>1
<1>21. CASE Rehook
  BY <1>12, <1>21
<1>22. CASE RehookOne
  <2>1. pc = "rehook"
    BY <1>22 DEF RehookOne
  <2> QED
    BY <1>2, <1>22, <2>1, RehookOnePlaced
<1>23. CASE RehookDone
  <2>1. bios_drive_map' = bios_drive_map /\ pc' = "idle"
    BY <1>23 DEF RehookDone
  <2> QED
    BY <1>2, <2>1
<1>24. CASE UNCHANGED vars
  <2>1. bios_drive_map' = bios_drive_map /\ pc' = pc /\ hooked_drive_map' = hooked_drive_map
    BY <1>24 DEF vars
  <2> QED
    BY <1>2, <2>1
<1> QED
  BY <1>1, <1>13, <1>14, <1>15, <1>16, <1>17, <1>18, <1>19, <1>20, <1>21, <1>22, <1>23, <1>24
     DEF Next

LEMMA PlacedMeans ==
  PlacedInv => MemDrivesPlaced
<1>1. SUFFICES ASSUME PlacedInv PROVE MemDrivesPlaced
  OBVIOUS
<1> DEFINE t == bios_drive_map
<1>2. t \in Table /\ Placed(t)
  BY <1>1, TableTypes DEF PlacedInv
<1>3. ASSUME NEW i \in InMemory(t)
      PROVE  \E r \in Regions : /\ t[i].start >= Lowest(r)
                                /\ t[i].start + t[i].count <= Highest(r, TRUE)
  BY <1>2 DEF Placed, Within
<1>4. ASSUME NEW i \in InMemory(t), NEW j \in InMemory(t), i # j
      PROVE  Span(t[i]) \cap Span(t[j]) = {}
  <2> DEFINE a == First(t[i])
             b == PastEnd(t[i])
             c == First(t[j])
             e == PastEnd(t[j])
  <2>1. /\ a \in Nat /\ b \in Nat /\ c \in Nat /\ e \in Nat
        /\ Span(t[i]) = a..(b - 1) /\ Span(t[j]) = c..(e - 1)
    BY <1>2, SlotPages
  <2>2. e <= a \/ b <= c
    BY <1>2, <1>4 DEF Placed, Apart, Above
  <2> HIDE DEF a, b, c, e
  <2>3. (a..(b - 1)) \cap (c..(e - 1)) = {}
    BY <2>1, <2>2
  <2> QED
    BY <2>1, <2>3
<1> QED
  BY <1>3, <1>4 DEF MemDrivesPlaced

\* As long as no map without --mem names a memory drive that is hooked, the
\* memory drives of the table lie in usable memory with no page in common: for
\* every memory map, table size and request, --top and --mem=BASE included, in a
\* full table and across --rehook.
THEOREM Placement ==
  ASSUME Aliases = FALSE
  PROVE  Spec => []MemDrivesPlaced
<1>1. Init => PlacedInv
  BY PlacedInit
<1>2. PlacedInv /\ [Next]_vars => PlacedInv'
  BY PlacedStep
<1>3. PlacedInv => MemDrivesPlaced
  BY PlacedMeans
<1> QED
  BY <1>1, <1>2, <1>3, PTL DEF Spec

-----------------------------------------------------------------------------
(* A --rehook finds a place for each memory drive *)

\* No usable range of memory crosses 4 GB: right below are the firmware and
\* the devices of every PC.
NoStraddle == \A r \in Regions : r[2] <= FourGB \/ r[1] >= FourGB

\* Every place of a table that is not full is looked at.
LEMMA SomePicked ==
  ASSUME NEW t \in Table, Placed(t), Len(t) < DRIVE_MAP_SIZE, InMemory(t) # {}
  PROVE  Picked(t) # {}
<1> DEFINE S == {t[i].start : i \in InMemory(t)}
<1>1. ASSUME NEW i \in InMemory(t)
      PROVE  /\ t[i].start \in 0..Memory /\ i \in Nat /\ i < DRIVE_MAP_SIZE
  <2>1. t[i].start \in Nat /\ t[i].count \in Nat /\ Within(t[i])
    BY SlotPages
  <2>2. PICK r \in Regions : t[i].start + t[i].count <= Highest(r, TRUE)
    BY <2>1 DEF Within
  <2> DEFINE h == Highest(r, TRUE)
             a == t[i].start
             c == t[i].count
  <2>3. h \in Nat /\ h <= Memory /\ a + c <= h /\ a \in Nat /\ c \in Nat
    BY <2>1, <2>2, RangeFacts
  <2> HIDE DEF h, a, c
  <2>4. a \in 0..Memory
    BY <2>3, Constants
  <2>5. i \in 1..Len(t) /\ Len(t) \in Nat
    BY DEF InMemory, Table
  <2>6. i \in Nat /\ i < DRIVE_MAP_SIZE
    BY <2>5, Constants
  <2> QED
    BY <2>4, <2>6 DEF a
<1>2. PICK m \in S : \A n \in S : n <= m
  <2>1. S \in SUBSET (0..Memory) /\ S # {} /\ Memory \in Nat
    BY <1>1, Constants
  <2> HIDE DEF S
  <2> QED
    BY <2>1, Greatest
<1> DEFINE I == {i \in InMemory(t) : t[i].start = m}
<1>3. PICK i \in I : \A j \in I : i <= j
  <2>1. I \in SUBSET Nat /\ I # {}
    BY <1>1, <1>2
  <2> HIDE DEF I
  <2> QED
    BY <2>1, Least
<1>4. ASSUME NEW j \in InMemory(t)
      PROVE  t[j].start < t[i].start \/ (t[j].start = t[i].start /\ i <= j)
  <2>1. t[i].start = m /\ t[j].start <= m /\ t[j].start \in Nat /\ m \in Nat
    BY <1>1, <1>2, <1>3
  <2>2. t[j].start = m => i <= j
    BY <1>3
  <2> HIDE DEF I, S
  <2> QED
    BY <2>1, <2>2
<1>5. i \in InMemory(t) /\ i < DRIVE_MAP_SIZE
  BY <1>1, <1>3
<1>6. i \in Picked(t)
  BY <1>4, <1>5 DEF Picked
<1> QED
  BY <1>6

LEMMA PickedAbove ==
  ASSUME NEW t \in Table, Placed(t), Len(t) < DRIVE_MAP_SIZE, NEW i \in Picked(t),
         NEW j \in InMemory(t), j # i
  PROVE  Above(t[i], t[j])
<1> DEFINE a == t[i].start
           b == t[j].start
<1>1. i \in InMemory(t) /\ j \in Nat /\ j < DRIVE_MAP_SIZE
  <2>1. j \in 1..Len(t) /\ Len(t) \in Nat
    BY DEF InMemory, Table
  <2>2. i \in InMemory(t)
    BY PickedFacts
  <2> QED
    BY <2>1, <2>2, Constants
<1>2. b < a \/ (b = a /\ i <= j)
  BY <1>1, PickedFacts
<1>3. Above(t[i], t[j]) \/ Above(t[j], t[i])
  BY <1>1 DEF Placed, Apart
<1>4. ~Above(t[j], t[i])
  <2> DEFINE e == PastEnd(t[i])
             f == First(t[j])
  <2>1. a \in Nat /\ a < e /\ e \in Nat
    BY <1>1, SlotPages
  <2>2. b \in Nat /\ f <= b /\ f \in Nat
    BY SlotPages
  <2>3. Above(t[j], t[i]) <=> e <= f
    BY DEF Above
  <2> HIDE DEF a, b, e, f
  <2>4. ~(e <= f)
    BY <1>2, <2>1, <2>2
  <2> QED
    BY <2>3, <2>4
<1> QED
  BY <1>3, <1>4

\* What k steps of TakenOut have come to, in a table that was not full.
Ordered(o, k) ==
  /\ Moves(o) /\ Len(o.left) <= Len(bios_drive_map)
  /\ InMemory(o.left) = {} \/ Len(o.left) = Len(bios_drive_map) - k
  /\ Descending(o.list)
  /\ \A i \in DOMAIN o.list : \A j \in InMemory(o.left) : Above(o.list[i], o.left[j])

LEMMA AppendDescending ==
  ASSUME NEW q \in Table, NEW s \in Slots, Descending(q), \A i \in DOMAIN q : Above(q[i], s)
  PROVE  Descending(Append(q, s))
<1> DEFINE u == Append(q, s)
           n == Len(q)
<1>1. q \in Seq(Slots) /\ n \in Nat /\ DOMAIN q = 1..n
  BY DEF Table
<1>2. /\ DOMAIN u = 1..(n + 1) /\ u[n + 1] = s
      /\ \A i \in 1..n : u[i] = q[i]
  <2> HIDE DEF Slots
  <2> QED
    BY <1>1
<1> HIDE DEF u, n
<1>3. ASSUME NEW i \in 1..(n + 1), NEW j \in 1..(n + 1), i < j
      PROVE  Above(u[i], u[j])
  <2>1. i \in 1..n
    BY <1>1, <1>3
  <2>2. CASE j = n + 1
    BY <1>1, <1>2, <2>1, <2>2
  <2>3. CASE j # n + 1
    <3>1. j \in 1..n
      BY <1>1, <2>3
    <3> QED
      BY <1>1, <1>2, <1>3, <2>1, <3>1 DEF Descending
  <2> QED
    BY <2>2, <2>3
<1> QED
  BY <1>2, <1>3 DEF Descending, u

LEMMA TakeOrdered ==
  ASSUME bios_drive_map \in Table, Placed(bios_drive_map), Len(bios_drive_map) < DRIVE_MAP_SIZE,
         NEW o, NEW k \in Nat, Ordered(o, k)
  PROVE  Ordered(TakeHighest(o), k + 1)
<1> DEFINE t == o.left
<1>1. /\ Moves(o) /\ Moves(TakeHighest(o)) /\ Apiece(o) /\ t \in Table /\ o.list \in Table
      /\ Fewer(t, bios_drive_map) /\ Placed(t)
  <2>1. Moves(o) /\ Moves(TakeHighest(o))
    BY TakeMoves DEF Ordered
  <2>2. Apiece(o) /\ Fewer(t, bios_drive_map)
    BY <2>1 DEF Moves
  <2> QED
    BY <2>1, <2>2, FewerPlaced DEF Apiece
<1>2. Len(t) \in Nat /\ Len(bios_drive_map) \in Nat /\ Len(t) < DRIVE_MAP_SIZE
  <2>1. Len(t) \in Nat /\ Len(bios_drive_map) \in Nat /\ Len(t) <= Len(bios_drive_map)
    BY <1>1 DEF Table, Ordered
  <2> QED
    BY <2>1, Constants
<1>3. CASE Picked(t) = {}
  <2>1. InMemory(t) = {}
    BY <1>1, <1>2, <1>3, SomePicked
  <2>2. TakeHighest(o) = o
    BY <1>3 DEF TakeHighest
  <2> QED
    BY <2>1, <2>2 DEF Ordered
<1>4. CASE Picked(t) # {}
  <2>1. PICK i \in Picked(t) :
          /\ i \in DOMAIN t /\ t[i] \in Slots /\ t[i].to = MEM
          /\ TakeHighest(o).left = RemoveAt(t, i)
          /\ TakeHighest(o).list = Append(o.list, t[i])
    BY <1>1, <1>4, TakeFacts
  <2> DEFINE u == RemoveAt(t, i)
             s == t[i]
             q == o.list
  <2>2. PICK f : Maps(f, u, t) /\ \A j \in InMemory(u) : f[j] # i
    BY <1>1, <2>1, RemovedFewer
  <2>3. Len(u) = Len(t) - 1
    BY <1>1, <2>1, RemovedFewer
  <2>4. i \in InMemory(t)
    BY PickedFacts
  <2>5. \A j \in InMemory(t) : j # i => Above(s, t[j])
    BY <1>1, <1>2, PickedAbove
  <2>6. ASSUME NEW j \in InMemory(u)
        PROVE  f[j] \in InMemory(t) /\ f[j] # i /\ First(u[j]) = First(t[f[j]]) /\ PastEnd(u[j]) = PastEnd(t[f[j]])
    <3>1. f[j] \in InMemory(t) /\ f[j] # i /\ Same(u[j], t[f[j]])
      BY <2>2 DEF Maps
    <3> QED
      BY <3>1, SamePlace
  <2>7. \A a \in DOMAIN q : \A j \in InMemory(t) : Above(q[a], t[j])
    BY DEF Ordered
  <2>8. \A j \in InMemory(u) : Above(s, u[j]) /\ \A a \in DOMAIN q : Above(q[a], u[j])
    BY <2>5, <2>6, <2>7 DEF Above
  <2>9. Descending(Append(q, s))
    <3>1. \A a \in DOMAIN q : Above(q[a], s)
      BY <2>4, <2>7
    <3>2. s \in Slots /\ q \in Table /\ Descending(q)
      BY <1>1, <2>1 DEF Ordered
    <3> HIDE DEF s, q
    <3> QED
      BY <3>1, <3>2, AppendDescending
  <2>10. \A a \in DOMAIN Append(q, s) : \A j \in InMemory(u) : Above(Append(q, s)[a], u[j])
    <3>1. q \in Seq(Slots)
      BY <1>1 DEF Table
    <3> HIDE DEF s, q, u, Slots
    <3>2. \A a \in DOMAIN Append(q, s) :
            IF a \in DOMAIN q THEN Append(q, s)[a] = q[a] ELSE Append(q, s)[a] = s
      BY <3>1
    <3> QED
      BY <2>8, <3>2
  <2>11. Len(t) = Len(bios_drive_map) - k
    BY <2>4 DEF Ordered
  <2>12. Len(u) = Len(bios_drive_map) - (k + 1) /\ Len(u) <= Len(bios_drive_map)
    <3> HIDE DEF u, t
    <3> QED
      BY <1>2, <2>3, <2>11
  <2>13. TakeHighest(o).left = u /\ TakeHighest(o).list = Append(q, s)
    BY <2>1
  <2> HIDE DEF u, s, q
  <2> QED
    BY <1>1, <2>9, <2>10, <2>12, <2>13 DEF Ordered
<1> QED
  BY <1>3, <1>4

\* All are taken out, highest first.
LEMMA TakenOrdered ==
  ASSUME bios_drive_map \in Table, Placed(bios_drive_map), Len(bios_drive_map) < DRIVE_MAP_SIZE
  PROVE  Descending(TakenOut.list) /\ InMemory(TakenOut.left) = {}
<1> DEFINE N == DRIVE_MAP_SIZE - 1
<1>1. N \in Nat
  BY Constants
<1>2. PICK f : Step(f, N) /\ TakenOut = f[N]
  BY TakenSteps
<1>3. Len(bios_drive_map) \in Nat /\ Len(bios_drive_map) <= N
  <2>1. Len(bios_drive_map) \in Nat
    BY DEF Table
  <2> QED
    BY <2>1, Constants
<1> HIDE DEF N
<1> DEFINE Bad == {k \in 0..N : ~Ordered(f[k], k)}
<1>4. Bad = {}
  <2> SUFFICES ASSUME Bad # {} PROVE FALSE
    OBVIOUS
  <2>1. PICK k \in Bad : \A j \in Bad : k <= j
    <3>1. Bad \in SUBSET Nat
      BY <1>1
    <3> HIDE DEF Bad
    <3> QED
      BY <3>1, Least
  <2>2. k \in 0..N /\ ~Ordered(f[k], k)
    OBVIOUS
  <2>3. CASE k = 0
    <3>1. f[0] = [left |-> bios_drive_map, list |-> <<>>]
      BY <1>1, <1>2, StepFacts
    <3>2. Moves(f[0]) /\ f[0].left = bios_drive_map /\ f[0].list = <<>> /\ DOMAIN <<>> = {}
      BY <3>1, FirstMoves
    <3>3. Ordered(f[0], 0)
      BY <1>3, <3>2 DEF Ordered, Descending
    <3> QED
      BY <2>2, <2>3, <3>3
  <2>4. CASE k # 0
    <3>1. k - 1 \in 0..N /\ f[k] = TakeHighest(f[k - 1]) /\ k - 1 + 1 = k
      BY <1>1, <1>2, <2>2, <2>4, StepFacts
    <3>2. Ordered(f[k - 1], k - 1) /\ k - 1 \in Nat
      BY <1>1, <2>1, <2>2, <3>1
    <3>3. Ordered(TakeHighest(f[k - 1]), k - 1 + 1)
      BY <3>2, TakeOrdered
    <3> QED
      BY <2>2, <3>1, <3>3
  <2> QED
    BY <2>3, <2>4
<1>5. Ordered(TakenOut, N)
  BY <1>1, <1>2, <1>4
<1>6. ASSUME Len(TakenOut.left) = Len(bios_drive_map) - N
      PROVE  InMemory(TakenOut.left) = {}
  <2>1. TakenOut.left \in Table
    BY <1>5 DEF Ordered, Moves, Apiece
  <2>2. Len(TakenOut.left) \in Nat /\ DOMAIN TakenOut.left = 1..Len(TakenOut.left)
    BY <2>1 DEF Table
  <2>3. DOMAIN TakenOut.left = {}
    BY <1>1, <1>3, <1>6, <2>2
  <2> QED
    BY <2>3 DEF InMemory
<1> QED
  BY <1>5, <1>6 DEF Ordered

\* Without --top a drive below 4 GB has the range that it has with it.
LEMMA SameEnd ==
  ASSUME NoStraddle, NEW r \in Regions, NEW a \in Nat, a >= Lowest(r)
  PROVE  Highest(r, a >= FourGB) = Highest(r, TRUE)
<1>1. CASE a >= FourGB
  BY <1>1
<1>2. CASE ~(a >= FourGB)
  <2>1. r[1] \in Nat /\ r[2] \in Nat
    BY RegionFacts
  <2>2. Lowest(r) \in Nat /\ r[1] <= Lowest(r)
    <3> DEFINE m == IF r[1] > map_mem_min THEN r[1] ELSE map_mem_min
               x == r[1]
    <3>1. m \in Nat /\ x <= m /\ x \in Nat
      BY <2>1, Constants
    <3> HIDE DEF m, x
    <3>2. Up(m) \in Nat /\ m <= Up(m)
      BY <3>1, UpFacts
    <3>3. Up(m) \in Nat /\ x <= Up(m)
      BY <3>1, <3>2
    <3> QED
      BY <3>3 DEF Lowest, m, x
  <2>3. r[2] <= FourGB
    <3> DEFINE l == Lowest(r)
               x == r[1]
    <3>1. l \in Nat /\ x <= l /\ x \in Nat /\ a >= l
      BY <2>1, <2>2
    <3>2. r[2] <= FourGB \/ x >= FourGB
      BY DEF NoStraddle
    <3> HIDE DEF l, x
    <3> QED
      BY <1>2, <3>1, <3>2, Constants
  <2> DEFINE y == r[2]
             end(limit) == IF y < limit THEN y ELSE limit
             limit(x) == IF ~x /\ map_mem_max > FourGB THEN FourGB ELSE map_mem_max
  <2>4. end(limit(FALSE)) = end(limit(TRUE))
    <3>1. y \in Nat /\ y <= FourGB
      BY <2>1, <2>3
    <3> HIDE DEF y
    <3>2. CASE map_mem_max > FourGB
      BY <3>1, <3>2, Constants
    <3>3. CASE ~(map_mem_max > FourGB)
      BY <3>3
    <3> QED
      BY <3>2, <3>3
  <2>5. Highest(r, FALSE) = Down(end(limit(FALSE))) /\ Highest(r, TRUE) = Down(end(limit(TRUE)))
    BY DEF Highest
  <2>6. (a >= FourGB) = FALSE
    BY <1>2
  <2> HIDE DEF end, limit
  <2> QED
    BY <2>4, <2>5, <2>6
<1> QED
  BY <1>1, <1>2

\* The pages from First(s) on hold Up(s.count) sectors below PastEnd(s).
LEMMA OldPages ==
  ASSUME NEW s, s.start \in Nat, s.count \in Nat \ {0}
  PROVE  Up(s.count) \in Nat \ {0} /\ First(s) + Up(s.count) <= PastEnd(s)
<1> DEFINE d == Down(s.start)
           c == s.count
           e == Up(s.start + s.count)
           x == s.start
<1>1. x \in Nat /\ c \in Nat \ {0} /\ d = Down(x) /\ e = Up(x + c) /\ x + c \in Nat
  OBVIOUS
<1>2. First(s) = d /\ PastEnd(s) = e
  BY DEF First, PastEnd
<1> HIDE DEF c, d, e, x
<1>3. d \in Nat /\ d <= x /\ Down(d) = d
  BY <1>1, DownFacts
<1>4. e \in Nat /\ x + c <= e /\ Down(e) = e
  BY <1>1, UpFacts
<1>5. Up(c) \in Nat /\ c <= Up(c)
  BY <1>1, UpFacts
\* What lies between is whole pages.
<1>6. e - d \in Nat /\ c <= e - d /\ Down(e - d) = e - d
  <2>1. e - d \in Nat /\ c <= e - d
    BY <1>1, <1>3, <1>4
  <2>2. PICK j \in Nat, k \in Nat : d = j * Page /\ e = k * Page
    BY <1>3, <1>4, Quotient
  <2>3. j <= k
    <3>1. j * Page < k * Page
      BY <1>1, <1>3, <1>4, <2>2
    <3>2. j < k
      BY <2>2, <3>1, Cancel, Constants
    <3> QED
      BY <2>2, <3>2
  <2>4. PICK m \in Nat : k = j + m
    BY <2>2, <2>3
  <2>5. k * Page = j * Page + m * Page /\ m * Page \in Nat /\ j * Page \in Nat
    BY <2>2, <2>4, Constants
  <2>6. e - d = m * Page
    BY <2>2, <2>5
  <2> QED
    BY <2>1, <2>4, <2>6, Multiple
<1>7. Up(c) <= e - d
  <2> DEFINE w == e - d
  <2>1. w \in Nat /\ c <= w /\ Down(w) = w
    BY <1>6
  <2> HIDE DEF w
  <2>2. Up(c) <= w
    BY <1>1, <2>1, UpFacts
  <2> QED
    BY <2>2 DEF w
<1>8. Up(c) \in Nat \ {0} /\ d + Up(c) <= e
  BY <1>1, <1>3, <1>4, <1>5, <1>7
<1> QED
  BY <1>2, <1>8 DEF c

\* The old place is a base still.
LEMMA OldPlace ==
  ASSUME NoStraddle, bios_drive_map \in Table, Placed(bios_drive_map),
         DOMAIN memory = 0..(Memory - 1),
         NEW s, s.start \in Nat, s.count \in Nat, Within(s),
         \A k \in InMemory(bios_drive_map) : Above(bios_drive_map[k], s)
  PROVE  First(s) \in Bases(Up(s.count), s.start >= FourGB)
<1> DEFINE b == First(s)
           need == Up(s.count)
           e == PastEnd(s)
           top == s.start >= FourGB
<1>1. s.count \in Nat \ {0}
  BY DEF Within
<1>2. PICK r \in Regions : s.start >= Lowest(r) /\ s.start + s.count <= Highest(r, TRUE)
  BY DEF Within
<1>3. Highest(r, top) = Highest(r, TRUE)
  BY <1>2, SameEnd
<1> DEFINE h == Highest(r, TRUE)
           l == Lowest(r)
<1>4. h \in Nat /\ Down(h) = h /\ h <= Memory /\ l \in Nat /\ Down(l) = l
  BY RangeFacts
<1>5. /\ b \in Nat /\ e \in Nat /\ Down(b) = b /\ b <= s.start
  BY PageFacts
<1>6. need \in Nat \ {0} /\ b + need <= e
  BY <1>1, OldPages
<1>7. l <= b /\ e <= h
  <2> DEFINE x == s.start
             y == s.start + s.count
  <2>1. x \in Nat /\ y \in Nat /\ l <= x /\ y <= h
    <3>1. x >= l /\ y <= h
      BY <1>2
    <3>2. x \in Nat /\ y \in Nat
      OBVIOUS
    <3> HIDE DEF x, y, h, l
    <3> QED
      BY <1>4, <3>1, <3>2
  <2>2. b = Down(x) /\ e = Up(y)
    BY DEF First, PastEnd
  <2> HIDE DEF x, y, b, e, l, h
  <2>3. l <= Down(x)
    BY <1>4, <2>1, DownFacts
  <2>4. Up(y) <= h
    BY <1>4, <2>1, UpFacts
  <2> QED
    BY <2>2, <2>3, <2>4
<1>8. (b..(b + need - 1)) \cap Taken = {}
  <2> SUFFICES ASSUME NEW a \in b..(b + need - 1), a \in Taken PROVE FALSE
    OBVIOUS
  <2>1. a \in Nat
    BY <1>5, <1>6
  <2>2. PICK k \in InMemory(bios_drive_map) :
          First(bios_drive_map[k]) <= a /\ a < PastEnd(bios_drive_map[k])
    BY <2>1, TakenFacts
  <2> DEFINE g == First(bios_drive_map[k])
  <2>3. g \in Nat /\ e <= g /\ g <= a
    BY <2>2, SlotPages DEF Above
  <2> HIDE DEF b, e, g, need
  <2> QED
    BY <1>5, <1>6, <2>1, <2>3
<1>9. b % Page = 0
  BY <1>5, BoundaryMod
<1>10. b \in DOMAIN memory /\ b >= l /\ b + need <= h
  <2> HIDE DEF b, e, need, h, l
  <2> QED
    BY <1>4, <1>5, <1>6, <1>7, Constants
<1> HIDE DEF b, need, top
<1>11. b >= Lowest(r) /\ b + need <= Highest(r, top)
  BY <1>3, <1>10
<1>12. b \in Bases(need, top)
  BY <1>8, <1>9, <1>10, <1>11 DEF Bases
<1> QED
  BY <1>12 DEF b, need, top

\* The highest base is not below it.
LEMMA NewPlace ==
  ASSUME NoStraddle, bios_drive_map \in Table, Placed(bios_drive_map),
         DOMAIN memory = 0..(Memory - 1),
         NEW s, s.start \in Nat, s.count \in Nat, Within(s),
         \A k \in InMemory(bios_drive_map) : Above(bios_drive_map[k], s)
  PROVE  /\ Places(s.count, 0, s.start >= FourGB) # {}
         /\ \A p \in Places(s.count, 0, s.start >= FourGB) :
              p[1] \in Nat /\ Down(p[1]) = p[1] /\ First(s) <= p[1]
<1> DEFINE n == s.count
           top == s.start >= FourGB
           need == Up(s.count)
           B == Bases(need, top)
           b == First(s)
<1>1. b \in B
  BY OldPlace
<1>2. B \in SUBSET (0..(Memory - 1)) /\ top \in BOOLEAN
  BY DEF Bases
<1>3. n \in Nat /\ need \in Nat /\ (IF 0 < 0 /\ n < -0 THEN -0 ELSE n) = n
  <2>1. n \in Nat /\ n = s.count
    OBVIOUS
  <2> HIDE DEF n
  <2>2. Up(n) \in Nat
    BY <2>1, UpFacts
  <2> QED
    BY <2>1, <2>2
<1>4. Places(n, 0, top) = {<<x, need>> : x \in {y \in B : \A z \in B : z <= y}}
  <2> HIDE DEF n, top
  <2>1. Places(n, 0, top) =
          {<<x, Up(n)>> : x \in {y \in Bases(Up(n), top) : \A z \in Bases(Up(n), top) : z <= y}}
    BY <1>3 DEF Places
  <2> QED
    BY <2>1 DEF n
<1> HIDE DEF B, b, need, n, top
<1>5. PICK x \in B : \A z \in B : z <= x
  <2>1. Memory - 1 \in Nat /\ B # {}
    BY <1>1, Constants
  <2> QED
    BY <1>2, <2>1, Greatest
<1>6. Places(n, 0, top) # {}
  BY <1>4, <1>5
<1>7. ASSUME NEW p \in Places(n, 0, top)
      PROVE  p[1] \in Nat /\ Down(p[1]) = p[1] /\ b <= p[1]
  <2>1. PICK y \in B : p = <<y, need>> /\ \A z \in B : z <= y
    BY <1>4
  <2>2. y \in Nat /\ b <= y
    BY <1>1, <1>2, <2>1, Constants
  <2>3. y % Page = 0
    BY <1>2, <1>3, BaseFacts DEF B
  <2>4. Down(y) = y
    BY <2>2, <2>3, Boundary
  <2> QED
    BY <2>1, <2>2, <2>4
<1> QED
  BY <1>6, <1>7 DEF n, top, b

\* The next drive finds a place, above the old ones of those that still wait.
LEMMA RehookOneMoves ==
  ASSUME NoStraddle, MovedInv, RehookOne
  PROVE  pc' = "rehook" /\ Descending(hooked_drive_map') /\ Below(hooked_drive_map', bios_drive_map')
<1> DEFINE q == hooked_drive_map
           t == bios_drive_map
           s == Head(q)
           places == Places(s.count, 0, s.start >= FourGB)
<1>1. /\ t \in Table /\ q \in Table /\ DOMAIN memory = 0..(Memory - 1) /\ Placed(t)
      /\ pc = "rehook" /\ Moving(q) /\ Descending(q) /\ Below(q, t)
  BY TableTypes DEF MovedInv, PlacedInv, RehookOne
<1>2. q \in Seq(Slots) /\ q # <<>> /\ q' = Tail(q)
  BY <1>1 DEF RehookOne, Table
<1>3. /\ s \in Slots /\ 1 \in DOMAIN q /\ s = q[1]
      /\ \A i \in DOMAIN Tail(q) :
           i \in Nat \ {0} /\ i + 1 \in DOMAIN q /\ Tail(q)[i] = q[i + 1]
  <2> HIDE DEF Slots
  <2> QED
    BY <1>2
<1>4. s.start \in Nat /\ s.count \in Nat /\ s.from \in Numbers /\ s.img \in Nat
  BY <1>3 DEF Slots
<1>5. Within(s) /\ \A k \in InMemory(t) : Above(t[k], s)
  BY <1>1, <1>3 DEF Moving, Below
<1>6. places # {} /\ \A p \in places : p[1] \in Nat /\ Down(p[1]) = p[1] /\ First(s) <= p[1]
  <2> HIDE DEF s
  <2> QED
    BY <1>1, <1>4, <1>5, NewPlace
<1>7. PICK p \in places :
        pc' = pc /\ t' = Append(t, Slot(s.from, MEM, p[1], p[2], s.img))
  BY <1>6 DEF RehookOne
<1> DEFINE d == Slot(s.from, MEM, p[1], p[2], s.img)
<1>8. d \in Slots /\ d.to = MEM /\ First(d) = p[1]
  <2>1. (s.start >= FourGB) \in BOOLEAN /\ 0 \in Int
    OBVIOUS
  <2>2. p[1] \in Nat /\ p[2] \in Nat
    <3> HIDE DEF s
    <3> QED
      BY <1>1, <1>4, <2>1, PlaceTypes
  <2>3. Down(p[1]) = p[1]
    BY <1>6
  <2> HIDE DEF s, places
  <2>4. d \in Slots /\ d.to = MEM /\ d.start = p[1]
    BY <1>4, <2>2 DEF Slot, Slots
  <2> QED
    BY <2>3, <2>4 DEF First
<1>9. Descending(q')
  <2>1. ASSUME NEW i \in DOMAIN Tail(q), NEW j \in DOMAIN Tail(q), i < j
        PROVE  Above(Tail(q)[i], Tail(q)[j])
    <3>1. i + 1 \in DOMAIN q /\ j + 1 \in DOMAIN q /\ i + 1 < j + 1
      BY <1>3, <2>1
    <3> QED
      BY <1>1, <1>3, <3>1 DEF Descending
  <2> QED
    BY <1>2, <2>1 DEF Descending
<1>10. Below(q', t')
  <2>1. ASSUME NEW i \in DOMAIN Tail(q)
        PROVE  Above(d, Tail(q)[i]) /\ \A k \in InMemory(t) : Above(t[k], Tail(q)[i])
    <3>1. i + 1 \in DOMAIN q /\ 1 < i + 1 /\ Tail(q)[i] = q[i + 1]
      BY <1>3
    <3>2. Above(s, q[i + 1]) /\ \A k \in InMemory(t) : Above(t[k], q[i + 1])
      BY <1>1, <1>3, <3>1 DEF Descending, Below
    <3>3. First(s) \in Nat /\ First(s) <= First(d)
      BY <1>4, <1>6, <1>8, PageFacts
    <3>4. PastEnd(q[i + 1]) \in Nat /\ First(d) \in Nat
      <4>1. q[i + 1].start \in Nat /\ q[i + 1].count \in Nat
        BY <1>1, <3>1, SlotFacts
      <4>2. d.start \in Nat /\ d.count \in Nat
        BY <1>8 DEF Slots
      <4> QED
        BY <4>1, <4>2, PageFacts
    <3> DEFINE x == PastEnd(q[i + 1])
               y == First(s)
               z == First(d)
    <3>5. x <= y
      BY <3>2 DEF Above
    <3>6. y <= z /\ x \in Nat /\ y \in Nat /\ z \in Nat
      BY <3>3, <3>4
    <3>7. Above(d, q[i + 1]) <=> x <= z
      BY DEF Above
    <3> HIDE DEF x, y, z, d
    <3>8. x <= z
      BY <3>5, <3>6
    <3> QED
      BY <3>1, <3>2, <3>7, <3>8
  <2>2. /\ InMemory(Append(t, d)) = InMemory(t) \cup {Len(t) + 1}
        /\ Append(t, d)[Len(t) + 1] = d
        /\ \A k \in InMemory(t) : Append(t, d)[k] = t[k]
    <3> HIDE DEF d
    <3> QED
      BY <1>1, <1>8, AppendFacts
  <2>3. t' = Append(t, d)
    BY <1>7
  <2> HIDE DEF d
  <2> QED
    BY <1>2, <2>1, <2>2, <2>3 DEF Below
<1> QED
  BY <1>1, <1>7, <1>9, <1>10

LEMMA MovedInit ==
  Init => MovedInv
BY PlacedInit DEF MovedInv, Init

LEMMA MovedStep ==
  ASSUME Aliases = FALSE, FullRehook = FALSE, NoStraddle
  PROVE  MovedInv /\ [Next]_vars => MovedInv'
<1>1. SUFFICES ASSUME MovedInv, [Next]_vars PROVE MovedInv'
  OBVIOUS
<1>2. PlacedInv /\ PlacedInv'
  BY <1>1, PlacedStep DEF MovedInv
<1>3. SUFFICES /\ pc' # "fatal"
               /\ pc' = "rehook" =>
                    Descending(hooked_drive_map') /\ Below(hooked_drive_map', bios_drive_map')
  BY <1>2 DEF MovedInv, Descending, Below, InMemory
\* Whatever leaves pc alone is given at the command line.
<1>4. ASSUME Command \/ OtherCommand, pc' = pc
      PROVE  pc' = "idle"
  BY <1>4 DEF Command, OtherCommand
<1>5. CASE \E from \in Numbers, i \in Images : MapRange(from, i[1], i[2], i[3])
  BY <1>4, <1>5 DEF MapRange
<1>6. CASE \E from, to \in Numbers : MapWhole(from, to)
  BY <1>4, <1>6 DEF MapWhole
<1>7. CASE \E from \in Numbers, i \in Images, o \in Options :
             MapMemory(from, i[1], i[2], i[3], o[1], o[2])
  BY <1>4, <1>7 DEF MapMemory
<1>8. CASE \E range \in SUBSET Numbers \ {{}} : Unmap(range)
  BY <1>4, <1>8 DEF Unmap
<1>9. CASE \E a, b \in Numbers : Swap(a, b)
  <2>1. Command /\ pc' = pc
    BY <1>9 DEF Swap
  <2> QED
    BY <1>4, <2>1
<1>10. CASE \E first \in Numbers \cup {None} : Hook(first)
  BY <1>4, <1>10 DEF Hook
<1>11. CASE Boot
  BY <1>4, <1>11 DEF Boot
<1>12. CASE Unhook
  BY <1>4, <1>12 DEF Unhook
<1>13. CASE Rehook
  <2>1. bios_drive_map \in Table /\ Placed(bios_drive_map) /\ Len(bios_drive_map) < DRIVE_MAP_SIZE
    BY <1>2, <1>13, TableTypes DEF PlacedInv, Rehook
  <2>2. Descending(TakenOut.list) /\ InMemory(TakenOut.left) = {}
    BY <2>1, TakenOrdered
  <2>3. pc' = "rehook" /\ hooked_drive_map' = TakenOut.list /\ bios_drive_map' = TakenOut.left
    BY <1>13 DEF Rehook
  <2> QED
    BY <2>2, <2>3 DEF Below
<1>14. CASE RehookOne
  <2>1. /\ pc' = "rehook" /\ Descending(hooked_drive_map')
        /\ Below(hooked_drive_map', bios_drive_map')
    BY <1>1, <1>14, RehookOneMoves
  <2> QED
    BY <2>1
<1>15. CASE RehookDone
  BY <1>15 DEF RehookDone
<1>16. CASE UNCHANGED vars
  BY <1>1, <1>16 DEF vars, MovedInv
<1> QED
  BY <1>1, <1>5, <1>6, <1>7, <1>8, <1>9, <1>10, <1>11, <1>12, <1>13, <1>14, <1>15, <1>16
     DEF Next

\* A --rehook of a table that is not full never ends in "Fatal: Error %d
\* occurred while 'map %s'": highest first, each memory drive finds its old
\* place free, whatever the memory map (no usable range crosses 4 GB), the
\* options it was mapped with and what was unmapped in between.
THEOREM Rehooking ==
  ASSUME Aliases = FALSE, FullRehook = FALSE, NoStraddle
  PROVE  Spec => []RehookSucceeds
<1>1. Init => MovedInv
  BY MovedInit
<1>2. MovedInv /\ [Next]_vars => MovedInv'
  BY MovedStep
<1>3. MovedInv => RehookSucceeds
  BY DEF MovedInv, RehookSucceeds
<1> QED
  BY <1>1, <1>2, <1>3, PTL DEF Spec

-----------------------------------------------------------------------------
(* What a number means *)

\* The sectors behind a slot and behind a number, for any memory.
Holds(s, mem) ==
  IF s.to = MEM THEN [i \in 1..s.img |-> mem[s.start + i - 1]]
  ELSE IF s.count = 0 THEN Disks[s.to]
  ELSE SubSeq(Disks[s.to], s.start + 1, s.start + s.count)
Means(t, d, mem) ==
  LET i == Find(t, d) IN IF i = 0 THEN Disks[d] ELSE Holds(t[i], mem)

\* No number has two slots, and what is behind a slot is there.
One(t) == \A i, j \in DOMAIN t : t[i].from = t[j].from => i = j
Good(s) ==
  IF s.to = MEM THEN s.img <= s.count /\ s.start + s.count <= Memory
  ELSE IF s.count = 0 THEN s.start = 0
  ELSE s.start + s.count <= Len(Disks[s.to])
Sane(t) == One(t) /\ \A s \in ToSet(t) : Good(s)

LEMMA TableFacts ==
  ASSUME NEW t \in Table
  PROVE  DOMAIN t = 1..Len(t) /\ Len(t) \in Nat /\ \A i \in DOMAIN t : t[i] \in Slots
<1>1. t \in Seq(Slots)
  BY DEF Table
<1> HIDE DEF Slots
<1> QED
  BY <1>1

LEMMA SetFacts ==
  ASSUME NEW t \in Table
  PROVE  ToSet(t) \subseteq Slots
BY TableFacts DEF ToSet

\* The first slot of a number.
LEMMA FindAt ==
  ASSUME NEW t \in Table, NEW d
  PROVE  /\ Find(t, d) \in 0..Len(t)
         /\ Find(t, d) # 0 => Find(t, d) \in DOMAIN t /\ t[Find(t, d)].from = d
         /\ Find(t, d) = 0 => \A i \in DOMAIN t : t[i].from # d
<1> DEFINE I == {i \in 1..Len(t) : t[i].from = d}
           k == Find(t, d)
<1>1. k = IF I # {} THEN Min(I) ELSE 0
  BY DEF Find, SelectInSeq
<1>2. DOMAIN t = 1..Len(t) /\ Len(t) \in Nat /\ k \in 0..Len(t)
  BY TableFacts, FindFacts
<1>3. I \in SUBSET Nat
  BY <1>2
<1>4. CASE I = {}
  <2>1. k = 0 /\ \A i \in DOMAIN t : t[i].from # d
    <3> HIDE DEF k
    <3> QED
      BY <1>1, <1>2, <1>4
  <2> QED
    BY <1>2, <2>1
<1>5. CASE I # {}
  <2>1. k \in I
    <3> HIDE DEF I, k
    <3> QED
      BY <1>1, <1>3, <1>5, LeastChosen
  <2>2. k # 0 /\ k \in DOMAIN t /\ t[k].from = d
    <3> HIDE DEF k
    <3> QED
      BY <1>2, <2>1
  <2> QED
    BY <1>2, <2>2
<1> QED
  BY <1>4, <1>5

LEMMA MeansFacts ==
  ASSUME NEW t \in Table, One(t), NEW d, NEW mem
  PROVE  /\ \A s \in ToSet(t) : s.from = d => Means(t, d, mem) = Holds(s, mem)
         /\ (\A s \in ToSet(t) : s.from # d) => Means(t, d, mem) = Disks[d]
<1> DEFINE k == Find(t, d)
<1>1. /\ k # 0 => k \in DOMAIN t /\ t[k].from = d
      /\ k = 0 => \A i \in DOMAIN t : t[i].from # d
  BY FindAt
<1>2. Means(t, d, mem) = IF k = 0 THEN Disks[d] ELSE Holds(t[k], mem)
  BY DEF Means
<1> HIDE DEF k
<1>3. ASSUME NEW s \in ToSet(t), s.from = d PROVE Means(t, d, mem) = Holds(s, mem)
  <2>1. PICK i \in DOMAIN t : s = t[i]
    BY DEF ToSet
  <2>2. k # 0 /\ k = i
    BY <1>1, <1>3, <2>1 DEF One
  <2> QED
    BY <1>2, <2>1, <2>2
<1>4. ASSUME \A s \in ToSet(t) : s.from # d PROVE Means(t, d, mem) = Disks[d]
  BY <1>1, <1>2, <1>4 DEF ToSet
<1> QED
  BY <1>3, <1>4

\* A number means the same under two tables that have the same behind it.
LEMMA SameMeaning ==
  ASSUME NEW t \in Table, NEW u \in Table, One(t), One(u), NEW d, NEW mem, NEW new,
         \A s \in ToSet(t) : s.from = d =>
            \E q \in ToSet(u) : q.from = d /\ Holds(q, new) = Holds(s, mem),
         \A q \in ToSet(u) : q.from = d => \E s \in ToSet(t) : s.from = d
  PROVE  Means(u, d, new) = Means(t, d, mem)
<1>1. CASE \E s \in ToSet(t) : s.from = d
  <2>1. PICK s \in ToSet(t) : s.from = d
    BY <1>1
  <2>2. PICK q \in ToSet(u) : q.from = d /\ Holds(q, new) = Holds(s, mem)
    BY <2>1
  <2> QED
    BY <2>1, <2>2, MeansFacts
<1>2. CASE \A s \in ToSet(t) : s.from # d
  <2>1. \A q \in ToSet(u) : q.from # d
    BY <1>2
  <2> QED
    BY <1>2, <2>1, MeansFacts
<1> QED
  BY <1>1, <1>2

-----------------------------------------------------------------------------
(* The slots of a table after a change *)

LEMMA OneSlot ==
  ASSUME NEW t, One(t), NEW s \in ToSet(t), NEW q \in ToSet(t), s.from = q.from
  PROVE  s = q
BY DEF One, ToSet

LEMMA AppendSet ==
  ASSUME NEW t \in Table, NEW s \in Slots
  PROVE  /\ Append(t, s) \in Table /\ ToSet(Append(t, s)) = ToSet(t) \cup {s}
         /\ One(t) /\ (\A q \in ToSet(t) : q.from # s.from) => One(Append(t, s))
<1> DEFINE u == Append(t, s)
           n == Len(t) + 1
<1>1. DOMAIN t = 1..Len(t) /\ Len(t) \in Nat
  BY TableFacts
<1>2. u \in Table /\ DOMAIN u = 1..n /\ u[n] = s /\ \A i \in 1..Len(t) : u[i] = t[i]
  <2>1. t \in Seq(Slots)
    BY DEF Table
  <2> HIDE DEF Slots
  <2> QED
    BY <1>1, <2>1 DEF Table
<1>3. 1..n = (1..Len(t)) \cup {n} /\ n \notin 1..Len(t)
  BY <1>1
<1> HIDE DEF u, n
<1>4. ToSet(u) = ToSet(t) \cup {s}
  BY <1>1, <1>2, <1>3 DEF ToSet
<1>5. ASSUME One(t), \A q \in ToSet(t) : q.from # s.from PROVE One(u)
  <2>1. \A i \in DOMAIN t : t[i].from # s.from
    BY <1>5 DEF ToSet
  <2> QED
    BY <1>1, <1>2, <1>3, <1>5, <2>1 DEF One
<1> QED
  BY <1>2, <1>4, <1>5 DEF u

LEMMA StoredSet ==
  ASSUME NEW t \in Table, NEW s \in Slots, One(t)
  PROVE  /\ Stored(t, s) \in Table /\ One(Stored(t, s))
         /\ ToSet(Stored(t, s)) = {q \in ToSet(t) : q.from # s.from} \cup {s}
<1> DEFINE k == Find(t, s.from)
           u == Stored(t, s)
<1>1. /\ k # 0 => k \in DOMAIN t /\ t[k].from = s.from
      /\ k = 0 => \A i \in DOMAIN t : t[i].from # s.from
  BY FindAt
<1>2. u = IF k = 0 THEN Append(t, s) ELSE [t EXCEPT ![k] = s]
  BY DEF Stored
<1>3. u \in Table
  BY StoredTable
<1> HIDE DEF k, u
<1>4. CASE k = 0
  <2>1. \A q \in ToSet(t) : q.from # s.from
    BY <1>1, <1>4 DEF ToSet
  <2>2. u = Append(t, s)
    BY <1>2, <1>4
  <2>3. One(u) /\ ToSet(u) = ToSet(t) \cup {s}
    BY <2>1, <2>2, AppendSet
  <2> QED
    BY <1>3, <2>1, <2>3 DEF u
<1>5. CASE k # 0
  <2>1. k \in DOMAIN t /\ t[k].from = s.from /\ u = [t EXCEPT ![k] = s]
    BY <1>1, <1>2, <1>5
  <2>2. DOMAIN u = DOMAIN t /\ u[k] = s /\ \A i \in DOMAIN t \ {k} : u[i] = t[i]
    BY <2>1, ExceptFacts
  <2>3. \A i \in DOMAIN u : u[i].from = t[i].from
    BY <2>1, <2>2
  <2>4. One(u)
    BY <2>2, <2>3 DEF One
  <2>5. \A i \in DOMAIN t : t[i].from # s.from <=> i # k
    BY <2>1 DEF One
  <2>6. ToSet(u) = {q \in ToSet(t) : q.from # s.from} \cup {s}
    <3>1. ASSUME NEW q \in ToSet(u) PROVE q = s \/ (q \in ToSet(t) /\ q.from # s.from)
      BY <2>1, <2>2, <2>5 DEF ToSet
    <3>2. s \in ToSet(u)
      BY <2>1, <2>2 DEF ToSet
    <3>3. ASSUME NEW q \in ToSet(t), q.from # s.from PROVE q \in ToSet(u)
      BY <2>1, <2>2, <2>5, <3>3 DEF ToSet
    <3> QED
      BY <3>1, <3>2, <3>3
  <2> QED
    BY <1>3, <2>4, <2>6 DEF u
<1> QED
  BY <1>4, <1>5

LEMMA DeletedSet ==
  ASSUME NEW t \in Table, NEW range, One(t)
  PROVE  /\ Deleted(t, range) \in Table /\ One(Deleted(t, range))
         /\ ToSet(Deleted(t, range)) = {s \in ToSet(t) : s.from \notin range}
<1> DEFINE left == {i \in DOMAIN t : t[i].from \notin range}
           C == Cardinality(left)
           Under(i) == {j \in left : j < i}
           Nth(n) == CHOOSE i \in left : Cardinality(Under(i)) = n - 1
           u == Deleted(t, range)
<1>1. DOMAIN t = 1..Len(t) /\ Len(t) \in Nat
  BY TableFacts
<1>2. left \in SUBSET (1..Len(t)) /\ C \in Nat /\ IsFiniteSet(left)
  <2>1. IsFiniteSet(1..Len(t)) /\ left \in SUBSET (1..Len(t))
    BY <1>1, FS_Interval
  <2> QED
    BY <2>1, FS_Subset, FS_CardinalityType
<1>3. u \in Table
  BY DeletedFewer
<1>4. u = [n \in 1..C |-> t[Nth(n)]]
  BY DEF Deleted
<1>5. \A i \in left : t[i].from \notin range
  OBVIOUS
<1>6. \A i \in DOMAIN t : t[i].from \notin range => i \in left
  OBVIOUS
<1>7. ASSUME NEW n \in 1..C
      PROVE  Nth(n) \in left /\ Cardinality(Under(Nth(n))) = n - 1
  <2>1. \E i \in left : Cardinality({j \in left : j < i}) = n - 1
    BY <1>1, <1>2, NthExists
  <2> HIDE DEF left
  <2> QED
    BY <2>1
\* Every slot that is left has its place: the number of those before it.
<1>8. ASSUME NEW i \in left
      PROVE  Cardinality(Under(i)) \in 0..(C - 1) /\ \A j \in left : j < i =>
               Cardinality(Under(j)) < Cardinality(Under(i))
  <2>1. IsFiniteSet(Under(i)) /\ Cardinality(Under(i)) \in Nat /\ Under(i) \subseteq left
    <3>1. Under(i) \subseteq left
      OBVIOUS
    <3> HIDE DEF left, Under
    <3> QED
      BY <1>2, <3>1, FS_Subset, FS_CardinalityType
  <2>2. i \notin Under(i) /\ i \in left
    BY <1>1, <1>2
  <2>3. Under(i) # left
    <3> HIDE DEF left, Under
    <3> QED
      BY <2>2
  <2>4. Cardinality(Under(i)) < C
    <3> HIDE DEF left, Under
    <3> QED
      BY <1>2, <2>1, <2>3, FS_Subset DEF C
  <2>5. ASSUME NEW j \in left, j < i
        PROVE  Cardinality(Under(j)) < Cardinality(Under(i))
    <3>1. i \in Nat /\ j \in Nat
      BY <1>1, <1>2
    <3>2. \A k \in left : k \in Nat
      BY <1>1, <1>2
    <3>3. Under(j) \in SUBSET Under(i)
      <4> SUFFICES ASSUME NEW k \in left, k < j PROVE k < i
        OBVIOUS
      <4> QED
        BY <2>5, <3>1, <3>2
    <3>4. j \in Under(i)
      BY <2>5
    <3>5. j \notin Under(j)
      BY <3>1
    <3> HIDE DEF left, Under
    <3>6. Under(j) # Under(i)
      BY <3>4, <3>5
    <3>7. IsFiniteSet(Under(j)) /\ Cardinality(Under(j)) \in Nat
      BY <2>1, <3>3, FS_Subset, FS_CardinalityType
    <3>8. Cardinality(Under(j)) <= Cardinality(Under(i)) /\ Cardinality(Under(j)) # Cardinality(Under(i))
      BY <2>1, <3>3, <3>6, FS_Subset
    <3> QED
      BY <2>1, <3>7, <3>8
  <2> HIDE DEF left, Under, C
  <2> QED
    BY <1>2, <2>1, <2>4, <2>5
<1> DEFINE pos(i) == Cardinality(Under(i)) + 1
<1>9. ASSUME NEW i \in left PROVE pos(i) \in 1..C /\ Nth(pos(i)) = i
  <2>1. pos(i) \in 1..C /\ pos(i) - 1 = Cardinality(Under(i))
    <3> HIDE DEF left, Under, C
    <3> QED
      BY <1>2, <1>8
  <2>2. Nth(pos(i)) \in left /\ Cardinality(Under(Nth(pos(i)))) = pos(i) - 1
    BY <1>7, <2>1
  <2> DEFINE k == Nth(pos(i))
  <2>3. k \in left /\ Cardinality(Under(k)) = Cardinality(Under(i))
    BY <2>1, <2>2
  <2> HIDE DEF k
  <2>4. k \in Nat /\ i \in Nat
    BY <1>1, <1>2, <2>3
  <2> HIDE DEF left, Under
  <2>5. ~(k < i) /\ ~(i < k)
    BY <1>8, <2>3
  <2>6. k = i
    BY <2>4, <2>5
  <2> QED
    BY <2>1, <2>6 DEF k
<1> HIDE DEF left, Nth, C, u, pos, Under
<1>10. DOMAIN u = 1..C /\ \A n \in 1..C : u[n] = t[Nth(n)] /\ Nth(n) \in DOMAIN t
  BY <1>1, <1>2, <1>4, <1>7
<1>11. One(u)
  <2> SUFFICES ASSUME NEW n \in 1..C, NEW m \in 1..C, u[n].from = u[m].from PROVE n = m
    BY <1>10 DEF One
  <2>1. Nth(n) = Nth(m)
    BY <1>10 DEF One
  <2>2. n - 1 = m - 1 /\ n \in Int /\ m \in Int
    BY <1>2, <1>7, <2>1
  <2> QED
    BY <2>2
<1>12. ToSet(u) = {s \in ToSet(t) : s.from \notin range}
  <2>1. ASSUME NEW s \in ToSet(u) PROVE s \in ToSet(t) /\ s.from \notin range
    <3>1. PICK n \in 1..C : s = u[n]
      BY <1>10 DEF ToSet
    <3>2. s = t[Nth(n)] /\ Nth(n) \in DOMAIN t /\ Nth(n) \in left
      BY <1>7, <1>10, <3>1
    <3> QED
      BY <1>5, <3>2 DEF ToSet
  <2>2. ASSUME NEW s \in ToSet(t), s.from \notin range PROVE s \in ToSet(u)
    <3>1. PICK i \in DOMAIN t : s = t[i]
      BY DEF ToSet
    <3>2. i \in left
      BY <1>6, <2>2, <3>1
    <3>3. pos(i) \in 1..C /\ u[pos(i)] = s
      BY <1>9, <1>10, <3>1, <3>2
    <3> QED
      BY <1>10, <3>3 DEF ToSet
  <2> QED
    BY <2>1, <2>2
<1> QED
  BY <1>3, <1>11, <1>12 DEF u

LEMMA MappedSet ==
  ASSUME NEW t \in Table, NEW s \in Slots, One(t)
  PROVE  /\ Mapped(t, s) \in Table /\ One(Mapped(t, s))
         /\ ToSet(Mapped(t, s)) =
              {q \in ToSet(t) : q.from # s.from} \cup
              (IF s.to = s.from /\ s.start = 0 /\ s.count = 0 THEN {} ELSE {s})
<1>1. CASE s.to = s.from /\ s.start = 0 /\ s.count = 0
  <2>1. /\ Deleted(t, {s.from}) \in Table /\ One(Deleted(t, {s.from}))
        /\ ToSet(Deleted(t, {s.from})) = {q \in ToSet(t) : q.from \notin {s.from}}
    BY DeletedSet
  <2>2. Mapped(t, s) = Deleted(t, {s.from})
    BY <1>1 DEF Mapped
  <2> QED
    BY <1>1, <2>1, <2>2
<1>2. CASE ~(s.to = s.from /\ s.start = 0 /\ s.count = 0)
  BY <1>2, StoredSet DEF Mapped
<1> QED
  BY <1>1, <1>2

LEMMA RemovedSet ==
  ASSUME NEW t \in Table, NEW k \in DOMAIN t, One(t)
  PROVE  /\ RemoveAt(t, k) \in Table /\ One(RemoveAt(t, k))
         /\ ToSet(RemoveAt(t, k)) = ToSet(t) \ {t[k]}
<1> DEFINE u == RemoveAt(t, k)
           p(i) == IF i < k THEN i ELSE i + 1
<1>1. DOMAIN t = 1..Len(t) /\ Len(t) \in Nat /\ k \in 1..Len(t)
  BY TableFacts
<1>2. u \in Table /\ Len(u) = Len(t) - 1 /\ \A i \in DOMAIN u : u[i] = t[p(i)]
  BY RemovedAt
<1>3. DOMAIN u = 1..(Len(t) - 1)
  BY <1>2, TableFacts
<1>4. \A i \in DOMAIN u : p(i) \in DOMAIN t /\ p(i) # k
  BY <1>1, <1>3
<1>5. \A i, j \in DOMAIN u : p(i) = p(j) => i = j
  BY <1>1, <1>3
<1>6. \A j \in DOMAIN t : j # k => \E i \in DOMAIN u : p(i) = j
  <2> SUFFICES ASSUME NEW j \in DOMAIN t, j # k PROVE \E i \in DOMAIN u : p(i) = j
    OBVIOUS
  <2>1. CASE j < k
    <3>1. j \in DOMAIN u /\ p(j) = j
      BY <1>1, <1>3, <2>1
    <3> QED
      BY <3>1
  <2>2. CASE j > k
    <3>1. j - 1 \in DOMAIN u /\ p(j - 1) = j
      BY <1>1, <1>3, <2>2
    <3> QED
      BY <3>1
  <2> QED
    BY <1>1, <2>1, <2>2
<1> HIDE DEF u, p
<1>7. One(u)
  BY <1>2, <1>4, <1>5 DEF One
<1>8. ToSet(u) = ToSet(t) \ {t[k]}
  <2>1. ASSUME NEW s \in ToSet(u) PROVE s \in ToSet(t) /\ s # t[k]
    BY <1>2, <1>4 DEF ToSet, One
  <2>2. ASSUME NEW s \in ToSet(t), s # t[k] PROVE s \in ToSet(u)
    <3>1. PICK j \in DOMAIN t : s = t[j] /\ j # k
      BY <2>2 DEF ToSet
    <3>2. PICK i \in DOMAIN u : p(i) = j
      BY <1>6, <3>1
    <3> QED
      BY <1>2, <3>1, <3>2 DEF ToSet
  <2> QED
    BY <2>1, <2>2
<1> QED
  BY <1>2, <1>7, <1>8 DEF u

LEMMA CatSet ==
  ASSUME NEW t \in Table, NEW q \in Table
  PROVE  /\ t \o q \in Table /\ ToSet(t \o q) = ToSet(t) \cup ToSet(q)
         /\ One(t \o q) <=>
              One(t) /\ One(q) /\ \A x \in ToSet(t), y \in ToSet(q) : x.from # y.from
<1> DEFINE u == t \o q
           n == Len(t)
           m == Len(q)
<1>1. DOMAIN t = 1..n /\ n \in Nat /\ DOMAIN q = 1..m /\ m \in Nat
  BY TableFacts
<1>2. /\ u \in Table /\ DOMAIN u = 1..(n + m)
      /\ \A i \in 1..n : u[i] = t[i]
      /\ \A j \in 1..m : u[n + j] = q[j]
  <2>1. t \in Seq(Slots) /\ q \in Seq(Slots)
    BY DEF Table
  <2> HIDE DEF Slots
  <2>2. u \in Seq(Slots) /\ DOMAIN u = 1..(n + m)
    BY <2>1
  <2>3. \A i \in 1..n : u[i] = t[i]
    BY <2>1
  <2>4. \A j \in 1..m : u[n + j] = q[j]
    BY <2>1
  <2> QED
    BY <2>2, <2>3, <2>4 DEF Table
<1> HIDE DEF u, n, m
<1>3. \A i \in DOMAIN u : i \in DOMAIN t \/ (i - n \in DOMAIN q /\ n + (i - n) = i)
  BY <1>1, <1>2
<1>4. /\ \A i \in DOMAIN t : i \in DOMAIN u /\ u[i] = t[i]
      /\ \A j \in DOMAIN q : n + j \in DOMAIN u /\ u[n + j] = q[j] /\ n + j \notin DOMAIN t
  BY <1>1, <1>2
<1>5. ToSet(u) = ToSet(t) \cup ToSet(q)
  <2>1. ASSUME NEW x \in ToSet(u) PROVE x \in ToSet(t) \cup ToSet(q)
    <3>1. PICK i \in DOMAIN u : x = u[i]
      BY DEF ToSet
    <3>2. (i \in DOMAIN t /\ x = t[i]) \/ (i - n \in DOMAIN q /\ x = q[i - n])
      BY <1>3, <1>4, <3>1
    <3> QED
      BY <3>2 DEF ToSet
  <2>2. ToSet(t) \cup ToSet(q) \subseteq ToSet(u)
    BY <1>4 DEF ToSet
  <2> QED
    BY <2>1, <2>2
<1>6. ASSUME One(u)
      PROVE  One(t) /\ One(q) /\ \A x \in ToSet(t), y \in ToSet(q) : x.from # y.from
  <2>1. One(t)
    BY <1>4, <1>6 DEF One
  <2>2. One(q)
    <3> SUFFICES ASSUME NEW i \in DOMAIN q, NEW j \in DOMAIN q, q[i].from = q[j].from
                 PROVE  i = j
      BY DEF One
    <3>1. n + i = n + j
      BY <1>4, <1>6 DEF One
    <3> QED
      BY <1>1, <3>1
  <2>3. ASSUME NEW x \in ToSet(t), NEW y \in ToSet(q) PROVE x.from # y.from
    <3>1. PICK i \in DOMAIN t, j \in DOMAIN q : x = t[i] /\ y = q[j]
      BY DEF ToSet
    <3>2. n + j # i
      BY <1>4
    <3> QED
      BY <1>4, <1>6, <3>1, <3>2 DEF One
  <2> QED
    BY <2>1, <2>2, <2>3
<1>7. ASSUME One(t), One(q), \A x \in ToSet(t), y \in ToSet(q) : x.from # y.from
      PROVE  One(u)
  <2>1. \A i \in DOMAIN t, j \in DOMAIN q : t[i].from # q[j].from
    BY <1>7 DEF ToSet
  <2> SUFFICES ASSUME NEW i \in DOMAIN u, NEW j \in DOMAIN u, u[i].from = u[j].from
               PROVE  i = j
    BY DEF One
  <2>2. /\ (i \in DOMAIN t /\ u[i] = t[i]) \/ (i - n \in DOMAIN q /\ u[i] = q[i - n])
        /\ (j \in DOMAIN t /\ u[j] = t[j]) \/ (j - n \in DOMAIN q /\ u[j] = q[j - n])
    BY <1>3, <1>4
  <2>3. i - n = j - n => i = j
    BY <1>1, <1>2
  <2> QED
    BY <1>7, <2>1, <2>2, <2>3 DEF One
<1> QED
  BY <1>2, <1>5, <1>6, <1>7 DEF u

LEMMA SingleSet ==
  ASSUME NEW s \in Slots
  PROVE  /\ <<s>> \in Table /\ ToSet(<<s>>) = {s} /\ One(<<s>>)
         /\ <<>> \in Table /\ ToSet(<<>>) = {} /\ One(<<>>)
<1>1. <<s>> \in Seq(Slots) /\ DOMAIN <<s>> = {1} /\ <<s>>[1] = s
  <2> HIDE DEF Slots
  <2>1. DOMAIN <<s>> = 1..1
    OBVIOUS
  <2>2. 1..1 = {1}
    OBVIOUS
  <2> QED
    BY <2>1, <2>2
<1>2. <<>> \in Seq(Slots) /\ DOMAIN <<>> = {}
  OBVIOUS
<1> DEFINE u == <<s>>
           v == <<>>
<1>3. u \in Table /\ DOMAIN u = {1} /\ u[1] = s /\ v \in Table /\ DOMAIN v = {}
  BY <1>1, <1>2 DEF Table
<1> HIDE DEF u, v
<1>4. ToSet(u) = {s} /\ One(u) /\ ToSet(v) = {} /\ One(v)
  BY <1>3 DEF ToSet, One
<1> QED
  BY <1>3, <1>4 DEF u, v

LEMMA EmptySet ==
  /\ <<>> \in Table /\ ToSet(<<>>) = {} /\ One(<<>>)
  /\ \A t \in Table : t \o <<>> = t
<1>1. <<>> \in Seq(Slots) /\ DOMAIN <<>> = {} /\ \A t \in Seq(Slots) : t \o <<>> = t
  <2> HIDE DEF Slots
  <2> QED
    OBVIOUS
<1> QED
  BY <1>1 DEF Table, ToSet, One

LEMMA OnTopSet ==
  ASSUME NEW t \in Table, NEW first, One(t)
  PROVE  OnTop(t, first) \in Table /\ One(OnTop(t, first)) /\ ToSet(OnTop(t, first)) = ToSet(t)
<1> DEFINE k == Find(t, first)
           b == RemoveAt(t, k)
           u == <<t[k]>> \o b
<1>1. k # 0 => k \in DOMAIN t
  BY FindAt
<1>2. OnTop(t, first) = IF k = 0 \/ k = DRIVE_MAP_SIZE THEN t ELSE u
  BY DEF OnTop, Find
<1> HIDE DEF k
<1>3. ASSUME k \in DOMAIN t PROVE u \in Table /\ One(u) /\ ToSet(u) = ToSet(t)
  <2> DEFINE s == t[k]
             v == <<s>>
  <2>1. s \in Slots /\ s \in ToSet(t)
    BY <1>3, TableFacts DEF ToSet
  <2>2. v \in Table /\ ToSet(v) = {s} /\ One(v)
    <3> HIDE DEF s
    <3> QED
      BY <2>1, SingleSet
  <2>3. b \in Table /\ One(b) /\ ToSet(b) = ToSet(t) \ {s}
    BY <1>3, RemovedSet
  <2>4. \A x \in ToSet(v), y \in ToSet(b) : x.from # y.from
    BY <2>1, <2>2, <2>3, OneSlot
  <2>5. u = v \o b
    OBVIOUS
  <2> HIDE DEF s, v, b, u
  <2>6. u \in Table /\ One(u) /\ ToSet(u) = ToSet(v) \cup ToSet(b)
    BY <2>2, <2>3, <2>4, <2>5, CatSet
  <2> QED
    BY <2>1, <2>2, <2>3, <2>6
<1> HIDE DEF u
<1> QED
  BY <1>1, <1>2, <1>3

\* The other name of a number.
Other(d, a, b) == IF d = a THEN b ELSE IF d = b THEN a ELSE d

LEMMA RenamedSet ==
  ASSUME NEW t \in Table, NEW a \in Numbers, NEW b \in Numbers, One(t), NEW mem
  PROVE  /\ Renamed(t, a, b) \in Table /\ One(Renamed(t, a, b))
         /\ \A s \in ToSet(t) : \E q \in ToSet(Renamed(t, a, b)) :
              q.from = Other(s.from, a, b) /\ Holds(q, mem) = Holds(s, mem)
         /\ \A q \in ToSet(Renamed(t, a, b)) : \E s \in ToSet(t) :
              q.from = Other(s.from, a, b) /\ (Good(s) => Good(q))
<1> DEFINE N(s) == [s EXCEPT !.from = IF @ = a THEN b ELSE IF @ = b THEN a ELSE @]
           u == Renamed(t, a, b)
<1>1. ASSUME NEW s \in Slots
      PROVE  /\ N(s).from = Other(s.from, a, b)
             /\ N(s).to = s.to /\ N(s).start = s.start /\ N(s).count = s.count
             /\ N(s).img = s.img
  BY DEF Slots, Other
<1>2. ASSUME NEW s \in Slots
      PROVE  Holds(N(s), mem) = Holds(s, mem) /\ (Good(s) => Good(N(s)))
  <2> DEFINE q == N(s)
  <2>1. q.to = s.to /\ q.start = s.start /\ q.count = s.count /\ q.img = s.img
    BY <1>1
  <2> HIDE DEF q
  <2>2. Holds(q, mem) = Holds(s, mem) /\ (Good(s) => Good(q))
    BY <2>1 DEF Holds, Good
  <2> QED
    BY <2>2 DEF q
<1>3. u = [i \in DOMAIN t |-> N(t[i])]
  BY DEF Renamed
<1>4. u \in Table /\ \A i \in DOMAIN t : t[i] \in Slots
  BY RenamedFewer, TableFacts
<1> HIDE DEF N, u
<1>5. DOMAIN u = DOMAIN t /\ \A i \in DOMAIN t : u[i] = N(t[i])
  BY <1>3
<1>6. One(u)
  <2>1. \A x, y : Other(x, a, b) = Other(y, a, b) => x = y
    BY DEF Other
  <2> QED
    BY <1>1, <1>4, <1>5, <2>1 DEF One
<1>7. ASSUME NEW i \in DOMAIN t
      PROVE  /\ u[i].from = Other(t[i].from, a, b) /\ Holds(u[i], mem) = Holds(t[i], mem)
             /\ Good(t[i]) => Good(u[i])
  BY <1>1, <1>2, <1>4, <1>5
<1>8. ASSUME NEW s \in ToSet(t)
      PROVE  \E q \in ToSet(u) : q.from = Other(s.from, a, b) /\ Holds(q, mem) = Holds(s, mem)
  BY <1>5, <1>7 DEF ToSet
<1>9. ASSUME NEW q \in ToSet(u)
      PROVE  \E s \in ToSet(t) : q.from = Other(s.from, a, b) /\ (Good(s) => Good(q))
  BY <1>5, <1>7 DEF ToSet
<1> QED
  BY <1>4, <1>6, <1>8, <1>9 DEF u

\* What a --rehook takes out and what it leaves are the table, no slot twice.
Parts(o) ==
  /\ Apiece(o) /\ One(o.left \o o.list)
  /\ ToSet(o.left) \cup ToSet(o.list) = ToSet(bios_drive_map)

LEMMA TakeParts ==
  ASSUME NEW o, Parts(o)
  PROVE  Parts(TakeHighest(o))
<1>1. Apiece(o) /\ Apiece(TakeHighest(o))
  BY TakeTypes DEF Parts
<1>2. CASE Picked(o.left) = {}
  BY <1>2 DEF TakeHighest
<1>3. CASE Picked(o.left) # {}
  <2>1. PICK k \in Picked(o.left) :
          /\ k \in DOMAIN o.left /\ o.left[k] \in Slots
          /\ TakeHighest(o).left = RemoveAt(o.left, k)
          /\ TakeHighest(o).list = Append(o.list, o.left[k])
    BY <1>1, <1>3, TakeFacts
  <2> DEFINE l == o.left
             q == o.list
             s == l[k]
             l2 == TakeHighest(o).left
             q2 == TakeHighest(o).list
  <2>2. /\ l \in Table /\ q \in Table /\ k \in DOMAIN l /\ s \in Slots /\ s \in ToSet(l)
        /\ l2 = RemoveAt(l, k) /\ q2 = Append(q, l[k]) /\ l2 \in Table /\ q2 \in Table
    BY <1>1, <2>1 DEF Apiece, ToSet
  <2>3. One(l \o q) /\ ToSet(l) \cup ToSet(q) = ToSet(bios_drive_map)
    BY DEF Parts
  <2>4. SUFFICES One(l2 \o q2) /\ ToSet(l2) \cup ToSet(q2) = ToSet(bios_drive_map)
    BY <1>1 DEF Parts
  <2>5. s = l[k]
    OBVIOUS
  <2> HIDE DEF l, q, s, l2, q2
  <2>6. One(l) /\ One(q) /\ \A x \in ToSet(l), y \in ToSet(q) : x.from # y.from
    BY <2>2, <2>3, CatSet
  <2>7. One(l2) /\ ToSet(l2) = ToSet(l) \ {s}
    BY <2>2, <2>5, <2>6, RemovedSet
  <2>8. One(q2) /\ ToSet(q2) = ToSet(q) \cup {s}
    <3>1. \A y \in ToSet(q) : y.from # s.from
      BY <2>2, <2>6
    <3> QED
      BY <2>2, <2>5, <2>6, <3>1, AppendSet
  <2>9. \A x \in ToSet(l2), y \in ToSet(q2) : x.from # y.from
    BY <2>2, <2>6, <2>7, <2>8, OneSlot
  <2> QED
    BY <2>2, <2>3, <2>7, <2>8, <2>9, CatSet
<1> QED
  BY <1>2, <1>3

LEMMA TakenParts ==
  ASSUME bios_drive_map \in Table, One(bios_drive_map)
  PROVE  Parts(TakenOut)
<1> DEFINE N == DRIVE_MAP_SIZE - 1
<1>1. N \in Nat
  BY Constants
<1>2. PICK f : Step(f, N) /\ TakenOut = f[N]
  BY TakenSteps
<1> HIDE DEF N
<1> DEFINE Bad == {k \in 0..N : ~Parts(f[k])}
<1>3. SUFFICES ASSUME Bad # {} PROVE FALSE
  BY <1>1, <1>2
<1>4. PICK k \in Bad : \A j \in Bad : k <= j
  <2>1. Bad \in SUBSET Nat
    BY <1>1
  <2> HIDE DEF Bad
  <2> QED
    BY <1>3, <2>1, Least
<1>5. k \in 0..N /\ ~Parts(f[k])
  OBVIOUS
<1>6. CASE k = 0
  <2>1. f[0] = [left |-> bios_drive_map, list |-> <<>>]
    BY <1>1, <1>2, StepFacts
  <2>2. Apiece(f[0])
    BY <2>1, EmptySet DEF Apiece
  <2>3. f[0].left = bios_drive_map /\ f[0].list = <<>>
    BY <2>1
  <2>4. Parts(f[0])
    BY <2>2, <2>3, EmptySet DEF Parts
  <2> QED
    BY <1>5, <1>6, <2>4
<1>7. CASE k # 0
  <2>1. k - 1 \in 0..N /\ f[k] = TakeHighest(f[k - 1])
    BY <1>1, <1>2, <1>5, <1>7, StepFacts
  <2>2. Parts(f[k - 1])
    BY <1>1, <1>4, <1>5, <2>1
  <2> QED
    BY <1>5, <2>1, <2>2, TakeParts
<1> QED
  BY <1>6, <1>7

-----------------------------------------------------------------------------
(* What is behind a slot *)

Sectors == [0..(Memory - 1) -> Nat]

LEMMA GoodFacts ==
  ASSUME NEW s \in Slots, Good(s)
  PROVE  /\ s.start \in Nat /\ s.count \in Nat /\ s.img \in Nat /\ s.from \in Numbers
         /\ s.to = MEM => /\ s.img <= s.count /\ s.start + s.count <= Memory
                          /\ \A i \in 1..s.img :
                               s.start + i - 1 \in s.start..(s.start + s.count - 1)
                          /\ \A a \in s.start..(s.start + s.count - 1) : a \in 0..(Memory - 1)
<1>1. s.start \in Nat /\ s.count \in Nat /\ s.img \in Nat /\ s.from \in Numbers
  BY DEF Slots
<1>2. s.to = MEM => s.img <= s.count /\ s.start + s.count <= Memory
  BY DEF Good
<1> QED
  BY <1>1, <1>2, Constants

LEMMA SameSectors ==
  ASSUME NEW s \in Slots, Good(s), NEW mem, NEW new,
         s.to = MEM => \A a \in s.start..(s.start + s.count - 1) : new[a] = mem[a]
  PROVE  Holds(s, new) = Holds(s, mem)
<1>1. CASE s.to = MEM
  <2>1. \A i \in 1..s.img : new[s.start + i - 1] = mem[s.start + i - 1]
    BY <1>1, GoodFacts
  <2> QED
    BY <1>1, <2>1 DEF Holds
<1>2. CASE s.to # MEM
  BY <1>2 DEF Holds
<1> QED
  BY <1>1, <1>2

LEMMA KeptType ==
  ASSUME NEW mem \in Sectors, NEW u
  PROVE  Kept(mem, u) \in Sectors
<1>1. DOMAIN mem = 0..(Memory - 1) /\ \A a \in DOMAIN mem : mem[a] \in Nat
  BY DEF Sectors
<1> QED
  BY <1>1 DEF Kept, Sectors

\* What a table's slots lead to is kept.
LEMMA KeptHolds ==
  ASSUME NEW mem \in Sectors, NEW u \in Table, NEW s \in ToSet(u), Good(s)
  PROVE  Holds(s, Kept(mem, u)) = Holds(s, mem)
<1>1. s \in Slots
  BY SetFacts
<1>2. PICK k \in DOMAIN u : s = u[k]
  BY DEF ToSet
<1>3. ASSUME s.to = MEM, NEW a \in s.start..(s.start + s.count - 1)
      PROVE  Kept(mem, u)[a] = mem[a]
  <2>1. a \in DOMAIN mem
    BY <1>1, <1>3, GoodFacts DEF Sectors
  <2>2. k \in InMemory(u) /\ a \in u[k].start..(u[k].start + u[k].count - 1)
    BY <1>2, <1>3 DEF InMemory
  <2> QED
    BY <2>1, <2>2 DEF Kept
<1> QED
  BY <1>1, <1>3, SameSectors

LEMMA KeptMeans ==
  ASSUME NEW mem \in Sectors, NEW u \in Table, NEW t \in Table, Sane(t),
         ToSet(t) \subseteq ToSet(u), NEW d
  PROVE  Means(t, d, Kept(mem, u)) = Means(t, d, mem)
<1>1. \A s \in ToSet(t) : Holds(s, Kept(mem, u)) = Holds(s, mem)
  BY KeptHolds DEF Sane
<1> HIDE DEF Sectors
<1> QED
  BY <1>1, SameMeaning DEF Sane

\* A part of a part.
LEMMA PartFacts ==
  ASSUME NEW D \in Seq(Nat), NEW a \in Nat, NEW b \in Nat, a + b <= Len(D)
  PROVE  /\ SubSeq(D, a + 1, a + b) \in Seq(Nat) /\ Len(SubSeq(D, a + 1, a + b)) = b
         /\ \A i \in 1..b : SubSeq(D, a + 1, a + b)[i] = D[a + i]
         /\ SubSeq(D, a + 1, a + b) = [i \in 1..b |-> D[a + i]]
<1> DEFINE u == SubSeq(D, a + 1, a + b)
<1>1. u \in Seq(Nat) /\ Len(u) = b /\ \A i \in 1..b : u[i] = D[a + i]
  <2> DEFINE m == a + 1
             n == a + b
  <2>1. m \in Int /\ n \in Int /\ n - m + 1 = b /\ (m <= n <=> b # 0) /\ \A i \in m..n : D[i] \in Nat
    BY ElementOfSeq
  <2>2. \A i \in 1..b : m + i - 1 = a + i
    OBVIOUS
  <2>3. u = SubSeq(D, m, n)
    OBVIOUS
  <2> HIDE DEF u, m, n
  <2>4. /\ u \in Seq(Nat) /\ Len(u) = IF m <= n THEN n - m + 1 ELSE 0
        /\ \A i \in 1..(n - m + 1) : u[i] = D[m + i - 1]
    BY <2>1, <2>3, SubSeqProperties
  <2> QED
    BY <2>1, <2>2, <2>4
<1>2. u = [i \in 1..b |-> D[a + i]]
  <2> HIDE DEF u
  <2>1. DOMAIN u = 1..b /\ u = [i \in DOMAIN u |-> u[i]]
    BY <1>1
  <2> QED
    BY <1>1, <2>1
<1> QED
  BY <1>1, <1>2

LEMMA PartOfPart ==
  ASSUME NEW D \in Seq(Nat), NEW a \in Nat, NEW b \in Nat, a + b <= Len(D),
         NEW x \in Nat, NEW n \in Nat, x + n <= b
  PROVE  SubSeq(SubSeq(D, a + 1, a + b), x + 1, x + n) = SubSeq(D, x + a + 1, x + a + n)
<1> DEFINE u == SubSeq(D, a + 1, a + b)
<1>1. u \in Seq(Nat) /\ Len(u) = b /\ \A i \in 1..b : u[i] = D[a + i]
  BY PartFacts
<1> HIDE DEF u
<1>2. SubSeq(u, x + 1, x + n) = [i \in 1..n |-> u[x + i]]
  BY <1>1, PartFacts
<1>3. x + a \in Nat /\ x + a + n <= Len(D)
  OBVIOUS
<1>4. SubSeq(D, x + a + 1, x + a + n) = [i \in 1..n |-> D[x + a + i]]
  BY <1>3, PartFacts
<1>5. \A i \in 1..n : u[x + i] = D[x + a + i]
  <2> SUFFICES ASSUME NEW i \in 1..n PROVE u[x + i] = D[x + a + i]
    OBVIOUS
  <2>1. x + i \in 1..b /\ a + (x + i) = x + a + i
    OBVIOUS
  <2> QED
    BY <1>1, <2>1
<1> QED
  BY <1>2, <1>4, <1>5 DEF u

LEMMA DiskFacts ==
  ASSUME NEW d \in Numbers
  PROVE  Disks[d] \in Seq(Nat) /\ d # MEM
<1>1. Disks \in [Numbers -> Seq(Nat)] /\ d \in 0..254
  BY DriveMapAssumption
<1> QED
  BY <1>1 DEF MEM

\* What a number means is a sequence of sectors.
LEMMA HoldsType ==
  ASSUME NEW mem \in Sectors, NEW s \in Slots, Good(s)
  PROVE  Holds(s, mem) \in Seq(Nat)
<1>1. CASE s.to = MEM
  <2>1. \A i \in 1..s.img : s.start + i - 1 \in 0..(Memory - 1)
    BY <1>1, GoodFacts
  <2>2. [i \in 1..s.img |-> mem[s.start + i - 1]] \in [1..s.img -> Nat] /\ s.img \in Nat
    BY <2>1, GoodFacts DEF Sectors
  <2>3. [i \in 1..s.img |-> mem[s.start + i - 1]] \in Seq(Nat)
    BY <2>2, SeqDef
  <2> QED
    BY <1>1, <2>3 DEF Holds
<1>2. CASE s.to # MEM
  <2>1. s.to \in Numbers /\ s.start \in Nat /\ s.count \in Nat
    BY <1>2 DEF Slots
  <2>2. Disks[s.to] \in Seq(Nat)
    BY <2>1, DiskFacts
  <2>3. s.count # 0 => s.start + s.count <= Len(Disks[s.to])
    BY <1>2 DEF Good
  <2>4. s.count # 0 => SubSeq(Disks[s.to], s.start + 1, s.start + s.count) \in Seq(Nat)
    BY <2>1, <2>2, <2>3, PartFacts
  <2> QED
    BY <1>2, <2>2, <2>4 DEF Holds
<1> QED
  BY <1>1, <1>2

LEMMA MeansType ==
  ASSUME NEW mem \in Sectors, NEW t \in Table, Sane(t), NEW d \in Numbers
  PROVE  Means(t, d, mem) \in Seq(Nat)
<1>1. CASE \E s \in ToSet(t) : s.from = d
  BY <1>1, MeansFacts, HoldsType, SetFacts DEF Sane
<1>2. CASE \A s \in ToSet(t) : s.from # d
  BY <1>2, MeansFacts, DiskFacts DEF Sane
<1> QED
  BY <1>1, <1>2

-----------------------------------------------------------------------------
(* What a map gives a number *)

\* The table that int 13 works from.
Working == IF int13 THEN hooked_drive_map ELSE <<>>

LEMMA WorkingFacts ==
  ASSUME hooked_drive_map \in Table, Sane(hooked_drive_map), int13 \in BOOLEAN
  PROVE  Working \in Table /\ Sane(Working) /\ ToSet(Working) \subseteq ToSet(hooked_drive_map)
BY EmptySet DEF Working, Sane

LEMMA ThroughMeans ==
  ASSUME hooked_drive_map \in Table, Sane(hooked_drive_map), int13 \in BOOLEAN,
         NEW from \in Numbers, NEW to \in Numbers, NEW start \in Nat, NEW n \in Nat,
         NEW mem \in Sectors, NEW new,
         Through(from, to, start, n).to # MEM, n = 0 => start = 0,
         n # 0 => start + n <= Len(Means(Working, to, mem))
  PROVE  LET s == Through(from, to, start, n)
             A == Means(Working, to, mem)
         IN  /\ s \in Slots /\ s.from = from /\ Good(s)
             /\ Holds(s, new) = IF n = 0 THEN A ELSE SubSeq(A, start + 1, start + n)
<1> DEFINE s == Through(from, to, start, n)
           A == Means(Working, to, mem)
           k == Find(hooked_drive_map, to)
<1>1. s \in Slots
  BY ThroughSlot
<1>2. /\ k # 0 => k \in DOMAIN hooked_drive_map
      /\ Disks[to] \in Seq(Nat) /\ to # MEM
  BY FindAt, DiskFacts
<1>3. CASE ~int13 \/ k = 0
  <2>1. s = Slot(from, to, start, n, n)
    BY <1>3 DEF Through
  <2>2. s.from = from /\ s.to = to /\ s.start = start /\ s.count = n
    BY <2>1 DEF Slot
  <2>3. A = Disks[to]
    <3>1. CASE ~int13
      <4>1. Working = <<>>
        BY <3>1 DEF Working
      <4> QED
        BY <4>1, EmptySet, MeansFacts
    <3>2. CASE int13
      BY <1>3, <3>2 DEF Working, Means
    <3> QED
      BY <3>1, <3>2
  <2>4. n # 0 => start + n <= Len(Disks[to])
    BY <2>3
  <2> HIDE DEF s, A
  <2>5. Good(s)
    BY <1>2, <2>2, <2>4 DEF Good
  <2>6. Holds(s, new) = IF n = 0 THEN A ELSE SubSeq(A, start + 1, start + n)
    BY <1>2, <2>2, <2>3 DEF Holds
  <2> QED
    BY <1>1, <2>2, <2>5, <2>6 DEF s, A
<1>4. CASE int13 /\ k # 0
  <2> DEFINE h == hooked_drive_map[k]
  <2>1. s = Slot(from, h.to, start + h.start,
                 IF n = 0 THEN h.count ELSE n, IF n = 0 THEN h.img ELSE n)
    BY <1>4 DEF Through
  <2>2. /\ s.from = from /\ s.to = h.to /\ s.start = start + h.start
        /\ s.count = IF n = 0 THEN h.count ELSE n
    BY <2>1 DEF Slot
  <2>3. h \in Slots /\ Good(h)
    BY <1>2, <1>4, TableFacts DEF Sane, ToSet
  <2>4. A = Holds(h, mem)
    BY <1>4 DEF Working, Means
  <2>5. n # 0 => start + n <= Len(A)
    OBVIOUS
  <2>6. s.to # MEM
    OBVIOUS
  <2> HIDE DEF s, A, h, k
  <2>7. h.to \in Numbers /\ h.start \in Nat /\ h.count \in Nat /\ h.to # MEM
    BY <2>2, <2>3, <2>6 DEF Slots
  <2> DEFINE D == Disks[h.to]
  <2>8. D \in Seq(Nat)
    BY <2>7, DiskFacts
  <2>9. CASE h.count = 0
    <3>1. A = D /\ h.start = 0
      BY <2>3, <2>4, <2>7, <2>9 DEF Holds, Good
    <3> HIDE DEF D
    <3>2. n # 0 => start + n <= Len(D)
      BY <2>5, <3>1
    <3>3. s.to = h.to /\ s.start = start /\ s.count = n
      BY <2>2, <2>9, <3>1
    <3>4. Good(s)
      BY <2>7, <3>2, <3>3 DEF Good, D
    <3>5. Holds(s, new) = IF n = 0 THEN A ELSE SubSeq(A, start + 1, start + n)
      BY <2>7, <3>1, <3>3 DEF Holds, D
    <3> QED
      BY <1>1, <2>2, <3>4, <3>5 DEF s, A
  <2>10. CASE h.count # 0
    <3>1. A = SubSeq(D, h.start + 1, h.start + h.count) /\ h.start + h.count <= Len(D)
      BY <2>3, <2>4, <2>7, <2>10 DEF Holds, Good
    <3>2. Len(A) = h.count
      BY <2>7, <2>8, <3>1, PartFacts
    <3>3. CASE n = 0
      <4>1. s.to = h.to /\ s.start = h.start /\ s.count = h.count
        BY <2>2, <2>7, <3>3
      <4>2. Good(s) /\ Holds(s, new) = A
        BY <2>7, <2>10, <3>1, <4>1 DEF Good, Holds
      <4> QED
        BY <1>1, <2>2, <3>3, <4>2 DEF s, A
    <3>4. CASE n # 0
      <4>1. s.to = h.to /\ s.start = start + h.start /\ s.count = n
        BY <2>2, <3>4
      <4>2. start + n <= h.count
        BY <2>5, <3>2, <3>4
      <4>3. SubSeq(A, start + 1, start + n) = SubSeq(D, start + h.start + 1, start + h.start + n)
        <5> DEFINE a == h.start
                   b == h.count
        <5>1. /\ a \in Nat /\ b \in Nat /\ a + b <= Len(D) /\ start + n <= b
              /\ A = SubSeq(D, a + 1, a + b)
          BY <2>7, <3>1, <4>2
        <5> HIDE DEF a, b, D
        <5>2. SubSeq(SubSeq(D, a + 1, a + b), start + 1, start + n) =
                SubSeq(D, start + a + 1, start + a + n)
          BY <2>8, <5>1, PartOfPart
        <5> QED
          BY <5>1, <5>2 DEF a
      <4>4. start + h.start + n <= Len(D)
        <5>1. Len(D) \in Nat
          BY <2>8
        <5> HIDE DEF D
        <5> QED
          BY <2>7, <3>1, <4>2, <5>1
      <4>5. Good(s)
        BY <2>7, <3>4, <4>1, <4>4 DEF Good
      <4>6. Holds(s, new) = SubSeq(D, start + h.start + 1, start + h.start + n)
        BY <2>7, <3>4, <4>1 DEF Holds
      <4> QED
        BY <1>1, <2>2, <3>4, <4>3, <4>5, <4>6 DEF s, A
    <3> QED
      BY <3>3, <3>4
  <2> QED
    BY <2>9, <2>10
<1> QED
  BY <1>3, <1>4

LEMMA MappedMeans ==
  ASSUME NEW t \in Table, Sane(t), NEW s \in Slots, Good(s), NEW mem
  PROVE  /\ Mapped(t, s) \in Table /\ Sane(Mapped(t, s))
         /\ \A d \in Numbers :
              Means(Mapped(t, s), d, mem) = IF d = s.from THEN Holds(s, mem) ELSE Means(t, d, mem)
<1> DEFINE u == Mapped(t, s)
           itself == s.to = s.from /\ s.start = 0 /\ s.count = 0
<1>1. /\ u \in Table /\ One(u) /\ One(t)
      /\ ToSet(u) = {q \in ToSet(t) : q.from # s.from} \cup (IF itself THEN {} ELSE {s})
  BY MappedSet DEF Sane
<1> HIDE DEF u
<1>2. Sane(u)
  BY <1>1 DEF Sane
<1>3. Means(u, s.from, mem) = Holds(s, mem)
  <2>1. CASE itself
    <3>1. \A q \in ToSet(u) : q.from # s.from
      BY <1>1, <2>1
    <3>2. s.from \in Numbers
      BY DEF Slots
    <3>3. s.to # MEM
      BY <2>1, <3>2, DiskFacts
    <3>4. Holds(s, mem) = Disks[s.from]
      BY <2>1, <3>3 DEF Holds
    <3> QED
      BY <1>1, <3>1, <3>4, MeansFacts
  <2>2. CASE ~itself
    BY <1>1, <2>2, MeansFacts
  <2> QED
    BY <2>1, <2>2
<1>4. ASSUME NEW d \in Numbers, d # s.from PROVE Means(u, d, mem) = Means(t, d, mem)
  <2>1. \A q : q.from = d => (q \in ToSet(u) <=> q \in ToSet(t))
    BY <1>1, <1>4
  <2> HIDE DEF itself
  <2> QED
    BY <1>1, <2>1, SameMeaning
<1> QED
  BY <1>1, <1>2, <1>3, <1>4 DEF u

LEMMA GivenMeans ==
  ASSUME hooked_drive_map \in Table, Sane(hooked_drive_map), int13 \in BOOLEAN,
         NEW t \in Table, Sane(t), NEW from \in Numbers, NEW to \in Numbers,
         NEW mem \in Sectors, Through(from, to, 0, 0).to # MEM
  PROVE  /\ Given(t, from, to) \in Table /\ Sane(Given(t, from, to))
         /\ \A d \in Numbers :
              Means(Given(t, from, to), d, mem) =
                IF d = from /\ Possible(t, from, to) THEN Means(Working, to, mem)
                ELSE Means(t, d, mem)
<1> DEFINE s == Through(from, to, 0, 0)
<1>1. s \in Slots /\ s.from = from /\ Good(s) /\ Holds(s, mem) = Means(Working, to, mem)
  BY ThroughMeans
<1> HIDE DEF s
<1>2. /\ Mapped(t, s) \in Table /\ Sane(Mapped(t, s))
      /\ \A d \in Numbers :
           Means(Mapped(t, s), d, mem) = IF d = from THEN Means(Working, to, mem)
                                         ELSE Means(t, d, mem)
  BY <1>1, MappedMeans
<1>3. Given(t, from, to) = IF Possible(t, from, to) THEN Mapped(t, s) ELSE t
  BY DEF Given, s
<1> QED
  BY <1>2, <1>3

LEMMA DeletedMeans ==
  ASSUME NEW t \in Table, Sane(t), NEW range, NEW mem
  PROVE  /\ Deleted(t, range) \in Table /\ Sane(Deleted(t, range))
         /\ \A d \in Numbers :
              Means(Deleted(t, range), d, mem) = IF d \in range THEN Disks[d]
                                                 ELSE Means(t, d, mem)
<1> DEFINE u == Deleted(t, range)
<1>1. /\ u \in Table /\ One(u) /\ One(t)
      /\ ToSet(u) = {s \in ToSet(t) : s.from \notin range}
  BY DeletedSet DEF Sane
<1> HIDE DEF u
<1>2. Sane(u)
  BY <1>1 DEF Sane
<1>3. ASSUME NEW d \in Numbers, d \in range PROVE Means(u, d, mem) = Disks[d]
  BY <1>1, <1>3, MeansFacts
<1>4. ASSUME NEW d \in Numbers, d \notin range PROVE Means(u, d, mem) = Means(t, d, mem)
  <2>1. \A s : s.from = d => (s \in ToSet(u) <=> s \in ToSet(t))
    BY <1>1, <1>4
  <2> QED
    BY <1>1, <2>1, SameMeaning
<1> QED
  BY <1>1, <1>2, <1>3, <1>4 DEF u

-----------------------------------------------------------------------------
(* The meanings of the numbers, now and when int 13 is hooked next *)

NowMeans == [d \in Numbers |-> Means(Working, d, memory)]
ThenMeans == [d \in Numbers |-> Means(bios_drive_map \o ToMove, d, memory)]

NamesInv ==
  /\ MovedInv /\ memory \in Sectors
  /\ Sane(bios_drive_map \o ToMove) /\ Sane(hooked_drive_map)
  /\ pc = "rehook" => int13 = FALSE /\ asked.op = "none"

LEMMA ServesMeans ==
  /\ \A d : Now(d) = Means(Working, d, memory)
  /\ [d \in Numbers |-> Now(d)] = NowMeans
  /\ [d \in Numbers |-> Serves(bios_drive_map \o ToMove, d)] = ThenMeans
<1>1. ASSUME NEW t, NEW d PROVE Serves(t, d) = Means(t, d, memory)
  BY DEF Serves, Means, Content, Holds
<1>2. \A d : Now(d) = Serves(Working, d)
  BY DEF Now, Working
<1> QED
  BY <1>1, <1>2 DEF NowMeans, ThenMeans

LEMMA ServesMeansNext ==
  /\ [d \in Numbers |-> Now(d)]' = NowMeans'
  /\ [d \in Numbers |-> Serves(bios_drive_map \o ToMove, d)]' = ThenMeans'
<1>1. \A t, d : Serves(t, d)' = Means(t, d, memory')
  BY DEF Serves, Means, Content, Holds
<1>2. \A d : Now(d)' = Serves(Working, d)'
  BY DEF Now, Working
<1> QED
  BY <1>1, <1>2 DEF NowMeans, ThenMeans

\* At the command line nothing is on its way.
LEMMA IdleFacts ==
  ASSUME NamesInv, pc = "idle"
  PROVE  /\ bios_drive_map \in Table /\ hooked_drive_map \in Table /\ int13 \in BOOLEAN
         /\ DOMAIN memory = 0..(Memory - 1) /\ memory \in Sectors
         /\ Sane(bios_drive_map) /\ Sane(hooked_drive_map)
         /\ Working \in Table /\ Sane(Working)
         /\ ToSet(Working) \subseteq ToSet(hooked_drive_map)
         /\ ThenMeans = [d \in Numbers |-> Means(bios_drive_map, d, memory)]
         /\ Placed(bios_drive_map) /\ TypeOK
<1>1. /\ bios_drive_map \in Table /\ hooked_drive_map \in Table /\ int13 \in BOOLEAN
      /\ DOMAIN memory = 0..(Memory - 1) /\ Placed(bios_drive_map) /\ TypeOK
  BY TableTypes DEF NamesInv, MovedInv, PlacedInv
<1>2. ToMove = <<>>
  BY DEF ToMove
<1>3. bios_drive_map \o ToMove = bios_drive_map
  BY <1>1, <1>2, EmptySet
<1>4. Sane(bios_drive_map) /\ Sane(hooked_drive_map) /\ memory \in Sectors
  BY <1>3 DEF NamesInv
<1> QED
  BY <1>1, <1>3, <1>4, WorkingFacts DEF ThenMeans

\* A command that changes the table only.
LEMMA KeptNames ==
  ASSUME NamesInv, pc = "idle", bios_drive_map' \in Table, Sane(bios_drive_map'),
         UNCHANGED <<hooked_drive_map, int13, pc>>, KeepMemory
  PROVE  /\ memory' \in Sectors /\ Sane((bios_drive_map \o ToMove)') /\ Sane(hooked_drive_map')
         /\ pc' # "rehook" /\ NowMeans' = NowMeans
         /\ ThenMeans' = [d \in Numbers |-> Means(bios_drive_map', d, memory)]
<1> DEFINE t == bios_drive_map'
           u == t \o hooked_drive_map'
<1>1. /\ hooked_drive_map \in Table /\ memory \in Sectors /\ Sane(hooked_drive_map)
      /\ Working \in Table /\ Sane(Working)
      /\ ToSet(Working) \subseteq ToSet(hooked_drive_map)
  BY IdleFacts
<1>2. memory' = Kept(memory, u) /\ hooked_drive_map' = hooked_drive_map /\ Working' = Working
  BY DEF KeepMemory, Working
<1>3. ToMove' = <<>> /\ pc' # "rehook"
  BY DEF ToMove
<1>4. (bios_drive_map \o ToMove)' = t
  BY <1>3, EmptySet
<1>5. u \in Table /\ ToSet(t) \subseteq ToSet(u) /\ ToSet(Working) \subseteq ToSet(u)
  <2>1. u \in Table /\ ToSet(u) = ToSet(t) \cup ToSet(hooked_drive_map)
    BY <1>1, <1>2, CatSet
  <2> QED
    BY <1>1, <2>1
<1> HIDE DEF u
<1>6. memory' \in Sectors
  BY <1>1, <1>2, KeptType
<1>7. NowMeans' = NowMeans
  <2>1. \A d : Means(Working, d, memory') = Means(Working, d, memory)
    BY <1>1, <1>2, <1>5, KeptMeans
  <2>2. NowMeans' = [d \in Numbers |-> Means(Working', d, memory')]
    BY DEF NowMeans
  <2> QED
    BY <1>2, <2>1, <2>2 DEF NowMeans
<1>8. ThenMeans' = [d \in Numbers |-> Means(t, d, memory)]
  <2>1. \A d : Means(t, d, memory') = Means(t, d, memory)
    BY <1>1, <1>2, <1>5, KeptMeans
  <2>2. ThenMeans' = [d \in Numbers |-> Means((bios_drive_map \o ToMove)', d, memory')]
    BY DEF ThenMeans
  <2> QED
    BY <1>4, <2>1, <2>2
<1> QED
  BY <1>1, <1>2, <1>3, <1>4, <1>6, <1>7, <1>8

-----------------------------------------------------------------------------
(* Every step is a step of DriveNames *)

NamesNext == Sane((bios_drive_map \o ToMove)') /\ Sane(hooked_drive_map') /\ memory' \in Sectors

LEMMA MapRangeNames ==
  ASSUME NamesInv, Aliases = FALSE, NEW from \in Numbers, NEW i \in Images,
         MapRange(from, i[1], i[2], i[3])
  PROVE  NamesNext /\ pc' # "rehook" /\ Names!Map
<1> DEFINE to == i[1]
           start == i[2]
           n == i[3]
           s == Through(from, to, start, n)
           t == bios_drive_map
<1>1. to \in Numbers /\ start \in Nat /\ n \in Nat /\ n # 0
  BY ImageFacts
<1>2. /\ pc = "idle" /\ start + n <= Len(Now(to)) /\ s.to # MEM
      /\ bios_drive_map' = Mapped(t, s) /\ asked' = Request(from, to, start, n)
      /\ UNCHANGED <<hooked_drive_map, int13, pc>> /\ KeepMemory
  BY DEF MapRange, Command, AliasFree
<1> HIDE DEF to, start, n
<1>3. start + n <= Len(Means(Working, to, memory))
  BY <1>2, ServesMeans
<1>4. /\ s \in Slots /\ s.from = from /\ Good(s)
      /\ Holds(s, memory) = SubSeq(Means(Working, to, memory), start + 1, start + n)
  BY <1>1, <1>2, <1>3, IdleFacts, ThroughMeans
<1> HIDE DEF s
<1>5. /\ t \in Table /\ Sane(t)
      /\ ThenMeans = [d \in Numbers |-> Means(t, d, memory)]
  BY <1>2, IdleFacts
<1> HIDE DEF t
<1>6. /\ Mapped(t, s) \in Table /\ Sane(Mapped(t, s))
      /\ \A d \in Numbers :
           Means(Mapped(t, s), d, memory) = IF d = from THEN Holds(s, memory) ELSE Means(t, d, memory)
  <2>1. s \in Slots /\ Good(s) /\ t \in Table /\ Sane(t) /\ s.from = from
    BY <1>4, <1>5
  <2>2. \A mem :
          /\ Mapped(t, s) \in Table /\ Sane(Mapped(t, s))
          /\ \A d \in Numbers :
               Means(Mapped(t, s), d, mem) = IF d = s.from THEN Holds(s, mem) ELSE Means(t, d, mem)
    BY <2>1, MappedMeans
  <2> QED
    BY <2>1, <2>2
<1>7. /\ NamesNext /\ pc' # "rehook" /\ NowMeans' = NowMeans
      /\ ThenMeans' = [d \in Numbers |-> Means(bios_drive_map', d, memory)]
  BY <1>2, <1>6, KeptNames DEF NamesNext, t
<1>8. ThenMeans' = [ThenMeans EXCEPT ![from] = SubSeq(NowMeans[to], start + 1, start + n)]
  <2>1. NowMeans[to] = Means(Working, to, memory)
    BY <1>1 DEF NowMeans
  <2> QED
    BY <1>2, <1>4, <1>5, <1>6, <1>7, <2>1
<1>9. /\ asked'.op = "map" /\ asked'.from = from /\ asked'.to = to
      /\ asked'.start = start /\ asked'.n = n
  BY <1>2 DEF Request
<1>10. Names!Map
  <2> QED
    BY <1>1, <1>7, <1>8, <1>9, ServesMeans, ServesMeansNext DEF Names!Map, Names!Meant
<1> QED
  BY <1>7, <1>10

LEMMA MapWholeNames ==
  ASSUME NamesInv, Aliases = FALSE, NEW from \in Numbers, NEW to \in Numbers,
         MapWhole(from, to)
  PROVE  NamesNext /\ pc' # "rehook" /\ Names!Map
<1> DEFINE t == bios_drive_map
<1>1. /\ pc = "idle" /\ from # to /\ Possible(t, from, to) /\ Through(from, to, 0, 0).to # MEM
      /\ bios_drive_map' = Given(t, from, to) /\ asked' = Request(from, to, 0, 0)
      /\ UNCHANGED <<hooked_drive_map, int13, pc>> /\ KeepMemory
  BY DEF MapWhole, Command, AliasFree
<1>2. /\ t \in Table /\ Sane(t) /\ hooked_drive_map \in Table /\ Sane(hooked_drive_map)
      /\ int13 \in BOOLEAN /\ memory \in Sectors
      /\ ThenMeans = [d \in Numbers |-> Means(t, d, memory)]
  BY <1>1, IdleFacts
<1> HIDE DEF t
<1>3. /\ Given(t, from, to) \in Table /\ Sane(Given(t, from, to))
      /\ \A d \in Numbers :
           Means(Given(t, from, to), d, memory) =
             IF d = from THEN Means(Working, to, memory) ELSE Means(t, d, memory)
  <2>1. /\ Given(t, from, to) \in Table /\ Sane(Given(t, from, to))
        /\ \A d \in Numbers :
             Means(Given(t, from, to), d, memory) =
               IF d = from /\ Possible(t, from, to) THEN Means(Working, to, memory)
               ELSE Means(t, d, memory)
    BY <1>1, <1>2, GivenMeans
  <2> QED
    BY <1>1, <2>1
<1>4. /\ NamesNext /\ pc' # "rehook" /\ NowMeans' = NowMeans
      /\ ThenMeans' = [d \in Numbers |-> Means(bios_drive_map', d, memory)]
  BY <1>1, <1>3, KeptNames DEF NamesNext
<1>5. ThenMeans' = [ThenMeans EXCEPT ![from] = NowMeans[to]]
  <2>1. NowMeans[to] = Means(Working, to, memory)
    BY DEF NowMeans
  <2> QED
    BY <1>1, <1>2, <1>3, <1>4, <2>1
<1>6. asked'.op = "map" /\ asked'.from = from /\ asked'.to = to /\ asked'.n = 0
  BY <1>1 DEF Request
<1>7. Names!Map
  BY <1>1, <1>4, <1>5, <1>6, ServesMeans, ServesMeansNext DEF Names!Map, Names!Meant
<1> QED
  BY <1>4, <1>7

LEMMA UnmapNames ==
  ASSUME NamesInv, NEW range, Unmap(range)
  PROVE  NamesNext /\ pc' # "rehook" /\ Names!Unmap
<1> DEFINE t == bios_drive_map
<1>1. /\ pc = "idle" /\ bios_drive_map' = Deleted(t, range)
      /\ asked' = [op |-> "unmap", range |-> range]
      /\ UNCHANGED <<hooked_drive_map, int13, pc>> /\ KeepMemory
  BY DEF Unmap, Command
<1>2. t \in Table /\ Sane(t) /\ ThenMeans = [d \in Numbers |-> Means(t, d, memory)]
  BY <1>1, IdleFacts
<1> HIDE DEF t
<1>3. /\ Deleted(t, range) \in Table /\ Sane(Deleted(t, range))
      /\ \A d \in Numbers :
           Means(Deleted(t, range), d, memory) = IF d \in range THEN Disks[d]
                                                 ELSE Means(t, d, memory)
  BY <1>2, DeletedMeans
<1>4. /\ NamesNext /\ pc' # "rehook" /\ NowMeans' = NowMeans
      /\ ThenMeans' = [d \in Numbers |-> Means(bios_drive_map', d, memory)]
  BY <1>1, <1>3, KeptNames DEF NamesNext
<1>5. ThenMeans' = [d \in Numbers |-> IF d \in range THEN Disks[d] ELSE ThenMeans[d]]
  BY <1>1, <1>2, <1>3, <1>4
<1>6. asked'.op = "unmap" /\ asked'.range = range
  BY <1>1
<1>7. Names!Unmap
  BY <1>4, <1>5, <1>6, ServesMeans, ServesMeansNext DEF Names!Unmap
<1> QED
  BY <1>4, <1>7

LEMMA RenamedMeans ==
  ASSUME NEW t \in Table, Sane(t), NEW a \in Numbers, NEW b \in Numbers, a # b, NEW mem
  PROVE  LET u == Renamed(t, a, b)
         IN  /\ u \in Table /\ Sane(u)
             /\ \A d \in Numbers \ {a, b} : Means(u, d, mem) = Means(t, d, mem)
             /\ Means(u, b, mem) = IF Find(t, a) = 0 THEN Disks[b] ELSE Means(t, a, mem)
             /\ Means(u, a, mem) = IF Find(t, b) = 0 THEN Disks[a] ELSE Means(t, b, mem)
<1> DEFINE u == Renamed(t, a, b)
<1>1. /\ One(t) /\ u \in Table /\ One(u)
      /\ \A s \in ToSet(t) : \E q \in ToSet(u) :
           q.from = Other(s.from, a, b) /\ Holds(q, mem) = Holds(s, mem)
      /\ \A q \in ToSet(u) : \E s \in ToSet(t) :
           q.from = Other(s.from, a, b) /\ (Good(s) => Good(q))
  <2>1. One(t)
    BY DEF Sane
  <2> QED
    BY <2>1, RenamedSet
<1> HIDE DEF u
<1>2. Sane(u)
  BY <1>1 DEF Sane
<1>3. /\ \A d : Other(Other(d, a, b), a, b) = d
      /\ Other(a, a, b) = b /\ Other(b, a, b) = a
      /\ \A d \in Numbers \ {a, b} : Other(d, a, b) = d
  BY DEF Other
\* Whatever a number has the other name has then.
<1>4. ASSUME NEW d \in Numbers, NEW s \in ToSet(t), s.from = d
      PROVE  Means(u, Other(d, a, b), mem) = Means(t, d, mem)
  BY <1>1, <1>4, MeansFacts
<1>5. ASSUME NEW d \in Numbers, \A s \in ToSet(t) : s.from # d, Other(d, a, b) \in Numbers
      PROVE  Means(u, Other(d, a, b), mem) = Disks[Other(d, a, b)]
  <2>1. \A q \in ToSet(u) : q.from # Other(d, a, b)
    BY <1>1, <1>3, <1>5
  <2> QED
    BY <1>1, <2>1, MeansFacts
<1>6. ASSUME NEW d \in Numbers
      PROVE  Find(t, d) = 0 <=> \A s \in ToSet(t) : s.from # d
  <2>1. /\ Find(t, d) # 0 => Find(t, d) \in DOMAIN t /\ t[Find(t, d)].from = d
        /\ Find(t, d) = 0 => \A i \in DOMAIN t : t[i].from # d
    BY FindAt
  <2> QED
    BY <2>1 DEF ToSet
<1>7. ASSUME NEW d \in Numbers \ {a, b} PROVE Means(u, d, mem) = Means(t, d, mem)
  <2>1. CASE \E s \in ToSet(t) : s.from = d
    BY <1>3, <1>4, <2>1
  <2>2. CASE \A s \in ToSet(t) : s.from # d
    BY <1>1, <1>3, <1>5, <2>2, MeansFacts
  <2> QED
    BY <2>1, <2>2
<1>8. Means(u, b, mem) = IF Find(t, a) = 0 THEN Disks[b] ELSE Means(t, a, mem)
  BY <1>3, <1>4, <1>5, <1>6
<1>9. Means(u, a, mem) = IF Find(t, b) = 0 THEN Disks[a] ELSE Means(t, b, mem)
  BY <1>3, <1>4, <1>5, <1>6
<1> QED
  BY <1>1, <1>2, <1>7, <1>8, <1>9 DEF u

LEMMA SwapNames ==
  ASSUME NamesInv, Aliases = FALSE, NEW a \in Numbers, NEW b \in Numbers, Swap(a, b)
  PROVE  NamesNext /\ pc' # "rehook" /\ Names!Swap
<1> DEFINE t == bios_drive_map
           k == Find(t, a) = 0
           l == Find(t, b) = 0
           t1 == Renamed(t, a, b)
           t2 == IF k THEN Given(t1, b, a) ELSE t1
           t3 == IF l THEN Given(t2, a, b) ELSE t2
           fails == (k /\ ~Possible(t1, b, a)) \/ (l /\ ~Possible(t2, a, b))
<1>1. /\ pc = "idle" /\ a # b /\ bios_drive_map' = t3
      /\ k => Through(b, a, 0, 0).to # MEM
      /\ l => Through(a, b, 0, 0).to # MEM
      /\ asked' = [op |-> "swap", a |-> a, b |-> b, fails |-> fails]
      /\ UNCHANGED <<hooked_drive_map, int13, pc>> /\ KeepMemory
  BY DEF Swap, Command, AliasFree
<1>2. /\ t \in Table /\ Sane(t) /\ hooked_drive_map \in Table /\ Sane(hooked_drive_map)
      /\ int13 \in BOOLEAN /\ memory \in Sectors
      /\ ThenMeans = [d \in Numbers |-> Means(t, d, memory)]
  BY <1>1, IdleFacts
<1> DEFINE M(u, d) == Means(u, d, memory)
           W(d) == Means(Working, d, memory)
<1>3. /\ t1 \in Table /\ Sane(t1)
      /\ \A d \in Numbers \ {a, b} : M(t1, d) = M(t, d)
      /\ M(t1, b) = IF k THEN Disks[b] ELSE M(t, a)
      /\ M(t1, a) = IF l THEN Disks[a] ELSE M(t, b)
  BY <1>1, <1>2, RenamedMeans
<1>4. asked'.op = "swap" /\ asked'.a = a /\ asked'.b = b /\ asked'.fails = fails
  BY <1>1
<1> HIDE DEF t, t1, k, l, M, W
<1>5. /\ t2 \in Table /\ Sane(t2)
      /\ \A d \in Numbers : M(t2, d) = IF d = b /\ k /\ Possible(t1, b, a) THEN W(a) ELSE M(t1, d)
  <2>1. CASE k
    <3>1. /\ Given(t1, b, a) \in Table /\ Sane(Given(t1, b, a))
          /\ \A d \in Numbers :
               Means(Given(t1, b, a), d, memory) =
                 IF d = b /\ Possible(t1, b, a) THEN Means(Working, a, memory)
                 ELSE Means(t1, d, memory)
      BY <1>1, <1>2, <1>3, <2>1, GivenMeans
    <3> QED
      BY <2>1, <3>1 DEF M, W
  <2>2. CASE ~k
    BY <1>3, <2>2
  <2> QED
    BY <2>1, <2>2
<1> HIDE DEF t2
<1>6. /\ t3 \in Table /\ Sane(t3)
      /\ \A d \in Numbers : M(t3, d) = IF d = a /\ l /\ Possible(t2, a, b) THEN W(b) ELSE M(t2, d)
  <2>1. CASE l
    <3>1. /\ Given(t2, a, b) \in Table /\ Sane(Given(t2, a, b))
          /\ \A d \in Numbers :
               Means(Given(t2, a, b), d, memory) =
                 IF d = a /\ Possible(t2, a, b) THEN Means(Working, b, memory)
                 ELSE Means(t2, d, memory)
      BY <1>1, <1>2, <1>5, <2>1, GivenMeans
    <3> QED
      BY <2>1, <3>1 DEF M, W
  <2>2. CASE ~l
    BY <1>5, <2>2
  <2> QED
    BY <2>1, <2>2
<1> HIDE DEF t3
<1>7. /\ NamesNext /\ pc' # "rehook" /\ NowMeans' = NowMeans
      /\ ThenMeans' = [d \in Numbers |-> Means(bios_drive_map', d, memory)]
  BY <1>1, <1>6, KeptNames DEF NamesNext
<1>8. /\ ThenMeans' = [d \in Numbers |-> M(t3, d)] /\ ThenMeans = [d \in Numbers |-> M(t, d)]
      /\ \A d \in Numbers : NowMeans[d] = W(d)
  BY <1>1, <1>2, <1>7 DEF M, W, NowMeans
<1> DEFINE x == M(t3, b)
           y == M(t3, a)
<1>9. x \in {M(t, a), W(a)} \cup (IF fails THEN {Disks[b]} ELSE {})
  <2>1. x = IF k /\ Possible(t1, b, a) THEN W(a) ELSE M(t1, b)
    BY <1>1, <1>5, <1>6
  <2>2. k /\ ~Possible(t1, b, a) => fails
    OBVIOUS
  <2> HIDE DEF x, fails
  <2> QED
    BY <1>3, <2>1, <2>2
<1>10. y \in {M(t, b), W(b)} \cup (IF fails THEN {Disks[a]} ELSE {})
  <2>1. y = IF l /\ Possible(t2, a, b) THEN W(b) ELSE M(t1, a)
    BY <1>1, <1>5, <1>6
  <2>2. l /\ ~Possible(t2, a, b) => fails
    OBVIOUS
  <2> HIDE DEF y, fails
  <2> QED
    BY <1>3, <2>1, <2>2
<1>11. \A d \in Numbers \ {a, b} : M(t3, d) = M(t, d)
  BY <1>3, <1>5, <1>6
<1> HIDE DEF fails
<1>12. ThenMeans' = [ThenMeans EXCEPT ![b] = x, ![a] = y]
  BY <1>1, <1>8, <1>11
<1> HIDE DEF x, y
<1>13. /\ x \in {ThenMeans[a], NowMeans[a]} \cup (IF fails THEN {Disks[b]} ELSE {})
       /\ y \in {ThenMeans[b], NowMeans[b]} \cup (IF fails THEN {Disks[a]} ELSE {})
  BY <1>8, <1>9, <1>10
<1>14. \A d \in Numbers : Names!Old(d) = {ThenMeans[d], NowMeans[d]}
  BY ServesMeans DEF Names!Old
<1>15. \A d : Names!Lost(d) = IF fails THEN {Disks[d]} ELSE {}
  BY <1>4 DEF Names!Lost
<1>16. /\ x \in Names!Old(asked'.a) \cup Names!Lost(asked'.b)
       /\ y \in Names!Old(asked'.b) \cup Names!Lost(asked'.a)
  BY <1>4, <1>13, <1>14, <1>15
<1>17. ThenMeans' = [ThenMeans EXCEPT ![asked'.b] = x, ![asked'.a] = y]
  BY <1>4, <1>12
<1>18. Names!Swap
  BY <1>4, <1>7, <1>16, <1>17, ServesMeans, ServesMeansNext DEF Names!Swap
<1> QED
  BY <1>7, <1>18

\* The place found is large enough.
LEMMA PlaceSize ==
  ASSUME bios_drive_map \in Table,
         NEW n \in Nat \ {0}, NEW mem \in Int, NEW top \in BOOLEAN, NEW p \in Places(n, mem, top)
  PROVE  n <= p[2]
<1> DEFINE m == IF mem < 0 /\ n < -mem THEN -mem ELSE n
           need == Up(m)
<1>1. n <= need /\ need \in Nat \ {0}
  <2>1. m \in Nat /\ n <= m
    OBVIOUS
  <2> HIDE DEF m
  <2>2. Up(m) \in Nat /\ m <= Up(m)
    BY <2>1, UpFacts
  <2> QED
    BY <2>1, <2>2
<1>2. CASE mem <= 0
  <2>1. PICK b \in Bases(need, top) : p = <<b, need>>
    BY <1>2 DEF Places
  <2> QED
    BY <1>1, <2>1
<1>3. CASE mem > 0
  <2>1. PICK r \in Regions :
          /\ mem >= Lowest(r) /\ mem + need <= Highest(r, top)
          /\ (mem..(mem + need - 1)) \cap Taken = {}
          /\ p = <<mem, Min({Highest(r, top)} \cup {t \in Taken : t > mem}) - mem>>
    BY <1>3 DEF Places
  <2> HIDE DEF m, need
  <2> DEFINE S == {Highest(r, top)} \cup {a \in Taken : a > mem}
  <2>2. mem \in Nat /\ Highest(r, top) \in Nat /\ Taken \in SUBSET Nat
    <3>1. mem \in Nat
      BY <1>3
    <3>2. Highest(r, top) \in Nat
      BY RangeFacts
    <3>3. Taken \in SUBSET Nat
      BY TakenFacts
    <3> QED
      BY <3>1, <3>2, <3>3
  <2>3. \A a \in S : a \in Nat /\ mem + need <= a
    <3>1. ASSUME NEW a \in Taken, a > mem PROVE a \in Nat /\ mem + need <= a
      <4>1. a \in Nat /\ a \notin mem..(mem + need - 1)
        BY <2>1, <2>2
      <4> QED
        BY <1>1, <2>2, <3>1, <4>1
    <3> QED
      BY <2>1, <2>2, <3>1
  <2>4. Min(S) \in S
    <3>1. S \in SUBSET Nat /\ S # {}
      BY <2>3
    <3> HIDE DEF S
    <3> QED
      BY <3>1, LeastChosen
  <2> DEFINE e == Min(S)
  <2>5. e \in Nat /\ mem + need <= e /\ p[2] = e - mem
    BY <2>1, <2>3, <2>4
  <2> HIDE DEF e
  <2> QED
    BY <1>1, <2>2, <2>5
<1> QED
  BY <1>2, <1>3

LEMMA FreshFits ==
  ASSUME NEW p, Fresh(p)
  PROVE  p[1] \in Nat /\ p[2] \in Nat /\ p[1] + p[2] <= Memory
<1>1. PICK r \in Regions : p[1] + p[2] <= Highest(r, TRUE)
  BY DEF Fresh
<1>2. Highest(r, TRUE) \in Nat /\ Highest(r, TRUE) <= Memory
  BY RangeFacts
<1>3. p[1] \in Nat /\ p[2] \in Nat
  BY DEF Fresh
<1> DEFINE a == p[1]
           b == p[2]
           h == Highest(r, TRUE)
<1>4. a \in Nat /\ b \in Nat /\ h \in Nat /\ h <= Memory /\ a + b <= h
  BY <1>1, <1>2, <1>3
<1> HIDE DEF a, b, h
<1>5. a + b <= Memory
  BY <1>4, Constants
<1> QED
  BY <1>3, <1>5 DEF a, b

\* It has no sector in common with the memory drives of the table.
LEMMA FreshApart ==
  ASSUME bios_drive_map \in Table, NEW p, Fresh(p), NEW x \in InMemory(bios_drive_map),
         NEW a \in bios_drive_map[x].start..(bios_drive_map[x].start + bios_drive_map[x].count - 1),
         NEW n \in Nat, n <= p[2]
  PROVE  a \notin p[1]..(p[1] + n - 1)
<1> DEFINE s == bios_drive_map[x]
           f == First(s)
           e == PastEnd(s)
           b == p[1]
           c == p[2]
<1>1. s.start \in Nat /\ s.count \in Nat
  BY SlotFacts DEF InMemory
<1>2. f \in Nat /\ e \in Nat /\ f <= s.start /\ s.start + s.count <= e
  <2> HIDE DEF s
  <2> QED
    BY <1>1, PageFacts
<1>3. f <= a /\ a < e /\ a \in Nat
  <2>1. a \in s.start..(s.start + s.count - 1)
    OBVIOUS
  <2> HIDE DEF s, f, e
  <2> QED
    BY <1>1, <1>2, <2>1
<1>4. b \in Nat /\ c \in Nat /\ (e <= Down(b) \/ Up(b + c) <= f) /\ n <= c
  BY DEF Fresh
<1> HIDE DEF s, f, e, b, c
<1>5. Down(b) \in Nat /\ Down(b) <= b
  BY <1>4, DownFacts
<1>6. Up(b + c) \in Nat /\ b + c <= Up(b + c)
  BY <1>4, UpFacts
<1>7. e <= b \/ b + c <= f
  BY <1>2, <1>4, <1>5, <1>6
<1>8. a \notin b..(b + n - 1)
  BY <1>2, <1>3, <1>4, <1>7
<1> QED
  BY <1>8 DEF b

LEMMA UntouchedMeans ==
  ASSUME NEW t \in Table, Sane(t), NEW mem, NEW new, NEW d,
         \A s \in ToSet(t) : s.to = MEM =>
           \A a \in s.start..(s.start + s.count - 1) : new[a] = mem[a]
  PROVE  Means(t, d, new) = Means(t, d, mem)
<1>1. \A s \in ToSet(t) : Holds(s, new) = Holds(s, mem)
  BY SetFacts, SameSectors DEF Sane
<1> QED
  BY <1>1, SameMeaning DEF Sane

\* n sectors of D, from `start` on, are put at p1.
Filling(mem, p1, n, D, start) ==
  [a \in DOMAIN mem |-> IF a \in p1..(p1 + n - 1) THEN D[start + a - p1 + 1] ELSE mem[a]]

Fits(mem, p1, n, D, start) ==
  /\ mem \in Sectors /\ D \in Seq(Nat) /\ {p1, n, start} \subseteq Nat
  /\ start + n <= Len(D) /\ p1 + n <= Memory

LEMMA Filled ==
  ASSUME NEW mem, NEW p1, NEW n, NEW D, NEW start, Fits(mem, p1, n, D, start)
  PROVE  /\ Filling(mem, p1, n, D, start) \in Sectors
         /\ \A i \in 1..n : Filling(mem, p1, n, D, start)[p1 + i - 1] = D[start + i]
         /\ \A a \in 0..(Memory - 1) :
              a \notin p1..(p1 + n - 1) => Filling(mem, p1, n, D, start)[a] = mem[a]
<1> DEFINE new == Filling(mem, p1, n, D, start)
<1>1. /\ mem \in Sectors /\ D \in Seq(Nat) /\ p1 \in Nat /\ n \in Nat /\ start \in Nat
      /\ start + n <= Len(D) /\ p1 + n <= Memory
  BY DEF Fits
<1>2. new = [a \in DOMAIN mem |-> IF a \in p1..(p1 + n - 1) THEN D[start + a - p1 + 1] ELSE mem[a]]
  BY DEF Filling
<1>3. DOMAIN mem = 0..(Memory - 1) /\ \A a \in DOMAIN mem : mem[a] \in Nat
  BY <1>1 DEF Sectors
<1> HIDE DEF new
<1>4. \A a \in p1..(p1 + n - 1) : D[start + a - p1 + 1] \in Nat
  <2> SUFFICES ASSUME NEW a \in p1..(p1 + n - 1) PROVE D[start + a - p1 + 1] \in Nat
    OBVIOUS
  <2>1. start + a - p1 + 1 \in 1..Len(D)
    BY <1>1
  <2> QED
    BY <1>1, <2>1, ElementOfSeq
<1>5. new \in Sectors
  BY <1>2, <1>3, <1>4 DEF Sectors
<1>6. \A i \in 1..n : new[p1 + i - 1] = D[start + i]
  <2> SUFFICES ASSUME NEW i \in 1..n PROVE new[p1 + i - 1] = D[start + i]
    OBVIOUS
  <2>1. /\ p1 + i - 1 \in 0..(Memory - 1) /\ p1 + i - 1 \in p1..(p1 + n - 1)
        /\ start + (p1 + i - 1) - p1 + 1 = start + i
    BY <1>1, Constants
  <2> QED
    BY <1>2, <1>3, <2>1
<1>7. \A a \in 0..(Memory - 1) : a \notin p1..(p1 + n - 1) => new[a] = mem[a]
  BY <1>2, <1>3
<1> QED
  BY <1>5, <1>6, <1>7 DEF new

LEMMA MapMemoryNames ==
  ASSUME NamesInv, Untidy = FALSE, NEW from \in Numbers, NEW i \in Images, NEW o \in Options,
         MapMemory(from, i[1], i[2], i[3], o[1], o[2])
  PROVE  NamesNext /\ pc' # "rehook" /\ Names!Map
<1> DEFINE to == i[1]
           start == i[2]
           n == i[3]
           mem == o[1]
           top == o[2]
           t == bios_drive_map
           D == Means(Working, to, memory)
<1>1. to \in Numbers /\ start \in Nat /\ n \in Nat /\ n # 0 /\ mem \in Int /\ top \in BOOLEAN
  BY ImageFacts, OptionFacts
<1>2. /\ pc = "idle" /\ start + n <= Len(Now(to)) /\ Tidy
      /\ UNCHANGED <<hooked_drive_map, int13, pc>> /\ asked' = Request(from, to, start, n)
      /\ \E p \in Places(n, mem, top) :
           /\ bios_drive_map' = Stored(t, Slot(from, MEM, p[1], p[2], n))
           /\ memory' = Kept([a \in DOMAIN memory |->
                                IF a \in p[1]..(p[1] + n - 1) THEN Now(to)[start + a - p[1] + 1]
                                ELSE memory[a]],
                             bios_drive_map' \o hooked_drive_map)
  BY DEF MapMemory, Command
<1> HIDE DEF to, start, n, mem, top
<1>3. /\ t \in Table /\ Sane(t) /\ hooked_drive_map \in Table /\ Sane(hooked_drive_map)
      /\ int13 \in BOOLEAN /\ memory \in Sectors /\ Placed(t) /\ TypeOK
      /\ Working \in Table /\ Sane(Working) /\ ToSet(Working) \subseteq ToSet(hooked_drive_map)
      /\ ThenMeans = [d \in Numbers |-> Means(t, d, memory)]
  BY <1>2, IdleFacts
<1>4. Now(to) = D /\ D \in Seq(Nat) /\ start + n <= Len(D)
  BY <1>1, <1>2, <1>3, ServesMeans, MeansType
<1>5. PICK p \in Places(n, mem, top) :
        /\ bios_drive_map' = Stored(t, Slot(from, MEM, p[1], p[2], n))
        /\ memory' = Kept([a \in DOMAIN memory |->
                             IF a \in p[1]..(p[1] + n - 1) THEN D[start + a - p[1] + 1]
                             ELSE memory[a]],
                          bios_drive_map' \o hooked_drive_map)
  BY <1>2, <1>4
<1>6. Fresh(p) /\ n <= p[2]
  BY <1>1, <1>3, PlaceFacts, PlaceSize
<1> DEFINE new == Filling(memory, p[1], n, D, start)
           s == Slot(from, MEM, p[1], p[2], n)
           u == Stored(t, s)
           v == u \o hooked_drive_map
<1>7. p[1] \in Nat /\ p[2] \in Nat /\ p[1] + p[2] <= Memory /\ p[1] + n <= Memory
  BY <1>1, <1>6, FreshFits, Constants
<1>8. /\ s \in Slots /\ s.from = from /\ s.to = MEM /\ s.start = p[1] /\ s.count = p[2]
      /\ s.img = n
  BY <1>1, <1>7 DEF Slot, Slots
<1>9. bios_drive_map' = u /\ memory' = Kept(new, v)
  BY <1>5 DEF Filling
<1> HIDE DEF new, s, D, t
<1>10. /\ new \in Sectors /\ \A x \in 1..n : new[p[1] + x - 1] = D[start + x]
       /\ \A a \in 0..(Memory - 1) : a \notin p[1]..(p[1] + n - 1) => new[a] = memory[a]
  <2>1. Fits(memory, p[1], n, D, start)
    BY <1>1, <1>3, <1>4, <1>7 DEF Fits
  <2> QED
    BY <2>1, Filled DEF new
<1>11. Holds(s, new) = SubSeq(D, start + 1, start + n)
  <2> DEFINE f(x) == new[s.start + x - 1]
             g(x) == D[start + x]
  <2>1. \A x \in 1..n : f(x) = g(x)
    BY <1>8, <1>10
  <2>2. Holds(s, new) = [x \in 1..n |-> f(x)]
    BY <1>8 DEF Holds
  <2>3. SubSeq(D, start + 1, start + n) = [x \in 1..n |-> g(x)]
    BY <1>1, <1>4, PartFacts
  <2> HIDE DEF f, g
  <2> QED
    BY <2>1, <2>2, <2>3
<1>12. Good(s)
  BY <1>6, <1>7, <1>8 DEF Good
\* The image is written beside what the table and the handler lead to.
<1>13. ASSUME NEW x \in InMemory(t), NEW a \in t[x].start..(t[x].start + t[x].count - 1)
       PROVE  new[a] = memory[a]
  <2>1. a \notin p[1]..(p[1] + n - 1)
    BY <1>1, <1>3, <1>6, FreshApart DEF t
  <2>2. x \in DOMAIN t /\ t[x] \in Slots /\ Good(t[x]) /\ t[x].to = MEM
    BY <1>3, TableFacts DEF InMemory, Sane, ToSet
  <2>3. a \in 0..(Memory - 1)
    BY <2>2, GoodFacts
  <2> QED
    BY <1>10, <2>1, <2>3
<1>14. ASSUME NEW d PROVE Means(t, d, new) = Means(t, d, memory)
  <2>1. \A q \in ToSet(t) : q.to = MEM =>
          \A a \in q.start..(q.start + q.count - 1) : new[a] = memory[a]
    BY <1>13 DEF ToSet, InMemory
  <2> QED
    BY <1>3, <2>1, UntouchedMeans
<1>15. ASSUME NEW d PROVE Means(Working, d, new) = Means(Working, d, memory)
  <2>1. ASSUME NEW q \in ToSet(Working), q.to = MEM,
               NEW a \in q.start..(q.start + q.count - 1)
        PROVE  new[a] = memory[a]
    <3>1. int13
      BY <1>3, <2>1, EmptySet DEF Working
    <3>2. PICK x \in InMemory(hooked_drive_map) : q = hooked_drive_map[x]
      BY <1>3, <2>1 DEF ToSet, InMemory
    <3>3. PICK j \in InMemory(t) : t[j].start = q.start /\ t[j].count = q.count
      BY <1>2, <3>1, <3>2 DEF Tidy, t
    <3> QED
      BY <1>13, <3>3
  <2> QED
    BY <1>3, <2>1, UntouchedMeans
<1>16. /\ u \in Table /\ Sane(u)
       /\ \A d \in Numbers : Means(u, d, new) = IF d = from THEN Holds(s, new) ELSE Means(t, d, new)
  <2>1. MEM # from
    BY DiskFacts
  <2>2. u = Mapped(t, s)
    BY <1>8, <2>1 DEF Mapped
  <2>3. /\ Mapped(t, s) \in Table /\ Sane(Mapped(t, s))
        /\ \A d \in Numbers :
             Means(Mapped(t, s), d, new) = IF d = s.from THEN Holds(s, new) ELSE Means(t, d, new)
    BY <1>3, <1>8, <1>12, MappedMeans
  <2> QED
    BY <1>8, <2>2, <2>3
<1> HIDE DEF u
<1>17. v \in Table /\ ToSet(u) \subseteq ToSet(v) /\ ToSet(Working) \subseteq ToSet(v)
  <2>1. v \in Table /\ ToSet(v) = ToSet(u) \cup ToSet(hooked_drive_map)
    BY <1>3, <1>16, CatSet
  <2> QED
    BY <1>3, <2>1
<1> HIDE DEF v
<1>18. /\ memory' \in Sectors
       /\ \A d : Means(u, d, memory') = Means(u, d, new)
       /\ \A d : Means(Working, d, memory') = Means(Working, d, new)
  BY <1>3, <1>9, <1>10, <1>16, <1>17, KeptType, KeptMeans
<1>19. (bios_drive_map \o ToMove)' = u /\ Working' = Working
  <2>1. ToMove' = <<>> /\ Working' = Working
    BY <1>2 DEF ToMove, Working
  <2> QED
    BY <1>9, <1>16, <2>1, EmptySet
<1>20. NamesNext /\ pc' # "rehook"
  BY <1>2, <1>3, <1>16, <1>18, <1>19 DEF NamesNext
<1>21. NowMeans' = NowMeans
  <2>1. NowMeans' = [d \in Numbers |-> Means(Working', d, memory')]
    BY DEF NowMeans
  <2> QED
    BY <1>15, <1>18, <1>19, <2>1 DEF NowMeans
<1>22. ThenMeans' = [ThenMeans EXCEPT ![from] = SubSeq(NowMeans[to], start + 1, start + n)]
  <2>1. ThenMeans' = [d \in Numbers |-> Means((bios_drive_map \o ToMove)', d, memory')]
    BY DEF ThenMeans
  <2>2. \A d \in Numbers : Means(u, d, memory') = IF d = from THEN Holds(s, new)
                                                  ELSE Means(t, d, memory)
    BY <1>14, <1>16, <1>18
  <2>3. NowMeans[to] = D
    BY <1>1 DEF NowMeans, D
  <2> QED
    BY <1>3, <1>11, <1>19, <2>1, <2>2, <2>3
<1>23. /\ asked'.op = "map" /\ asked'.from = from /\ asked'.to = to
       /\ asked'.start = start /\ asked'.n = n
  BY <1>2 DEF Request
<1>24. Names!Map
  BY <1>1, <1>21, <1>22, <1>23, ServesMeans, ServesMeansNext DEF Names!Map, Names!Meant
<1> QED
  BY <1>20, <1>24

LEMMA RealFacts ==
  /\ [d \in Numbers |-> Disks[d]] = Disks
  /\ \A d, mem : Means(<<>>, d, mem) = Disks[d]
<1>1. Disks = [d \in Numbers |-> Disks[d]]
  BY DriveMapAssumption
<1> QED
  BY <1>1, EmptySet, MeansFacts

LEMMA HookNames ==
  ASSUME NamesInv, NEW first, Hook(first)
  PROVE  NamesNext /\ pc' # "rehook" /\ Names!Hook
<1> DEFINE t == bios_drive_map
           u == OnTop(t, first)
<1>1. /\ pc = "idle" /\ pc' = pc /\ bios_drive_map' = u /\ hooked_drive_map' = bios_drive_map'
      /\ int13' = TRUE /\ KeepMemory /\ asked' = NoRequest
  BY DEF Hook, OtherCommand, Hooked
<1>2. /\ t \in Table /\ Sane(t) /\ memory \in Sectors
      /\ ThenMeans = [d \in Numbers |-> Means(t, d, memory)]
  BY <1>1, IdleFacts
<1> HIDE DEF t
<1>3. u \in Table /\ One(u) /\ ToSet(u) = ToSet(t)
  BY <1>2, OnTopSet DEF Sane
<1> HIDE DEF u
<1>4. Sane(u)
  BY <1>2, <1>3 DEF Sane
<1>5. u \o u \in Table /\ ToSet(u) \subseteq ToSet(u \o u) /\ memory' = Kept(memory, u \o u)
  BY <1>1, <1>3, CatSet DEF KeepMemory
<1>6. memory' \in Sectors /\ \A d : Means(u, d, memory') = Means(u, d, memory)
  BY <1>2, <1>3, <1>4, <1>5, KeptType, KeptMeans
<1>7. ASSUME NEW d PROVE Means(u, d, memory) = Means(t, d, memory)
  BY <1>2, <1>3, SameMeaning DEF Sane
<1>8. (bios_drive_map \o ToMove)' = u /\ Working' = u
  <2>1. ToMove' = <<>> /\ Working' = hooked_drive_map'
    BY <1>1 DEF ToMove, Working
  <2> QED
    BY <1>1, <1>3, <2>1, EmptySet
<1>9. NamesNext
  BY <1>1, <1>4, <1>6, <1>8 DEF NamesNext
<1>10. /\ ThenMeans' = [d \in Numbers |-> Means((bios_drive_map \o ToMove)', d, memory')]
       /\ NowMeans' = [d \in Numbers |-> Means(Working', d, memory')]
  BY DEF ThenMeans, NowMeans
<1>11. ThenMeans' = ThenMeans /\ NowMeans' = ThenMeans
  BY <1>2, <1>6, <1>7, <1>8, <1>10
<1>12. asked'.op = "none"
  BY <1>1 DEF NoRequest
<1>13. Names!Hook
  BY <1>11, <1>12, ServesMeans, ServesMeansNext DEF Names!Hook
<1> QED
  BY <1>1, <1>9, <1>13

LEMMA BootNames ==
  ASSUME NamesInv, Boot
  PROVE  NamesNext /\ pc' # "rehook" /\ Names!Hook
<1> DEFINE t == bios_drive_map
<1>1. /\ pc = "idle" /\ pc' = pc /\ bios_drive_map' = t /\ hooked_drive_map' = t
      /\ int13' = TRUE /\ memory' = memory /\ asked' = NoRequest
  BY DEF Boot, OtherCommand, Hooked
<1>2. /\ t \in Table /\ Sane(t) /\ memory \in Sectors
      /\ ThenMeans = [d \in Numbers |-> Means(t, d, memory)]
  BY <1>1, IdleFacts
<1>3. (bios_drive_map \o ToMove)' = t /\ Working' = t
  <2>1. ToMove' = <<>> /\ Working' = hooked_drive_map'
    BY <1>1 DEF ToMove, Working
  <2> QED
    BY <1>1, <1>2, <2>1, EmptySet
<1>4. NamesNext
  BY <1>1, <1>2, <1>3 DEF NamesNext
<1>5. /\ ThenMeans' = [d \in Numbers |-> Means((bios_drive_map \o ToMove)', d, memory')]
      /\ NowMeans' = [d \in Numbers |-> Means(Working', d, memory')]
  BY DEF ThenMeans, NowMeans
<1>6. ThenMeans' = ThenMeans /\ NowMeans' = ThenMeans
  BY <1>1, <1>2, <1>3, <1>5
<1>7. asked'.op = "none"
  BY <1>1 DEF NoRequest
<1>8. Names!Hook
  BY <1>6, <1>7, ServesMeans, ServesMeansNext DEF Names!Hook
<1> QED
  BY <1>1, <1>4, <1>8

LEMMA UnhookNames ==
  ASSUME NamesInv, Unhook
  PROVE  NamesNext /\ pc' # "rehook" /\ Names!Unhook
<1> DEFINE t == bios_drive_map
<1>1. /\ pc = "idle" /\ pc' = pc /\ bios_drive_map' = t /\ hooked_drive_map' = <<>>
      /\ int13' = FALSE /\ KeepMemory /\ asked' = NoRequest
  BY DEF Unhook, OtherCommand, Off
<1>2. /\ t \in Table /\ Sane(t) /\ memory \in Sectors
      /\ ThenMeans = [d \in Numbers |-> Means(t, d, memory)]
  BY <1>1, IdleFacts
<1>3. memory' = Kept(memory, t)
  BY <1>1, <1>2, EmptySet DEF KeepMemory
<1>4. memory' \in Sectors /\ \A d : Means(t, d, memory') = Means(t, d, memory)
  BY <1>2, <1>3, KeptType, KeptMeans
<1>5. (bios_drive_map \o ToMove)' = t /\ Working' = <<>>
  <2>1. ToMove' = <<>> /\ Working' = <<>>
    BY <1>1 DEF ToMove, Working
  <2> QED
    BY <1>1, <1>2, <2>1, EmptySet
<1>6. NamesNext
  BY <1>1, <1>2, <1>4, <1>5, EmptySet DEF NamesNext, Sane
<1>7. /\ ThenMeans' = [d \in Numbers |-> Means((bios_drive_map \o ToMove)', d, memory')]
      /\ NowMeans' = [d \in Numbers |-> Means(Working', d, memory')]
  BY DEF ThenMeans, NowMeans
<1>8. ThenMeans' = ThenMeans /\ NowMeans' = Disks
  BY <1>2, <1>4, <1>5, <1>7, RealFacts
<1>9. asked'.op = "none"
  BY <1>1 DEF NoRequest
<1>10. Names!Unhook
  BY <1>8, <1>9, ServesMeans, ServesMeansNext DEF Names!Unhook
<1> QED
  BY <1>1, <1>6, <1>10

LEMMA RehookNames ==
  ASSUME NamesInv, Rehook
  PROVE  /\ NamesNext /\ int13' = FALSE /\ asked'.op = "none" /\ Names!Unhook
<1> DEFINE t == bios_drive_map
           l == TakenOut.left
           q == TakenOut.list
           u == l \o q
<1>1. /\ pc = "idle" /\ pc' = "rehook" /\ bios_drive_map' = l /\ hooked_drive_map' = q
      /\ int13' = FALSE /\ KeepMemory /\ asked' = NoRequest
  BY DEF Rehook, OtherCommand
<1>2. /\ t \in Table /\ Sane(t) /\ memory \in Sectors
      /\ ThenMeans = [d \in Numbers |-> Means(t, d, memory)]
  BY <1>1, IdleFacts
<1>3. l \in Table /\ q \in Table /\ One(u) /\ ToSet(l) \cup ToSet(q) = ToSet(t)
  BY <1>2, TakenParts DEF Sane, Parts, Apiece
<1> HIDE DEF t, l, q
<1>4. u \in Table /\ ToSet(u) = ToSet(t) /\ One(q) /\ ToSet(q) \subseteq ToSet(t)
  BY <1>3, CatSet
<1>5. (bios_drive_map \o ToMove)' = u /\ memory' = Kept(memory, u) /\ Working' = <<>>
  BY <1>1 DEF ToMove, KeepMemory, Working
<1> HIDE DEF u
<1>6. Sane(u) /\ Sane(q)
  BY <1>2, <1>3, <1>4 DEF Sane
<1>7. memory' \in Sectors /\ \A d : Means(u, d, memory') = Means(u, d, memory)
  BY <1>2, <1>4, <1>5, <1>6, KeptType, KeptMeans
<1>8. ASSUME NEW d PROVE Means(u, d, memory) = Means(t, d, memory)
  BY <1>2, <1>4, <1>6, SameMeaning DEF Sane
<1>9. NamesNext
  BY <1>1, <1>5, <1>6, <1>7 DEF NamesNext
<1>10. /\ ThenMeans' = [d \in Numbers |-> Means((bios_drive_map \o ToMove)', d, memory')]
       /\ NowMeans' = [d \in Numbers |-> Means(Working', d, memory')]
  BY DEF ThenMeans, NowMeans
<1>11. ThenMeans' = ThenMeans /\ NowMeans' = Disks
  BY <1>2, <1>5, <1>7, <1>8, <1>10, RealFacts
<1>12. asked'.op = "none"
  BY <1>1 DEF NoRequest
<1>13. Names!Unhook
  BY <1>11, <1>12, ServesMeans, ServesMeansNext DEF Names!Unhook
<1> QED
  BY <1>1, <1>9, <1>12, <1>13

\* A memory drive keeps its content on its way to its new place, and so do those
\* that have moved and those that wait: none of them is where it goes.
LEMMA RehookOneNames ==
  ASSUME NoStraddle, NamesInv, RehookOne
  PROVE  NamesNext /\ int13' = FALSE /\ asked'.op = "none" /\ Names!Rest
<1> DEFINE t == bios_drive_map
           q == hooked_drive_map
           r == Tail(q)
           s == Head(q)
           top == s.start >= FourGB
           places == Places(s.count, 0, top)
<1>1. /\ t \in Table /\ q \in Table /\ DOMAIN memory = 0..(Memory - 1) /\ Placed(t) /\ TypeOK
      /\ pc = "rehook" /\ Moving(q) /\ Descending(q) /\ Below(q, t)
  BY TableTypes DEF NamesInv, MovedInv, PlacedInv, RehookOne
<1>2. /\ memory \in Sectors /\ Sane(t \o q) /\ int13 = FALSE /\ asked.op = "none"
  BY <1>1 DEF NamesInv, ToMove
<1>3. /\ q # <<>> /\ hooked_drive_map' = r /\ int13' = FALSE /\ asked' = asked /\ pc' = "rehook"
  BY <1>1, <1>2, RehookOneMoves DEF RehookOne, NamesInv
<1>4. /\ s \in Slots /\ 1 \in DOMAIN q /\ s = q[1] /\ r \in Table /\ q = <<s>> \o r
      /\ \A i \in DOMAIN r : i + 1 \in DOMAIN q /\ 1 < i + 1 /\ r[i] = q[i + 1]
  <2>1. q \in Seq(Slots) /\ q # <<>>
    BY <1>1, <1>3 DEF Table
  <2> HIDE DEF Slots, q
  <2> QED
    BY <2>1 DEF Table
<1>5. /\ s.start \in Nat /\ s.count \in Nat /\ s.from \in Numbers /\ s.img \in Nat
      /\ top \in BOOLEAN
  BY <1>4 DEF Slots
<1>6. /\ s.to = MEM /\ Within(s) /\ \A k \in InMemory(t) : Above(t[k], s)
      /\ \A i \in DOMAIN r : r[i].to = MEM /\ Above(s, r[i])
  BY <1>1, <1>4 DEF Moving, Below, Descending
<1>7. s.count \in Nat \ {0}
  BY <1>5, <1>6 DEF Within
<1>8. PICK p \in places :
        /\ bios_drive_map' = Append(t, Slot(s.from, MEM, p[1], p[2], s.img))
        /\ memory' = Kept([a \in DOMAIN memory |->
                             IF a \in p[1]..(p[1] + s.count - 1)
                             THEN memory[s.start + a - p[1]] ELSE memory[a]],
                          bios_drive_map' \o hooked_drive_map')
  <2>1. places # {}
    BY <1>3 DEF RehookOne
  <2> QED
    BY <2>1 DEF RehookOne
<1>9. Fresh(p) /\ s.count <= p[2] /\ First(s) <= p[1]
  <2>1. p \in Places(s.count, 0, top) /\ 0 \in Int
    OBVIOUS
  <2> HIDE DEF s, top, places
  <2>2. Fresh(p) /\ s.count <= p[2]
    BY <1>1, <1>5, <1>7, <2>1, PlaceFacts, PlaceSize
  <2>3. First(s) <= p[1]
    BY <1>1, <1>5, <1>6, NewPlace DEF places, top
  <2> QED
    BY <2>2, <2>3
<1>10. p[1] \in Nat /\ p[2] \in Nat /\ p[1] + p[2] <= Memory /\ p[1] + s.count <= Memory
  <2> HIDE DEF s
  <2> QED
    BY <1>5, <1>9, FreshFits, Constants
<1> DEFINE n == Slot(s.from, MEM, p[1], p[2], s.img)
           c == s.count
           D == [i \in 1..c |-> memory[s.start + i - 1]]
           new == Filling(memory, p[1], c, D, 0)
           u == Append(t, n)
           v == u \o r
<1>11. /\ n \in Slots /\ n.from = s.from /\ n.to = MEM /\ n.start = p[1] /\ n.count = p[2]
       /\ n.img = s.img
  <2> HIDE DEF s
  <2> QED
    BY <1>5, <1>10 DEF Slot, Slots
<1>12. [a \in DOMAIN memory |-> IF a \in p[1]..(p[1] + c - 1)
                                THEN memory[s.start + a - p[1]] ELSE memory[a]] = new
  <2> DEFINE x == s.start
             b == p[1]
  <2>1. x \in Nat /\ b \in Nat /\ c \in Nat
    BY <1>5, <1>10
  <2>2. \A a \in b..(b + c - 1) : D[0 + a - b + 1] = memory[x + a - b]
    <3> SUFFICES ASSUME NEW a \in b..(b + c - 1) PROVE D[0 + a - b + 1] = memory[x + a - b]
      OBVIOUS
    <3> DEFINE j == 0 + a - b + 1
    <3>1. D = [i \in 1..c |-> memory[x + i - 1]]
      OBVIOUS
    <3> HIDE DEF x, b, c, D
    <3>2. j \in 1..c /\ x + j - 1 = x + a - b
      BY <2>1
    <3> HIDE DEF j
    <3>3. D[j] = memory[x + j - 1]
      BY <3>1, <3>2
    <3> QED
      BY <3>2, <3>3 DEF j
  <2>3. new = [a \in DOMAIN memory |-> IF a \in b..(b + c - 1) THEN D[0 + a - b + 1] ELSE memory[a]]
    BY DEF Filling
  <2> HIDE DEF D, new, c
  <2> QED
    BY <2>2, <2>3
<1>13. bios_drive_map' = u /\ memory' = Kept(new, v)
  BY <1>3, <1>8, <1>12
<1> HIDE DEF t, q, r, s, n, D, new
<1>14. Sane(t) /\ Sane(q) /\ Good(s) /\ s \in ToSet(q) /\ One(r) /\ ToSet(q) = {s} \cup ToSet(r)
       /\ (\A x \in ToSet(r) : x.from # s.from)
       /\ (\A x \in ToSet(t), y \in ToSet(q) : x.from # y.from)
  <2>1. One(t) /\ One(q) /\ (\A x \in ToSet(t), y \in ToSet(q) : x.from # y.from)
        /\ ToSet(t \o q) = ToSet(t) \cup ToSet(q)
    BY <1>1, <1>2, CatSet DEF Sane
  <2>2. One(r) /\ ToSet(q) = {s} \cup ToSet(r) /\ \A x \in ToSet(r) : x.from # s.from
    <3> DEFINE f == <<s>>
    <3>1. f \in Table /\ ToSet(f) = {s}
      BY <1>4, SingleSet
    <3>2. q = f \o r
      BY <1>4
    <3> HIDE DEF f
    <3>3. r \in Table /\ One(f \o r)
      BY <1>4, <2>1, <3>2
    <3>4. /\ ToSet(f \o r) = ToSet(f) \cup ToSet(r)
          /\ One(f \o r) => One(r) /\ \A x \in ToSet(f), y \in ToSet(r) : x.from # y.from
      BY <3>1, <3>3, CatSet
    <3> QED
      BY <3>1, <3>2, <3>3, <3>4
  <2> QED
    BY <1>2, <2>1, <2>2 DEF Sane
<1>15. s.img <= c /\ s.start + c <= Memory /\ n.img <= n.count
  BY <1>5, <1>6, <1>9, <1>10, <1>11, <1>14 DEF Good
<1>16. Good(n)
  BY <1>10, <1>11, <1>15 DEF Good
<1>17. /\ new \in Sectors /\ \A i \in 1..c : new[p[1] + i - 1] = D[i]
       /\ \A a \in 0..(Memory - 1) : a \notin p[1]..(p[1] + c - 1) => new[a] = memory[a]
  <2>1. D \in Seq(Nat) /\ Len(D) = c
    <3>1. \A i \in 1..c : s.start + i - 1 \in 0..(Memory - 1)
      BY <1>5, <1>15, Constants
    <3>2. D \in [1..c -> Nat] /\ c \in Nat
      BY <1>2, <1>5, <3>1 DEF D, Sectors
    <3> HIDE DEF c
    <3> QED
      BY <3>2, SeqDef
  <2>2. Fits(memory, p[1], c, D, 0)
    BY <1>2, <1>5, <1>10, <2>1 DEF Fits
  <2>3. \A i \in 1..c : 0 + i = i
    BY <1>5
  <2> QED
    BY <2>2, <2>3, Filled DEF new
<1>18. Holds(n, new) = Holds(s, memory)
  <2> DEFINE f(x) == new[n.start + x - 1]
             g(x) == memory[s.start + x - 1]
  <2>1. \A x \in 1..s.img : f(x) = g(x)
    <3> SUFFICES ASSUME NEW x \in 1..s.img PROVE f(x) = g(x)
      OBVIOUS
    <3>1. x \in 1..c
      BY <1>5, <1>15
    <3> QED
      BY <1>11, <1>17, <3>1 DEF D
  <2>2. Holds(n, new) = [x \in 1..s.img |-> f(x)] /\ Holds(s, memory) = [x \in 1..s.img |-> g(x)]
    BY <1>6, <1>11 DEF Holds
  <2> HIDE DEF f, g
  <2> QED
    BY <2>1, <2>2
\* The others are elsewhere.
<1>19. ASSUME NEW x \in ToSet(t) PROVE Holds(x, new) = Holds(x, memory)
  <2>1. PICK k \in DOMAIN t : x = t[k]
    BY DEF ToSet
  <2>2. x \in Slots /\ Good(x)
    BY <1>1, <1>14, SetFacts DEF Sane
  <2>3. ASSUME x.to = MEM, NEW a \in x.start..(x.start + x.count - 1) PROVE new[a] = memory[a]
    <3>1. k \in InMemory(t)
      BY <2>1, <2>3 DEF InMemory
    <3>2. a \notin p[1]..(p[1] + c - 1)
      BY <1>1, <1>5, <1>9, <2>1, <2>3, <3>1, FreshApart DEF t
    <3>3. a \in 0..(Memory - 1)
      BY <2>2, <2>3, GoodFacts
    <3> QED
      BY <1>17, <3>2, <3>3
  <2> QED
    BY <2>2, <2>3, SameSectors
<1>20. ASSUME NEW x \in ToSet(r) PROVE Holds(x, new) = Holds(x, memory)
  <2>1. PICK k \in DOMAIN r : x = r[k]
    BY DEF ToSet
  <2>2. x \in Slots /\ Good(x) /\ Above(s, x)
    BY <1>1, <1>6, <1>14, <2>1, SetFacts DEF Sane
  <2>3. ASSUME x.to = MEM, NEW a \in x.start..(x.start + x.count - 1) PROVE new[a] = memory[a]
    <3>1. a \in 0..(Memory - 1) /\ x.start \in Nat /\ x.count \in Nat
      BY <2>2, <2>3, GoodFacts
    <3>2. a < PastEnd(x) /\ PastEnd(x) <= First(s) /\ PastEnd(x) \in Nat /\ First(s) \in Nat
      <4>1. x.start + x.count <= PastEnd(x) /\ PastEnd(x) \in Nat /\ First(s) \in Nat
        BY <1>5, <3>1, PageFacts
      <4>2. PastEnd(x) <= First(s)
        BY <2>2 DEF Above
      <4> QED
        BY <2>3, <3>1, <4>1, <4>2
    <3>3. a \notin p[1]..(p[1] + c - 1)
      BY <1>5, <1>9, <1>10, <3>1, <3>2
    <3> QED
      BY <1>17, <3>1, <3>3
  <2> QED
    BY <2>2, <2>3, SameSectors
<1>21. u \in Table /\ One(u) /\ ToSet(u) = ToSet(t) \cup {n}
  <2>1. \A x \in ToSet(t) : x.from # n.from
    BY <1>11, <1>14
  <2> QED
    BY <1>1, <1>11, <1>14, <2>1, AppendSet DEF Sane
<1> HIDE DEF u
<1>22. v \in Table /\ One(v) /\ ToSet(v) = ToSet(t) \cup {n} \cup ToSet(r)
  <2>1. \A x \in ToSet(u), y \in ToSet(r) : x.from # y.from
    BY <1>11, <1>14, <1>21
  <2> QED
    BY <1>4, <1>14, <1>21, <2>1, CatSet
<1> HIDE DEF v
<1>23. Sane(v) /\ Sane(r)
  BY <1>14, <1>16, <1>22 DEF Sane
<1>24. memory' \in Sectors /\ \A d : Means(v, d, memory') = Means(v, d, new)
  BY <1>13, <1>17, <1>22, <1>23, KeptType, KeptMeans
<1>25. ASSUME NEW d PROVE Means(v, d, new) = Means(t \o q, d, memory)
  <2>1. t \o q \in Table /\ ToSet(t \o q) = ToSet(t) \cup ToSet(q) /\ One(t \o q)
    BY <1>1, <1>2, CatSet DEF Sane
  <2>2. \A x \in ToSet(t \o q) : \E y \in ToSet(v) :
          y.from = x.from /\ Holds(y, new) = Holds(x, memory)
    BY <1>11, <1>14, <1>18, <1>19, <1>20, <1>22, <2>1
  <2>3. \A y \in ToSet(v) : \E x \in ToSet(t \o q) : x.from = y.from
    BY <1>11, <1>14, <1>22, <2>1
  <2> QED
    BY <1>22, <2>1, <2>2, <2>3, SameMeaning
<1>26. /\ (bios_drive_map \o ToMove)' = v /\ bios_drive_map \o ToMove = t \o q
       /\ Working' = <<>> /\ Working = <<>>
  BY <1>1, <1>2, <1>3, <1>13 DEF ToMove, Working, t, q, v
<1>27. NamesNext
  BY <1>3, <1>23, <1>24, <1>26 DEF NamesNext
<1>28. /\ ThenMeans' = [d \in Numbers |-> Means((bios_drive_map \o ToMove)', d, memory')]
       /\ NowMeans' = [d \in Numbers |-> Means(Working', d, memory')]
  BY DEF ThenMeans, NowMeans
<1>29. ThenMeans' = ThenMeans
  BY <1>24, <1>25, <1>26, <1>28 DEF ThenMeans
<1>30. NowMeans' = NowMeans
  BY <1>26, <1>28, RealFacts DEF NowMeans
<1>31. Names!Rest
  BY <1>2, <1>3, <1>29, <1>30, ServesMeans, ServesMeansNext DEF Names!Rest
<1> QED
  BY <1>2, <1>3, <1>27, <1>31

LEMMA RehookDoneNames ==
  ASSUME NamesInv, RehookDone
  PROVE  NamesNext /\ pc' # "rehook" /\ Names!Hook
<1> DEFINE t == bios_drive_map
<1>1. /\ pc = "rehook" /\ hooked_drive_map = <<>> /\ pc' = "idle" /\ bios_drive_map' = t
      /\ hooked_drive_map' = t /\ int13' = TRUE /\ memory' = memory /\ asked' = asked
  BY DEF RehookDone, Hooked
<1>2. t \in Table
  BY TableTypes DEF NamesInv, MovedInv, PlacedInv
<1>3. t \o ToMove = t /\ (t \o ToMove)' = t /\ Working' = t
  <2>1. ToMove = <<>> /\ ToMove' = <<>> /\ Working' = hooked_drive_map'
    BY <1>1 DEF ToMove, Working
  <2> QED
    BY <1>1, <1>2, <2>1, EmptySet
<1>4. Sane(t) /\ memory \in Sectors /\ asked.op = "none"
  BY <1>1, <1>3 DEF NamesInv
<1>5. NamesNext
  BY <1>1, <1>3, <1>4 DEF NamesNext
<1>6. /\ ThenMeans' = [d \in Numbers |-> Means((bios_drive_map \o ToMove)', d, memory')]
      /\ NowMeans' = [d \in Numbers |-> Means(Working', d, memory')]
  BY DEF ThenMeans, NowMeans
<1>7. ThenMeans' = ThenMeans /\ NowMeans' = ThenMeans
  BY <1>1, <1>3, <1>6 DEF ThenMeans
<1>8. Names!Hook
  BY <1>1, <1>4, <1>7, ServesMeans, ServesMeansNext DEF Names!Hook
<1> QED
  BY <1>1, <1>5, <1>8

-----------------------------------------------------------------------------
(* DriveNames is implemented *)

LEMMA NamesInit ==
  Init => NamesInv /\ Names!Init
<1> SUFFICES ASSUME Init PROVE NamesInv /\ Names!Init
  OBVIOUS
<1>1. /\ bios_drive_map = <<>> /\ hooked_drive_map = <<>> /\ int13 = FALSE
      /\ memory = [a \in 0..(Memory - 1) |-> 0] /\ pc = "idle" /\ asked = NoRequest
  BY DEF Init
<1>2. bios_drive_map \o ToMove = <<>> /\ Working = <<>>
  BY <1>1, EmptySet DEF ToMove, Working
<1>3. Sane(<<>>)
  BY EmptySet DEF Sane
<1>4. memory \in Sectors
  BY <1>1 DEF Sectors
<1>5. NamesInv
  BY <1>1, <1>2, <1>3, <1>4, MovedInit DEF NamesInv
<1>6. ThenMeans = Disks /\ NowMeans = Disks /\ asked.op = "none"
  BY <1>1, <1>2, RealFacts DEF ThenMeans, NowMeans, NoRequest
<1>7. Names!Init
  BY <1>6, ServesMeans DEF Names!Init
<1> QED
  BY <1>5, <1>7

LEMMA NamesStep ==
  ASSUME Aliases = FALSE, Untidy = FALSE, FullRehook = FALSE, NoStraddle,
         NamesInv, [Next]_vars
  PROVE  NamesInv' /\ [Names!Next]_(Names!vars)
<1>1. MovedInv /\ MovedInv'
  BY MovedStep DEF NamesInv
<1>2. SUFFICES /\ NamesNext /\ [Names!Next]_(Names!vars)
               /\ pc' = "rehook" => int13' = FALSE /\ asked'.op = "none"
  BY <1>1 DEF NamesInv, NamesNext
<1> USE DEF Names!Next
<1>3. CASE \E from \in Numbers, i \in Images : MapRange(from, i[1], i[2], i[3])
  BY <1>3, MapRangeNames
<1>4. CASE \E from, to \in Numbers : MapWhole(from, to)
  BY <1>4, MapWholeNames
<1>5. CASE \E from \in Numbers, i \in Images, o \in Options :
             MapMemory(from, i[1], i[2], i[3], o[1], o[2])
  BY <1>5, MapMemoryNames
<1>6. CASE \E range \in SUBSET Numbers \ {{}} : Unmap(range)
  BY <1>6, UnmapNames
<1>7. CASE \E a, b \in Numbers : Swap(a, b)
  BY <1>7, SwapNames
<1>8. CASE \E first \in Numbers \cup {None} : Hook(first)
  BY <1>8, HookNames
<1>9. CASE Boot
  BY <1>9, BootNames
<1>10. CASE Unhook
  BY <1>10, UnhookNames
<1>11. CASE Rehook
  BY <1>11, RehookNames
<1>12. CASE RehookOne
  BY <1>12, RehookOneNames
<1>13. CASE RehookDone
  BY <1>13, RehookDoneNames
<1>14. CASE UNCHANGED vars
  <2>1. /\ UNCHANGED <<bios_drive_map, hooked_drive_map, int13, memory, pc, asked>>
        /\ (bios_drive_map \o ToMove)' = bios_drive_map \o ToMove /\ Working' = Working
    BY <1>14 DEF vars, ToMove, Working
  <2>2. NamesNext /\ (pc' = "rehook" => int13' = FALSE /\ asked'.op = "none")
    BY <2>1 DEF NamesInv, NamesNext
  <2>3. ThenMeans' = ThenMeans /\ NowMeans' = NowMeans
    BY <2>1 DEF ThenMeans, NowMeans
  <2>4. UNCHANGED Names!vars
    BY <2>1, <2>3, ServesMeans, ServesMeansNext DEF Names!vars
  <2> QED
    BY <2>2, <2>4
<1> QED
  BY <1>3, <1>4, <1>5, <1>6, <1>7, <1>8, <1>9, <1>10, <1>11, <1>12, <1>13, <1>14 DEF Next

\* A drive number means what it was mapped to, as it was when the map was given:
\* through ranges of ranges, --mem, later maps and unmaps of what it was mapped to,
\* --swap-drive, --hook on top of a hook and the moves of a --rehook, whatever the
\* disks, the memory map and the sizes.  What is mapped takes effect all together,
\* with a hook, and goes with it.
THEOREM Implementation ==
  ASSUME Aliases = FALSE, Untidy = FALSE, FullRehook = FALSE, NoStraddle
  PROVE  Spec => ImplementsDriveNames
<1>1. Init => NamesInv /\ Names!Init
  BY NamesInit
<1>2. NamesInv /\ [Next]_vars => NamesInv' /\ [Names!Next]_(Names!vars)
  BY NamesStep
<1> QED
  BY <1>1, <1>2, PTL DEF Spec, ImplementsDriveNames, Names!Spec

-----------------------------------------------------------------------------
(* The scope of setlocal *)

Fields == {"held", "saved_bc"}

\* A stack of activations: each was begun with what its caller had saved, or
\* more, and keeps its caller's bc.
Stack(stack) ==
  /\ stack \in Seq(Range(stack))
  /\ \A i \in DOMAIN stack : Fields \subseteq DOMAIN stack[i] /\ stack[i].held \in Nat
  /\ \A i \in DOMAIN stack : stack[i].saved_bc = IF i = 1 THEN 0 ELSE stack[i - 1].held
  /\ \A i, j \in DOMAIN stack : i <= j => stack[i].held <= stack[j].held

\* The innermost activation began at bc; @ and bc are places of what is saved.
Scopes ==
  /\ saved \in Seq(Values) /\ env \in Values
  /\ bc \in 0..Len(saved) /\ sc \in 0..Len(saved)
  /\ frames # <<>> => Top.held = bc

LocalsInv == Stack(frames) /\ Scopes

\* What LocalsScoped says of a step.
HoldersKeep ==
  \A f \in Range(frames) : \A i \in 1..f.held : i \in DOMAIN saved' /\ saved'[i] = saved[i]
EndUndoes ==
  Len(frames') < Depth =>
    LET floor == Max({Top.held, sc})
    IN /\ saved' = SubSeq(saved, 1, floor)
       /\ env' = IF Len(saved) > floor THEN saved[floor + 1] ELSE env

-----------------------------------------------------------------------------
(* Stacks *)

\* The same activations, wherever in their texts they are.
SameScopes(s, t) ==
  /\ t \in Seq(Range(t)) /\ DOMAIN t = DOMAIN s /\ Len(t) = Len(s)
  /\ \A i \in DOMAIN s : /\ Fields \subseteq DOMAIN t[i]
                         /\ t[i].held = s[i].held /\ t[i].saved_bc = s[i].saved_bc

LEMMA SameStack ==
  ASSUME NEW s, NEW t, Stack(s), SameScopes(s, t)
  PROVE  Stack(t)
BY DEF Stack, SameScopes

LEMMA Itself ==
  ASSUME NEW s, Stack(s)
  PROVE  SameScopes(s, s)
BY DEF Stack, SameScopes

\* The innermost activation goes on.
LEMMA TopGoesOn ==
  ASSUME NEW s, Stack(s), s # <<>>, NEW new, Fields \subseteq DOMAIN new,
         new.held = s[Len(s)].held, new.saved_bc = s[Len(s)].saved_bc
  PROVE  SameScopes(s, [s EXCEPT ![Len(s)] = new])
<1> DEFINE n == Len(s)
           t == [s EXCEPT ![n] = new]
           S == Range(s) \cup {new}
<1>1. s \in Seq(Range(s))
  BY DEF Stack
<1>2. s \in Seq(S) /\ n \in Nat /\ DOMAIN s = 1..n /\ n \in 1..n
  <2>1. s \in Seq(S)
    BY <1>1, SeqMonotonic
  <2>2. n \in Nat /\ DOMAIN s = 1..n
    BY <1>1
  <2>3. n # 0
    BY <1>1, EmptySeq
  <2>4. QED
    BY <2>1, <2>2, <2>3
<1>3. t \in Seq(S)
  BY <1>2, ExceptSeq
<1>4. t \in Seq(Range(t))
  BY <1>3, SeqOfRange
<1>5. DOMAIN t = DOMAIN s /\ Len(t) = n
  BY <1>2, <1>3
<1>6. \A i \in DOMAIN s : t[i] = IF i = n THEN new ELSE s[i]
  OBVIOUS
<1> HIDE DEF t, n
<1>7. QED
  BY <1>4, <1>5, <1>6 DEF SameScopes, Stack, t, n

\* An activation begins.
LEMMA Pushed ==
  ASSUME NEW s, Stack(s), NEW f, Fields \subseteq DOMAIN f, f.held \in Nat,
         f.saved_bc = IF s = <<>> THEN 0 ELSE s[Len(s)].held,
         s # <<>> => s[Len(s)].held <= f.held
  PROVE  LET t == Append(s, f)
         IN  /\ Stack(t) /\ Len(t) = Len(s) + 1 /\ t # <<>> /\ t[Len(t)] = f
<1> DEFINE n == Len(s)
           t == Append(s, f)
           S == Range(s) \cup {f}
<1>1. s \in Seq(Range(s))
  BY DEF Stack
<1>2. s \in Seq(S) /\ n \in Nat /\ DOMAIN s = 1..n /\ (s = <<>> <=> n = 0)
  BY <1>1, SeqMonotonic, EmptySeq
<1>3. /\ t \in Seq(S) /\ Len(t) = n + 1 /\ DOMAIN t = 1..(n + 1)
      /\ \A i \in 1..n : t[i] = s[i]
      /\ t[n + 1] = f
  BY <1>2, AppendProperties
<1>4. t \in Seq(Range(t))
  BY <1>3, SeqOfRange
<1>5. \A i \in 1..n : /\ Fields \subseteq DOMAIN s[i] /\ s[i].held \in Nat
                      /\ s[i].saved_bc = IF i = 1 THEN 0 ELSE s[i - 1].held
  BY <1>2 DEF Stack
<1>6. \A i, j \in 1..n : i <= j => s[i].held <= s[j].held
  BY <1>2 DEF Stack
<1>7. n # 0 => f.saved_bc = s[n].held /\ s[n].held <= f.held
  BY <1>2
<1>8. n = 0 => f.saved_bc = 0
  BY <1>2
<1> HIDE DEF t, n
<1>9. \A i \in 1..(n + 1) : i \in 1..n \/ i = n + 1
  BY <1>2
<1>10. \A i \in 1..(n + 1) : Fields \subseteq DOMAIN t[i] /\ t[i].held \in Nat
  BY <1>3, <1>5, <1>9
<1>11. ASSUME NEW i \in 1..(n + 1)
       PROVE  t[i].saved_bc = IF i = 1 THEN 0 ELSE t[i - 1].held
  <2>1. CASE i \in 1..n
    <3>1. i # 1 => i - 1 \in 1..n
      BY <1>2, <2>1
    <3>2. QED
      BY <1>3, <1>5, <2>1, <3>1
  <2>2. CASE i = n + 1
    <3>1. i = 1 <=> n = 0
      BY <1>2, <2>2
    <3>2. n # 0 => i - 1 = n /\ n \in 1..n
      BY <1>2, <2>2
    <3>3. QED
      BY <1>3, <1>7, <1>8, <2>2, <3>1, <3>2
  <2>3. QED
    BY <1>9, <2>1, <2>2
<1>12. ASSUME NEW i \in 1..(n + 1), NEW j \in 1..(n + 1), i <= j
       PROVE  t[i].held <= t[j].held
  <2>1. CASE j \in 1..n
    <3>1. i \in 1..n
      BY <1>2, <1>12, <2>1
    <3>2. QED
      BY <1>3, <1>6, <1>12, <2>1, <3>1
  <2>2. CASE i = n + 1 /\ j = n + 1
    <3>1. t[i].held \in Nat
      BY <1>10
    <3>2. QED
      BY <2>2, <3>1
  <2>3. CASE i \in 1..n /\ j = n + 1
    <3>1. n \in 1..n /\ i <= n /\ n # 0
      BY <1>2, <2>3
    <3>2. s[i].held <= s[n].held /\ s[n].held <= f.held
      BY <1>6, <1>7, <2>3, <3>1
    <3>3. s[i].held \in Nat /\ s[n].held \in Nat /\ f.held \in Nat
      BY <1>5, <2>3, <3>1
    <3>4. s[i].held <= f.held
      BY <3>2, <3>3
    <3>5. QED
      BY <1>3, <2>3, <3>4
  <2>4. QED
    BY <1>9, <2>1, <2>2, <2>3
<1>13. n + 1 # 0 /\ t # <<>>
  BY <1>2, <1>3
<1>14. QED
  BY <1>3, <1>4, <1>10, <1>11, <1>12, <1>13 DEF Stack, t, n

\* An activation is over.
LEMMA Popped ==
  ASSUME NEW s, Stack(s), s # <<>>
  PROVE  LET t == Front(s)
         IN  /\ Stack(t) /\ Len(t) = Len(s) - 1 /\ (t = <<>> <=> Len(s) = 1)
             /\ s[Len(s)].saved_bc = IF t = <<>> THEN 0 ELSE t[Len(t)].held
<1> DEFINE n == Len(s)
           t == Front(s)
<1>1. s \in Seq(Range(s))
  BY DEF Stack
<1>2. n \in Nat /\ DOMAIN s = 1..n /\ n # 0
  BY <1>1, EmptySeq
<1>3. /\ t \in Seq(Range(s)) /\ Len(t) = n - 1 /\ DOMAIN t = 1..(n - 1)
      /\ \A i \in 1..(n - 1) : t[i] = s[i]
  BY <1>1, <1>2, SubSeqProperties DEF Front
<1>4. t \in Seq(Range(t))
  BY <1>3, SeqOfRange
<1>5. t = <<>> <=> n = 1
  BY <1>2, <1>3, EmptySeq
<1>6. \A i \in 1..n : /\ Fields \subseteq DOMAIN s[i] /\ s[i].held \in Nat
                      /\ s[i].saved_bc = IF i = 1 THEN 0 ELSE s[i - 1].held
  BY <1>2 DEF Stack
<1>7. \A i, j \in 1..n : i <= j => s[i].held <= s[j].held
  BY <1>2 DEF Stack
<1> HIDE DEF t, n
<1>8. \A i \in 1..(n - 1) : i \in 1..n /\ (i # 1 => i - 1 \in 1..(n - 1))
  BY <1>2
<1>9. Stack(t)
  BY <1>3, <1>4, <1>6, <1>7, <1>8 DEF Stack
<1>10. n \in 1..n /\ (n # 1 => n - 1 \in 1..(n - 1))
  BY <1>2
<1>11. s[n].saved_bc = IF t = <<>> THEN 0 ELSE t[n - 1].held
  BY <1>3, <1>5, <1>6, <1>10
<1>12. QED
  BY <1>3, <1>5, <1>9, <1>11 DEF t, n

\* What is saved, cut back.
LEMMA Cut ==
  ASSUME NEW S, NEW s \in Seq(S), NEW m \in Nat, m <= Len(s)
  PROVE  LET t == SubSeq(s, 1, m)
         IN  t \in Seq(S) /\ Len(t) = m /\ DOMAIN t = 1..m /\ \A i \in 1..m : t[i] = s[i]
<1> DEFINE t == SubSeq(s, 1, m)
<1>1. Len(s) \in Nat
  OBVIOUS
<1>2. \A i \in 1..m : i \in 1..Len(s)
  BY <1>1
<1>3. \A i \in 1..m : s[i] \in S
  BY <1>2, ElementOfSeq
<1>4. /\ t \in Seq(S) /\ Len(t) = IF 1 <= m THEN m - 1 + 1 ELSE 0
      /\ \A i \in 1..(m - 1 + 1) : t[i] = s[1 + i - 1]
  BY <1>3, SubSeqProperties
<1> HIDE DEF t
<1>5. Len(t) = m
  BY <1>4
<1>6. \A i \in 1..m : i \in 1..(m - 1 + 1) /\ 1 + i - 1 = i
  OBVIOUS
<1>7. \A i \in 1..m : t[i] = s[i]
  BY <1>4, <1>6
<1>8. QED
  BY <1>4, <1>5, <1>7, LenProperties DEF t

LEMMA Saves ==
  ASSUME NEW S, NEW s \in Seq(S), NEW e \in S
  PROVE  LET t == Append(s, e)
         IN  /\ t \in Seq(S) /\ Len(t) = Len(s) + 1 /\ DOMAIN t = 1..(Len(s) + 1)
             /\ \A i \in 1..Len(s) : t[i] = s[i]
BY AppendProperties, LenProperties

-----------------------------------------------------------------------------
(* Steps *)

LEMMA Begun ==
  ASSUME LocalsInv, frames # <<>>
  PROVE  /\ Depth \in DOMAIN frames /\ Depth \in Nat /\ Depth > 0
         /\ frames \in Seq(Range(frames))
         /\ Fields \subseteq DOMAIN Top /\ Top.held = bc
         /\ \A f \in Range(frames) : f.held \in Nat /\ f.held <= bc
<1>1. frames \in Seq(Range(frames)) /\ Top.held = bc
  BY DEF LocalsInv, Stack, Scopes
<1>2. Depth \in Nat /\ DOMAIN frames = 1..Depth /\ Depth # 0
  BY <1>1, EmptySeq DEF Depth
<1>3. Depth \in DOMAIN frames /\ Depth > 0
  BY <1>2
<1>4. Fields \subseteq DOMAIN Top
  BY <1>3 DEF LocalsInv, Stack, Top
<1>5. ASSUME NEW f \in Range(frames) PROVE f.held \in Nat /\ f.held <= bc
  <2>1. PICK i \in DOMAIN frames : f = frames[i]
    BY DEF Range
  <2>2. i <= Depth
    BY <1>2
  <2>3. QED
    BY <1>1, <1>3, <2>1, <2>2 DEF LocalsInv, Stack, Top
<1>6. QED
  BY <1>1, <1>2, <1>3, <1>4, <1>5

\* A command of the innermost activation, or the end of its line.
LEMMA Continues ==
  ASSUME LocalsInv, frames # <<>>, NEW new, Fields \subseteq DOMAIN new,
         new.held = Top.held, new.saved_bc = Top.saved_bc,
         frames' = [frames EXCEPT ![Depth] = new]
  PROVE  SameScopes(frames, frames')
BY TopGoesOn DEF LocalsInv, Depth, Top

LEMMA Answers ==
  ASSUME LocalsInv, frames # <<>>, NEW r, NEW e, NEW target, Ended(frames, r, e, target)
  PROVE  SameScopes(frames, frames')
<1> DEFINE a == After(Top, r, e)
           new == [Top EXCEPT !.at = a.at, !.status = a.status, !.ret = r, !.target = target]
<1>1. frames' = [frames EXCEPT ![Depth] = new]
  BY DEF Ended, Depth, Top
<1>2. Fields \subseteq DOMAIN Top
  BY Begun
<1>3. Fields \subseteq DOMAIN new /\ new.held = Top.held /\ new.saved_bc = Top.saved_bc
  BY <1>2 DEF Fields
<1> HIDE DEF new
<1>4. QED
  BY <1>1, <1>3, Continues

\* A step that keeps what is saved.
LEMMA KeepsSaved ==
  ASSUME LocalsInv, SameScopes(frames, frames'), UNCHANGED <<saved, sc, bc>>, env' \in Values
  PROVE  LocalsInv' /\ HoldersKeep /\ EndUndoes
<1>1. Stack(frames)'
  BY SameStack DEF LocalsInv
<1>2. frames \in Seq(Range(frames)) /\ saved \in Seq(Values) /\ bc \in Nat /\ bc <= Len(saved)
  BY DEF LocalsInv, Stack, Scopes
<1>3. frames' # <<>> => frames # <<>>
  <2>1. frames = <<>> => Len(frames') = 0
    BY DEF SameScopes
  <2>2. frames' \in Seq(Range(frames'))
    BY DEF SameScopes
  <2>3. QED
    BY <2>1, <2>2, EmptySeq
<1>4. frames' # <<>> => Top'.held = bc
  <2>1. Depth' = Depth
    BY DEF SameScopes, Depth
  <2>2. frames # <<>> => Depth \in DOMAIN frames /\ Top.held = bc
    BY Begun
  <2>3. QED
    BY <1>3, <2>1, <2>2 DEF SameScopes, Top
<1>5. LocalsInv'
  BY <1>1, <1>4 DEF LocalsInv, Scopes
<1>6. HoldersKeep
  <2>1. ASSUME NEW f \in Range(frames), NEW i \in 1..f.held PROVE i \in DOMAIN saved
    <3>1. frames # <<>>
      BY DEF Range
    <3>2. f.held \in Nat /\ f.held <= bc
      BY <3>1, Begun
    <3>3. QED
      BY <1>2, <3>2
  <2>2. QED
    BY <2>1 DEF HoldersKeep
<1>7. EndUndoes
  <2>1. Len(frames') = Depth /\ Depth \in Nat
    BY <1>2 DEF SameScopes, Depth
  <2>2. ~ (Len(frames') < Depth)
    BY <2>1
  <2>3. QED
    BY <2>2 DEF EndUndoes
<1>8. QED
  BY <1>5, <1>6, <1>7

\* The steps of an activation that leave the variables alone, or set one.
Ordinary ==
  \/ OpenLine \/ CloseLine \/ Open \/ Close
  \/ ElseSkipped \/ TestFails
  \/ Bare \/ Echo \/ DoTrue \/ DoFalse \/ DoError \/ Exit \/ ExitN
  \/ Goto \/ CallMissing \/ RunTooDeep \/ Set \/ NextLine \/ Interrupt

LEMMA OrdinaryStep ==
  ASSUME LocalsInv, Ordinary
  PROVE  LocalsInv' /\ HoldersKeep /\ EndUndoes
<1>1. frames # <<>> /\ UNCHANGED <<saved, sc, bc>> /\ env' \in Values
  <2>1. env \in Values
    BY DEF LocalsInv, Scopes
  <2>2. CASE Set
    BY <2>2 DEF Set, Runs, AtCommand
  <2>3. CASE Bare \/ Echo \/ DoTrue \/ DoFalse \/ DoError \/ Exit \/ ExitN \/ CallMissing
             \/ RunTooDeep
    BY <2>1, <2>3 DEF Bare, Echo, DoTrue, DoFalse, DoError, Exit, ExitN, CallMissing,
                      RunTooDeep, Gives, Runs, AtCommand, locals
  <2>4. CASE Goto \/ NextLine \/ Interrupt
    BY <2>1, <2>4 DEF Goto, NextLine, Interrupt, LineDone, Runs, AtCommand, locals
  <2>5. CASE OpenLine \/ CloseLine \/ Open \/ Close \/ ElseSkipped \/ TestFails
    BY <2>1, <2>5 DEF OpenLine, CloseLine, Open, Close, ElseSkipped, TestFails, AtCommand, locals
  <2>6. QED
    BY <2>2, <2>3, <2>4, <2>5 DEF Ordinary
<1>2. Fields \subseteq DOMAIN Top
  BY <1>1, Begun
<1>3. SameScopes(frames, frames')
  <2>1. CASE \E r, e, target : Ended(frames, r, e, target)
    BY <1>1, <2>1, Answers
  <2>2. CASE UNCHANGED frames
    BY <2>2, Itself DEF LocalsInv
  <2>3. CASE Bare \/ Echo \/ DoTrue \/ DoFalse \/ DoError \/ Exit \/ ExitN \/ CallMissing
             \/ RunTooDeep \/ Goto \/ Set \/ TestFails
    BY <2>1, <2>3 DEF Bare, Echo, DoTrue, DoFalse, DoError, Exit, ExitN, CallMissing,
                      RunTooDeep, Gives, Goto, Set, TestFails
  <2>4. CASE ElseSkipped \/ Open
    BY <2>1, <2>2, <2>4 DEF ElseSkipped, Open
  <2>5. ASSUME NEW line, frames' = [frames EXCEPT ![Depth] = [Top EXCEPT !.entry = line]]
        PROVE  SameScopes(frames, frames')
    <3>1. /\ Fields \subseteq DOMAIN [Top EXCEPT !.entry = line]
          /\ [Top EXCEPT !.entry = line].held = Top.held
          /\ [Top EXCEPT !.entry = line].saved_bc = Top.saved_bc
      BY <1>2 DEF Fields
    <3>2. QED
      BY <1>1, <2>5, <3>1, Continues
  <2>6. CASE OpenLine \/ CloseLine
    <3>1. \E line : frames' = [frames EXCEPT ![Depth] = [Top EXCEPT !.entry = line]]
      BY <1>1, <2>6 DEF OpenLine, CloseLine, Top
    <3>2. QED
      BY <2>5, <3>1
  <2>7. ASSUME NEW line, NEW at, NEW status, NEW target, NEW ret,
               frames' = [frames EXCEPT ![Depth] =
                            [Top EXCEPT !.entry = line, !.at = at, !.status = status,
                                        !.target = target, !.ret = ret]]
        PROVE  SameScopes(frames, frames')
    <3> DEFINE new == [Top EXCEPT !.entry = line, !.at = at, !.status = status,
                                  !.target = target, !.ret = ret]
    <3>1. /\ Fields \subseteq DOMAIN new /\ new.held = Top.held /\ new.saved_bc = Top.saved_bc
      BY <1>2 DEF Fields
    <3> HIDE DEF new
    <3>2. frames' = [frames EXCEPT ![Depth] = new]
      BY <2>7 DEF new
    <3>3. QED
      BY <1>1, <3>1, <3>2, Continues
  <2>8. ASSUME NEW at, NEW ret,
               \/ frames' = [frames EXCEPT ![Depth] = [Top EXCEPT !.at = at, !.ret = ret]]
               \/ frames' = [frames EXCEPT ![Depth] = [Top EXCEPT !.at = at]]
        PROVE  SameScopes(frames, frames')
    <3>1. /\ Fields \subseteq DOMAIN [Top EXCEPT !.at = at, !.ret = ret]
          /\ [Top EXCEPT !.at = at, !.ret = ret].held = Top.held
          /\ [Top EXCEPT !.at = at, !.ret = ret].saved_bc = Top.saved_bc
      BY <1>2 DEF Fields
    <3>2. /\ Fields \subseteq DOMAIN [Top EXCEPT !.at = at]
          /\ [Top EXCEPT !.at = at].held = Top.held
          /\ [Top EXCEPT !.at = at].saved_bc = Top.saved_bc
      BY <1>2 DEF Fields
    <3>3. QED
      BY <1>1, <2>8, <3>1, <3>2, Continues
  <2>9. CASE Close \/ Interrupt
    <3>1. \E at, ret :
            \/ frames' = [frames EXCEPT ![Depth] = [Top EXCEPT !.at = at, !.ret = ret]]
            \/ frames' = [frames EXCEPT ![Depth] = [Top EXCEPT !.at = at]]
      BY <2>9 DEF Close, Interrupt, Top
    <3>2. QED
      BY <2>8, <3>1
  <2>10. CASE NextLine
    <3>1. CASE GoOn = 0
      <4>1. \E at : frames' = [frames EXCEPT ![Depth] = [Top EXCEPT !.at = at]]
        BY <2>10, <3>1 DEF NextLine, Top
      <4>2. QED
        BY <2>8, <4>1
    <3>2. CASE GoOn # 0
      <4>1. \E line, at, status, target, ret :
              frames' = [frames EXCEPT ![Depth] =
                           [Top EXCEPT !.entry = line, !.at = at, !.status = status,
                                       !.target = target, !.ret = ret]]
        BY <2>10, <3>2, Zenon DEF NextLine, Top
      <4>2. PICK line, at, status, target, ret :
              frames' = [frames EXCEPT ![Depth] =
                           [Top EXCEPT !.entry = line, !.at = at, !.status = status,
                                       !.target = target, !.ret = ret]]
        BY <4>1, Zenon
      <4>3. QED
        BY <2>7, <4>2, Zenon
    <3>3. QED
      BY <3>1, <3>2
  <2>11. QED
    BY <2>3, <2>4, <2>6, <2>9, <2>10 DEF Ordinary
<1>4. QED
  BY <1>1, <1>3, KeepsSaved

LEMMA SetlocalStep ==
  ASSUME LocalsInv, NEW keep \in BOOLEAN, Setlocal(keep)
  PROVE  LocalsInv' /\ HoldersKeep /\ EndUndoes
<1> DEFINE n == Len(saved)
<1>1. /\ frames # <<>> /\ saved' = Append(saved, env) /\ bc' = bc /\ env' = env
      /\ sc' = IF keep THEN n + 1 ELSE sc
      /\ Ended(frames, TRUE, "", 0)
  BY DEF Setlocal, Runs, AtCommand
<1>2. saved \in Seq(Values) /\ env \in Values /\ bc \in 0..n /\ sc \in 0..n /\ n \in Nat
  BY DEF LocalsInv, Scopes
<1>3. /\ saved' \in Seq(Values) /\ Len(saved') = n + 1 /\ DOMAIN saved' = 1..(n + 1)
      /\ \A i \in 1..n : saved'[i] = saved[i]
  BY <1>1, <1>2, Saves
<1> HIDE DEF n
<1>4. SameScopes(frames, frames')
  BY <1>1, Answers
<1>5. Stack(frames)' /\ Depth' = Depth /\ Top'.held = bc
  BY <1>1, <1>4, SameStack, Begun DEF LocalsInv, SameScopes, Depth, Top
<1>6. bc' \in 0..Len(saved') /\ sc' \in 0..Len(saved')
  <2>1. bc \in 0..(n + 1) /\ sc \in 0..(n + 1) /\ n + 1 \in 0..(n + 1)
    BY <1>2
  <2>2. QED
    BY <1>1, <1>3, <2>1
<1>7. LocalsInv'
  BY <1>1, <1>2, <1>3, <1>5, <1>6 DEF LocalsInv, Scopes
<1>8. HoldersKeep
  <2>1. ASSUME NEW f \in Range(frames), NEW i \in 1..f.held PROVE i \in 1..n
    <3>1. f.held \in Nat /\ f.held <= bc
      BY <1>1, Begun
    <3>2. QED
      BY <1>2, <3>1
  <2>2. n <= n + 1
    BY <1>2
  <2>3. \A i \in 1..n : i \in 1..(n + 1)
    BY <1>2
  <2>4. QED
    BY <1>3, <2>1, <2>3 DEF HoldersKeep
<1>9. ~ (Len(frames') < Depth)
  <2>1. Len(frames') = Depth /\ Depth \in Nat
    BY <1>1, <1>4, Begun DEF SameScopes, Depth
  <2>2. QED
    BY <2>1
<1>10. QED
  BY <1>7, <1>8, <1>9 DEF EndUndoes

\* endlocal undoes nothing that is below bc or @.
LEMMA EndlocalStep ==
  ASSUME LocalsInv, NEW unkeep \in BOOLEAN, Endlocal(unkeep)
  PROVE  LocalsInv' /\ HoldersKeep /\ EndUndoes
<1> DEFINE n == Len(saved)
           keep == IF unkeep THEN 0 ELSE sc
<1>1. /\ frames # <<>> /\ sc' = keep /\ bc' = bc
      /\ IF Refuses(keep) THEN UNCHANGED <<env, saved>>
         ELSE env' = saved[n] /\ saved' = Front(saved)
      /\ Ended(frames, ~ Refuses(keep), "", 0)
  BY DEF Endlocal, Runs, AtCommand
<1>2. saved \in Seq(Values) /\ env \in Values /\ bc \in 0..n /\ sc \in 0..n /\ n \in Nat
      /\ DOMAIN saved = 1..n
  BY DEF LocalsInv, Scopes
<1>3. keep \in 0..n
  BY <1>2
<1>4. ~ Refuses(keep) => n # bc /\ n # keep
  BY DEF Refuses
<1> DEFINE m == IF Refuses(keep) THEN n ELSE n - 1
<1>2a. n \in Nat /\ bc \in 0..n /\ keep \in 0..n
  BY <1>2, <1>3
<1> HIDE DEF n, keep
<1>5. m \in Nat /\ bc \in 0..m /\ keep \in 0..m /\ m <= n
  <2>1. CASE Refuses(keep)
    BY <1>2a, <2>1
  <2>2. CASE ~ Refuses(keep)
    <3>1. n # bc /\ n # keep
      BY <1>4, <2>2
    <3>2. bc <= n - 1 /\ keep <= n - 1 /\ n - 1 \in Nat
      BY <1>2a, <3>1
    <3>3. m = n - 1
      BY <2>2
    <3>4. QED
      BY <1>2a, <3>2, <3>3
  <2>3. QED
    BY <2>1, <2>2
<1>6. /\ saved' \in Seq(Values) /\ Len(saved') = m /\ DOMAIN saved' = 1..m
      /\ \A i \in 1..m : saved'[i] = saved[i]
      /\ env' \in Values
  <2>1. CASE Refuses(keep)
    BY <1>1, <1>2, <2>1 DEF n
  <2>2. CASE ~ Refuses(keep)
    <3>1. n - 1 \in Nat /\ n \in 1..n /\ m = n - 1
      BY <1>5, <1>2a, <2>2
    <3>2. /\ SubSeq(saved, 1, n - 1) \in Seq(Values)
          /\ Len(SubSeq(saved, 1, n - 1)) = n - 1
          /\ \A i \in 1..(n - 1) : SubSeq(saved, 1, n - 1)[i] = saved[i]
      <4>1. n - 1 <= n
        BY <1>2a
      <4>2. QED
        BY <1>2, <3>1, <4>1, Cut DEF n
    <3>3. saved' = SubSeq(saved, 1, n - 1)
      BY <1>1, <2>2 DEF Front, n
    <3>4. env' \in Values
      BY <1>1, <1>2, <2>2, <3>1, ElementOfSeq DEF n
    <3>5. QED
      BY <3>1, <3>2, <3>3, <3>4, LenProperties
  <2>3. QED
    BY <2>1, <2>2
<1> HIDE DEF m
<1>7. SameScopes(frames, frames')
  BY <1>1, Answers
<1>8. Stack(frames)' /\ Depth' = Depth /\ Top'.held = bc
  BY <1>1, <1>7, SameStack, Begun DEF LocalsInv, SameScopes, Depth, Top
<1>9. LocalsInv'
  BY <1>1, <1>5, <1>6, <1>8 DEF LocalsInv, Scopes
<1>10. HoldersKeep
  <2>1. ASSUME NEW f \in Range(frames), NEW i \in 1..f.held PROVE i \in 1..m
    <3>1. f.held \in Nat /\ f.held <= bc
      BY <1>1, Begun
    <3>2. QED
      BY <1>5, <3>1
  <2>2. QED
    BY <1>6, <2>1 DEF HoldersKeep
<1>11. ~ (Len(frames') < Depth)
  <2>1. Len(frames') = Depth /\ Depth \in Nat
    BY <1>1, <1>7, Begun DEF SameScopes, Depth
  <2>2. QED
    BY <2>1
<1>12. QED
  BY <1>9, <1>10, <1>11 DEF EndUndoes

\* bat_run_script begins: what is saved now is the caller's.
LEMMA BeginStep ==
  ASSUME LocalsInv, frames # <<>>, NEW f, Begin(f), Fields \subseteq DOMAIN f,
         f.held = Len(saved), f.saved_bc = bc
  PROVE  LocalsInv' /\ HoldersKeep /\ EndUndoes
<1>1. frames' = Append(frames, f) /\ bc' = Len(saved) /\ UNCHANGED <<env, saved, sc>>
  BY DEF Begin, locals
<1>2. /\ saved \in Seq(Values) /\ env \in Values /\ Len(saved) \in Nat /\ bc \in 0..Len(saved)
      /\ sc \in 0..Len(saved) /\ DOMAIN saved = 1..Len(saved)
  BY DEF LocalsInv, Scopes
<1>3. Top.held = bc /\ Depth \in Nat /\ \A g \in Range(frames) : g.held \in Nat /\ g.held <= bc
  BY Begun
<1>4. /\ Stack(frames') /\ Len(frames') = Depth + 1 /\ frames' # <<>>
      /\ frames'[Len(frames')] = f
  <2>1. frames[Len(frames)].held = bc
    BY <1>3 DEF Top, Depth
  <2>2. bc <= Len(saved) /\ Len(saved) \in Nat
    BY <1>2
  <2>3. QED
    BY <1>1, <2>1, <2>2, Pushed DEF LocalsInv, Depth
<1>5. Len(saved) \in 0..Len(saved)
  BY <1>2
<1>6. LocalsInv'
  BY <1>1, <1>2, <1>4, <1>5 DEF LocalsInv, Scopes, Top, Depth
<1>7. HoldersKeep
  <2>1. ASSUME NEW g \in Range(frames), NEW i \in 1..g.held PROVE i \in 1..Len(saved)
    BY <1>2, <1>3
  <2>2. QED
    BY <1>1, <1>2, <2>1 DEF HoldersKeep
<1>8. ~ (Len(frames') < Depth)
  BY <1>3, <1>4
<1>9. QED
  BY <1>6, <1>7, <1>8 DEF EndUndoes

LEMMA Larger ==
  ASSUME NEW a \in Nat, NEW b \in Nat
  PROVE  Max({a, b}) = IF a >= b THEN a ELSE b
<1> DEFINE m == IF a >= b THEN a ELSE b
<1>1. m \in {a, b} /\ \A y \in {a, b} : m >= y
  OBVIOUS
<1>2. \A x \in {a, b} : (\A y \in {a, b} : x >= y) => x = m
  OBVIOUS
<1> HIDE DEF m
<1>3. (CHOOSE x \in {a, b} : \A y \in {a, b} : x >= y) = m
  BY <1>1, <1>2
<1>4. QED
  BY <1>3 DEF Max, m

\* A script or a subroutine ends: what it saved is undone, down to @.
LEMMA EndStep ==
  ASSUME LocalsInv, EndScript
  PROVE  LocalsInv' /\ HoldersKeep /\ EndUndoes
<1> DEFINE n == Len(saved)
           k == StaySaved
<1>1. frames # <<>> /\ saved' = SubSeq(saved, 1, k) /\ bc' = Top.saved_bc /\ sc' = sc
      /\ env' = IF n > k THEN saved[k + 1] ELSE env
  BY DEF EndScript
<1>2. saved \in Seq(Values) /\ env \in Values /\ DOMAIN saved = 1..n
  BY DEF LocalsInv, Scopes
<1>3. bc \in 0..n /\ sc \in 0..n /\ n \in Nat
  BY DEF LocalsInv, Scopes
<1>4. k = Max({Top.held, sc}) /\ k = IF bc >= sc THEN bc ELSE sc
  <2>1. {i \in {bc, sc} : i <= n} = {bc, sc}
    BY <1>3
  <2>2. Top.held = bc /\ bc \in Nat /\ sc \in Nat
    BY <1>1, <1>3, Begun
  <2>3. QED
    BY <2>1, <2>2, Larger DEF StaySaved
<1> HIDE DEF n, k
<1>5. k \in Nat /\ k <= n /\ bc <= k /\ sc <= k /\ bc \in Nat /\ sc \in Nat
  BY <1>3, <1>4
<1>6. /\ saved' \in Seq(Values) /\ Len(saved') = k /\ DOMAIN saved' = 1..k
      /\ \A i \in 1..k : saved'[i] = saved[i]
  BY <1>1, <1>2, <1>5, Cut DEF n
<1>7. env' \in Values
  <2>1. n > k => k + 1 \in 1..n
    BY <1>3, <1>5
  <2>2. QED
    BY <1>1, <1>2, <2>1, ElementOfSeq DEF n
<1> DEFINE rest == Front(frames)
<1>8. /\ Stack(rest) /\ Len(rest) = Depth - 1 /\ (rest = <<>> <=> Depth = 1)
      /\ Top.saved_bc = IF rest = <<>> THEN 0 ELSE rest[Len(rest)].held
  BY <1>1, Popped DEF LocalsInv, Depth, Top
<1>9. Depth \in Nat /\ Depth > 0 /\ frames \in Seq(Range(frames))
      /\ \A f \in Range(frames) : f.held \in Nat /\ f.held <= bc
  BY <1>1, Begun
<1>10. rest # <<>> => rest[Len(rest)].held \in Nat /\ rest[Len(rest)].held <= bc
  <2>1. ASSUME rest # <<>> PROVE rest[Len(rest)] \in Range(frames)
    <3>1. Depth # 1 /\ DOMAIN frames = 1..Depth
      BY <1>8, <1>9, <2>1 DEF Depth
    <3>2. Depth - 1 \in 1..Depth /\ Depth - 1 \in 1..(Depth - 1) /\ Depth - 1 \in Nat
          /\ Depth - 1 <= Depth
      BY <1>9, <3>1
    <3>3. rest[Depth - 1] = frames[Depth - 1]
      BY <1>9, <3>2, Cut DEF Front, Depth
    <3>4. QED
      BY <1>8, <3>1, <3>2, <3>3 DEF Range
  <2>2. QED
    BY <1>9, <2>1
<1>11. bc' \in Nat /\ bc' <= k
  <2>1. bc' \in Nat /\ bc' <= bc
    BY <1>1, <1>5, <1>8, <1>10
  <2>2. QED
    BY <1>5, <2>1
<1>12. /\ Stack(frames)' /\ Len(frames') = Len(rest)
       /\ frames' # <<>> => Top'.held = bc'
  <2>1. CASE Depth = 1
    <3>1. frames' = rest /\ rest = <<>>
      BY <1>8, <2>1 DEF EndScript
    <3>2. QED
      BY <1>8, <3>1
  <2>2. CASE Depth # 1
    <3>1. PICK r, e : Ended(rest, r, e, 0)
      BY <2>2 DEF EndScript
    <3> DEFINE f == rest[Len(rest)]
               a == After(f, r, e)
               new == [f EXCEPT !.at = a.at, !.status = a.status, !.ret = r, !.target = 0]
    <3>2. frames' = [rest EXCEPT ![Len(rest)] = new]
      BY <3>1 DEF Ended
    <3>3. rest # <<>> /\ Len(rest) \in DOMAIN rest
      <4>1. rest \in Seq(Range(rest)) /\ rest # <<>>
        BY <1>8, <2>2 DEF Stack
      <4>2. QED
        BY <4>1, EmptySeq
    <3>4. Fields \subseteq DOMAIN f
      BY <1>8, <3>3 DEF Stack
    <3>5. Fields \subseteq DOMAIN new /\ new.held = f.held /\ new.saved_bc = f.saved_bc
      BY <3>4 DEF Fields
    <3> HIDE DEF new, rest
    <3>6. SameScopes(rest, frames')
      BY <1>8, <3>2, <3>3, <3>5, TopGoesOn
    <3>7. Stack(frames)' /\ Len(frames') = Len(rest)
      BY <1>8, <3>6, SameStack DEF SameScopes
    <3>8. Top'.held = rest[Len(rest)].held
      BY <3>3, <3>6, <3>7 DEF SameScopes, Top, Depth
    <3>9. QED
      BY <1>1, <1>8, <3>3, <3>7, <3>8
  <2>3. QED
    BY <2>1, <2>2
<1> HIDE DEF rest
<1>13. LocalsInv'
  <2>1. bc' \in 0..k /\ sc' \in 0..k
    BY <1>1, <1>5, <1>11
  <2>2. QED
    BY <1>6, <1>7, <1>12, <2>1 DEF LocalsInv, Scopes
<1>14. HoldersKeep
  <2>1. ASSUME NEW f \in Range(frames), NEW i \in 1..f.held PROVE i \in 1..k
    <3>1. f.held \in Nat /\ f.held <= bc
      BY <1>9
    <3>2. QED
      BY <1>5, <3>1
  <2>2. QED
    BY <1>6, <2>1 DEF HoldersKeep
<1>15. EndUndoes
  BY <1>1, <1>4 DEF EndUndoes, n
<1>16. QED
  BY <1>13, <1>14, <1>15

-----------------------------------------------------------------------------

LEMMA InitLocals == BatchInit => LocalsInv
<1> SUFFICES ASSUME BatchInit PROVE LocalsInv
  OBVIOUS
<1> DEFINE f == [entry |-> 1, at |-> 1, status |-> "", ret |-> FALSE,
                 target |-> 0, script |-> TRUE, saved_bc |-> 0, held |-> 0]
<1>1. frames = <<f>> /\ env \in Values /\ saved = <<>> /\ sc = 0 /\ bc = 0
  BY DEF BatchInit
<1>2. <<f>> \in Seq({f}) /\ Len(<<f>>) = 1 /\ DOMAIN <<f>> = {1} /\ <<f>>[1] = f
  OBVIOUS
<1>3. Fields \subseteq DOMAIN f /\ f.held = 0 /\ f.saved_bc = 0
  BY DEF Fields
<1> HIDE DEF f
<1>4. frames \in Seq(Range(frames))
  BY <1>1, <1>2, SeqOfRange
<1>5. Stack(frames)
  BY <1>1, <1>2, <1>3, <1>4 DEF Stack
<1>6. saved \in Seq(Values) /\ Len(saved) = 0
  BY <1>1, EmptySeq
<1>7. 0 \in 0..0
  OBVIOUS
<1>8. QED
  BY <1>1, <1>2, <1>3, <1>5, <1>6, <1>7 DEF LocalsInv, Scopes, Top, Depth

LEMMA LocalsStep ==
  ASSUME LocalsInv, [BatchNext]_batch_vars
  PROVE  LocalsInv' /\ (UNCHANGED batch_vars \/ (HoldersKeep /\ EndUndoes))
<1>1. CASE UNCHANGED batch_vars
  BY <1>1 DEF batch_vars, locals, LocalsInv, Scopes, Top, Depth
<1>2. CASE Ordinary
  BY <1>2, OrdinaryStep
<1>3. ASSUME NEW keep \in BOOLEAN, Setlocal(keep) PROVE LocalsInv' /\ HoldersKeep /\ EndUndoes
  BY <1>3, SetlocalStep
<1>4. ASSUME NEW keep \in BOOLEAN, Endlocal(keep) PROVE LocalsInv' /\ HoldersKeep /\ EndUndoes
  BY <1>4, EndlocalStep
<1>5. CASE Call
  <2>1. PICK i : frames # <<>> /\ Begin(Frame(i))
    BY <1>5 DEF Call, Runs, AtCommand
  <2>2. Fields \subseteq DOMAIN Frame(i) /\ Frame(i).held = Len(saved) /\ Frame(i).saved_bc = bc
    BY DEF Frame, Fields
  <2>3. QED
    BY <2>1, <2>2, BeginStep
<1>6. CASE Run
  <2> DEFINE f == [Frame(1) EXCEPT !.script = TRUE]
  <2>1. frames # <<>> /\ Begin(f)
    BY <1>6 DEF Run, Runs, AtCommand
  <2>2. Fields \subseteq DOMAIN f /\ f.held = Len(saved) /\ f.saved_bc = bc
    BY DEF Frame, Fields
  <2> HIDE DEF f
  <2>3. QED
    BY <2>1, <2>2, BeginStep
<1>7. CASE EndScript
  BY <1>7, EndStep
<1>8. QED
  BY <1>1, <1>2, <1>3, <1>4, <1>5, <1>6, <1>7 DEF BatchNext, Ordinary

\* In every script, whatever calls, errors, exits and interrupts it goes
\* through: what a script or a subroutine saved is undone when it ends, down
\* to the last `setlocal @`, and nothing that its callers saved is touched.
THEOREM Scoping == BatchSpec => LocalsScoped
<1>1. LocalsInv /\ [BatchNext]_batch_vars => LocalsInv'
  BY LocalsStep
<1>2. LocalsInv /\ [BatchNext]_batch_vars =>
        [/\ \A f \in Range(frames) : \A i \in 1..f.held :
              i \in DOMAIN saved' /\ saved'[i] = saved[i]
         /\ Len(frames') < Depth =>
              LET floor == Max({Top.held, sc})
              IN /\ saved' = SubSeq(saved, 1, floor)
                 /\ env' = IF Len(saved) > floor THEN saved[floor + 1] ELSE env]_batch_vars
  BY LocalsStep DEF HoldersKeep, EndUndoes
<1>3. QED
  BY InitLocals, <1>1, <1>2, PTL DEF BatchSpec, LocalsScoped
=============================================================================
