---------------------------- MODULE MenuFlowProofs ----------------------------
(***************************************************************************)
(* The menu, for every menu file: whatever keys are pressed, lines edited, *)
(* entries booted and fallbacks taken, the highlight stands on an entry;   *)
(* and a boot nobody attends tries the default entry and the fallback list *)
(* in their order, and saves the one that is next.                         *)
(***************************************************************************)
EXTENDS MenuFlow, SequenceTheorems, WellFoundedInduction, TLAPS

\* The menus of the theorem: the fallback commands of their entries name entries of
\* the menu; the list of the menu does, or leaves the table room and names nothing
\* twice.
Distinct(s) == \A i, j \in DOMAIN s : s[i] = s[j] => i = j
Sound(m) ==
  /\ \A e \in 1 .. Size(m) : \A c \in Range(m.script[e]) :
       c.op \in {"fallback", "go"} => \A i \in DOMAIN c.args : c.args[i] < Size(m)
  /\ \/ \A i \in DOMAIN m.fallback : m.fallback[i] < Size(m)
     \/ Len(m.fallback) < MAX_FALLBACK_ENTRIES /\ Distinct(m.fallback)

View == [first : Nat, entry : Nat]
OnEntry(v) == v.first + v.entry < Size(menu)
InBox(v) == v.entry < MENU_BOX_H

Commands ==
  {[op |-> "nothing"]} \cup UNION {Range(menu.script[e]) : e \in 1 .. Size(menu)}

\* Numbers and commands have their types, in the editor as well.
Numbers ==
  /\ menu \in Menus /\ view \in View /\ num \in Nat /\ tempNum \in Nat
  /\ current \in Nat /\ count \in Nat /\ saved \in Nat
  /\ lines \in Seq(Commands) /\ (script = FromTitles \/ script \in Seq(Commands))

\* The editor keeps the view of the menu it was called from.
Edited ==
  Editing =>
    /\ outer \in View /\ OnEntry(outer) /\ InBox(outer)
    /\ num = Len(lines) /\ num <= MaxLines /\ timeout = -1
    /\ phase \in {"restart", "menu", "boot", "script", "prompt", "endless", "runs", "crashes"}

\* Outside of it the view is on an entry, within the box once it is on the screen.
Shown ==
  ~Editing =>
    /\ phase # "load" => num = Size(menu)
    /\ phase \notin {"load", "check"} => OnEntry(view)
    /\ phase \in {"menu", "hidden"} => InBox(view)

\* The entry that is booted, from the menu or after an edited list has failed.
Booted ==
  /\ phase = "boot" /\ (count > 0 \/ script = FromTitles) => OnEntry(view)
  /\ phase = "script" /\ (count > 0 \/ ~Editing) => current < Size(menu)
  /\ phase = "script" => script # FromTitles
  /\ phase \in {"boot", "script"} /\ script = FromTitles => ~Editing \/ count > 0

\* The fallback list names entries of the menu; while a menu file is read, those
\* that the check has passed over do, and the list has an end.
ListOK ==
  /\ DOMAIN fallbacks = 0 .. MAX_FALLBACK_ENTRIES - 1
  /\ \A k \in DOMAIN fallbacks : fallbacks[k] \in Nat \cup {-1}
  /\ fallbackno \in DOMAIN fallbacks \cup {-1}
Named(n) == \A k \in DOMAIN fallbacks : k < n => fallbacks[k] < Size(menu)
Listed ==
  /\ ListOK
  /\ phase = "load" => fallbacks = NoFallbacks /\ fallbackno = -1
  /\ phase = "check" =>
       /\ fallbackno \in {-1, 0} /\ default \in Nat
       /\ \/ Named(MAX_FALLBACK_ENTRIES)
          \/ /\ Named(count)
             /\ \E n \in 0 .. MAX_FALLBACK_ENTRIES - 1 : \A k \in DOMAIN fallbacks :
                  fallbacks[k] = -1 <=> k >= n
             /\ fallbacks[0] >= 0 => fallbackno = 0
  /\ phase \notin {"load", "check"} =>
       /\ Named(MAX_FALLBACK_ENTRIES)
       /\ fallbackno >= 0 => fallbacks[fallbackno] >= 0

Inv == Numbers /\ Edited /\ Shown /\ Booted /\ Listed

-----------------------------------------------------------------------------
(* Numbers and sequences *)

\* Every nonempty set of naturals has a least element.
LEMMA Least ==
  ASSUME NEW S \in SUBSET Nat, S # {}
  PROVE  \E i \in S : \A j \in S : i <= j
<1> DEFINE R == {ss \in Nat \X Nat : ss[1] < ss[2]}
<1>1. IsWellFoundedOn(R, Nat)
  BY NatLessThanWellFounded DEF OpToRel
<1>2. \E i \in S : \A j \in S : ~(<<j, i>> \in R)
  <2> HIDE DEF R
  <2> QED
    BY <1>1, WFMin
<1>3. PICK i \in S : \A j \in S : ~(<<j, i>> \in R)
  BY <1>2
<1>4. \A j \in S : ~(j < i)
  BY <1>3
<1> QED
  BY <1>4

LEMMA LeastChosen ==
  ASSUME NEW S \in SUBSET Nat, S # {}
  PROVE  /\ (CHOOSE i \in S : \A j \in S : i <= j) \in S
         /\ \A j \in S : (CHOOSE i \in S : \A k \in S : i <= k) <= j
BY Least

LEMMA DivMod ==
  ASSUME NEW x \in Nat, NEW n \in Nat \ {0}
  PROVE  x \div n \in Nat /\ x % n \in 0..(n - 1) /\ (x \div n) * n + (x % n) = x /\ (x \div n) * n \in Nat
<1>1. x \div n \in Nat
  BY SMT
<1>2. x % n \in 0..(n - 1)
  BY SMT
<1>3. x = (x \div n) * n + (x % n)
  BY SMT
<1>4. \A q \in Nat : q * n \in Nat
  BY SMT
<1> QED
  BY <1>1, <1>2, <1>3, <1>4

LEMMA Inserted ==
  ASSUME NEW S, NEW s \in Seq(S), NEW e \in S, NEW i \in 1 .. Len(s) + 1
  PROVE  InsertAt(s, i, e) \in Seq(S) /\ Len(InsertAt(s, i, e)) = Len(s) + 1
<1> DEFINE a == SubSeq(s, 1, i - 1)
           b == SubSeq(s, i, Len(s))
<1>1. a \in Seq(S) /\ Len(a) = i - 1
  BY LenProperties, ElementOfSeq, SubSeqProperties
<1>2. b \in Seq(S) /\ Len(b) = Len(s) + 1 - i
  BY LenProperties, ElementOfSeq, SubSeqProperties
<1>3. InsertAt(s, i, e) = a \o <<e>> \o b
  BY DEF InsertAt
<1> HIDE DEF a, b
<1>4. <<e>> \in Seq(S) /\ Len(<<e>>) = 1
  OBVIOUS
<1>5. a \o <<e>> \in Seq(S) /\ Len(a \o <<e>>) = i
  BY <1>1, <1>4, ConcatProperties
<1> QED
  BY <1>2, <1>3, <1>5, ConcatProperties, LenProperties

LEMMA Removed ==
  ASSUME NEW S, NEW s \in Seq(S), NEW i \in 1 .. Len(s)
  PROVE  RemoveAt(s, i) \in Seq(S) /\ Len(RemoveAt(s, i)) = Len(s) - 1
<1> DEFINE a == SubSeq(s, 1, i - 1)
           b == SubSeq(s, i + 1, Len(s))
<1>1. a \in Seq(S) /\ Len(a) = i - 1
  BY LenProperties, ElementOfSeq, SubSeqProperties
<1>2. b \in Seq(S) /\ Len(b) = Len(s) - i
  BY LenProperties, ElementOfSeq, SubSeqProperties
<1>3. RemoveAt(s, i) = a \o b
  BY DEF RemoveAt
<1> HIDE DEF a, b
<1>4. a \o b \in Seq(S) /\ Len(a \o b) = Len(a) + Len(b)
  BY <1>1, <1>2, ConcatProperties
<1>5. Len(s) \in Nat
  BY LenProperties
<1> QED
  BY <1>1, <1>2, <1>3, <1>4, <1>5

-----------------------------------------------------------------------------
(* fallback_func *)

\* What it keeps of the numbers it is given, and when it reports no error.
LEMMA Kept ==
  ASSUME NEW args \in Seq(Nat), NEW r, r = FallbackRead(args)
  PROVE  /\ r.kept \in Seq(Nat) /\ Len(r.kept) <= MAX_FALLBACK_ENTRIES
         /\ \A i \in 1 .. Len(r.kept) : i <= Len(args) /\ r.kept[i] = args[i]
         /\ r.err \in BOOLEAN
         /\ Distinct(args) /\ Len(args) <= MAX_FALLBACK_ENTRIES =>
              ~r.err /\ Len(r.kept) = Len(args)
<1> DEFINE M == MAX_FALLBACK_ENTRIES
           again == {i \in 1 .. Len(args) : i <= M /\ \E j \in 1 .. i - 1 : args[j] = args[i]}
           stop == IF again = {} THEN Len(args) + 1
                   ELSE CHOOSE i \in again : \A j \in again : i <= j
           end == IF stop > M THEN M ELSE stop - 1
<1>1. M \in Nat \ {0} /\ Len(args) \in Nat
  BY MenuAssumption, LenProperties
<1>2. stop \in 1 .. Len(args) + 1 /\ (stop > M => again = {})
  <2>1. again \in SUBSET Nat /\ \A i \in again : i \in 1 .. Len(args) /\ i <= M
    BY <1>1
  <2>2. CASE again = {}
    BY <2>2, <1>1
  <2>3. CASE again # {}
    <3> HIDE DEF again
    <3>1. stop \in again
      BY <2>1, <2>3, LeastChosen
    <3> HIDE DEF stop
    <3>2. stop \in 1 .. Len(args) /\ stop <= M
      BY <3>1, <2>1
    <3> QED
      BY <3>2, <1>1
  <2> QED
    BY <2>2, <2>3
<1>3. r.kept = SubSeq(args, 1, end) /\ r.err = (stop < Len(args))
  BY DEF FallbackRead
<1>4. Distinct(args) => stop = Len(args) + 1
  <2> SUFFICES ASSUME Distinct(args) PROVE again = {}
    OBVIOUS
  <2>1. \A i \in 1 .. Len(args) : \A j \in 1 .. i - 1 : args[j] # args[i]
    BY <1>1, LenProperties DEF Distinct
  <2> QED
    BY <2>1
<1>5. end \in 0 .. M /\ end <= Len(args) /\ (stop = Len(args) + 1 /\ Len(args) <= M => end = Len(args))
  <2> HIDE DEF again
  <2>1. CASE stop > M
    <3>1. again = {} /\ stop = Len(args) + 1
      BY <1>2, <2>1
    <3> QED
      BY <3>1, <2>1, <1>1
  <2>2. CASE ~(stop > M)
    <3> HIDE DEF stop
    <3> QED
      BY <2>2, <1>1, <1>2
  <2> QED
    BY <2>1, <2>2
<1> HIDE DEF again, stop, end
<1>6. \A i \in 1 .. end : args[i] \in Nat
  BY <1>1, <1>5, ElementOfSeq
<1>7. /\ r.kept \in Seq(Nat) /\ Len(r.kept) = end
      /\ \A i \in 1 .. end : r.kept[i] = args[i]
  <2>1. end \in Int
    BY <1>5, <1>1
  <2>2. /\ SubSeq(args, 1, end) \in Seq(Nat)
        /\ Len(SubSeq(args, 1, end)) = IF 1 <= end THEN end - 1 + 1 ELSE 0
        /\ \A i \in 1 .. end - 1 + 1 : SubSeq(args, 1, end)[i] = args[1 + i - 1]
    BY <2>1, <1>6, SubSeqProperties
  <2> QED
    BY <2>2, <1>3, <1>5, <1>1
<1>8. \A i \in 1 .. Len(r.kept) : i <= Len(args) /\ r.kept[i] = args[i]
  BY <1>1, <1>5, <1>7
<1>9. r.err \in BOOLEAN
  BY <1>3
<1>10. ASSUME Distinct(args), Len(args) <= M PROVE ~r.err /\ Len(r.kept) = Len(args)
  <2>1. stop = Len(args) + 1 /\ end = Len(args)
    BY <1>4, <1>5, <1>10
  <2>2. ~(stop < Len(args))
    BY <1>1, <2>1
  <2> QED
    BY <1>3, <1>7, <2>1, <2>2, Zenon
<1> QED
  BY <1>1, <1>5, <1>7, <1>8, <1>9, <1>10

\* The places of the fallback list.
Rows == 0 .. MAX_FALLBACK_ENTRIES - 1

\* The list after it: what it held or was given.
LEMMA Replaced ==
  ASSUME NEW args \in Seq(Nat), NEW list, DOMAIN list = Rows,
         \A k \in Rows : list[k] \in Nat \cup {-1},
         NEW no \in Rows \cup {-1}, NEW r, r = FallbackFunc(list, no, args)
  PROVE  /\ DOMAIN r.list = Rows /\ r.no \in Rows \cup {-1}
         /\ \A k \in Rows : r.list[k] \in Nat \cup {-1}
         /\ (no >= 0 => list[no] >= 0) => (r.no >= 0 => r.list[r.no] >= 0)
         /\ \A n \in Nat : (\A i \in DOMAIN args : args[i] < n) /\ (\A k \in Rows : list[k] < n)
              => \A k \in Rows : r.list[k] < n
<1> DEFINE read == FallbackRead(args)
           n == Len(read.kept)
           M == MAX_FALLBACK_ENTRIES
<1>1. /\ read.kept \in Seq(Nat) /\ n <= M
      /\ \A i \in 1 .. n : i <= Len(args) /\ read.kept[i] = args[i]
      /\ read.err \in BOOLEAN
  BY Kept
<1>2. M \in Nat \ {0} /\ n \in Nat /\ Len(args) \in Nat /\ DOMAIN args = 1 .. Len(args)
  BY <1>1, MenuAssumption, LenProperties
<1>3. /\ r.list = [k \in DOMAIN list |->
                     IF k < n THEN read.kept[k + 1]
                     ELSE IF k = n /\ ~read.err THEN -1 ELSE list[k]]
      /\ r.no = IF read.err THEN no ELSE IF n = 0 THEN -1 ELSE 0
  BY DEF FallbackFunc
<1> HIDE DEF n, read
<1>4. DOMAIN r.list = Rows
  BY <1>3
<1>5. \A k \in Rows : \/ k < n /\ k + 1 \in 1 .. Len(args) /\ r.list[k] = args[k + 1]
                      \/ k >= n /\ r.list[k] = -1
                      \/ k >= n /\ r.list[k] = list[k] /\ (k = n => read.err)
  BY <1>1, <1>2, <1>3 DEF Rows
<1>6. \A i \in 1 .. Len(args) : args[i] \in Nat
  BY ElementOfSeq
<1>7. \A k \in Rows : r.list[k] \in Nat \cup {-1}
  BY <1>5, <1>6
<1>8. r.no \in Rows \cup {-1}
  BY <1>2, <1>3 DEF Rows
<1>9. ASSUME no >= 0 => list[no] >= 0, r.no >= 0 PROVE r.list[r.no] >= 0
  <2>1. CASE read.err
    <3>1. r.no = no /\ no \in Rows /\ list[no] >= 0
      BY <1>3, <2>1, <1>9, <1>8
    <3>2. r.list[no] = IF no < n THEN read.kept[no + 1] ELSE list[no]
      <4>1. no # n \/ read.err
        BY <2>1
      <4> QED
        BY <1>3, <2>1, <3>1, SMT
    <3>3. CASE no < n
      <4>1. r.list[no] = args[no + 1] /\ no + 1 \in 1 .. Len(args)
        <5>1. no \in Rows /\ no \in Int /\ n \in Int /\ ~(no >= n)
          BY <3>1, <3>3, <1>2 DEF Rows
        <5> QED
          BY <5>1, <1>5
      <4>2. r.list[no] \in Nat
        BY <4>1, <1>6
      <4> QED
        BY <4>2, <3>1
    <3> QED
      BY <3>1, <3>2, <3>3
  <2>2. CASE ~read.err
    <3>1. n # 0 /\ r.no = 0 /\ 0 \in Rows
      BY <1>2, <1>3, <2>2, <1>9 DEF Rows
    <3> QED
      BY <3>1, <1>5, <1>6, <1>2
  <2> QED
    BY <2>1, <2>2
<1>10. ASSUME NEW b \in Nat, \A i \in DOMAIN args : args[i] < b, \A k \in Rows : list[k] < b
       PROVE  \A k \in Rows : r.list[k] < b
  BY <1>2, <1>5, <1>10
<1> QED
  BY <1>4, <1>7, <1>8, <1>9, <1>10

\* The list ends before place n, and nothing is behind its end.
EndsAt(list, n) == \A k \in Rows : list[k] = -1 <=> k >= n

\* The list of a menu file, read into an empty table.
LEMMA Read ==
  ASSUME NEW args \in Seq(Nat), NEW list, DOMAIN list = Rows, \A k \in Rows : list[k] = -1,
         NEW r, r = FallbackFunc(list, -1, args)
  PROVE  /\ DOMAIN r.list = Rows /\ r.no \in {-1, 0}
         /\ \A k \in Rows : r.list[k] \in Nat \cup {-1}
         /\ \A n \in Nat : (\A i \in DOMAIN args : args[i] < n) => \A k \in Rows : r.list[k] < n
         /\ Distinct(args) /\ Len(args) < MAX_FALLBACK_ENTRIES =>
              /\ \E n \in Rows : EndsAt(r.list, n)
              /\ r.list[0] >= 0 => r.no = 0
         /\ Distinct(args) /\ Len(args) <= MAX_FALLBACK_ENTRIES =>
              /\ \A k \in Rows : r.list[k] = IF k < Len(args) THEN args[k + 1] ELSE -1
              /\ r.no = IF Len(args) = 0 THEN -1 ELSE 0
<1> DEFINE read == FallbackRead(args)
           n == Len(read.kept)
           M == MAX_FALLBACK_ENTRIES
<1>1. DOMAIN list = Rows /\ \A k \in Rows : list[k] = -1
  OBVIOUS
<1>2. /\ DOMAIN r.list = Rows /\ r.no \in Rows \cup {-1}
      /\ \A k \in Rows : r.list[k] \in Nat \cup {-1}
      /\ \A b \in Nat : (\A i \in DOMAIN args : args[i] < b) /\ (\A k \in Rows : list[k] < b)
           => \A k \in Rows : r.list[k] < b
  <2>1. -1 \in Rows \cup {-1} /\ \A k \in Rows : list[k] \in Nat \cup {-1}
    BY <1>1
  <2> DEFINE no == -1
  <2>2. no \in Rows \cup {-1} /\ r = FallbackFunc(list, no, args)
    BY <2>1
  <2> HIDE DEF n, read, no
  <2> QED
    BY <2>1, <2>2, <1>1, Replaced, ZenonT(60)
<1>3. /\ r.list = [k \in DOMAIN list |->
                     IF k < n THEN read.kept[k + 1]
                     ELSE IF k = n /\ ~read.err THEN -1 ELSE list[k]]
      /\ r.no = IF read.err THEN -1 ELSE IF n = 0 THEN -1 ELSE 0
  BY DEF FallbackFunc
<1>4. /\ read.kept \in Seq(Nat) /\ n <= M
      /\ \A i \in 1 .. n : i <= Len(args) /\ read.kept[i] = args[i]
      /\ Distinct(args) /\ Len(args) <= M => ~read.err /\ n = Len(args)
  BY Kept
<1>5. M \in Nat \ {0} /\ n \in Nat /\ \A i \in 1 .. n : read.kept[i] \in Nat
  BY <1>4, MenuAssumption, LenProperties, ElementOfSeq
<1> HIDE DEF n, read
<1>6. r.no \in {-1, 0}
  BY <1>3
<1>7. \A b \in Nat : \A k \in Rows : list[k] < b
  BY <1>1
<1>8. ASSUME Distinct(args), Len(args) < M
      PROVE  (\E i \in Rows : EndsAt(r.list, i)) /\ (r.list[0] >= 0 => r.no = 0)
  <2>1. n \in Rows /\ ~read.err
    <3>1. Len(args) \in Nat /\ Len(args) <= M
      BY <1>5, <1>8, LenProperties
    <3> QED
      BY <1>4, <1>5, <1>8, <3>1 DEF Rows
  <2>2. \A k \in Rows : (k < n => r.list[k] = read.kept[k + 1]) /\ (k >= n => r.list[k] = -1)
    <3>1. \A k \in Rows : k >= n => ~(k < n)
      BY <1>5 DEF Rows
    <3>2. \A k \in Rows : k < n => r.list[k] = read.kept[k + 1]
      BY <1>1, <1>3
    <3>3. \A k \in Rows : k >= n => r.list[k] = -1
      BY <1>1, <1>3, <2>1, <3>1
    <3> QED
      BY <3>2, <3>3
  <2>3. EndsAt(r.list, n)
    <3>1. \A k \in Rows : k < n => k + 1 \in 1 .. n
      BY <1>5 DEF Rows
    <3>2. \A k \in Rows : k < n => r.list[k] \in Nat
      BY <3>1, <2>2, <1>5
    <3>3. \A k \in Rows : k >= n => r.list[k] = -1
      BY <2>2
    <3>4. \A k \in Rows : k < n \/ k >= n
      BY <1>5 DEF Rows
    <3>5. ASSUME NEW k \in Rows PROVE r.list[k] = -1 <=> k >= n
      <4>1. CASE k >= n
        BY <4>1, <3>3
      <4>2. CASE k < n
        <5>1. ~(k >= n)
          BY <4>2, <1>5 DEF Rows
        <5>2. r.list[k] # -1
          BY <4>2, <3>2
        <5> QED
          BY <5>1, <5>2
      <4> QED
        BY <4>1, <4>2, <3>4
    <3> QED
      BY <3>5 DEF EndsAt
  <2>4. ASSUME r.list[0] >= 0 PROVE r.no = 0
    <3>1. 0 \in Rows
      BY <1>5 DEF Rows
    <3>2. n # 0
      <4>1. n = 0 => 0 >= n
        OBVIOUS
      <4>2. n = 0 => r.list[0] = -1
        BY <2>2, <3>1, <4>1, Zenon
      <4> QED
        BY <4>2, <2>4
    <3> QED
      BY <3>2, <1>3, <2>1
  <2> QED
    BY <2>1, <2>3, <2>4
<1>9. ASSUME Distinct(args), Len(args) <= M
      PROVE  /\ \A k \in Rows : r.list[k] = IF k < Len(args) THEN args[k + 1] ELSE -1
             /\ r.no = IF Len(args) = 0 THEN -1 ELSE 0
  <2>1. n = Len(args) /\ ~read.err
    BY <1>4, <1>9
  <2>2. \A k \in Rows : k < n => k + 1 \in 1 .. n
    BY <1>5 DEF Rows
  <2>3. \A k \in Rows : r.list[k] = IF k < Len(args) THEN args[k + 1] ELSE -1
    BY <1>1, <1>3, <1>4, <2>1, <2>2
  <2> QED
    BY <1>1, <1>3, <2>1, <2>3
<1> QED
  BY <1>2, <1>6, <1>7, <1>8, <1>9

-----------------------------------------------------------------------------
(* The keys that move the highlight *)

\* A view of the entries listed: one of them is highlighted, in the box.
OnList(v) == v.first + v.entry < num /\ InBox(v)
Keeps(v) == v \in View /\ (OnList(view) => OnList(v))

LEMMA Box == MENU_BOX_H \in Nat \ {0}
BY MenuAssumption

LEMMA ViewFacts ==
  ASSUME NEW v \in View
  PROVE  v.first \in Nat /\ v.entry \in Nat
BY DEF View

LEMMA MovesTo ==
  ASSUME view \in View, NEW e \in Nat
  PROVE  MovedTo(e) \in View /\ MovedTo(e).first + MovedTo(e).entry = e /\ InBox(MovedTo(e))
<1> DEFINE f == view.first
           H == MENU_BOX_H
<1>1. f \in Nat /\ H \in Nat \ {0} /\ view = [first |-> f, entry |-> view.entry]
  BY Box DEF View
<1>2. CASE e >= f /\ e < f + H
  <2>1. MovedTo(e) = [first |-> f, entry |-> e - f]
    BY <1>1, <1>2 DEF MovedTo
  <2>2. e - f \in Nat /\ e - f < H /\ f + (e - f) = e
    BY <1>1, <1>2
  <2> QED
    BY <1>1, <2>1, <2>2 DEF View, InBox
<1>3. CASE ~(e >= f /\ e < f + H)
  <2> DEFINE q == (e \div H) * H
             r == e % H
  <2>1. q \in Nat /\ r \in 0..(H - 1) /\ q + r = e
    BY <1>1, DivMod
  <2>2. MovedTo(e) = [first |-> q, entry |-> r]
    BY <1>3 DEF MovedTo
  <2> HIDE DEF q, r
  <2> QED
    BY <1>1, <2>1, <2>2 DEF View, InBox
<1> QED
  BY <1>2, <1>3

LEMMA MovesOnList ==
  ASSUME view \in View, num \in Nat, NEW e \in 0 .. num - 1
  PROVE  Keeps(MovedTo(e))
<1>1. e \in Nat /\ e < num
  OBVIOUS
<1> QED
  BY <1>1, MovesTo DEF Keeps, OnList

\* UP and DOWN.
LEMMA Bootable ==
  ASSUME num \in Nat \ {0}, view \in View, NEW step \in {-1, 1}
  PROVE  NextBootable(step) \in Nat /\ (OnList(view) => NextBootable(step) < num)
<1> DEFINE at(i) == (Here + step * i) % num
           good == {i \in 1 .. num - 1 : Editing \/ menu.bootable[at(i) + 1]}
           i0 == CHOOSE i \in good : \A j \in good : i <= j
<1>1. Here \in Nat
  BY DEF Here, View
<1>2. CASE good = {}
  BY <1>1, <1>2 DEF NextBootable, OnList, Here
<1>3. CASE good # {}
  <2>1. good \in SUBSET Nat /\ good \subseteq 1 .. num - 1
    OBVIOUS
  <2> HIDE DEF good
  <2>2. i0 \in good
    BY <1>3, <2>1, LeastChosen
  <2>3. Here + step * i0 \in Int
    <3> HIDE DEF i0
    <3>1. i0 \in Int /\ step \in Int
      BY <2>1, <2>2
    <3>2. step * i0 \in Int
      BY <3>1
    <3> QED
      BY <3>2, <1>1
  <2>4. NextBootable(step) = at(i0)
    BY <1>3 DEF NextBootable, good
  <2> HIDE DEF i0
  <2>5. \A x \in Int : x % num \in 0 .. num - 1
    OBVIOUS
  <2> QED
    BY <2>3, <2>4, <2>5
<1> QED
  BY <1>2, <1>3

LEMMA BootableMove ==
  ASSUME num \in Nat \ {0}, view \in View, NEW step \in {-1, 1}
  PROVE  Keeps(MovedTo(NextBootable(step)))
<1>1. NextBootable(step) \in Nat /\ (OnList(view) => NextBootable(step) < num)
  BY Bootable
<1> QED
  BY <1>1, MovesTo DEF Keeps, OnList

LEMMA Steps ==
  ASSUME num \in Nat \ {0}, view \in View
  PROVE  Keeps(StepUp) /\ Keeps(StepDown)
<1>1. /\ view.first \in Nat /\ view.entry \in Nat /\ MENU_BOX_H \in Nat \ {0}
      /\ view = [first |-> view.first, entry |-> view.entry]
  BY Box DEF View
<1>2. Keeps(MovedTo(num - 1)) /\ Keeps(MovedTo(0))
  BY MovesOnList
<1>3. Keeps(StepUp)
  BY <1>1, <1>2 DEF StepUp, Keeps, OnList, InBox, View
<1>4. Keeps(StepDown)
  BY <1>1, <1>2 DEF StepDown, Keeps, OnList, InBox, View, Here
<1> QED
  BY <1>3, <1>4

LEMMA Pages ==
  ASSUME num \in Nat \ {0}, view \in View
  PROVE  Keeps(PageUp) /\ Keeps(PageDown)
<1> DEFINE H == MENU_BOX_H
<1>1. /\ view.first \in Nat /\ view.entry \in Nat /\ H \in Nat \ {0}
      /\ view = [first |-> view.first, entry |-> view.entry]
  BY Box DEF View
<1>2. Keeps(PageUp)
  BY <1>1 DEF PageUp, Keeps, OnList, InBox, View
<1>3. Keeps(PageDown)
  BY <1>1 DEF PageDown, Keeps, OnList, InBox, View
<1> QED
  BY <1>2, <1>3

LEMMA MovedKeeps ==
  ASSUME num \in Nat, view \in View,
         NEW k \in {"UP", "DOWN", "LEFT", "RIGHT", "PPAGE", "NPAGE", "HOME", "END"}
  PROVE  Moved(k) \in View /\ (OnList(view) => OnList(Moved(k)))
<1>1. CASE num = 0
  <2>1. Moved(k) = [first |-> 0, entry |-> 0]
    BY <1>1 DEF Moved
  <2>2. ~OnList(view)
    BY <1>1 DEF OnList, View
  <2> QED
    BY <2>1, <2>2 DEF View
<1>2. CASE num # 0
  <2>1. num \in Nat \ {0} /\ num > 0
    BY <1>2
  <2>2. Keeps(MovedTo(0)) /\ Keeps(MovedTo(num - 1))
    BY <2>1, MovesOnList
  <2>3. Keeps(MovedTo(NextBootable(-1))) /\ Keeps(MovedTo(NextBootable(1)))
    BY <2>1, BootableMove
  <2>4. Keeps(Moved(k))
    BY <2>1, <2>2, <2>3, Steps, Pages DEF Moved
  <2> QED
    BY <2>4 DEF Keeps
<1> QED
  BY <1>1, <1>2

-----------------------------------------------------------------------------
(* The menu of the machine *)

\* The hypothesis of the theorem. (A fallback command that names an entry the menu
\* does not have sends the highlight there.)
SoundMenus == \A m \in Menus : Sound(m)

LEMMA MenuFacts ==
  ASSUME SoundMenus, menu \in Menus
  PROVE  /\ Size(menu) \in 1 .. 256 /\ Size(menu) \in Nat
         /\ menu.fallback \in Seq(Nat) /\ menu.default \in Nat \cup {-1} /\ menu.timeout \in Int
         /\ \/ \A i \in DOMAIN menu.fallback : menu.fallback[i] < Size(menu)
            \/ Len(menu.fallback) < MAX_FALLBACK_ENTRIES /\ Distinct(menu.fallback)
         /\ \A e \in 1 .. Size(menu) : menu.fate[e] \in Fates
<1>1. Size(menu) \in 1 .. 256
  BY MenuAssumption DEF IsMenu
<1>2. Size(menu) \in Nat
  <2> DEFINE s == Size(menu)
  <2>1. s \in 1 .. 256
    BY <1>1
  <2> HIDE DEF s
  <2>2. s \in Nat
    BY <2>1
  <2> QED
    BY <2>2 DEF s
<1>3. /\ menu.fallback \in Seq(Nat) /\ menu.default \in Nat \cup {-1}
      /\ menu.timeout \in Nat \cup {-1}
      /\ \A e \in 1 .. Size(menu) : menu.fate[e] \in Fates
  BY MenuAssumption DEF IsMenu
<1>4. \/ \A i \in DOMAIN menu.fallback : menu.fallback[i] < Size(menu)
      \/ Len(menu.fallback) < MAX_FALLBACK_ENTRIES /\ Distinct(menu.fallback)
  BY DEF SoundMenus, Sound
<1> QED
  BY <1>1, <1>2, <1>3, <1>4

LEMMA CommandFacts ==
  ASSUME SoundMenus, menu \in Menus, NEW c \in Commands
  PROVE  /\ c.op # "titles"
         /\ c.op \in {"fallback", "go"} =>
              c.args \in Seq(Nat) /\ \A i \in DOMAIN c.args : c.args[i] < Size(menu)
<1>1. CASE c = [op |-> "nothing"]
  BY <1>1
<1>2. CASE c # [op |-> "nothing"]
  <2>1. PICK e \in 1 .. Size(menu) : c \in Range(menu.script[e])
    BY <1>2 DEF Commands
  <2>2. IsMenu(menu) /\ Sound(menu)
    BY MenuAssumption DEF SoundMenus
  <2> QED
    BY <2>1, <2>2 DEF IsMenu, Sound
<1> QED
  BY <1>1, <1>2

LEMMA ScriptFacts ==
  ASSUME SoundMenus, menu \in Menus, NEW e \in 1 .. Size(menu)
  PROVE  menu.script[e] \in Seq(Commands) /\ Len(menu.script[e]) <= MaxLines
<1>1. menu.script[e] \in Seq(Range(menu.script[e])) /\ Len(menu.script[e]) <= MaxLines
  BY MenuAssumption DEF IsMenu
<1>2. Range(menu.script[e]) \subseteq Commands
  BY DEF Commands
<1> QED
  BY <1>1, <1>2, SeqMonotonic

LEMMA NotFromTitles ==
  ASSUME SoundMenus, menu \in Menus, NEW s \in Seq(Commands)
  PROVE  s # FromTitles
<1>1. SUFFICES ASSUME s = FromTitles PROVE FALSE
  OBVIOUS
<1>2. Len(s) = 1 /\ s[1] = [op |-> "titles"]
  BY <1>1 DEF FromTitles
<1>3. s[1] \in Commands
  BY <1>2, ElementOfSeq
<1> QED
  BY <1>2, <1>3, CommandFacts

-----------------------------------------------------------------------------
(* A number is typed *)

\* The last of an interval that is numbered n.
LEMMA LastChosen ==
  ASSUME NEW n \in Nat, NEW b \in Nat, n <= b, NEW same, same \subseteq n .. b, n \in same
  PROVE  (CHOOSE e \in same : e + 1 \notin same) \in same
<1> DEFINE S == {e \in Nat : e >= n /\ e + 1 \notin same}
<1>1. b \in S
  <2>1. b + 1 \notin n .. b
    OBVIOUS
  <2> QED
    BY <2>1
<1>2. PICK e \in S : \A j \in S : e <= j
  <2>1. S \in SUBSET Nat /\ S # {}
    BY <1>1
  <2> HIDE DEF S
  <2> QED
    BY <2>1, Least
<1>3. e \in same
  <2>1. CASE e = n
    BY <2>1
  <2>2. CASE e # n
    <3>1. e - 1 \in Nat /\ e - 1 >= n /\ e - 1 \notin S /\ (e - 1) + 1 = e
      BY <1>2, <2>2
    <3> QED
      BY <3>1
  <2> QED
    BY <2>1, <2>2
<1>4. e \in same /\ e + 1 \notin same
  BY <1>2, <1>3
<1> QED
  BY <1>4

LEMMA NumberedFacts ==
  ASSUME SoundMenus, menu \in Menus, num \in Nat, NEW n \in 0 .. num - 1,
         num <= MaxLines + Size(menu)
  PROVE  EntryNumbered(n) \in Nat /\ (num = Size(menu) => EntryNumbered(n) < num)
<1>1. /\ Size(menu) \in 1 .. 256 /\ MaxLines \in Nat /\ n \in Nat /\ n < num
      /\ n <= MaxLines + Size(menu) /\ (num = Size(menu) => n < 256)
  <2> DEFINE s == Size(menu)
  <2>1. s \in 1 .. 256
    BY MenuFacts, Zenon
  <2>2. MaxLines \in Nat
    BY MenuAssumption
  <2> HIDE DEF s
  <2>3. num <= MaxLines + s
    BY DEF s
  <2>4. n \in Nat /\ n < num
    OBVIOUS
  <2>5. n <= MaxLines + s /\ (num = s => n < 256)
    BY <2>1, <2>2, <2>3, <2>4
  <2> QED
    BY <2>1, <2>2, <2>4, <2>5 DEF s
<1>2. CASE menu.control = 1
  <2> DEFINE b == MaxLines + Size(menu)
             same == {e \in n .. b : \A d \in n + 1 .. e : title_boot(menu, d) <= n}
             last == CHOOSE e \in same : e + 1 \notin same
  <2>1. b \in Nat /\ n <= b
    BY <1>1
  <2>2. same \subseteq n .. b /\ n \in same
    BY <2>1, <1>1
  <2>3. EntryNumbered(n) = IF title_boot(menu, last) = n THEN last ELSE n
    BY <1>2 DEF EntryNumbered
  <2> HIDE DEF b, same
  <2>4. last \in n .. b
    <3>1. n \in Nat
      BY <1>1
    <3> QED
      BY <3>1, <2>1, <2>2, LastChosen
  <2> HIDE DEF last
  <2>5. last \in Nat
    BY <2>4, <1>1
  <2>6. ASSUME num = Size(menu), title_boot(menu, last) = n PROVE last < num
    <3>1. num = Size(menu) /\ n < 256
      BY <1>1, <2>6
    <3>2. last >= Size(menu) => title_boot(menu, last) = 65535
      BY DEF title_boot
    <3> QED
      BY <3>1, <3>2, <2>5, <2>6, <1>1
  <2> QED
    BY <2>3, <2>5, <2>6, <1>1
<1>3. CASE menu.control = 2
  BY <1>1, <1>3 DEF EntryNumbered
<1>4. CASE menu.control \notin {1, 2}
  <2> DEFINE same == {e \in 0 .. num - 1 : ~Editing /\ n > 0 /\ menu.labels[e + 1] = n}
             first == CHOOSE e \in same : \A d \in same : e <= d
  <2>1. same \in SUBSET Nat /\ same \subseteq 0 .. num - 1
    OBVIOUS
  <2>2. EntryNumbered(n) = IF same = {} THEN n ELSE first
    BY <1>4 DEF EntryNumbered
  <2> HIDE DEF same
  <2>3. same # {} => first \in 0 .. num - 1
    BY <2>1, LeastChosen
  <2> HIDE DEF first
  <2> QED
    BY <2>2, <2>3, <1>1
<1> QED
  BY <1>2, <1>3, <1>4

-----------------------------------------------------------------------------
(* cmain: a menu file is read *)

LEMMA Bounds ==
  MAX_FALLBACK_ENTRIES \in Nat \ {0} /\ MENU_BOX_H \in Nat \ {0} /\ MaxLines \in Nat
BY MenuAssumption

\* What the program and a reset begin with.
Empty == /\ view = [first |-> 0, entry |-> 0] /\ num = 0 /\ phase = "load"
         /\ fallbacks = NoFallbacks /\ fallbackno = -1
         /\ tempNum = 0 /\ outer = NoView /\ lines = <<>> /\ script = <<>>
         /\ current = 0 /\ count = 0

LEMMA EmptyInv ==
  ASSUME Empty, menu \in Menus, saved \in Nat
  PROVE  Inv
<1>1. Numbers
  <2>1. <<>> \in Seq(Commands)
    OBVIOUS
  <2> QED
    BY <2>1 DEF Numbers, Empty, View
<1>2. Edited
  BY DEF Edited, Editing, Empty
<1>3. Shown
  BY DEF Shown, Empty
<1>4. Booted
  BY DEF Booted, Empty
<1>5. Listed
  BY DEF Listed, ListOK, Empty, NoFallbacks
<1> QED
  BY <1>1, <1>2, <1>3, <1>4, <1>5 DEF Inv

LEMMA LoadMenuInv ==
  ASSUME SoundMenus, Inv, LoadMenu
  PROVE  Inv'
<1> DEFINE list == [fallbacks EXCEPT ![0] = -1]
           r == FallbackFunc(list, -1, menu.fallback)
           d == IF menu.default = -1 THEN saved ELSE menu.default
<1>1. /\ phase = "load" /\ phase' = "check" /\ menu' = menu /\ menu \in Menus
      /\ outer' = outer /\ outer = NoView /\ count' = 0
      /\ fallbacks = NoFallbacks
  BY Zenon DEF LoadMenu, Inv, Listed, Edited, Editing, Numbers
<1>2. fallbacks' = r.list /\ fallbackno' = r.no /\ default' = d
  BY DEF LoadMenu
<1>3. Numbers'
  <2>1. Size(menu) \in Nat
    BY <1>1, MenuFacts
  <2> QED
    BY <1>1, <2>1 DEF LoadMenu, Inv, Numbers, Commands
<1>4. Edited' /\ Booted'
  BY <1>1 DEF Edited, Editing, Booted
<1>5. Shown'
  BY <1>1 DEF LoadMenu, Shown
<1>6. Listed'
  <2>1. DOMAIN list = Rows /\ \A k \in Rows : list[k] = -1
    BY <1>1 DEF NoFallbacks, Rows
  <2>2. /\ Size(menu) \in 1 .. 256 /\ menu.fallback \in Seq(Nat) /\ d \in Nat
        /\ \/ \A i \in DOMAIN menu.fallback : menu.fallback[i] < Size(menu)
           \/ Len(menu.fallback) < MAX_FALLBACK_ENTRIES /\ Distinct(menu.fallback)
    BY <1>1, MenuFacts DEF Inv, Numbers
  <2> HIDE DEF list, d
  <2>3. /\ DOMAIN r.list = Rows /\ r.no \in {-1, 0}
        /\ \A k \in Rows : r.list[k] \in Nat \cup {-1}
        /\ \A n \in Nat : (\A i \in DOMAIN menu.fallback : menu.fallback[i] < n)
             => \A k \in Rows : r.list[k] < n
        /\ Distinct(menu.fallback) /\ Len(menu.fallback) < MAX_FALLBACK_ENTRIES =>
             /\ \E n \in Rows : EndsAt(r.list, n)
             /\ r.list[0] >= 0 => r.no = 0
    BY <2>1, <2>2, Read
  <2> HIDE DEF r
  <2>4. ListOK'
    BY <1>2, <2>3, Bounds DEF ListOK, Rows
  <2>5. CASE \A i \in DOMAIN menu.fallback : menu.fallback[i] < Size(menu)
    <3>1. \A k \in Rows : fallbacks'[k] < Size(menu)
      BY <1>1, <1>2, <2>3, <2>5, MenuFacts, Zenon
    <3>2. Named(MAX_FALLBACK_ENTRIES)'
      BY <1>1, <1>2, <2>3, <3>1 DEF Named
    <3> QED
      BY <1>1, <1>2, <2>2, <2>3, <2>4, <3>2 DEF Listed
  <2>6. CASE Distinct(menu.fallback) /\ Len(menu.fallback) < MAX_FALLBACK_ENTRIES
    <3>1. (\E n \in Rows : EndsAt(fallbacks', n)) /\ (fallbacks'[0] >= 0 => fallbackno' = 0)
      BY <1>2, <2>3, <2>6
    <3>2. Named(count)'
      BY <1>1, <1>2, <2>3 DEF Named, Rows
    <3> QED
      BY <1>1, <1>2, <2>2, <2>3, <2>4, <3>1, <3>2 DEF Listed, EndsAt, Rows
  <2> QED
    BY <2>2, <2>5, <2>6
<1> QED
  BY <1>3, <1>4, <1>5, <1>6 DEF Inv

\* In the check, as long as the list is not known to be good, it ends in the
\* table and is good up to the entry that is looked at.
LEMMA CheckFallbackInv ==
  ASSUME SoundMenus, Inv, CheckFallback
  PROVE  Inv'
<1> DEFINE M == MAX_FALLBACK_ENTRIES
           f == fallbacks
           S == Size(menu)
<1>1. /\ phase = "check" /\ phase' = "check" /\ menu' = menu /\ menu \in Menus
      /\ outer' = outer /\ outer = NoView /\ fallbackno' = fallbackno /\ default' = default
      /\ fallbackno >= 0 /\ count < M /\ f[count] >= 0
      /\ num' = num /\ num = S /\ count \in Nat
  BY Zenon DEF CheckFallback, Checking, Inv, Listed, Edited, Shown, Editing, Numbers, fixed, shown
<1>2. M \in Nat \ {0} /\ S \in 1 .. 256 /\ S \in Nat /\ count \in Rows
  BY <1>1, Bounds, MenuFacts DEF Rows
<1>3. /\ DOMAIN f = Rows /\ \A k \in Rows : f[k] \in Nat \cup {-1}
      /\ fallbackno = 0 /\ default \in Nat
      /\ \/ \A k \in Rows : f[k] < S
         \/ /\ \A k \in Rows : k < count => f[k] < S
            /\ \E n \in Rows : \A k \in Rows : f[k] = -1 <=> k >= n
  <2>1. DOMAIN f = Rows /\ \A k \in Rows : f[k] \in Nat \cup {-1}
    BY DEF Inv, Listed, ListOK, Rows
  <2>2. fallbackno = 0 /\ default \in Nat
    BY <1>1 DEF Inv, Listed
  <2>3. \/ Named(M)
        \/ Named(count) /\ \E n \in Rows : \A k \in Rows : f[k] = -1 <=> k >= n
    BY <1>1, <2>1 DEF Inv, Listed, Rows
  <2> HIDE DEF S
  <2>4. Named(M) => \A k \in Rows : f[k] < S
    BY <2>1, <1>2 DEF Named, Rows, S
  <2>5. Named(count) => \A k \in Rows : k < count => f[k] < S
    BY <2>1 DEF Named, Rows, S
  <2> QED
    BY <2>1, <2>2, <2>3, <2>4, <2>5
<1>4. Numbers' /\ Edited' /\ Shown' /\ Booted'
  <2>1. count' \in Nat
    BY <1>1 DEF CheckFallback
  <2>2. Numbers'
    BY <1>1, <2>1 DEF CheckFallback, Inv, Numbers, Commands, fixed, shown
  <2>3. Edited' /\ Shown' /\ Booted'
    BY <1>1 DEF Edited, Editing, Shown, Booted
  <2> QED
    BY <2>2, <2>3
<1> DEFINE g == fallbacks'
           c == count'
           Good == /\ DOMAIN g = Rows /\ \A k \in Rows : g[k] \in Nat \cup {-1}
                   /\ \/ \A k \in Rows : g[k] < S
                      \/ /\ \A k \in Rows : k < c => g[k] < S
                         /\ \E n \in Rows : \A k \in Rows : g[k] = -1 <=> k >= n
<1>5. Good
  <2>1. CASE f[count] >= S
    <3>1. /\ g = [k \in DOMAIN f |->
                   IF k >= count /\ k + 1 \in DOMAIN f THEN f[k + 1] ELSE f[k]]
          /\ c = count
      BY <2>1, <1>1 DEF CheckFallback
    <3> HIDE DEF g, f, c, S
    <3>2. /\ DOMAIN g = Rows
          /\ \A k \in Rows : k >= count /\ k + 1 \in Rows => g[k] = f[k + 1]
          /\ \A k \in Rows : ~(k >= count /\ k + 1 \in Rows) => g[k] = f[k]
      BY <3>1, <1>3
    <3>3. ~(f[count] < S)
      BY <2>1, <1>2, <1>3
    <3>4. PICK n \in Rows : \A k \in Rows : f[k] = -1 <=> k >= n
      BY <3>3, <1>2, <1>3, Zenon
    <3>5. count < n /\ n \in Nat /\ n - 1 \in Rows
      BY <3>4, <1>1, <1>2 DEF Rows
    <3>6. \A k \in Rows : k < count => g[k] < S
      <4>1. \A k \in Rows : k < count => ~(k >= count)
        BY <1>1 DEF Rows
      <4>2. \A k \in Rows : k < count => g[k] = f[k]
        BY <3>2, <4>1
      <4> QED
        BY <4>2, <1>3, <3>3, <1>2, Zenon
    <3>7. ASSUME NEW k \in Rows PROVE g[k] = -1 <=> k >= n - 1
      <4>1. CASE k >= count /\ k + 1 \in Rows
        <5>1. g[k] = f[k + 1] /\ (f[k + 1] = -1 <=> k + 1 >= n)
          BY <4>1, <3>2, <3>4
        <5>2. k + 1 >= n <=> k >= n - 1
          BY <3>5 DEF Rows
        <5> QED
          BY <5>1, <5>2
      <4>2. CASE k < count
        <5>1. g[k] = f[k]
          BY <4>2, <3>2, <1>1 DEF Rows
        <5>2. ~(k >= n) /\ ~(k >= n - 1)
          BY <4>2, <3>5, <1>1 DEF Rows
        <5> QED
          BY <5>1, <5>2, <3>4
      <4>3. CASE k + 1 \notin Rows
        <5>1. g[k] = f[k]
          BY <4>3, <3>2
        <5>2. k >= n /\ k >= n - 1
          BY <4>3, <3>5, <1>2 DEF Rows
        <5> QED
          BY <5>1, <5>2, <3>4
      <4> QED
        BY <4>1, <4>2, <4>3, <1>1 DEF Rows
    <3>8. \A k \in Rows : g[k] \in Nat \cup {-1}
      BY <3>2, <1>3
    <3>9. \E m \in Rows : \A k \in Rows : g[k] = -1 <=> k >= m
      BY <3>5, <3>7, Zenon
    <3> QED
      BY <3>1, <3>2, <3>6, <3>8, <3>9
  <2>2. CASE ~(f[count] >= S)
    <3>1. g = f /\ c = count + 1
      BY <2>2, <1>1 DEF CheckFallback
    <3> HIDE DEF g, f, c, S
    <3>2. f[count] < S
      BY <2>2, <1>2, <1>3
    <3>3. \A k \in Rows : k < count + 1 => k < count \/ k = count
      BY <1>1 DEF Rows
    <3> QED
      BY <3>1, <3>2, <3>3, <1>3
  <2> QED
    BY <2>1, <2>2
<1>6. Listed'
  <2> HIDE DEF S
  <2>1. S = Size(menu')
    BY <1>1 DEF S
  <2>2. Named(M)' \/ ~(\A k \in Rows : g[k] < S)
    BY <1>5, <2>1 DEF Named
  <2>3. Named(count)' \/ ~(\A k \in Rows : k < c => g[k] < S)
    BY <1>5, <2>1 DEF Named
  <2>4. ListOK'
    BY <1>1, <1>3, <1>5, Bounds DEF ListOK, Rows
  <2>5. \/ Named(M)'
        \/ Named(count)' /\ \E n \in Rows : \A k \in Rows : g[k] = -1 <=> k >= n
    BY <1>5, <2>2, <2>3
  <2> QED
    BY <1>1, <1>3, <1>5, <2>4, <2>5 DEF Listed, Rows
<1> QED
  BY <1>4, <1>6 DEF Inv

LEMMA CheckDefaultInv ==
  ASSUME SoundMenus, Inv, CheckDefault
  PROVE  Inv'
<1> DEFINE M == MAX_FALLBACK_ENTRIES
           f == fallbacks
           S == Size(menu)
           no == IF f[0] < 0 THEN -1 ELSE fallbackno
           ok == default < num
<1>1. /\ phase = "check" /\ phase' = "restart" /\ menu' = menu /\ menu \in Menus
      /\ outer' = outer /\ outer = NoView /\ fallbacks' = f
      /\ ~(fallbackno >= 0 /\ count < M /\ f[count] >= 0)
      /\ num' = num /\ num = S /\ count \in Nat
      /\ view' = [first |-> 0, entry |-> default']
      /\ default' = (IF ok THEN default ELSE IF no >= 0 THEN f[0] ELSE 0)
      /\ fallbackno' = (IF ~ok /\ no >= 0 THEN After(f, no) ELSE no)
  BY Zenon DEF CheckDefault, Checking, Inv, Listed, Edited, Shown, Editing, Numbers
<1>2. M \in Nat \ {0} /\ S \in 1 .. 256 /\ S \in Nat /\ S > 0 /\ 0 \in Rows
  <2>1. S \in 1 .. 256 /\ S \in Nat /\ M \in Nat \ {0}
    BY <1>1, Bounds, MenuFacts
  <2> HIDE DEF S
  <2> QED
    BY <2>1 DEF Rows
<1>3. /\ DOMAIN f = Rows /\ \A k \in Rows : f[k] \in Nat \cup {-1}
      /\ fallbackno \in {-1, 0} /\ default \in Nat
      /\ \/ Named(M)
         \/ /\ Named(count)
            /\ \E n \in Rows : \A k \in Rows : f[k] = -1 <=> k >= n
            /\ f[0] >= 0 => fallbackno = 0
  <2>1. DOMAIN f = Rows /\ \A k \in Rows : f[k] \in Nat \cup {-1}
    BY DEF Inv, Listed, ListOK, Rows
  <2>2. fallbackno \in {-1, 0} /\ default \in Nat
    BY <1>1 DEF Inv, Listed
  <2> QED
    BY <1>1, <2>1, <2>2 DEF Inv, Listed, Rows
<1>4. Named(M)
  <2> SUFFICES ASSUME ~Named(M) PROVE FALSE
    OBVIOUS
  <2> HIDE DEF f, S, no, ok, M
  <2>1. PICK n \in Rows : \A k \in Rows : f[k] = -1 <=> k >= n
    BY <1>3
  <2>2. Named(count) /\ (f[0] >= 0 => fallbackno = 0)
    BY <1>3
  <2>3. PICK k \in Rows : ~(f[k] < S)
    BY <1>3 DEF Named, f, S
  <2>4. k \in Nat /\ n \in Nat /\ k < M
    BY Bounds DEF Rows, M
  <2>5. f[k] # -1 /\ k < n
    <3>1. f[k] # -1
      BY <2>3, <1>2
    <3> QED
      BY <3>1, <2>1, <2>4
  <2>6. f[0] >= 0
    <3>1. ~(0 >= n)
      BY <2>4, <2>5
    <3>2. f[0] # -1
      BY <2>1, <1>2, <3>1
    <3> QED
      BY <3>2, <1>2, <1>3
  <2>7. ~(count < M /\ f[count] >= 0)
    BY <1>1, <2>2, <2>6
  <2>8. ~(k < count)
    BY <2>2, <2>3, <1>3 DEF Named, f, S
  <2>9. count < M /\ count \in Rows
    <3>1. count \in Nat /\ M \in Nat
      BY <1>1, <1>2
    <3>2. count <= k
      BY <3>1, <2>4, <2>8
    <3> QED
      BY <2>4, <3>1, <3>2 DEF Rows, M
  <2>10. f[count] = -1
    BY <2>7, <2>9, <1>3
  <2>11. count >= n
    BY <2>1, <2>9, <2>10
  <2> QED
    BY <2>4, <2>5, <2>8, <2>11, <1>1
<1>5. \A k \in Rows : f[k] < S
  <2>1. \A k \in Rows : k < M
    BY Bounds DEF Rows
  <2> QED
    BY <2>1, <1>3, <1>4, Zenon DEF Named
<1>6. default' \in Nat /\ default' < S
  <2> HIDE DEF f, S
  <2>1. CASE ok
    BY <2>1, <1>1, <1>3
  <2>2. CASE ~ok /\ no >= 0
    <3>1. default' = f[0] /\ ~(f[0] < 0)
      BY <2>2, <1>1
    <3>2. f[0] \in Nat
      BY <3>1, <1>2, <1>3
    <3> QED
      BY <3>1, <3>2, <1>2, <1>5
  <2>3. CASE ~ok /\ ~(no >= 0)
    BY <2>3, <1>1, <1>2
  <2> QED
    BY <2>1, <2>2, <2>3
<1>7. fallbackno' \in Rows \cup {-1} /\ (fallbackno' >= 0 => f[fallbackno'] >= 0)
  <2> HIDE DEF f, S, ok
  <2>1. no \in {-1, 0} /\ (no = 0 => f[0] >= 0)
    BY <1>2, <1>3
  <2> HIDE DEF no
  <2>2. CASE ~ok /\ no >= 0
    <3>1. no = 0 /\ fallbackno' = After(f, 0)
      BY <2>1, <2>2, <1>1
    <3>2. After(f, 0) = IF 1 >= M \/ f[1] < 0 THEN -1 ELSE 1
      BY DEF After
    <3>3. CASE 1 >= M \/ f[1] < 0
      BY <3>1, <3>2, <3>3
    <3>4. CASE ~(1 >= M \/ f[1] < 0)
      <4>1. fallbackno' = 1
        BY <3>1, <3>2, <3>4
      <4>2. 1 \in Rows /\ f[1] >= 0
        BY <3>4, <1>2, <1>3 DEF Rows
      <4> QED
        BY <4>1, <4>2
    <3> QED
      BY <3>3, <3>4
  <2>3. CASE ok \/ ~(no >= 0)
    BY <2>1, <2>3, <1>1, <1>2
  <2> QED
    BY <2>2, <2>3
<1>8. Numbers'
  <2>1. view' \in View
    BY <1>1, <1>6 DEF View
  <2> QED
    BY <1>1, <2>1 DEF CheckDefault, Inv, Numbers, Commands, going
<1>9. Edited' /\ Booted'
  BY <1>1 DEF Edited, Editing, Booted
<1>10. Shown'
  <2>1. OnEntry(view)'
    BY <1>1, <1>6 DEF OnEntry
  <2> QED
    BY <1>1, <2>1 DEF Shown
<1>11. Listed'
  <2>1. ListOK'
    BY <1>1, <1>3, <1>7 DEF ListOK, Rows
  <2>2. Named(M)'
    BY <1>1, <1>4 DEF Named
  <2> QED
    BY <1>1, <1>7, <2>1, <2>2 DEF Listed
<1> QED
  BY <1>8, <1>9, <1>10, <1>11 DEF Inv

\* Away from the menu file the list keeps its entries, or loses its place.
LEMMA StaysListed ==
  ASSUME Inv, phase \notin {"load", "check"}, phase' \notin {"load", "check"}, menu' = menu,
         fallbacks' = fallbacks, fallbackno' \in {fallbackno, -1}
  PROVE  Listed'
<1>1. ListOK'
  BY DEF Inv, Listed, ListOK
<1>2. Named(MAX_FALLBACK_ENTRIES)'
  BY DEF Inv, Listed, Named
<1>3. fallbackno' >= 0 => fallbacks'[fallbackno'] >= 0
  BY DEF Inv, Listed
<1> QED
  BY <1>1, <1>2, <1>3 DEF Listed

LEMMA RestartInv ==
  ASSUME SoundMenus, Inv, Restart
  PROVE  Inv'
<1>1. /\ phase = "restart" /\ phase' \in {"menu", "hidden"} /\ menu' = menu /\ num' = num
      /\ outer' = outer /\ lines' = lines /\ timeout' = timeout /\ script' = script /\ count' = count
      /\ current' = current /\ saved' = saved /\ tempNum' = 0
      /\ showMenu' = (showMenu \/ timeout < 0)
      /\ phase' = (IF showMenu' THEN "menu" ELSE "hidden")
  BY DEF Restart, fixed, plan, going
<1>2. /\ view'.first + view'.entry = view.first + view.entry
      /\ view' \in View /\ InBox(view')
  <2>1. /\ view.first \in Nat /\ view.entry \in Nat /\ MENU_BOX_H \in Nat \ {0}
        /\ view = [first |-> view.first, entry |-> view.entry]
    BY Bounds DEF View, Inv, Numbers
  <2>2. view' = IF view.entry > MENU_BOX_H - 1
                THEN [first |-> view.first + view.entry - (MENU_BOX_H - 1),
                      entry |-> MENU_BOX_H - 1]
                ELSE view
    BY DEF Restart
  <2> QED
    BY <2>1, <2>2 DEF View, InBox
<1>3. Numbers'
  BY <1>1, <1>2 DEF Inv, Numbers, Commands
<1>4. Edited'
  <2>1. outer # NoView => phase' = "menu"
    <3>1. outer # NoView => timeout = -1
      BY DEF Inv, Edited, Editing
    <3>2. timeout = -1 => timeout < 0
      OBVIOUS
    <3> QED
      BY <1>1, <3>1, <3>2, Zenon
  <2> QED
    BY <1>1, <2>1 DEF Inv, Edited, Editing, OnEntry, InBox
<1>5. Shown'
  BY <1>1, <1>2 DEF Inv, Shown, Editing, OnEntry
<1>6. Booted'
  BY <1>1 DEF Booted
<1>7. Listed'
  BY <1>1, StaysListed DEF Restart, plan
<1> QED
  BY <1>3, <1>4, <1>5, <1>6, <1>7 DEF Inv

-----------------------------------------------------------------------------
(* run_menu: the countdown *)

\* The countdown never runs in the editor.
LEMMA NotCounting ==
  ASSUME Inv, timeout # -1
  PROVE  outer = NoView
BY DEF Inv, Edited, Editing

LEMMA SecondInv ==
  ASSUME Inv, Second
  PROVE  Inv'
<1>1. /\ phase \in {"menu", "hidden"} /\ phase' = phase /\ menu' = menu /\ outer' = outer
      /\ num' = num /\ view' = view /\ timeout > 0
      /\ fallbacks' = fallbacks /\ fallbackno' = fallbackno
  BY DEF Second, fixed, shown, plan
<1>2. outer = NoView
  <2>1. timeout # -1
    BY <1>1
  <2> QED
    BY <2>1, NotCounting
<1>3. Numbers'
  BY <1>1 DEF Inv, Numbers, Commands, Second, fixed, shown, going
<1>4. Edited'
  BY <1>1, <1>2 DEF Edited, Editing
<1>5. Shown' /\ Booted'
  BY <1>1, <1>2 DEF Inv, Shown, Editing, OnEntry, InBox, Booted
<1>6. Listed'
  BY <1>1, StaysListed
<1> QED
  BY <1>3, <1>4, <1>5, <1>6 DEF Inv

\* The boot of the highlighted entry from the menu.
LEMMA BootsTitles ==
  ASSUME Inv, phase \in {"menu", "hidden"}, outer = NoView, BootEntry(FromTitles),
         UNCHANGED <<fixed, shown, fallbacks, kernel, current>>, fallbackno' \in {fallbackno, -1}
  PROVE  Inv'
<1>1. /\ phase' = "boot" /\ menu' = menu /\ outer' = NoView /\ num' = num /\ view' = view
      /\ fallbacks' = fallbacks /\ count' = 0 /\ script' = FromTitles
  BY DEF BootEntry, fixed, shown
<1>2. Numbers'
  BY <1>1 DEF Inv, Numbers, Commands, fixed, shown
<1>3. OnEntry(view)'
  BY <1>1 DEF Inv, Shown, Editing, OnEntry
<1>4. Edited' /\ Shown' /\ Booted'
  BY <1>1, <1>3 DEF Inv, Edited, Editing, Shown, Booted
<1>5. Listed'
  BY <1>1, StaysListed
<1> QED
  BY <1>2, <1>4, <1>5 DEF Inv

LEMMA TimeoutInv ==
  ASSUME Inv, Timeout
  PROVE  Inv'
<1>1. outer = NoView
  <2>1. timeout # -1
    BY DEF Timeout
  <2> QED
    BY <2>1, NotCounting
<1> QED
  BY <1>1, BootsTitles DEF Timeout, plan

LEMMA KeyWhileHiddenInv ==
  ASSUME Inv, KeyWhileHidden
  PROVE  Inv'
<1>1. /\ phase = "hidden" /\ menu' = menu /\ outer' = outer /\ outer = NoView
      /\ num' = num /\ view' = view /\ fallbacks' = fallbacks /\ fallbackno' = fallbackno
  BY DEF KeyWhileHidden, fixed, shown, plan, Inv, Edited, Editing
<1>2. CASE phase' = "menu" /\ UNCHANGED <<count, script>>
  <2>1. Numbers'
    BY <1>1, <1>2 DEF Inv, Numbers, Commands, KeyWhileHidden, fixed, shown
  <2>2. Edited' /\ Shown' /\ Booted'
    BY <1>1, <1>2 DEF Inv, Edited, Editing, Shown, OnEntry, InBox, Booted
  <2>3. Listed'
    BY <1>1, <1>2, StaysListed
  <2> QED
    BY <2>1, <2>2, <2>3 DEF Inv
<1>3. CASE BootEntry(FromTitles)
  <2>1. UNCHANGED <<fixed, shown, fallbacks, kernel, current>>
    BY DEF KeyWhileHidden, plan
  <2> QED
    BY <1>1, <1>3, <2>1, BootsTitles
<1> QED
  BY <1>2, <1>3 DEF KeyWhileHidden

-----------------------------------------------------------------------------
(* run_menu: the keys *)

LEMMA KeyFacts ==
  ASSUME Inv, NEW k, Pressed(k)
  PROVE  phase = "menu" /\ timeout' = -1 /\ fallbackno' \in {fallbackno, -1}
BY DEF Pressed, KeyDone

\* The highlight of the menu, and that of the editor, is moved.
LEMMA MovedInv ==
  ASSUME SoundMenus, Inv, NEW k, Pressed(k), view' \in View, tempNum' \in Nat,
         num = Size(menu) /\ OnList(view) => OnList(view)',
         UNCHANGED <<fixed, phase, num, fallbacks, showMenu, outer, lines, going>>
  PROVE  Inv'
<1>1. phase = "menu" /\ timeout' = -1 /\ fallbackno' \in {fallbackno, -1}
  BY KeyFacts
<1>2. /\ phase' = phase /\ menu' = menu /\ outer' = outer /\ num' = num
      /\ fallbacks' = fallbacks /\ lines' = lines /\ UNCHANGED going
  BY DEF fixed
<1>3. Numbers'
  BY <1>2 DEF Inv, Numbers, Commands, fixed, going
<1>4. Edited'
  BY <1>1, <1>2 DEF Inv, Edited, Editing, OnEntry, InBox
<1>5. Shown'
  <2>1. ASSUME outer = NoView PROVE OnEntry(view)' /\ InBox(view)' /\ num' = Size(menu')
    <3>1. num = Size(menu) /\ OnEntry(view) /\ InBox(view)
      BY <1>1, <2>1 DEF Inv, Shown, Editing
    <3>2. OnList(view)
      BY <3>1 DEF OnList, OnEntry
    <3>3. OnList(view)'
      BY <3>1, <3>2
    <3> QED
      BY <1>2, <3>1, <3>3 DEF OnList, OnEntry
  <2> QED
    BY <1>2, <2>1 DEF Shown, Editing
<1>6. Booted'
  BY <1>1, <1>2 DEF Booted
<1>7. Listed'
  BY <1>1, <1>2, StaysListed
<1> QED
  BY <1>3, <1>4, <1>5, <1>6, <1>7 DEF Inv

LEMMA MoveInv ==
  ASSUME SoundMenus, Inv, NEW k, Move(k)
  PROVE  Inv'
<1>1. /\ Pressed(k) /\ view' = Moved(k) /\ tempNum' = tempNum /\ num' = num
      /\ UNCHANGED <<fixed, phase, num, fallbacks, showMenu, outer, lines, going>>
  BY DEF Move
<1>2. num \in Nat /\ view \in View /\ tempNum \in Nat
  BY DEF Inv, Numbers
<1>3. Moved(k) \in View /\ (OnList(view) => OnList(Moved(k)))
  BY <1>2, MovedKeeps DEF Move
<1>4. OnList(view) => OnList(view)'
  BY <1>1, <1>3 DEF OnList
<1> QED
  BY <1>1, <1>2, <1>3, <1>4, MovedInv

\* The number typed is that of an entry, and so is the entry it stands for.
LEMMA DigitInv ==
  ASSUME SoundMenus, Inv, NEW d \in Digits, Digit(d)
  PROVE  Inv'
<1> DEFINE t == tempNum'
<1>1. /\ num > 0 /\ Pressed("DIGIT") /\ t = Typed(d)
      /\ view' = (IF t # 0 \/ d = 0 THEN MovedTo(EntryNumbered(t)) ELSE view)
      /\ UNCHANGED <<fixed, phase, num, fallbacks, showMenu, outer, lines, going>>
  BY DEF Digit
<1>2. /\ num \in Nat /\ view \in View /\ tempNum \in Nat /\ d \in Nat /\ menu \in Menus
      /\ phase = "menu"
  BY <1>1, KeyFacts, MenuAssumption DEF Inv, Numbers
<1>3. t \in 0 .. num - 1
  <2>1. t = IF tempNum * 10 + d < num THEN tempNum * 10 + d ELSE IF d >= num THEN 0 ELSE d
    BY <1>1 DEF Typed
  <2> HIDE DEF t
  <2>2. tempNum * 10 + d \in Nat
    BY <1>2
  <2> DEFINE x == tempNum * 10 + d
  <2> HIDE DEF x
  <2>3. x \in Nat /\ t = IF x < num THEN x ELSE IF d >= num THEN 0 ELSE d
    BY <2>1, <2>2 DEF x
  <2> QED
    BY <1>1, <1>2, <2>3
<1> HIDE DEF t
<1>4. num <= MaxLines + Size(menu) /\ (outer = NoView => num = Size(menu))
  <2> DEFINE S == Size(menu)
  <2>1. S \in Nat /\ MaxLines \in Nat
    BY <1>2, MenuFacts, Bounds
  <2>2. outer = NoView => num = S
    BY <1>2 DEF Inv, Shown, Editing
  <2>3. outer # NoView => num <= MaxLines
    BY DEF Inv, Edited, Editing
  <2> HIDE DEF S
  <2>4. num <= MaxLines + S
    BY <1>2, <2>1, <2>2, <2>3
  <2> QED
    BY <2>2, <2>4 DEF S
<1> DEFINE e == EntryNumbered(t)
<1>5. e \in Nat /\ (num = Size(menu) => e < num)
  BY <1>2, <1>3, <1>4, NumberedFacts
<1> HIDE DEF e
<1>6. MovedTo(e) \in View /\ (num = Size(menu) => OnList(MovedTo(e)))
  BY <1>2, <1>5, MovesTo DEF OnList
<1>7. view' \in View /\ (num = Size(menu) /\ OnList(view) => OnList(view)')
  BY <1>1, <1>2, <1>6 DEF e, OnList
<1>8. t \in Nat
  BY <1>3
<1> QED
  BY <1>1, <1>7, <1>8, MovedInv DEF t

LEMMA BootInv ==
  ASSUME SoundMenus, Inv, Boot
  PROVE  Inv'
<1>1. /\ phase = "menu" /\ fallbackno' \in {fallbackno, -1}
      /\ UNCHANGED <<fixed, shown, fallbacks, kernel, current>>
  BY KeyFacts DEF Boot
<1>2. CASE outer = NoView
  <2>1. BootEntry(FromTitles)
    BY <1>2 DEF Boot, Editing
  <2> QED
    BY <1>1, <1>2, <2>1, BootsTitles
<1>3. CASE outer # NoView
  <2>1. /\ phase' = "boot" /\ menu' = menu /\ outer' = outer /\ num' = num /\ view' = view
        /\ fallbacks' = fallbacks /\ lines' = lines /\ count' = 0 /\ script' = lines
        /\ timeout' = -1
    BY <1>3 DEF Boot, BootEntry, Editing, fixed, shown
  <2>2. lines \in Seq(Commands) /\ menu \in Menus
    BY DEF Inv, Numbers
  <2>3. lines # FromTitles
    BY <2>2, NotFromTitles
  <2>4. Numbers'
    BY <1>1, <2>1, <2>2 DEF Inv, Numbers, Commands, fixed, shown
  <2>5. Edited'
    BY <1>3, <2>1 DEF Inv, Edited, Editing, OnEntry, InBox
  <2>6. Shown' /\ Booted'
    BY <1>3, <2>1, <2>3 DEF Shown, Editing, Booted
  <2>7. Listed'
    BY <1>1, <2>1, StaysListed
  <2> QED
    BY <2>4, <2>5, <2>6, <2>7 DEF Inv
<1> QED
  BY <1>2, <1>3

-----------------------------------------------------------------------------
(* run_menu: the editor *)

LEMMA EditInv ==
  ASSUME SoundMenus, Inv, Edit
  PROVE  Inv'
<1>1. /\ phase = "menu" /\ timeout' = -1 /\ fallbackno' \in {fallbackno, -1}
      /\ phase' = "restart" /\ menu' = menu /\ outer = NoView /\ outer' = view
      /\ lines' = menu.script[Here + 1] /\ num' = Len(lines')
      /\ view' = [first |-> 0, entry |-> 0] /\ fallbacks' = fallbacks
      /\ tempNum' = tempNum /\ saved' = saved /\ UNCHANGED going
  BY KeyFacts DEF Edit, Editing, fixed
<1>2. menu \in Menus /\ view \in View /\ OnEntry(view) /\ InBox(view)
  BY <1>1 DEF Inv, Numbers, Shown, Editing
<1>3. Here + 1 \in 1 .. Size(menu)
  <2> DEFINE S == Size(menu)
  <2>1. S \in Nat /\ Here \in Nat /\ Here < S
    BY <1>2, MenuFacts DEF OnEntry, Here, View
  <2> HIDE DEF S
  <2>2. Here + 1 \in 1 .. S
    BY <2>1
  <2> QED
    BY <2>2 DEF S
<1>4. lines' \in Seq(Commands) /\ Len(lines') <= MaxLines
  BY <1>1, <1>2, <1>3, ScriptFacts
<1>5. Numbers'
  <2>1. Len(lines') \in Nat
    BY <1>4, LenProperties
  <2> QED
    BY <1>1, <1>4, <2>1 DEF Inv, Numbers, Commands, View, going
<1>6. Edited'
  BY <1>1, <1>2, <1>4 DEF Edited, OnEntry, InBox
<1>7. Shown'
  BY <1>1, <1>2 DEF Shown, Editing, View, NoView
<1>8. Booted'
  BY <1>1 DEF Booted
<1>9. Listed'
  BY <1>1, StaysListed
<1> QED
  BY <1>5, <1>6, <1>7, <1>8, <1>9 DEF Inv

\* An edit of the list leaves the menu below it alone.
LEMMA EditsInv ==
  ASSUME Inv, NEW k, Pressed(k), outer # NoView, view' \in View,
         lines' \in Seq(Commands), num' = Len(lines'), num' <= MaxLines,
         UNCHANGED <<fixed, phase, fallbacks, showMenu, tempNum, outer, going>>
  PROVE  Inv'
<1>1. phase = "menu" /\ timeout' = -1 /\ fallbackno' \in {fallbackno, -1}
  BY KeyFacts
<1>2. phase' = phase /\ menu' = menu /\ outer' = outer /\ fallbacks' = fallbacks
  BY DEF fixed
<1>3. Numbers'
  <2>1. num' \in Nat
    BY LenProperties
  <2> QED
    BY <1>2, <2>1 DEF Inv, Numbers, Commands, fixed, going
<1>4. Edited'
  BY <1>1, <1>2 DEF Inv, Edited, Editing, OnEntry, InBox
<1>5. Shown' /\ Booted'
  BY <1>1, <1>2 DEF Shown, Editing, Booted
<1>6. Listed'
  BY <1>1, <1>2, StaysListed
<1> QED
  BY <1>3, <1>4, <1>5, <1>6 DEF Inv

LEMMA InsertLineInv ==
  ASSUME Inv, NEW k, InsertLine(k)
  PROVE  Inv'
<1>1. /\ Pressed(k) /\ num < MaxLines /\ outer # NoView /\ (num = 0 \/ Here < num)
      /\ num' = num + 1 /\ k \in {"AFTER", "BEFORE"}
      /\ UNCHANGED <<fixed, phase, fallbacks, showMenu, tempNum, outer, going>>
  BY DEF InsertLine, InEditor, Editing
<1>2. num \in Nat /\ view \in View /\ lines \in Seq(Commands) /\ num = Len(lines)
  BY <1>1 DEF Inv, Numbers, Edited, Editing
<1> DEFINE v == IF num = 0 THEN [first |-> 0, entry |-> 0] ELSE view
<1>3. v \in View /\ v.first \in Nat /\ v.entry \in Nat /\ (num = 0 \/ v.first + v.entry < num)
      /\ (num = 0 => v.first + v.entry = 0) /\ v = [first |-> v.first, entry |-> v.entry]
  BY <1>1, <1>2 DEF View, Here
<1>4. /\ view' = IF k = "BEFORE" \/ num = 0 THEN v
                 ELSE IF v.entry < MENU_BOX_H - 1 THEN [v EXCEPT !.entry = @ + 1]
                 ELSE [v EXCEPT !.first = @ + 1]
      /\ lines' = InsertAt(lines, view'.first + view'.entry + 1, [op |-> "nothing"])
  BY DEF InsertLine
<1> HIDE DEF v
<1>5. view' \in View /\ view'.first + view'.entry + 1 \in 1 .. num + 1
  <2>1. CASE k = "BEFORE" \/ num = 0
    BY <1>2, <1>3, <1>4, <2>1
  <2>2. CASE ~(k = "BEFORE" \/ num = 0) /\ v.entry < MENU_BOX_H - 1
    <3>1. view' = [first |-> v.first, entry |-> v.entry + 1]
      BY <1>3, <1>4, <2>2
    <3> QED
      BY <3>1, <1>2, <1>3, <2>2 DEF View
  <2>3. CASE ~(k = "BEFORE" \/ num = 0) /\ ~(v.entry < MENU_BOX_H - 1)
    <3>1. view' = [first |-> v.first + 1, entry |-> v.entry]
      BY <1>3, <1>4, <2>3
    <3> QED
      BY <3>1, <1>2, <1>3, <2>3 DEF View
  <2> QED
    BY <2>1, <2>2, <2>3
<1>6. [op |-> "nothing"] \in Commands
  BY DEF Commands
<1>7. lines' \in Seq(Commands) /\ Len(lines') = num + 1
  BY <1>2, <1>4, <1>5, <1>6, Inserted
<1>8. num + 1 <= MaxLines
  BY <1>1, <1>2, Bounds
<1> QED
  BY <1>1, <1>5, <1>7, <1>8, EditsInv

LEMMA DeleteLineInv ==
  ASSUME Inv, DeleteLine
  PROVE  Inv'
<1>1. /\ Pressed("DELETE") /\ outer # NoView /\ Here < num /\ num > 0
      /\ num' = num - 1 /\ lines' = RemoveAt(lines, Here + 1)
      /\ UNCHANGED <<fixed, phase, fallbacks, showMenu, tempNum, outer, going>>
  BY DEF DeleteLine, InEditor, Editing
<1>2. num \in Nat /\ view \in View /\ lines \in Seq(Commands) /\ num = Len(lines)
      /\ num <= MaxLines
  BY <1>1 DEF Inv, Numbers, Edited, Editing
<1>3. Here + 1 \in 1 .. Len(lines)
  BY <1>1, <1>2 DEF Here, View
<1>4. lines' \in Seq(Commands) /\ Len(lines') = num - 1
  BY <1>1, <1>2, <1>3, Removed
<1>5. view' \in View
  <2>1. view = [first |-> view.first, entry |-> view.entry] /\ view.first \in Nat /\ view.entry \in Nat
    BY <1>2 DEF View
  <2> QED
    BY <2>1 DEF DeleteLine, View
<1>6. num - 1 <= MaxLines
  BY <1>2, Bounds
<1> QED
  BY <1>1, <1>4, <1>5, <1>6, EditsInv

LEMMA LeaveEditorInv ==
  ASSUME SoundMenus, Inv, LeaveEditor
  PROVE  Inv'
<1>1. /\ phase = "menu" /\ fallbackno' \in {fallbackno, -1} /\ phase' = "restart"
      /\ menu' = menu /\ outer # NoView /\ outer' = NoView /\ view' = outer
      /\ num' = Size(menu) /\ lines' = <<>> /\ fallbacks' = fallbacks
      /\ tempNum' = tempNum /\ saved' = saved /\ UNCHANGED going
  BY KeyFacts DEF LeaveEditor, Editing, fixed
<1>2. menu \in Menus /\ outer \in View /\ OnEntry(outer)
  BY <1>1 DEF Inv, Numbers, Edited, Editing
<1>3. Numbers'
  <2>1. <<>> \in Seq(Commands)
    OBVIOUS
  <2>2. Size(menu) \in Nat
    BY <1>2, MenuFacts
  <2> QED
    BY <1>1, <1>2, <2>1, <2>2 DEF Inv, Numbers, Commands, going
<1>4. Edited' /\ Booted'
  BY <1>1 DEF Edited, Editing, Booted
<1>5. Shown'
  BY <1>1, <1>2 DEF Shown, OnEntry, Size
<1>6. Listed'
  BY <1>1, StaysListed
<1> QED
  BY <1>3, <1>4, <1>5, <1>6 DEF Inv

-----------------------------------------------------------------------------
(* boot_entry: an entry is run *)

LEMMA BootTurnInv ==
  ASSUME SoundMenus, Inv, BootTurn
  PROVE  Inv'
<1>1. /\ phase = "boot" /\ menu' = menu /\ outer' = outer /\ num' = num /\ view' = view
      /\ lines' = lines /\ timeout' = timeout /\ count' = count /\ tempNum' = tempNum
      /\ fallbacks' = fallbacks /\ fallbackno' = fallbackno /\ saved' = saved
      /\ current' = Here
  BY DEF BootTurn, fixed, shown, plan
<1>2. menu \in Menus /\ view \in View /\ Here \in Nat /\ num \in Nat
  BY DEF Inv, Numbers, Here, View
<1>3. CASE Here >= num
  <2>1. phase' = "restart" /\ script' = script
    BY <1>3 DEF BootTurn, ToMenu
  <2>2. Numbers'
    BY <1>1, <1>2, <2>1 DEF Inv, Numbers, Commands
  <2>3. Edited' /\ Shown' /\ Booted'
    BY <1>1, <2>1 DEF Inv, Edited, Editing, Shown, OnEntry, InBox, Booted
  <2>4. Listed'
    BY <1>1, <2>1, StaysListed
  <2> QED
    BY <2>2, <2>3, <2>4 DEF Inv
<1>4. CASE ~(Here >= num)
  <2>1. /\ phase' = "script"
        /\ script' = IF script = FromTitles THEN menu.script[Here + 1] ELSE script
    BY <1>4 DEF BootTurn
  <2>2. (count > 0 \/ outer = NoView) => Here < Size(menu)
    <3>1. count > 0 => OnEntry(view)
      BY <1>1 DEF Inv, Booted
    <3>2. outer = NoView => OnEntry(view)
      BY <1>1 DEF Inv, Shown, Editing
    <3> QED
      BY <3>1, <3>2 DEF OnEntry, Here
  <2>3. script = FromTitles => Here < Size(menu)
    BY <1>1, <2>2 DEF Inv, Booted, Editing
  <2>4. script' \in Seq(Commands)
    <3>1. CASE script = FromTitles
      <4> DEFINE S == Size(menu)
      <4>1. S \in Nat /\ Here < S
        BY <1>2, <2>3, <3>1, MenuFacts
      <4> HIDE DEF S
      <4>2. Here + 1 \in 1 .. S
        BY <1>2, <4>1
      <4>3. menu.script[Here + 1] \in Seq(Commands)
        BY <1>2, <4>2, ScriptFacts DEF S
      <4> QED
        BY <2>1, <3>1, <4>3
    <3>2. CASE script # FromTitles
      BY <2>1, <3>2 DEF Inv, Numbers
    <3> QED
      BY <3>1, <3>2
  <2>5. script' # FromTitles
    BY <1>2, <2>4, NotFromTitles
  <2>6. Numbers'
    BY <1>1, <1>2, <2>4 DEF Inv, Numbers, Commands
  <2>7. Edited'
    BY <1>1, <2>1 DEF Inv, Edited, Editing, OnEntry, InBox
  <2>8. Shown'
    BY <1>1, <2>1 DEF Inv, Shown, Editing, OnEntry
  <2>9. Booted'
    <3>1. (count' > 0 \/ outer' = NoView) => current' < Size(menu')
      BY <1>1, <2>2
    <3> QED
      BY <2>1, <2>5, <3>1 DEF Booted, Editing
  <2>10. Listed'
    BY <1>1, <2>1, StaysListed
  <2> QED
    BY <2>6, <2>7, <2>8, <2>9, <2>10 DEF Inv
<1> QED
  BY <1>3, <1>4

\* The list of a menu that is up.
LEMMA ListFacts ==
  ASSUME Inv, phase = "script"
  PROVE  /\ DOMAIN fallbacks = Rows /\ \A k \in Rows : fallbacks[k] \in Nat \cup {-1}
         /\ \A k \in Rows : fallbacks[k] < Size(menu)
         /\ fallbackno \in Rows \cup {-1} /\ (fallbackno >= 0 => fallbacks[fallbackno] >= 0)
         /\ menu \in Menus
<1>1. DOMAIN fallbacks = Rows /\ (\A k \in Rows : fallbacks[k] \in Nat \cup {-1})
      /\ fallbackno \in Rows \cup {-1}
  BY DEF Inv, Listed, ListOK, Rows
<1>2. \A k \in Rows : k < MAX_FALLBACK_ENTRIES
  BY Bounds DEF Rows
<1>3. Named(MAX_FALLBACK_ENTRIES) /\ (fallbackno >= 0 => fallbacks[fallbackno] >= 0)
  BY DEF Inv, Listed
<1>4. \A k \in Rows : fallbacks[k] < Size(menu)
  BY <1>1, <1>2, <1>3, Zenon DEF Named
<1>5. menu \in Menus
  BY DEF Inv, Numbers
<1> QED
  BY <1>1, <1>3, <1>4, <1>5

LEMMA ListedAgain ==
  ASSUME phase' \notin {"load", "check"}, DOMAIN fallbacks' = Rows,
         \A k \in Rows : fallbacks'[k] \in Nat \cup {-1},
         \A k \in Rows : fallbacks'[k] < Size(menu)', fallbackno' \in Rows \cup {-1},
         fallbackno' >= 0 => fallbacks'[fallbackno'] >= 0
  PROVE  Listed'
<1>1. ListOK'
  BY DEF ListOK, Rows
<1>2. Named(MAX_FALLBACK_ENTRIES)'
  BY Zenon DEF Named
<1> QED
  BY <1>1, <1>2 DEF Listed

\* An entry has failed, and the list named one to go on with or did not.
LEMMA FailedInv ==
  ASSUME SoundMenus, Inv, phase = "script", NEW list, NEW no, DOMAIN list = Rows,
         \A k \in Rows : list[k] \in Nat \cup {-1}, \A k \in Rows : list[k] < Size(menu),
         no \in Rows \cup {-1}, no >= 0 => list[no] >= 0,
         Failed(list, no), Still
  PROVE  Inv'
<1>1. /\ menu' = menu /\ outer' = outer /\ num' = num /\ lines' = lines /\ timeout' = timeout
      /\ tempNum' = tempNum /\ saved' = saved /\ current' = current /\ fallbacks' = list
  BY DEF Failed, Still, fixed
<1>2. menu \in Menus /\ view \in View /\ count \in Nat
  BY DEF Inv, Numbers
<1>3. CASE no < 0
  <2>1. phase' = "prompt" /\ fallbackno' = no /\ view' = view /\ script' = script /\ count' = count
    BY <1>3 DEF Failed
  <2>2. Numbers'
    BY <1>1, <2>1 DEF Inv, Numbers, Commands
  <2>3. Edited' /\ Shown' /\ Booted'
    BY <1>1, <2>1 DEF Inv, Edited, Editing, Shown, OnEntry, InBox, Booted
  <2>4. \A k \in Rows : fallbacks'[k] < Size(menu)'
    BY <1>1 DEF Size
  <2>5. Listed'
    BY <1>1, <2>1, <2>4, ListedAgain
  <2> QED
    BY <2>2, <2>3, <2>5 DEF Inv
<1>4. CASE ~(no < 0)
  <2>1. no \in Rows /\ no \in Nat /\ list[no] \in Nat /\ list[no] < Size(menu)
    <3>1. no \in Rows
      BY <1>4
    <3>2. no \in Nat /\ list[no] \in Nat \cup {-1}
      BY <3>1 DEF Rows
    <3> QED
      BY <1>4, <3>1, <3>2
  <2>2. /\ view' = [first |-> 0, entry |-> list[no]] /\ fallbackno' = After(list, no)
        /\ script' = FromTitles /\ count' = count + 1 /\ phase' \in {"boot", "endless"}
    BY <1>4 DEF Failed
  <2>3. view' \in View /\ OnEntry(view)'
    BY <1>1, <2>1, <2>2 DEF View, OnEntry, Size
  <2>4. Numbers'
    BY <1>1, <1>2, <2>2, <2>3 DEF Inv, Numbers, Commands
  <2>5. Edited'
    BY <1>1, <2>2 DEF Inv, Edited, Editing, OnEntry, InBox
  <2>6. Shown'
    BY <1>1, <2>2, <2>3 DEF Inv, Shown, Editing
  <2>7. Booted'
    <3>1. count' > 0
      BY <1>2, <2>2
    <3> QED
      BY <2>2, <2>3, <3>1 DEF Booted
  <2>8. Listed'
    <3>1. \A k \in Rows : fallbacks'[k] < Size(menu)'
      BY <1>1 DEF Size
    <3>2. fallbackno' \in Rows \cup {-1} /\ (fallbackno' >= 0 => fallbacks'[fallbackno'] >= 0)
      <4>1. CASE no + 1 >= MAX_FALLBACK_ENTRIES \/ list[no + 1] < 0
        BY <2>2, <4>1 DEF After
      <4>2. CASE ~(no + 1 >= MAX_FALLBACK_ENTRIES \/ list[no + 1] < 0)
        <5>1. fallbackno' = no + 1
          BY <2>2, <4>2 DEF After
        <5>2. no + 1 \in Rows
          BY <2>1, <4>2, Bounds DEF Rows
        <5>3. list[no + 1] >= 0
          BY <4>2, <5>2
        <5> QED
          BY <1>1, <5>1, <5>2, <5>3
      <4> QED
        BY <4>1, <4>2
    <3> QED
      BY <1>1, <2>2, <3>1, <3>2, ListedAgain
  <2> QED
    BY <2>4, <2>5, <2>6, <2>7, <2>8 DEF Inv
<1> QED
  BY <1>3, <1>4

LEMMA NextFallbackFacts ==
  ASSUME NEW list, DOMAIN list = Rows, \A k \in Rows : list[k] \in Nat \cup {-1}, NEW e
  PROVE  NextFallback(list, e) \in Nat \cup {-1}
<1> DEFINE there == {k \in DOMAIN list : list[k] = e /\ \A j \in 0 .. k : list[j] >= 0}
           least == CHOOSE k \in there : \A j \in there : k <= j
           index == IF there = {} THEN 0 ELSE 1 + least
<1>1. there \in SUBSET Nat /\ there \subseteq Rows
  BY DEF Rows
<1> HIDE DEF there
<1>2. there # {} => least \in Rows
  BY <1>1, LeastChosen
<1> HIDE DEF least
<1>3. index \in Nat
  BY <1>2 DEF Rows
<1>4. NextFallback(list, e) = IF index >= MAX_FALLBACK_ENTRIES THEN -1 ELSE list[index]
  BY DEF NextFallback, least, there
<1> HIDE DEF index
<1>5. index \in Rows \/ index >= MAX_FALLBACK_ENTRIES
  BY <1>3, Bounds DEF Rows
<1>6. CASE index >= MAX_FALLBACK_ENTRIES
  BY <1>4, <1>6
<1>7. CASE ~(index >= MAX_FALLBACK_ENTRIES)
  BY <1>4, <1>5, <1>7
<1> QED
  BY <1>6, <1>7

\* The command that is next, and the script after it.
LEMMA ScriptHead ==
  ASSUME Inv, phase = "script", script # <<>>
  PROVE  script \in Seq(Commands) /\ Head(script) \in Commands /\ Tail(script) \in Seq(Commands)
<1>1. script \in Seq(Commands)
  BY DEF Inv, Numbers, Booted
<1> QED
  BY <1>1, HeadTailProperties

\* The program goes on in the same script.
LEMMA GoesOn ==
  ASSUME SoundMenus, Inv, phase = "script", phase' = "script",
         UNCHANGED <<menu, view, num, tempNum, outer, lines, timeout, current, count>>,
         saved' \in Nat, script' \in Seq(Commands), Listed'
  PROVE  Inv'
<1>1. menu \in Menus
  BY DEF Inv, Numbers
<1>2. Numbers'
  BY DEF Inv, Numbers, Commands
<1>3. Edited' /\ Shown'
  BY DEF Inv, Edited, Editing, Shown, OnEntry, InBox
<1>4. script' # FromTitles
  BY <1>1, NotFromTitles
<1>5. Booted'
  BY <1>4 DEF Inv, Booted, Editing, Size
<1> QED
  BY <1>2, <1>3, <1>5 DEF Inv

LEMMA RunCommandInv ==
  ASSUME SoundMenus, Inv, RunCommand
  PROVE  Inv'
<1>1. /\ phase = "script" /\ script # <<>> /\ phase' = phase /\ script' = Tail(script)
      /\ UNCHANGED <<menu, view, num, tempNum, outer, lines, timeout, current, count>>
      /\ fallbacks' = fallbacks /\ fallbackno' = fallbackno
  BY DEF RunCommand, NextCommand, shown, plan
<1>2. script' \in Seq(Commands)
  BY <1>1, ScriptHead
<1>3. saved' \in Nat
  <2>1. saved \in Nat /\ current \in Nat
    BY DEF Inv, Numbers
  <2> DEFINE n == NextFallback(fallbacks, current)
  <2>2. n \in Nat \cup {-1}
    BY <1>1, ListFacts, NextFallbackFacts
  <2>3. saved' \in {saved, current} \/ (~(n < 0) /\ saved' = n)
    BY DEF RunCommand
  <2> HIDE DEF n
  <2> QED
    BY <2>1, <2>2, <2>3
<1>4. Listed'
  BY <1>1, StaysListed
<1> QED
  BY <1>1, <1>2, <1>3, <1>4, GoesOn

LEMMA RunFallbackInv ==
  ASSUME SoundMenus, Inv, RunFallback
  PROVE  Inv'
<1> DEFINE args == Head(script).args
           r == FallbackFunc(fallbacks, fallbackno, args)
           S == Size(menu)
<1>1. phase = "script" /\ script # <<>> /\ Head(script).op \in {"fallback", "go"} /\ Still
  BY DEF RunFallback, Command
<1>2. /\ (/\ fallbacks' = r.list /\ fallbackno' = r.no /\ NextCommand
          /\ UNCHANGED <<phase, view, kernel, count>>)
         \/ Failed(r.list, r.no)
  BY DEF RunFallback
<1>3. Head(script) \in Commands /\ Tail(script) \in Seq(Commands)
  BY <1>1, ScriptHead
<1>4. /\ DOMAIN fallbacks = Rows /\ (\A k \in Rows : fallbacks[k] \in Nat \cup {-1})
      /\ (\A k \in Rows : fallbacks[k] < S)
      /\ fallbackno \in Rows \cup {-1} /\ (fallbackno >= 0 => fallbacks[fallbackno] >= 0)
      /\ menu \in Menus
  BY <1>1, ListFacts
<1>5. args \in Seq(Nat) /\ \A i \in DOMAIN args : args[i] < S
  BY <1>1, <1>3, <1>4, CommandFacts
<1>6. S \in Nat
  BY <1>4, MenuFacts
<1> HIDE DEF S, args
<1>7. /\ DOMAIN r.list = Rows /\ r.no \in Rows \cup {-1}
      /\ \A k \in Rows : r.list[k] \in Nat \cup {-1}
      /\ (r.no >= 0 => r.list[r.no] >= 0)
      /\ \A n \in Nat : (\A i \in DOMAIN args : args[i] < n) /\ (\A k \in Rows : fallbacks[k] < n)
           => \A k \in Rows : r.list[k] < n
  BY <1>4, <1>5, Replaced
<1> HIDE DEF r
<1>8. \A k \in Rows : r.list[k] < S
  BY <1>4, <1>5, <1>6, <1>7, Zenon
<1>9. CASE Failed(r.list, r.no)
  BY <1>1, <1>7, <1>8, <1>9, FailedInv DEF S
<1>10. CASE /\ fallbacks' = r.list /\ fallbackno' = r.no /\ NextCommand
            /\ UNCHANGED <<phase, view, kernel, count>>
  <2>1. /\ UNCHANGED <<menu, view, num, tempNum, outer, lines, timeout, current, count>>
        /\ saved' = saved /\ phase' = "script"
    BY <1>1, <1>10 DEF Still, fixed
  <2>2. S = Size(menu)'
    BY <2>1 DEF S, Size
  <2>3. Listed'
    BY <1>7, <1>8, <1>10, <2>1, <2>2, ListedAgain
  <2>4. script' \in Seq(Commands) /\ saved' \in Nat
    BY <1>3, <1>10, <2>1 DEF NextCommand, Inv, Numbers
  <2> QED
    BY <1>1, <2>1, <2>3, <2>4, GoesOn
<1> QED
  BY <1>2, <1>9, <1>10

LEMMA CommandFailsInv ==
  ASSUME SoundMenus, Inv, CommandFails
  PROVE  Inv'
<1>1. phase = "script" /\ Failed(fallbacks, fallbackno) /\ Still
  BY DEF CommandFails
<1> QED
  BY <1>1, ListFacts, FailedInv

\* The menu comes back, on the entry that was booted.
LEMMA ToMenuInv ==
  ASSUME Inv, phase \in {"script", "prompt", "endless"}, ToMenu,
         UNCHANGED <<fixed, shown, plan, timeout, going>>
  PROVE  Inv'
<1>1. /\ phase' = "restart" /\ menu' = menu /\ outer' = outer /\ num' = num /\ view' = view
      /\ lines' = lines /\ timeout' = timeout /\ fallbacks' = fallbacks
      /\ fallbackno' = fallbackno
  BY DEF ToMenu, fixed, shown, plan
<1>2. Numbers'
  BY <1>1 DEF Inv, Numbers, Commands, fixed, shown, going
<1>3. Edited' /\ Shown' /\ Booted'
  BY <1>1 DEF Inv, Edited, Editing, Shown, OnEntry, InBox, Booted
<1>4. Listed'
  BY <1>1, StaysListed
<1> QED
  BY <1>2, <1>3, <1>4 DEF Inv

\* What starts is an entry of the menu, and the menu says how its boot ends.
LEMMA BootedFate ==
  ASSUME SoundMenus, Inv, phase = "script"
  PROVE  menu.fate[Running + 1] \in Fates
<1>1. Running \in Nat /\ Running < Size(menu)
  <2>1. CASE outer # NoView /\ count = 0
    <3>1. Running = outer.first + outer.entry /\ outer \in View /\ OnEntry(outer)
      BY <2>1 DEF Running, Editing, Inv, Edited
    <3> QED
      BY <3>1 DEF View, OnEntry
  <2>2. CASE ~(outer # NoView /\ count = 0)
    <3>1. Running = current /\ current \in Nat /\ count \in Nat
      BY <2>2 DEF Running, Editing, Inv, Numbers
    <3>2. count > 0 \/ outer = NoView
      BY <2>2, <3>1
    <3> QED
      BY <3>1, <3>2 DEF Inv, Booted, Editing
  <2> QED
    BY <2>1, <2>2
<1>2. menu \in Menus
  BY DEF Inv, Numbers
<1>3. Running + 1 \in 1 .. Size(menu)
  <2> DEFINE S == Size(menu)
  <2>1. S \in Nat /\ Running < S
    BY <1>1, <1>2, MenuFacts
  <2> HIDE DEF S
  <2>2. Running + 1 \in 1 .. S
    BY <1>1, <2>1
  <2> QED
    BY <2>2 DEF S
<1> QED
  BY <1>2, <1>3, MenuFacts

LEMMA BootKernelInv ==
  ASSUME SoundMenus, Inv, BootKernel
  PROVE  Inv'
<1>1. phase = "script" /\ Still
  BY DEF BootKernel
<1>2. CASE Failed(fallbacks, fallbackno)
  BY <1>1, <1>2, ListFacts, FailedInv
<1>3. CASE phase' = menu.fate[Running + 1] /\ UNCHANGED <<view, plan, script, kernel, count>>
                /\ menu.fate[Running + 1] # "fails"
  <2>1. /\ menu' = menu /\ outer' = outer /\ num' = num /\ view' = view
        /\ lines' = lines /\ timeout' = timeout /\ fallbacks' = fallbacks
        /\ fallbackno' = fallbackno /\ count' = count /\ script' = script
        /\ tempNum' = tempNum /\ saved' = saved /\ current' = current
    BY <1>1, <1>3 DEF Still, fixed, plan
  <2>2. phase' \in {"runs", "crashes"}
    BY <1>1, <1>3, BootedFate DEF Fates
  <2>3. Numbers'
    BY <2>1 DEF Inv, Numbers, Commands
  <2>4. Edited' /\ Shown' /\ Booted'
    BY <1>1, <2>1, <2>2 DEF Inv, Edited, Editing, Shown, OnEntry, InBox, Booted
  <2>5. Listed'
    BY <1>1, <2>1, <2>2, StaysListed
  <2> QED
    BY <2>3, <2>4, <2>5 DEF Inv
<1> QED
  BY <1>2, <1>3 DEF BootKernel

-----------------------------------------------------------------------------
(* The theorem *)

LEMMA RestartedInv ==
  ASSUME Inv, Restarted
  PROVE  Inv'
<1>1. Empty' /\ (menu \in Menus)' /\ (saved \in Nat)'
  BY DEF Restarted, Empty, NoFallbacks, NoView, Inv, Numbers
<1> QED
  BY <1>1, EmptyInv, PTL

\* Every step of the program, of the user and of the machine keeps the invariant.
LEMMA Step ==
  ASSUME SoundMenus, Inv, [Next]_vars
  PROVE  Inv'
<1>1. CASE LoadMenu
  BY <1>1, LoadMenuInv
<1>2. CASE CheckFallback
  BY <1>2, CheckFallbackInv
<1>3. CASE CheckDefault
  BY <1>3, CheckDefaultInv
<1>4. CASE Restart
  BY <1>4, RestartInv
<1>5. CASE Second
  BY <1>5, SecondInv
<1>6. CASE Timeout
  BY <1>6, TimeoutInv
<1>7. CASE BootTurn
  BY <1>7, BootTurnInv
<1>8. CASE RunCommand
  BY <1>8, RunCommandInv
<1>9. CASE RunFallback
  BY <1>9, RunFallbackInv
<1>10. CASE CommandFails
  BY <1>10, CommandFailsInv
<1>11. CASE ScriptEnds
  BY <1>11, ToMenuInv DEF ScriptEnds
<1>12. CASE BootKernel
  BY <1>12, BootKernelInv
<1>13. CASE KeyWhileHidden
  BY <1>13, KeyWhileHiddenInv
<1>14. CASE Boot
  BY <1>14, BootInv
<1>15. CASE Edit
  BY <1>15, EditInv
<1>16. CASE DeleteLine
  BY <1>16, DeleteLineInv
<1>17. CASE LeaveEditor
  BY <1>17, LeaveEditorInv
<1>18. CASE PromptKey
  BY <1>18, ToMenuInv DEF PromptKey
<1>19. ASSUME NEW k \in menu.keys, Move(k) \/ InsertLine(k)
       PROVE  Inv'
  BY <1>19, MoveInv, InsertLineInv
<1>20. ASSUME NEW d \in Digits, Digit(d)
       PROVE  Inv'
  BY <1>20, DigitInv
<1>21. CASE Crash
  BY <1>21, RestartedInv DEF Crash
<1>22. CASE Reset
  BY <1>22, RestartedInv DEF Reset
<1>23. CASE UNCHANGED vars
  <2>1. /\ menu' = menu /\ phase' = phase /\ view' = view /\ num' = num
        /\ fallbacks' = fallbacks /\ fallbackno' = fallbackno /\ default' = default
        /\ timeout' = timeout /\ tempNum' = tempNum /\ outer' = outer /\ lines' = lines
        /\ script' = script /\ current' = current /\ count' = count /\ saved' = saved
    BY <1>23 DEF vars
  <2>2. Numbers' /\ Edited' /\ Shown' /\ Booted'
    BY <2>1 DEF Inv, Numbers, Commands, Edited, Editing, Shown, OnEntry, InBox, Booted
  <2>3. Listed'
    BY <2>1 DEF Inv, Listed, ListOK, Named
  <2> QED
    BY <2>2, <2>3 DEF Inv
<1> QED
  BY <1>1, <1>2, <1>3, <1>4, <1>5, <1>6, <1>7, <1>8, <1>9, <1>10, <1>11, <1>12, <1>13,
     <1>14, <1>15, <1>16, <1>17, <1>18, <1>19, <1>20, <1>21, <1>22, <1>23
     DEF Next, Program, User

\* The highlighted entry of every menu is one of its entries and in the box
\* whenever the menu waits for a key: after any keys, digits, pages, edits and
\* boots, and after any turn of the fallback loop (run_menu moves first_entry,
\* entryno and num_entries apart at some twenty places).
THEOREM Highlighting ==
  ASSUME SoundMenus
  PROVE  Spec => []HighlightInMenu
<1>1. Init => Inv
  <2> SUFFICES ASSUME Init PROVE Inv
    OBVIOUS
  <2>1. Empty /\ menu \in Menus /\ saved \in Nat
    BY DEF Init, Empty
  <2> QED
    BY <2>1, EmptyInv
<1>2. Inv /\ [Next]_vars => Inv'
  BY Step
<1>3. Inv => HighlightInMenu
  <2> SUFFICES ASSUME Inv, phase = "menu", outer = NoView
               PROVE  /\ view.first >= 0 /\ view.entry \in 0 .. MENU_BOX_H - 1
                      /\ Here < num
    BY DEF HighlightInMenu, Editing
  <2>1. num = Size(menu) /\ OnEntry(view) /\ InBox(view) /\ view \in View
    BY DEF Inv, Shown, Editing, Numbers
  <2>2. view.first \in Nat /\ view.entry \in Nat
    BY <2>1, ViewFacts
  <2>3. view.entry \in 0 .. MENU_BOX_H - 1
    BY <2>1, <2>2, Bounds DEF InBox
  <2> QED
    BY <2>1, <2>2, <2>3 DEF OnEntry, Here
<1> QED
  BY <1>1, <1>2, <1>3, PTL DEF Spec

-----------------------------------------------------------------------------
(* The order of an unattended boot *)

\* The list of a menu names no entry twice and fits the table. (Behind a number
\* that comes again fallback_func stops, with the list half rewritten.)
OnceEach(m) == Distinct(m.fallback) /\ Len(m.fallback) <= MAX_FALLBACK_ENTRIES

Given == menu.fallback
Valids == Valid(menu)

\* The table while the check is at the entry after the first j of the file: those
\* of them the menu has, the rest of the file, and its end.
Compressed(j) ==
  LET front == Present(menu)[j]
      n == Len(front)
  IN  [k \in Rows |-> IF k < n THEN front[k + 1]
                      ELSE IF k < n + (Len(Given) - j) THEN Given[j + 1 + (k - n)]
                      ELSE -1]
Complete == [k \in Rows |-> IF k < Len(Valids) THEN Valids[k + 1] ELSE -1]

\* What is in the chain before the entries of the list: the default entry, unless
\* the first of them has taken its place.
Lead == IF hist.wanted >= Size(menu) /\ Valids # <<>> THEN 0 ELSE 1

\* The list goes on with its n-th entry, counted from 0, or is at its end.
NextIs(n) ==
  /\ n \in 0 .. Len(Valids)
  /\ fallbackno = IF n < Len(Valids) THEN n ELSE -1

History == [keyed : BOOLEAN, tried : Seq(Nat), wanted : Nat, resets : Nat]

\* The list is the file's while it is checked and that of the menu's entries later.
Listing ==
  /\ phase = "check" =>
       /\ \E j \in 0 .. Len(Given) : count = Len(Present(menu)[j]) /\ fallbacks = Compressed(j)
       /\ fallbackno = (IF Given = <<>> THEN -1 ELSE 0)
       /\ default = hist.wanted /\ ~hist.keyed /\ hist.tried = <<>>
  /\ phase \notin {"load", "check"} => fallbacks = Complete

\* What has been tried is a beginning of the chain, and what is next in the list
\* is next in the chain.
InOrder ==
  LET n == Len(hist.tried)
  IN  /\ n <= Len(Chain) /\ \A i \in 1 .. n : hist.tried[i] = Chain[i]
      /\ phase # "load" => ~Editing
      /\ phase \in {"restart", "menu", "hidden"} /\ timeout >= 0 =>
           n = 0 /\ Here = Chain[1] /\ NextIs(1 - Lead)
      /\ phase = "boot" =>
           /\ timeout = -1 /\ script = FromTitles
           /\ n < Len(Chain) /\ Here = Chain[n + 1] /\ NextIs(n + 1 - Lead)
      /\ phase = "script" =>
           /\ timeout = -1 /\ n > 0 /\ current = Chain[n] /\ NextIs(n - Lead)
      /\ phase = "prompt" => n = Len(Chain)

Order ==
  /\ hist \in History /\ timeout \in Int
  /\ Plain(menu) => Listing /\ (~hist.keyed => InOrder)

-----------------------------------------------------------------------------
(* The entries of the list that the menu has *)

Had(m, p, n) ==
  IF n = 0 THEN <<>>
  ELSE IF m.fallback[n] < Size(m) THEN Append(p[n - 1], m.fallback[n])
  ELSE p[n - 1]

\* Present is the function its definition says: there is one.
LEMMA PresentIs ==
  ASSUME NEW m, Len(m.fallback) \in Nat
  PROVE  Present(m) = [n \in 0 .. Len(m.fallback) |-> Had(m, Present(m), n)]
<1> DEFINE upto(p, b) == p = [n \in 0 .. b |-> Had(m, p, n)]
           N == Len(m.fallback)
           bad == {b \in Nat : ~ \E p : upto(p, b)}
<1>1. ASSUME bad # {} PROVE FALSE
  <2>1. PICK b \in bad : \A c \in bad : b <= c
    <3>1. bad \in SUBSET Nat
      OBVIOUS
    <3> HIDE DEF bad
    <3> QED
      BY <1>1, <3>1, Least
  <2>2. b # 0
    <3>1. \E p : upto(p, 0)
      <4>1. upto([n \in 0 .. 0 |-> <<>>], 0)
        BY DEF Had
      <4> QED
        BY <4>1
    <3> QED
      BY <2>1, <3>1
  <2>3. b \in Nat /\ b - 1 \in Nat /\ b - 1 \notin bad
    <3>1. b \in Nat
      BY <2>1
    <3>2. b - 1 \in Nat /\ ~(b <= b - 1)
      BY <2>2, <3>1
    <3> HIDE DEF bad
    <3> QED
      BY <2>1, <3>1, <3>2
  <2>4. PICK p : upto(p, b - 1)
    BY <2>3
  <2> DEFINE q == [n \in 0 .. b |-> IF n = b THEN Had(m, p, b) ELSE p[n]]
  <2>5. upto(q, b)
    <3>1. \A n \in 0 .. b : q[n] = Had(m, q, n)
      <4> TAKE n \in 0 .. b
      <4>1. \A k \in 0 .. b - 1 : q[k] = p[k]
        BY <2>3
      <4>2. n # 0 => n - 1 \in 0 .. b - 1
        BY <2>3
      <4>3. Had(m, q, n) = Had(m, p, n)
        BY <4>1, <4>2 DEF Had
      <4>4. n # b => n \in 0 .. b - 1
        BY <2>3
      <4>5. n # b => p[n] = Had(m, p, n)
        BY <2>4, <4>4
      <4> QED
        BY <4>3, <4>5
    <3> QED
      BY <3>1
  <2>6. b \notin bad
    BY <2>5
  <2> QED
    BY <2>1, <2>6
<1>2. \E p : upto(p, N)
  BY <1>1
<1>3. Present(m) = CHOOSE p : upto(p, N)
  BY DEF Present, Had
<1>4. upto(Present(m), N)
  <2> HIDE DEF upto
  <2> QED
    BY <1>2, <1>3
<1> QED
  BY <1>4

\* They are entries of the menu, in number at most those read, none twice.
LEMMA PresentFacts ==
  ASSUME SoundMenus, menu \in Menus, OnceEach(menu)
  PROVE  LET s == menu.fallback
             p == Present(menu)
         IN  /\ s \in Seq(Nat) /\ Len(s) \in Nat /\ Len(s) <= MAX_FALLBACK_ENTRIES
             /\ p[0] = <<>>
             /\ \A n \in 1 .. Len(s) :
                  p[n] = IF s[n] < Size(menu) THEN Append(p[n - 1], s[n]) ELSE p[n - 1]
             /\ \A n \in 0 .. Len(s) :
                  /\ p[n] \in Seq(Nat) /\ Len(p[n]) <= n
                  /\ \A i \in 1 .. Len(p[n]) :
                       p[n][i] < Size(menu) /\ \E k \in 1 .. n : p[n][i] = s[k]
                  /\ Distinct(p[n])
<1> DEFINE s == menu.fallback
           p == Present(menu)
           N == Len(s)
           good(n) == /\ p[n] \in Seq(Nat) /\ Len(p[n]) <= n
                      /\ \A i \in 1 .. Len(p[n]) :
                           p[n][i] < Size(menu) /\ \E k \in 1 .. n : p[n][i] = s[k]
                      /\ Distinct(p[n])
           bad == {n \in 0 .. N : ~ good(n)}
<1>1. /\ s \in Seq(Nat) /\ N \in Nat /\ N <= MAX_FALLBACK_ENTRIES
      /\ \A i \in 1 .. N : s[i] \in Nat
      /\ \A i, j \in 1 .. N : s[i] = s[j] => i = j
  <2>1. s \in Seq(Nat)
    BY MenuFacts
  <2>2. N \in Nat /\ DOMAIN s = 1 .. N /\ \A i \in 1 .. N : s[i] \in Nat
    BY <2>1, LenProperties, ElementOfSeq
  <2> QED
    BY <2>1, <2>2 DEF OnceEach, Distinct
<1>2. p = [n \in 0 .. N |-> Had(menu, p, n)]
  BY <1>1, PresentIs
<1>3. p[0] = <<>>
  BY <1>1, <1>2 DEF Had
<1>4. \A n \in 1 .. N : p[n] = IF s[n] < Size(menu) THEN Append(p[n - 1], s[n]) ELSE p[n - 1]
  <2> TAKE n \in 1 .. N
  <2> HIDE DEF p
  <2>1. n \in 0 .. N /\ n # 0
    BY <1>1
  <2>2. p[n] = Had(menu, p, n)
    BY <1>2, <2>1
  <2> QED
    BY <2>1, <2>2 DEF Had
<1> HIDE DEF p, s
<1>5. good(0)
  <2>1. Len(<<>>) = 0 /\ <<>> \in Seq(Nat) /\ DOMAIN <<>> = {} /\ 1 .. 0 = {}
    OBVIOUS
  <2> QED
    BY <1>3, <2>1 DEF Distinct
<1>6. ASSUME NEW n \in 1 .. N, good(n - 1) PROVE good(n)
  <2> DEFINE t == p[n - 1]
             u == Append(t, s[n])
  <2>1. /\ t \in Seq(Nat) /\ Len(t) \in Nat /\ Len(t) <= n - 1 /\ DOMAIN t = 1 .. Len(t)
        /\ \A i \in 1 .. Len(t) : t[i] < Size(menu) /\ \E k \in 1 .. n - 1 : t[i] = s[k]
        /\ \A i, j \in 1 .. Len(t) : t[i] = t[j] => i = j
        /\ s[n] \in Nat /\ n \in Nat
    <3>1. t \in Seq(Nat) /\ Len(t) <= n - 1 /\ Distinct(t)
          /\ \A i \in 1 .. Len(t) : t[i] < Size(menu) /\ \E k \in 1 .. n - 1 : t[i] = s[k]
      BY <1>6
    <3>2. s[n] \in Nat /\ n \in Nat
      BY <1>1
    <3> HIDE DEF t
    <3> QED
      BY <3>1, <3>2, LenProperties DEF Distinct
  <2>2. \A k \in 1 .. n - 1 : k \in 1 .. n /\ k \in 1 .. N /\ s[k] # s[n]
    BY <1>1, <2>1
  <2> HIDE DEF t
  <2>3. CASE p[n] = t
    <3>1. Len(t) <= n
      BY <2>1
    <3>2. \A i \in 1 .. Len(t) : \E k \in 1 .. n : t[i] = s[k]
      BY <2>1, <2>2
    <3> QED
      BY <2>1, <2>3, <3>1, <3>2 DEF Distinct
  <2>4. CASE p[n] = u /\ s[n] < Size(menu)
    <3>1. /\ u \in Seq(Nat) /\ Len(u) = Len(t) + 1 /\ u[Len(t) + 1] = s[n]
          /\ \A i \in 1 .. Len(t) : u[i] = t[i]
      BY <2>1, AppendProperties
    <3> HIDE DEF u
    <3>2. Len(u) <= n /\ DOMAIN u = 1 .. Len(u)
      BY <2>1, <3>1, LenProperties
    <3>3. \A i \in 1 .. Len(u) : i \in 1 .. Len(t) \/ i = Len(t) + 1
      BY <2>1, <3>1
    <3>4. \A i \in 1 .. Len(t) : t[i] < Size(menu) /\ t[i] # s[n] /\ \E k \in 1 .. n : t[i] = s[k]
      BY <2>1, <2>2
    <3>5. \A i \in 1 .. Len(u) : u[i] < Size(menu) /\ \E k \in 1 .. n : u[i] = s[k]
      <4>1. n \in 1 .. n
        BY <2>1
      <4>2. ASSUME NEW i \in 1 .. Len(t)
            PROVE  u[i] < Size(menu) /\ \E k \in 1 .. n : u[i] = s[k]
        BY <3>1, <3>4
      <4>3. u[Len(t) + 1] < Size(menu) /\ \E k \in 1 .. n : u[Len(t) + 1] = s[k]
        BY <2>4, <3>1, <4>1
      <4> QED
        BY <3>3, <4>2, <4>3, Zenon
    <3>6. \A i, j \in 1 .. Len(u) : u[i] = u[j] => i = j
      BY <2>1, <3>1, <3>3, <3>4
    <3> QED
      BY <2>4, <3>1, <3>2, <3>5, <3>6 DEF Distinct
  <2> QED
    BY <1>4, <2>3, <2>4 DEF t
<1>7. \A n \in 0 .. N : good(n)
  <2> SUFFICES ASSUME bad # {} PROVE FALSE
    OBVIOUS
  <2>1. bad \in SUBSET Nat /\ bad \subseteq 0 .. N
    BY <1>1
  <2>2. PICK n \in bad : \A k \in bad : n <= k
    <3> HIDE DEF bad
    <3> QED
      BY <2>1, Least
  <2>3. n \in 0 .. N /\ n # 0
    BY <1>5, <2>2
  <2>4. n \in 1 .. N /\ n - 1 \in 0 .. N /\ ~(n <= n - 1)
    BY <1>1, <2>3
  <2>5. n - 1 \notin bad
    <3> HIDE DEF bad
    <3> QED
      BY <2>2, <2>4
  <2>6. good(n - 1)
    BY <2>4, <2>5
  <2> QED
    BY <1>6, <2>2, <2>4, <2>6
<1> QED
  BY <1>1, <1>3, <1>4, <1>7 DEF p, s

\* The list once it is checked: the numbers of entries of the menu, each once.
LEMMA ValidFacts ==
  ASSUME SoundMenus, menu \in Menus, OnceEach(menu)
  PROVE  /\ Valids \in Seq(Nat) /\ Len(Valids) \in Nat /\ Len(Valids) <= MAX_FALLBACK_ENTRIES
         /\ \A i \in 1 .. Len(Valids) : Valids[i] \in Nat /\ Valids[i] < Size(menu)
         /\ \A i \in 1 .. Len(Valids) : \E k \in 1 .. Len(Given) : Valids[i] = Given[k]
         /\ \A i, j \in 1 .. Len(Valids) : Valids[i] = Valids[j] => i = j
         /\ Valids = <<>> <=> Len(Valids) = 0
         /\ DOMAIN Complete = Rows
         /\ \A k \in Rows : Complete[k] = IF k < Len(Valids) THEN Valids[k + 1] ELSE -1
         /\ \A k \in 0 .. Len(Valids) - 1 : k \in Rows /\ Complete[k] = Valids[k + 1]
<1> DEFINE N == Len(menu.fallback)
           V == Valids
<1>1. N \in Nat /\ N <= MAX_FALLBACK_ENTRIES
  BY PresentFacts
<1>2. N \in 0 .. N
  BY <1>1
<1>3. V = Present(menu)[N]
  BY DEF Valids, Valid
<1>4. /\ V \in Seq(Nat) /\ Len(V) <= N
      /\ \A i \in 1 .. Len(V) : V[i] < Size(menu) /\ \E k \in 1 .. N : V[i] = menu.fallback[k]
      /\ Distinct(V)
  BY <1>2, <1>3, PresentFacts
<1>5. DOMAIN Complete = Rows /\ \A k \in Rows : Complete[k] = IF k < Len(V) THEN V[k + 1] ELSE -1
  BY DEF Complete
<1> HIDE DEF V
<1>6. /\ Len(V) \in Nat /\ Len(V) <= MAX_FALLBACK_ENTRIES /\ DOMAIN V = 1 .. Len(V)
      /\ \A i \in 1 .. Len(V) : V[i] \in Nat /\ (V = <<>> <=> Len(V) = 0)
  BY <1>1, <1>4, Bounds, LenProperties, ElementOfSeq
<1>7. V = <<>> <=> Len(V) = 0
  BY <1>4, EmptySeq
<1>8. \A k \in 0 .. Len(V) - 1 : k \in Rows /\ k < Len(V)
  BY <1>6, Bounds DEF Rows
<1>9. \A i, j \in 1 .. Len(V) : V[i] = V[j] => i = j
  BY <1>4, <1>6 DEF Distinct
<1> QED
  BY <1>4, <1>5, <1>6, <1>7, <1>8, <1>9 DEF V, Given

LEMMA ChainFacts ==
  ASSUME SoundMenus, menu \in Menus, OnceEach(menu), hist \in History
  PROVE  /\ Lead \in {0, 1} /\ (Lead = 0 => Len(Valids) > 0)
         /\ Chain \in Seq(Nat) /\ Len(Chain) = Len(Valids) + Lead /\ Len(Chain) > 0
         /\ \A k \in 0 .. Len(Valids) - 1 : Chain[k + 1 + Lead] = Valids[k + 1]
         /\ hist.wanted < Size(menu) => Lead = 1 /\ Chain[1] = hist.wanted
         /\ hist.wanted >= Size(menu) /\ Valids = <<>> => Lead = 1 /\ Chain[1] = 0
         /\ hist.wanted >= Size(menu) /\ Valids # <<>> => Lead = 0 /\ Chain[1] = Valids[1]
<1> DEFINE V == Valids
           d == hist.wanted
           S == Size(menu)
<1>1. V \in Seq(Nat) /\ Len(V) \in Nat /\ (V = <<>> <=> Len(V) = 0)
  BY ValidFacts
<1>2. d \in Nat /\ S \in Nat
  BY MenuFacts DEF History
<1>3. Lead = IF d >= S /\ V # <<>> THEN 0 ELSE 1
  BY DEF Lead
<1>4. CASE d < S
  <2>1. Chain = <<d>> \o V /\ Lead = 1
    BY <1>2, <1>3, <1>4 DEF Chain, Valids
  <2> HIDE DEF V
  <2>2. /\ <<d>> \o V \in Seq(Nat) /\ Len(<<d>> \o V) = 1 + Len(V) /\ (<<d>> \o V)[1] = d
        /\ \A k \in 0 .. Len(V) - 1 : (<<d>> \o V)[k + 2] = V[k + 1]
    BY <1>1, <1>2, ConcatProperties
  <2>3. \A k \in 0 .. Len(V) - 1 : k + 1 + 1 = k + 2
    BY <1>1
  <2>4. ~(d >= S)
    BY <1>2, <1>4
  <2> QED
    BY <1>1, <2>1, <2>2, <2>3, <2>4 DEF V
<1>5. CASE d >= S /\ V # <<>>
  <2>1. Chain = V /\ Lead = 0
    BY <1>2, <1>3, <1>5 DEF Chain, Valids
  <2>2. \A k \in 0 .. Len(V) - 1 : k + 1 + 0 = k + 1
    BY <1>1
  <2>3. ~(d < S)
    BY <1>2, <1>5
  <2> QED
    BY <1>1, <1>5, <2>1, <2>2, <2>3
<1>6. CASE d >= S /\ V = <<>>
  <2>1. Chain = <<0>> /\ Lead = 1
    BY <1>2, <1>3, <1>6 DEF Chain, Valids
  <2>2. <<0>> \in Seq(Nat) /\ Len(<<0>>) = 1 /\ <<0>>[1] = 0 /\ Len(<<>>) = 0
    OBVIOUS
  <2>3. 0 .. Len(V) - 1 = {} /\ ~(d < S)
    BY <1>1, <1>2, <1>6
  <2> QED
    BY <1>1, <1>6, <2>1, <2>2, <2>3
<1> QED
  BY <1>2, <1>4, <1>5, <1>6

\* The index after one that is in the list.
LEMMA AfterIs ==
  ASSUME SoundMenus, menu \in Menus, OnceEach(menu), NEW n \in 0 .. Len(Valids) - 1
  PROVE  After(Complete, n) = IF n + 1 < Len(Valids) THEN n + 1 ELSE -1
<1> DEFINE L == Len(Valids)
<1>1. L \in Nat /\ L <= MAX_FALLBACK_ENTRIES /\ MAX_FALLBACK_ENTRIES \in Nat
  BY ValidFacts, Bounds
<1> HIDE DEF L
<1>2. n \in Nat /\ n < L
  BY <1>1 DEF L
<1>3. CASE n + 1 < L
  <2>1. n + 1 \in 0 .. L - 1 /\ n + 2 \in 1 .. L /\ (n + 1) + 1 = n + 2
    BY <1>1, <1>2, <1>3
  <2>2. Complete[n + 1] = Valids[n + 2]
    BY <2>1, ValidFacts DEF L
  <2>3. Valids[n + 2] \in Nat
    BY <2>1, ValidFacts DEF L
  <2>4. ~(n + 1 >= MAX_FALLBACK_ENTRIES) /\ ~(Complete[n + 1] < 0)
    BY <1>1, <1>2, <1>3, <2>2, <2>3
  <2> QED
    BY <1>3, <2>4 DEF After, L
<1>4. CASE ~(n + 1 < L)
  <2>1. CASE n + 1 >= MAX_FALLBACK_ENTRIES
    BY <1>4, <2>1 DEF After, L
  <2>2. CASE ~(n + 1 >= MAX_FALLBACK_ENTRIES)
    <3>1. n + 1 \in Rows
      BY <1>1, <1>2, <2>2 DEF Rows
    <3>2. Complete[n + 1] = -1
      BY <1>4, <3>1, ValidFacts DEF L
    <3> QED
      BY <1>4, <3>2 DEF After, L
  <2> QED
    BY <2>1, <2>2
<1> QED
  BY <1>3, <1>4

-----------------------------------------------------------------------------
(* Steps that keep the order *)

OnceMenus == \A m \in Menus : Plain(m) => OnceEach(m)

LEMMA LoadMenuOrder ==
  ASSUME SoundMenus, OnceMenus, Inv, Order, LoadMenu
  PROVE  Order'
<1> DEFINE list == [fallbacks EXCEPT ![0] = -1]
           r == FallbackFunc(list, -1, menu.fallback)
           d == IF menu.default = -1 THEN saved ELSE menu.default
<1>1. /\ phase = "load" /\ phase' = "check" /\ menu' = menu /\ menu \in Menus
      /\ outer' = outer /\ outer = NoView /\ count' = 0 /\ fallbacks = NoFallbacks
  BY Zenon DEF LoadMenu, Inv, Listed, Edited, Editing, Numbers
<1>2. /\ fallbacks' = r.list /\ fallbackno' = r.no /\ default' = d
      /\ hist' = [hist EXCEPT !.keyed = FALSE, !.tried = <<>>, !.wanted = d]
  BY DEF LoadMenu
<1>3. d \in Nat
  BY <1>1, MenuFacts DEF Inv, Numbers
<1> HIDE DEF d
<1>4. /\ hist' \in History /\ ~hist'.keyed /\ hist'.tried = <<>> /\ hist'.wanted = d
  <2>1. <<>> \in Seq(Nat)
    OBVIOUS
  <2> QED
    BY <1>2, <1>3, <2>1 DEF Order, History
<1>5. ASSUME Plain(menu) PROVE Listing' /\ InOrder'
  <2>1. OnceEach(menu) /\ OnceEach(menu)' /\ (menu \in Menus)'
    BY <1>1, <1>5 DEF OnceMenus
  <2>2. /\ menu.fallback \in Seq(Nat) /\ Len(Given) \in Nat /\ Present(menu)[0] = <<>>
        /\ Distinct(menu.fallback) /\ Len(menu.fallback) <= MAX_FALLBACK_ENTRIES
    BY <1>1, <2>1, PresentFacts DEF Given, OnceEach
  <2>3. DOMAIN list = Rows /\ \A k \in Rows : list[k] = -1
    BY <1>1 DEF NoFallbacks, Rows
  <2> HIDE DEF list
  <2>4. /\ r.list = [k \in Rows |-> IF k < Len(Given) THEN Given[k + 1] ELSE -1]
        /\ r.no = IF Len(Given) = 0 THEN -1 ELSE 0
    <3>1. r.list = [k \in Rows |-> r.list[k]]
      BY <2>3 DEF FallbackFunc
    <3>2. r = FallbackFunc(list, -1, menu.fallback)
      OBVIOUS
    <3> HIDE DEF r
    <3>3. /\ \A k \in Rows : r.list[k] = IF k < Len(menu.fallback) THEN menu.fallback[k + 1] ELSE -1
          /\ r.no = IF Len(menu.fallback) = 0 THEN -1 ELSE 0
      BY <2>2, <2>3, <3>2, Read
    <3> QED
      BY <3>1, <3>3 DEF Given
  <2>5. Compressed(0)' = [k \in Rows |-> IF k < Len(Given) THEN Given[k + 1] ELSE -1]
    <3>1. Given' = Given /\ Present(menu') = Present(menu)
      BY <1>1 DEF Given
    <3>2. Compressed(0)' =
            [k \in Rows |-> IF k < 0 THEN <<>>[k + 1]
                            ELSE IF k < 0 + (Len(Given) - 0) THEN Given[0 + 1 + (k - 0)]
                            ELSE -1]
      BY <2>2, <3>1 DEF Compressed
    <3>3. \A k \in Rows : /\ ~(k < 0) /\ 0 + 1 + (k - 0) = k + 1
                          /\ k < 0 + (Len(Given) - 0) <=> k < Len(Given)
      BY <2>2 DEF Rows
    <3> QED
      BY <3>2, <3>3
  <2>6. Given' = Given /\ (Given = <<>> <=> Len(Given) = 0)
    BY <1>1, <2>2, EmptySeq DEF Given
  <2>7. Listing'
    <3>1. 0 \in (0 .. Len(Given))' /\ Len(<<>>) = 0
      BY <2>2, <2>6
    <3>2. \E j \in (0 .. Len(Given))' : count' = Len(Present(menu')[j]) /\ fallbacks' = Compressed(j)'
      BY <1>1, <1>2, <2>2, <2>4, <2>5, <3>1
    <3> QED
      BY <1>1, <1>2, <1>4, <2>4, <2>6, <3>2 DEF Listing
  <2>8. Len(Chain') \in Nat
    <3>1. SoundMenus' /\ (hist \in History)'
      BY <1>4
    <3>2. (Chain \in Seq(Nat))'
      BY <2>1, <3>1, ChainFacts, PTL
    <3> QED
      BY <3>2, LenProperties
  <2>9. InOrder'
    <3>1. Len(<<>>) = 0 /\ 1 .. 0 = {}
      OBVIOUS
    <3>2. 0 <= Len(Chain')
      BY <2>8
    <3> QED
      BY <1>1, <1>4, <3>1, <3>2 DEF InOrder, Editing
  <2> QED
    BY <2>7, <2>9
<1>6. timeout' \in Int
  BY <1>1, MenuFacts DEF LoadMenu
<1> QED
  BY <1>1, <1>4, <1>5, <1>6 DEF Order

\* The chain is that of the menu and of the default entry it was read with.
LEMMA SameChain ==
  ASSUME menu' = menu, hist'.wanted = hist.wanted
  PROVE  Chain' = Chain /\ Lead' = Lead /\ Valids' = Valids /\ Complete' = Complete
         /\ Given' = Given /\ \A j : Compressed(j)' = Compressed(j)
BY DEF Chain, Lead, Valids, Complete, Given, Compressed

LEMMA CheckFallbackOrder ==
  ASSUME SoundMenus, OnceMenus, Inv, Order, CheckFallback
  PROVE  Order'
<1> DEFINE f == fallbacks
           p == Present(menu)
           N == Len(Given)
<1>1. /\ phase = "check" /\ phase' = "check" /\ menu' = menu /\ menu \in Menus
      /\ outer' = outer /\ fallbackno' = fallbackno /\ default' = default /\ hist' = hist
      /\ timeout' = timeout /\ count < MAX_FALLBACK_ENTRIES /\ f[count] >= 0 /\ num = Size(menu) /\ count \in Nat
  BY Zenon DEF CheckFallback, Checking, Inv, Edited, Shown, Editing, Numbers, fixed, shown
<1>2. ASSUME Plain(menu) PROVE Listing'
  <2>1. /\ Given \in Seq(Nat) /\ N \in Nat /\ N <= MAX_FALLBACK_ENTRIES
        /\ \A n \in 1 .. N :
             p[n] = IF Given[n] < Size(menu) THEN Append(p[n - 1], Given[n]) ELSE p[n - 1]
        /\ \A n \in 0 .. N : p[n] \in Seq(Nat) /\ Len(p[n]) <= n
    BY <1>1, <1>2, PresentFacts DEF OnceMenus, Given
  <2>2. PICK j \in 0 .. N : count = Len(p[j]) /\ f = Compressed(j)
    BY <1>1, <1>2 DEF Order, Listing
  <2> DEFINE front == p[j]
             c == count
  <2>3. \A k \in Rows : f[k] = IF k < c THEN front[k + 1]
                               ELSE IF k < c + (N - j) THEN Given[j + 1 + (k - c)] ELSE -1
    BY <2>2 DEF Compressed
  <2>4. /\ j \in Nat /\ j <= N /\ c \in Nat /\ c <= j /\ c \in Rows /\ N \in Nat
        /\ front \in Seq(Nat) /\ Len(front) = c
    BY <1>1, <2>1, <2>2, Bounds DEF Rows
  <2> HIDE DEF f, p, front, c, N
  <2>5. j < N
    <3>1. f[c] >= 0
      BY <1>1 DEF c, f
    <3>2. ~(c < c) /\ (j = N => ~(c < c + (N - j)))
      BY <2>4
    <3>3. f[c] = IF c < c + (N - j) THEN Given[j + 1 + (c - c)] ELSE -1
      BY <2>3, <2>4, <3>2
    <3>4. j # N
      BY <3>1, <3>2, <3>3
    <3> QED
      BY <2>4, <3>4
  <2>6. j + 1 \in 1 .. N /\ j + 1 \in 0 .. N /\ (j + 1) - 1 = j
    BY <2>4, <2>5
  <2>7. f[c] = Given[j + 1]
    <3>1. ~(c < c) /\ c < c + (N - j) /\ j + 1 + (c - c) = j + 1
      BY <2>4, <2>5
    <3> QED
      BY <2>3, <2>4, <3>1
  <2>8. p[j + 1] = IF Given[j + 1] < Size(menu) THEN Append(front, Given[j + 1]) ELSE front
    BY <2>1, <2>6 DEF front
  <2>9. Given[j + 1] \in Nat /\ Size(menu) \in Nat
    BY <1>1, <2>1, <2>6, ElementOfSeq, MenuFacts DEF N
  <2> DEFINE next == p[j + 1]
             n == Len(next)
             g == [k \in Rows |-> IF k < n THEN next[k + 1]
                                  ELSE IF k < n + (N - (j + 1)) THEN Given[(j + 1) + 1 + (k - n)]
                                  ELSE -1]
  <2>10. g = Compressed(j + 1)
    BY DEF Compressed, p, N
  <2>11. count' = n /\ fallbacks' = g
    <3>1. CASE Given[j + 1] >= Size(menu)
      <4>1. next = front /\ n = c
        BY <2>4, <2>8, <2>9, <3>1
      <4>2. /\ count' = c
            /\ fallbacks' = [k \in DOMAIN f |-> IF k >= c /\ k + 1 \in DOMAIN f
                                                THEN f[k + 1] ELSE f[k]]
        BY <1>1, <2>7, <3>1 DEF CheckFallback, f, c
      <4>3. DOMAIN f = Rows
        BY DEF Inv, Listed, ListOK, Rows, f
      <4>4. N < MAX_FALLBACK_ENTRIES
        <5>1. ~(Given[j + 1] < Size(menu))
          BY <2>9, <3>1
        <5>2. j + 1 \in DOMAIN Given
          BY <2>1, <2>6, LenProperties DEF N
        <5> QED
          BY <1>1, <5>1, <5>2, MenuFacts DEF Given, N
      <4>5. ASSUME NEW k \in Rows
            PROVE  fallbacks'[k] = IF k < c THEN front[k + 1]
                                   ELSE IF k < c + (N - (j + 1)) THEN Given[(j + 1) + 1 + (k - c)]
                                   ELSE -1
        <5>1. k \in Nat /\ MAX_FALLBACK_ENTRIES \in Nat /\ k < MAX_FALLBACK_ENTRIES
              /\ (k + 1 \in Rows <=> k + 1 < MAX_FALLBACK_ENTRIES)
          BY Bounds DEF Rows
        <5>2. CASE k < c
          <6>1. fallbacks'[k] = f[k]
            BY <2>4, <4>2, <4>3, <5>1, <5>2
          <6> QED
            BY <2>3, <5>2, <6>1
        <5>3. CASE k >= c /\ k + 1 \in Rows
          <6>1. fallbacks'[k] = f[k + 1]
            BY <4>2, <4>3, <5>3
          <6>2. /\ ~(k < c) /\ ~(k + 1 < c) /\ j + 1 + ((k + 1) - c) = (j + 1) + 1 + (k - c)
                /\ (k + 1 < c + (N - j) <=> k < c + (N - (j + 1)))
            BY <2>4, <5>1, <5>3
          <6> QED
            BY <2>3, <5>3, <6>1, <6>2
        <5>4. CASE k >= c /\ k + 1 \notin Rows
          <6>1. fallbacks'[k] = f[k]
            BY <4>2, <4>3, <5>4
          <6>2. /\ ~(k < c) /\ ~(k < c + (N - j)) /\ ~(k < c + (N - (j + 1)))
            BY <2>4, <4>4, <5>1, <5>4
          <6> QED
            BY <2>3, <6>1, <6>2
        <5> QED
          BY <2>4, <5>1, <5>2, <5>3, <5>4
      <4> QED
        BY <4>1, <4>2, <4>3, <4>5
    <3>2. CASE ~(Given[j + 1] >= Size(menu))
      <4>1. count' = c + 1 /\ fallbacks' = f
        BY <1>1, <2>7, <3>2 DEF CheckFallback, f, c
      <4>2. next = Append(front, Given[j + 1])
        BY <2>8, <2>9, <3>2
      <4>3. /\ n = c + 1 /\ next[c + 1] = Given[j + 1]
            /\ \A k \in 1 .. c : next[k] = front[k]
        BY <2>4, <2>9, <4>2, AppendProperties
      <4>4. f = [k \in Rows |-> f[k]]
        BY <2>2 DEF Compressed
      <4> HIDE DEF next, n
      <4>5. ASSUME NEW k \in Rows
            PROVE  f[k] = IF k < n THEN next[k + 1]
                          ELSE IF k < n + (N - (j + 1)) THEN Given[(j + 1) + 1 + (k - n)]
                          ELSE -1
        <5>1. k \in Nat
          BY Bounds DEF Rows
        <5>2. CASE k < c
          <6>1. k < n /\ k + 1 \in 1 .. c
            BY <2>4, <4>3, <5>1, <5>2
          <6> QED
            BY <2>3, <4>3, <5>2, <6>1
        <5>3. CASE k = c
          <6>1. k < n
            BY <2>4, <4>3, <5>3
          <6> QED
            BY <2>7, <4>3, <5>3, <6>1
        <5>4. CASE k > c
          <6>1. /\ ~(k < c) /\ ~(k < n) /\ j + 1 + (k - c) = (j + 1) + 1 + (k - n)
                /\ (k < c + (N - j) <=> k < n + (N - (j + 1)))
            BY <2>4, <4>3, <5>1, <5>4
          <6> QED
            BY <2>3, <6>1
        <5> QED
          BY <2>4, <5>1, <5>2, <5>3, <5>4
      <4> QED
        BY <4>1, <4>3, <4>4, <4>5, Zenon
    <3> QED
      BY <3>1, <3>2
  <2>12. \E i \in 0 .. Len(Given)' : count' = Len(Present(menu')[i]) /\ fallbacks' = Compressed(i)'
    <3>1. Len(Given)' = N /\ Present(menu') = p /\ Compressed(j + 1)' = Compressed(j + 1)
      BY <1>1, SameChain DEF N, p
    <3> QED
      BY <2>6, <2>10, <2>11, <3>1
  <2> QED
    BY <1>1, <1>2, <2>12, SameChain DEF Order, Listing
<1>3. ASSUME Plain(menu), InOrder PROVE InOrder'
  BY <1>1, <1>3, SameChain DEF InOrder, Editing
<1> QED
  BY <1>1, <1>2, <1>3 DEF Order

LEMMA CheckDefaultOrder ==
  ASSUME SoundMenus, OnceMenus, Inv, Order, CheckDefault
  PROVE  Order'
<1> DEFINE f == fallbacks
           V == Valids
           N == Len(Given)
           no == IF f[0] < 0 THEN -1 ELSE fallbackno
           ok == default < num
<1>1. /\ phase = "check" /\ phase' = "restart" /\ menu' = menu /\ menu \in Menus
      /\ outer' = outer /\ outer = NoView /\ fallbacks' = f /\ hist' = hist
      /\ ~(fallbackno >= 0 /\ count < MAX_FALLBACK_ENTRIES /\ f[count] >= 0)
      /\ num = Size(menu) /\ view' = [first |-> 0, entry |-> default']
      /\ default' = (IF ok THEN default ELSE IF no >= 0 THEN f[0] ELSE 0)
      /\ fallbackno' = (IF ~ok /\ no >= 0 THEN After(f, no) ELSE no)
      /\ timeout' = timeout
  BY Zenon DEF CheckDefault, Checking, Inv, Edited, Shown, Editing, Numbers
<1>2. ASSUME Plain(menu) PROVE Listing' /\ InOrder'
  <2>1. OnceEach(menu) /\ hist \in History
    BY <1>1, <1>2 DEF OnceMenus, Order
  <2>2. /\ N \in Nat /\ N <= MAX_FALLBACK_ENTRIES /\ Present(menu)[0] = <<>>
        /\ (Given = <<>> <=> N = 0) /\ V = Present(menu)[N]
        /\ \A n \in 0 .. N : Len(Present(menu)[n]) \in Nat /\ Len(Present(menu)[n]) <= n
        /\ \A i \in 1 .. N : Given[i] \in Nat
    <3>1. /\ Given \in Seq(Nat) /\ N \in Nat /\ N <= MAX_FALLBACK_ENTRIES
          /\ Present(menu)[0] = <<>>
          /\ \A n \in 0 .. N : Present(menu)[n] \in Seq(Nat) /\ Len(Present(menu)[n]) <= n
      BY <1>1, <2>1, PresentFacts DEF Given
    <3>2. V = Present(menu)[N]
      BY DEF Valids, Valid, Given
    <3>3. Given = <<>> <=> N = 0
      BY <3>1, EmptySeq
    <3>4. \A i \in 1 .. N : Given[i] \in Nat
      BY <3>1, ElementOfSeq
    <3>5. \A n \in 0 .. N : Len(Present(menu)[n]) \in Nat
      BY <3>1, LenProperties
    <3> QED
      BY <3>1, <3>2, <3>3, <3>4, <3>5
  <2>3. PICK j \in 0 .. N : count = Len(Present(menu)[j]) /\ f = Compressed(j)
    BY <1>1, <1>2 DEF Order, Listing
  <2>4. /\ fallbackno = (IF N = 0 THEN -1 ELSE 0) /\ default = hist.wanted
        /\ ~hist.keyed /\ hist.tried = <<>>
    BY <1>1, <1>2, <2>2 DEF Order, Listing
  <2>5. j = N
    <3>1. CASE N = 0
      BY <2>3, <3>1
    <3>2. CASE N # 0
      <4>1. j \in Nat /\ j <= N /\ count \in Nat /\ count <= j
        BY <2>2, <2>3
      <4>2. ~(count < MAX_FALLBACK_ENTRIES /\ f[count] >= 0)
        BY <1>1, <2>4, <3>2
      <4>3. CASE count < MAX_FALLBACK_ENTRIES
        <5>1. count \in Rows
          BY <4>1, <4>3, Bounds DEF Rows
        <5>2. f[count] = IF count < count + (N - j) THEN Given[j + 1 + (count - count)] ELSE -1
          <6>1. ~(count < count)
            BY <4>1
          <6> QED
            BY <2>3, <5>1, <6>1 DEF Compressed
        <5>3. j < N => Given[j + 1 + (count - count)] \in Nat /\ count < count + (N - j)
          <6>1. j < N => j + 1 \in 1 .. N /\ j + 1 + (count - count) = j + 1
            BY <2>2, <4>1
          <6>2. j < N => count < count + (N - j)
            BY <2>2, <4>1
          <6> QED
            BY <2>2, <6>1, <6>2
        <5>4. \A x \in Nat : x >= 0
          OBVIOUS
        <5>5. ~(j < N)
          BY <4>2, <4>3, <5>2, <5>3, <5>4
        <5> QED
          BY <2>2, <4>1, <5>5
      <4>4. CASE ~(count < MAX_FALLBACK_ENTRIES)
        BY <2>2, <4>1, <4>4, Bounds
      <4> QED
        BY <4>3, <4>4
    <3> QED
      BY <3>1, <3>2
  <2>6. f = Complete
    <3>1. Compressed(N) = Complete
      <4> DEFINE n == Len(V)
      <4>1. n \in Nat
        BY <2>2
      <4>2. Compressed(N) = [k \in Rows |-> IF k < n THEN V[k + 1]
                                            ELSE IF k < n + (N - N) THEN Given[N + 1 + (k - n)]
                                            ELSE -1]
        BY <2>2 DEF Compressed
      <4>3. n + (N - N) = n
        BY <2>2, <4>1
      <4> QED
        BY <4>2, <4>3 DEF Complete
    <3> QED
      BY <2>3, <2>5, <3>1
  <2> HIDE DEF f, N
  <2>7. /\ Len(V) \in Nat /\ (V = <<>> <=> Len(V) = 0) /\ 0 \in Rows
        /\ (Len(V) > 0 => f[0] = V[1] /\ V[1] \in Nat) /\ (Len(V) = 0 => f[0] = -1)
    <3>1. Len(V) \in Nat /\ (V = <<>> <=> Len(V) = 0) /\ 0 \in Rows
      BY <1>1, <2>1, ValidFacts, Bounds DEF Rows
    <3>2. Len(V) > 0 => 1 \in 1 .. Len(V) /\ 0 \in 0 .. Len(V) - 1 /\ 0 + 1 = 1
      BY <3>1
    <3>3. Len(V) = 0 => ~(0 < Len(V))
      BY <3>1
    <3> QED
      BY <1>1, <2>1, <2>6, <3>1, <3>2, <3>3, ValidFacts
  <2>8. no = IF Len(V) > 0 THEN 0 ELSE -1
    <3>1. CASE Len(V) > 0
      <4>1. ~(f[0] < 0)
        BY <2>7, <3>1
      <4>2. N # 0
        <5>1. N = 0 => V = <<>> /\ Len(<<>>) = 0
          BY <2>2
        <5> QED
          BY <2>7, <3>1, <5>1
      <4> QED
        BY <2>4, <3>1, <4>1, <4>2
    <3>2. CASE ~(Len(V) > 0)
      <4>1. f[0] = -1
        BY <2>7, <3>2
      <4> QED
        BY <3>2, <4>1
    <3> QED
      BY <3>1, <3>2
  <2> HIDE DEF no
  <2>9. /\ Lead \in {0, 1} /\ Len(Chain) = Len(V) + Lead /\ Len(Chain) > 0
        /\ default < Size(menu) => Lead = 1 /\ Chain[1] = default
        /\ default >= Size(menu) /\ V = <<>> => Lead = 1 /\ Chain[1] = 0
        /\ default >= Size(menu) /\ V # <<>> => Lead = 0 /\ Chain[1] = V[1]
    BY <1>1, <2>1, <2>4, ChainFacts
  <2>10. default \in Nat /\ Size(menu) \in Nat
    BY <1>1, <2>1, <2>4, MenuFacts DEF History
  <2>11. default' = Chain[1] /\ NextIs(1 - Lead)'
    <3> DEFINE S == Size(menu)
               L == Len(V)
    <3>1. Valids' = V /\ Lead' = Lead
      BY <1>1, SameChain
    <3> HIDE DEF V, S, L
    <3>2. CASE default < S
      <4>1. default' = default /\ fallbackno' = no /\ Lead = 1
        BY <1>1, <2>9, <3>2 DEF S
      <4>2. 1 - Lead = 0 /\ 0 \in 0 .. L /\ (0 < L <=> L > 0)
        BY <2>7, <4>1 DEF L
      <4> QED
        BY <2>8, <2>9, <3>1, <3>2, <4>1, <4>2 DEF NextIs, S, L
    <3>3. CASE default >= S /\ V = <<>>
      <4>1. ~(default < S) /\ L = 0 /\ no = -1 /\ ~(no >= 0)
        BY <2>7, <2>8, <2>10, <3>3 DEF S, L
      <4>2. default' = 0 /\ fallbackno' = -1 /\ Lead = 1
        BY <1>1, <2>9, <3>3, <4>1 DEF S
      <4>3. 1 - Lead = 0 /\ 0 \in 0 .. L /\ ~(0 < L)
        BY <4>1, <4>2
      <4> QED
        BY <2>9, <3>1, <3>3, <4>2, <4>3 DEF NextIs, S, L
    <3>4. CASE default >= S /\ V # <<>>
      <4>1. ~(default < S) /\ L > 0 /\ no = 0 /\ no >= 0 /\ Lead = 0
        BY <2>7, <2>8, <2>9, <2>10, <3>4 DEF S, L
      <4>2. default' = f[0] /\ fallbackno' = After(f, 0)
        BY <1>1, <4>1 DEF S
      <4>3. f[0] = V[1]
        BY <2>7, <4>1 DEF L
      <4>4. 0 \in 0 .. L - 1 /\ 0 + 1 = 1 /\ 1 - Lead = 1 /\ 1 \in 0 .. L
        BY <2>7, <4>1 DEF L
      <4>5. After(Complete, 0) = IF 1 < L THEN 1 ELSE -1
        BY <1>1, <2>1, <4>4, AfterIs DEF L, V
      <4> QED
        BY <2>6, <2>9, <3>1, <3>4, <4>2, <4>3, <4>4, <4>5 DEF NextIs, S, L
    <3> QED
      BY <2>10, <3>2, <3>3, <3>4 DEF S
  <2>12. Here' = Chain[1]
    <3>1. default' \in Nat
      BY <1>1, <2>7, <2>8, <2>10
    <3>2. Here' = 0 + default'
      BY <1>1 DEF Here
    <3> QED
      BY <2>11, <3>1, <3>2
  <2>13. Chain' = Chain /\ Lead' = Lead /\ Complete' = Complete
    BY <1>1, SameChain
  <2>14. Len(<<>>) = 0 /\ 1 .. 0 = {} /\ 0 <= Len(Chain)
    BY <2>7, <2>9
  <2>15. Listing'
    BY <1>1, <2>6, <2>13 DEF Listing, f
  <2>16. InOrder'
    BY <1>1, <2>4, <2>11, <2>12, <2>13, <2>14 DEF InOrder, Editing
  <2> QED
    BY <2>15, <2>16
<1> QED
  BY <1>1, <1>2 DEF Order

\* Away from the menu file the list stays, and nothing is owed once a key came.
LEMMA KeyedOrder ==
  ASSUME Order, menu' = menu, phase \notin {"load", "check"}, phase' \notin {"load", "check"},
         fallbacks' = fallbacks, hist' = Keyed, timeout' \in Int
  PROVE  Order'
<1>1. hist' \in History /\ hist'.keyed
  <2>1. <<>> \in Seq(Nat)
    OBVIOUS
  <2> QED
    BY <2>1 DEF Order, History, Keyed
<1>2. Plain(menu) => Listing'
  <2>1. Complete' = Complete
    BY DEF Complete, Valids
  <2> QED
    BY <2>1 DEF Order, Listing
<1> QED
  BY <1>1, <1>2 DEF Order

LEMMA KeysOrder ==
  ASSUME Inv, Order, User
  PROVE  Order'
<1>1. ASSUME KeyDone, menu' = menu, fallbacks' = fallbacks, phase' \in {"menu", "restart", "boot"}
      PROVE  Order'
  BY <1>1, KeyedOrder DEF KeyDone
<1>2. CASE KeyWhileHidden
  <2>1. /\ phase = "hidden" /\ menu' = menu /\ fallbacks' = fallbacks /\ hist' = Keyed
        /\ phase' \in {"menu", "boot"} /\ timeout' = -1
    BY <1>2 DEF KeyWhileHidden, BootEntry, fixed, plan
  <2> QED
    BY <2>1, KeyedOrder
<1>3. CASE PromptKey
  <2>1. /\ phase \in {"prompt", "endless"} /\ menu' = menu /\ fallbacks' = fallbacks
        /\ hist' = Keyed /\ phase' = "restart" /\ timeout' \in Int
    BY <1>3 DEF PromptKey, ToMenu, fixed, plan, Order
  <2> QED
    BY <2>1, KeyedOrder
<1>4. CASE Boot
  BY <1>1, <1>4 DEF Boot, Pressed, BootEntry, fixed
<1>5. CASE Edit \/ LeaveEditor
  BY <1>1, <1>5 DEF Edit, LeaveEditor, Pressed, fixed
<1>6. CASE DeleteLine
  BY <1>1, <1>6 DEF DeleteLine, Pressed, KeyDone, fixed
<1>7. ASSUME NEW k \in menu.keys, Move(k) \/ InsertLine(k) PROVE Order'
  BY <1>1, <1>7 DEF Move, InsertLine, Pressed, KeyDone, fixed
<1>8. ASSUME NEW d \in Digits, Digit(d) PROVE Order'
  BY <1>1, <1>8 DEF Digit, Pressed, KeyDone, fixed
<1> QED
  BY <1>2, <1>3, <1>4, <1>5, <1>6, <1>7, <1>8 DEF User

\* A step of the program away from the menu file, with the list as it was.
LEMMA KeptOrder ==
  ASSUME Order, menu' = menu, fallbacks' = fallbacks, hist' \in History, timeout' \in Int,
         hist'.keyed = hist.keyed, phase \notin {"load", "check"},
         phase' \notin {"load", "check"}, Plain(menu) /\ ~hist.keyed => InOrder'
  PROVE  Order'
<1>1. Complete' = Complete
  BY DEF Complete, Valids
<1> QED
  BY <1>1 DEF Order, Listing

\* The same, where nothing is tried and the next entry stays.
LEMMA RestOrder ==
  ASSUME Order, menu' = menu, fallbacks' = fallbacks, fallbackno' = fallbackno, hist' = hist,
         outer' = outer, current' = current, timeout' = timeout,
         phase \notin {"load", "check"},
         \/ phase' = phase /\ UNCHANGED <<view, script>>
         \/ phase = "script" /\ phase' = "script"
         \/ phase' \in {"endless", "runs", "crashes"}
         \/ phase = "script" /\ phase' = "restart"
  PROVE  Order'
<1>1. ASSUME InOrder PROVE InOrder'
  <2>1. Chain' = Chain /\ Lead' = Lead /\ Valids' = Valids
    BY SameChain
  <2>2. Here' = Here \/ view' # view
    BY DEF Here
  <2>3. phase = "script" => timeout' = -1 /\ ~(timeout' >= 0)
    BY <1>1 DEF InOrder
  <2> QED
    BY <1>1, <2>1, <2>2, <2>3 DEF InOrder, Editing, NextIs
<1>2. phase' \notin {"load", "check"}
  OBVIOUS
<1> QED
  BY <1>1, <1>2, KeptOrder DEF Order

LEMMA RestartOrder ==
  ASSUME Inv, Order, Restart
  PROVE  Order'
<1>1. /\ phase = "restart" /\ phase' \in {"menu", "hidden"} /\ menu' = menu /\ outer' = outer
      /\ fallbacks' = fallbacks /\ fallbackno' = fallbackno /\ hist' = hist
      /\ timeout' = timeout
      /\ view' = IF view.entry > MENU_BOX_H - 1
                 THEN [first |-> view.first + view.entry - (MENU_BOX_H - 1),
                       entry |-> MENU_BOX_H - 1]
                 ELSE view
  BY DEF Restart, fixed, plan
<1>2. Here' = Here
  <2>1. view.first \in Nat /\ view.entry \in Nat
    BY DEF Inv, Numbers, View
  <2>2. CASE view.entry > MENU_BOX_H - 1
    <3>1. Here' = (view.first + view.entry - (MENU_BOX_H - 1)) + (MENU_BOX_H - 1)
      BY <1>1, <2>2 DEF Here
    <3> QED
      BY <2>1, <3>1, Bounds DEF Here
  <2>3. CASE ~(view.entry > MENU_BOX_H - 1)
    BY <1>1, <2>3 DEF Here
  <2> QED
    BY <2>2, <2>3
<1>3. ASSUME InOrder PROVE InOrder'
  <2>1. Chain' = Chain /\ Lead' = Lead /\ Valids' = Valids
    BY <1>1, SameChain
  <2> QED
    BY <1>1, <1>2, <1>3, <2>1 DEF InOrder, Editing, NextIs
<1> QED
  BY <1>1, <1>3, KeptOrder DEF Order

LEMMA SecondOrder ==
  ASSUME Inv, Order, Second
  PROVE  Order'
<1>1. /\ phase \in {"menu", "hidden"} /\ phase' = phase /\ menu' = menu /\ outer' = outer
      /\ fallbacks' = fallbacks /\ fallbackno' = fallbackno /\ hist' = hist
      /\ timeout > 0 /\ view' = view /\ timeout' \in Int
  BY DEF Second, fixed, plan, shown, Order
<1>2. ASSUME InOrder PROVE InOrder'
  <2>1. Chain' = Chain /\ Lead' = Lead /\ Valids' = Valids /\ Here' = Here
    BY <1>1, SameChain DEF Here
  <2>2. Len(hist.tried) = 0 /\ Here = Chain[1] /\ NextIs(1 - Lead)
    <3>1. timeout > 0 => timeout >= 0
      BY DEF Order
    <3> QED
      BY <1>1, <1>2, <3>1 DEF InOrder
  <2> QED
    BY <1>1, <1>2, <2>1, <2>2 DEF InOrder, Editing, NextIs
<1> QED
  BY <1>1, <1>2, KeptOrder DEF Order

LEMMA TimeoutOrder ==
  ASSUME SoundMenus, OnceMenus, Inv, Order, Timeout
  PROVE  Order'
<1>1. /\ phase \in {"menu", "hidden"} /\ phase' = "boot" /\ menu' = menu /\ outer' = outer
      /\ fallbacks' = fallbacks /\ fallbackno' = fallbackno /\ hist' = hist
      /\ timeout = 0 /\ view' = view /\ timeout' = -1 /\ script' = FromTitles /\ menu \in Menus
  BY DEF Timeout, BootEntry, fixed, plan, shown, Inv, Numbers
<1>2. ASSUME Plain(menu), InOrder PROVE InOrder'
  <2>1. Chain' = Chain /\ Lead' = Lead /\ Valids' = Valids /\ Here' = Here
    BY <1>1, SameChain DEF Here
  <2>2. Len(Chain) > 0 /\ Lead \in {0, 1}
    BY <1>1, <1>2, ChainFacts DEF OnceMenus, Order
  <2>3. Len(hist.tried) = 0 /\ Here = Chain[1] /\ NextIs(1 - Lead)
    <3>1. timeout >= 0
      BY <1>1
    <3> QED
      BY <1>1, <1>2, <3>1 DEF InOrder
  <2>4. 0 + 1 - Lead = 1 - Lead /\ 0 + 1 = 1 /\ 0 < Len(Chain)
    BY <2>2
  <2> QED
    BY <1>1, <1>2, <2>1, <2>3, <2>4 DEF InOrder, Editing, NextIs
<1> QED
  BY <1>1, <1>2, KeptOrder DEF Order

\* The entry that is next is tried.
LEMMA BootTurnOrder ==
  ASSUME SoundMenus, OnceMenus, Inv, Order, BootTurn
  PROVE  Order'
<1>1. /\ phase = "boot" /\ current' = Here /\ menu' = menu /\ outer' = outer
      /\ fallbacks' = fallbacks /\ fallbackno' = fallbackno /\ timeout' = timeout
      /\ \/ Here >= num /\ phase' = "restart" /\ hist' = hist
         \/ /\ ~(Here >= num) /\ phase' = "script"
            /\ hist' = IF hist.keyed THEN hist ELSE [hist EXCEPT !.tried = Append(@, Here)]
  <2>1. CASE Here >= num
    BY <2>1, Zenon DEF BootTurn, ToMenu, fixed, plan, shown
  <2>2. CASE ~(Here >= num)
    BY <2>2, Zenon DEF BootTurn, ToMenu, fixed, plan, shown
  <2> QED
    BY <2>1, <2>2
<1>2. Here \in Nat /\ menu \in Menus /\ hist \in History
  BY DEF Here, Inv, Numbers, View, Order
<1>3. ASSUME ~hist.keyed, hist' = [hist EXCEPT !.tried = Append(@, Here)]
      PROVE  /\ hist' \in History /\ hist'.keyed = hist.keyed /\ hist'.wanted = hist.wanted
             /\ hist'.tried = Append(hist.tried, Here)
  <2>1. Append(hist.tried, Here) \in Seq(Nat)
    BY <1>2 DEF History
  <2> QED
    BY <1>2, <1>3, <2>1 DEF History
<1>4. hist' \in History /\ hist'.keyed = hist.keyed /\ phase' \in {"restart", "script"}
  BY <1>1, <1>2, <1>3
<1>5. ASSUME Plain(menu), ~hist.keyed, InOrder PROVE InOrder'
  <2> DEFINE t == hist.tried
             n == Len(t)
  <2>1. /\ n <= Len(Chain) /\ (\A i \in 1 .. n : t[i] = Chain[i])
        /\ outer = NoView /\ timeout = -1 /\ script = FromTitles
        /\ n < Len(Chain) /\ Here = Chain[n + 1] /\ NextIs(n + 1 - Lead)
    BY <1>1, <1>5 DEF InOrder, Editing
  <2>2. ~(Here >= num)
    <3>1. num = Size(menu) /\ Here < Size(menu)
      <4>1. num = Size(menu) /\ OnEntry(view)
        BY <1>1, <2>1 DEF Inv, Shown, Booted, Editing
      <4> QED
        BY <4>1 DEF OnEntry, Here
    <3>2. Size(menu) \in Nat
      BY <1>2, MenuFacts
    <3> QED
      BY <1>2, <3>1, <3>2
  <2>3. phase' = "script" /\ hist'.tried = Append(t, Here) /\ hist'.wanted = hist.wanted
    BY <1>1, <1>3, <1>5, <2>2
  <2>4. Chain' = Chain /\ Lead' = Lead /\ Valids' = Valids
    BY <1>1, <2>3, SameChain
  <2>5. /\ t \in Seq(Nat) /\ n \in Nat /\ Len(Append(t, Here)) = n + 1
        /\ Append(t, Here)[n + 1] = Here /\ \A i \in 1 .. n : Append(t, Here)[i] = t[i]
    <3>1. t \in Seq(Nat)
      BY <1>2 DEF History
    <3> QED
      BY <1>2, <3>1, AppendProperties, LenProperties
  <2>6. Len(Chain) \in Nat /\ Lead \in {0, 1}
    BY <1>2, <1>5, ChainFacts, LenProperties DEF OnceMenus
  <2> HIDE DEF t, n
  <2> DEFINE u == Append(t, Here)
  <2>7. Len(u) = n + 1 /\ n + 1 <= Len(Chain) /\ n + 1 > 0
    BY <2>1, <2>5, <2>6
  <2>8. \A i \in 1 .. n + 1 : u[i] = Chain[i]
    <3>1. \A i \in 1 .. n + 1 : i \in 1 .. n \/ i = n + 1
      BY <2>5
    <3> QED
      BY <2>1, <2>5, <3>1
  <2>9. hist'.tried = u
    BY <2>3
  <2> HIDE DEF u
  <2>10. Len(hist'.tried) = n + 1
    BY <2>7, <2>9
  <2>11. NextIs(Len(hist.tried) - Lead)'
    <3> DEFINE m == n + 1 - Lead
    <3>1. m \in 0 .. Len(Valids) /\ fallbackno = IF m < Len(Valids) THEN m ELSE -1
      BY <2>1 DEF NextIs
    <3>2. Len(hist'.tried) - Lead' = m
      BY <2>4, <2>5, <2>6, <2>10
    <3> HIDE DEF m
    <3> QED
      BY <1>1, <2>4, <3>1, <3>2 DEF NextIs
  <2>12. current' = Chain'[n + 1]
    BY <1>1, <2>1, <2>4
  <2> QED
    BY <1>1, <2>1, <2>3, <2>4, <2>7, <2>8, <2>9, <2>10, <2>11, <2>12 DEF InOrder, Editing
<1> QED
  BY <1>1, <1>4, <1>5, KeptOrder DEF Order

\* An entry has failed: what the list names is next in the chain, and where it
\* names nothing the chain is at its end.
LEMMA FailedOrder ==
  ASSUME SoundMenus, OnceMenus, Inv, Order, phase = "script", Failed(fallbacks, fallbackno), Still
  PROVE  Order'
<1>1. /\ menu' = menu /\ outer' = outer /\ timeout' = timeout /\ hist' = hist
      /\ fallbacks' = fallbacks /\ menu \in Menus /\ hist \in History
      /\ \/ fallbackno < 0 /\ phase' = "prompt" /\ fallbackno' = fallbackno
         \/ /\ ~(fallbackno < 0) /\ view' = [first |-> 0, entry |-> fallbacks[fallbackno]]
            /\ fallbackno' = After(fallbacks, fallbackno) /\ script' = FromTitles
            /\ phase' \in {"endless", "boot"}
  BY DEF Failed, Still, fixed, Inv, Numbers, Order
<1>2. ASSUME Plain(menu), InOrder PROVE InOrder'
  <2> DEFINE n == Len(hist.tried)
             V == Valids
  <2>1. /\ n <= Len(Chain) /\ (\A i \in 1 .. n : hist.tried[i] = Chain[i])
        /\ outer = NoView /\ timeout = -1 /\ n > 0 /\ NextIs(n - Lead)
    BY <1>2 DEF InOrder, Editing
  <2>2. Chain' = Chain /\ Lead' = Lead /\ Valids' = Valids
    BY <1>1, SameChain
  <2>3. OnceEach(menu)
    BY <1>1, <1>2 DEF OnceMenus
  <2>4. /\ Lead \in {0, 1} /\ Len(V) \in Nat /\ Len(Chain) = Len(V) + Lead
        /\ \A k \in 0 .. Len(V) - 1 : /\ Chain[k + 1 + Lead] = V[k + 1] /\ V[k + 1] \in Nat
                                      /\ Complete[k] = V[k + 1]
    <3>1. Len(V) \in Nat
      BY <1>1, <2>3, ValidFacts
    <3>2. \A k \in 0 .. Len(V) - 1 : k + 1 \in 1 .. Len(V)
      BY <3>1
    <3> QED
      BY <1>1, <2>3, <3>1, <3>2, ChainFacts, ValidFacts
  <2>5. n \in Nat
    BY <1>1, LenProperties DEF History
  <2> DEFINE m == n - Lead
  <2>6. m \in 0 .. Len(V) /\ fallbackno = IF m < Len(V) THEN m ELSE -1
    BY <2>1 DEF NextIs
  <2>7. fallbacks = Complete
    BY <1>2 DEF Order, Listing
  <2> HIDE DEF n, V
  <2>8. CASE phase' = "prompt" /\ fallbackno < 0
    <3>1. ~(m < Len(V))
      BY <2>4, <2>6, <2>8
    <3>2. n = Len(Chain)
      BY <2>4, <2>5, <2>6, <3>1
    <3> QED
      BY <1>1, <2>1, <2>2, <2>8, <3>2 DEF InOrder, Editing, n
  <2>9. CASE phase' \in {"endless", "boot"} /\ ~(fallbackno < 0)
    <3>1. m < Len(V) /\ fallbackno = m
      BY <2>6, <2>9
    <3>2. m \in 0 .. Len(V) - 1 /\ m \in Nat
      BY <2>4, <2>5, <2>6, <3>1
    <3>3. /\ view' = [first |-> 0, entry |-> V[m + 1]] /\ fallbackno' = After(Complete, m)
          /\ V[m + 1] \in Nat /\ V[m + 1] = Chain[m + 1 + Lead] /\ script' = FromTitles
      BY <1>1, <2>4, <2>7, <2>9, <3>1, <3>2
    <3>4. m + 1 + Lead = n + 1 /\ n + 1 - Lead = m + 1 /\ n < Len(Chain)
      BY <2>4, <2>5, <3>1, <3>2
    <3> HIDE DEF m
    <3>5. Here' = Chain[n + 1]
      <4>1. Here' = 0 + V[m + 1]
        BY <3>3 DEF Here
      <4>2. 0 + V[m + 1] = V[m + 1]
        BY <3>3
      <4> QED
        BY <3>3, <3>4, <4>1, <4>2
    <3>6. m + 1 \in 0 .. Len(V) /\ fallbackno' = IF m + 1 < Len(V) THEN m + 1 ELSE -1
      <4>1. After(Complete, m) = IF m + 1 < Len(V) THEN m + 1 ELSE -1
        BY <1>1, <2>3, <3>2, AfterIs DEF V
      <4> QED
        BY <2>4, <3>2, <3>3, <4>1
    <3> QED
      BY <1>1, <2>1, <2>2, <2>9, <3>3, <3>4, <3>5, <3>6 DEF InOrder, Editing, NextIs, n, V
  <2> QED
    BY <1>1, <2>8, <2>9
<1>3. phase' \notin {"load", "check"}
  BY <1>1
<1> QED
  BY <1>1, <1>2, <1>3, KeptOrder DEF Order

\* The entries of such a menu do not touch the list.
LEMMA NoFallbackCommand ==
  ASSUME Inv, Plain(menu), phase = "script", script # <<>>
  PROVE  Head(script).op \notin {"fallback", "go"}
<1>1. Head(script) \in Commands
  <2>1. script \in Seq(Commands)
    BY DEF Inv, Numbers, Booted
  <2> QED
    BY <2>1, HeadTailProperties
<1>2. CASE Head(script) = [op |-> "nothing"]
  BY <1>2
<1>3. CASE Head(script) # [op |-> "nothing"]
  BY <1>1, <1>3 DEF Commands, Plain
<1> QED
  BY <1>2, <1>3

LEMMA RunFallbackOrder ==
  ASSUME Inv, Order, RunFallback
  PROVE  Order'
<1>1. /\ menu' = menu /\ hist' = hist /\ timeout' = timeout
      /\ phase = "script" /\ script # <<>> /\ Head(script).op \in {"fallback", "go"}
  BY DEF RunFallback, Command, Still, fixed
<1>2. ~ Plain(menu)
  BY <1>1, NoFallbackCommand
<1> QED
  BY <1>1, <1>2 DEF Order

LEMMA RestartedOrder ==
  ASSUME Order, Restarted, hist' \in History, hist'.keyed = hist.keyed,
         hist'.tried = hist.tried, hist'.wanted = hist.wanted
  PROVE  Order'
<1>1. phase' = "load" /\ menu' = menu /\ timeout' = -1
  BY DEF Restarted
<1>2. Listing'
  BY <1>1 DEF Listing
<1>3. ASSUME InOrder PROVE InOrder'
  BY <1>1, <1>3, SameChain DEF InOrder
<1> QED
  BY <1>1, <1>2, <1>3 DEF Order

LEMMA OrderStep ==
  ASSUME SoundMenus, OnceMenus, Inv, Order, [Next]_vars
  PROVE  Order'
<1>1. CASE LoadMenu \/ CheckFallback \/ CheckDefault
  BY <1>1, LoadMenuOrder, CheckFallbackOrder, CheckDefaultOrder
<1>2. CASE Restart \/ Second \/ Timeout \/ BootTurn
  BY <1>2, RestartOrder, SecondOrder, TimeoutOrder, BootTurnOrder
<1>3. CASE RunFallback
  BY <1>3, RunFallbackOrder
<1>4. CASE RunCommand
  <2>1. /\ phase = "script" /\ phase' = "script" /\ menu' = menu /\ hist' = hist
        /\ fallbacks' = fallbacks /\ fallbackno' = fallbackno /\ outer' = outer
        /\ current' = current /\ timeout' = timeout
    BY <1>4 DEF RunCommand, shown, plan
  <2> QED
    BY <2>1, RestOrder
<1>5. CASE CommandFails
  BY <1>5, FailedOrder DEF CommandFails
<1>6. CASE ScriptEnds
  <2>1. /\ phase = "script" /\ phase' = "restart" /\ menu' = menu /\ hist' = hist
        /\ fallbacks' = fallbacks /\ fallbackno' = fallbackno /\ outer' = outer
        /\ current' = current /\ timeout' = timeout
    BY <1>6 DEF ScriptEnds, ToMenu, shown, plan, fixed, going
  <2> QED
    BY <2>1, RestOrder
<1>7. CASE BootKernel
  <2>1. phase = "script" /\ Still
    BY <1>7 DEF BootKernel
  <2>2. CASE Failed(fallbacks, fallbackno)
    BY <2>1, <2>2, FailedOrder
  <2>3. CASE /\ phase' = menu.fate[Running + 1] /\ menu.fate[Running + 1] # "fails"
             /\ UNCHANGED <<view, plan, script, kernel, count>>
    <3>1. phase' \in {"runs", "crashes"}
      BY <2>1, <2>3, BootedFate DEF Fates
    <3>2. /\ menu' = menu /\ hist' = hist /\ fallbacks' = fallbacks /\ fallbackno' = fallbackno
          /\ outer' = outer /\ current' = current /\ timeout' = timeout
      BY <2>1, <2>3 DEF Still, fixed, plan
    <3> QED
      BY <2>1, <3>1, <3>2, RestOrder
  <2> QED
    BY <1>7, <2>2, <2>3 DEF BootKernel
<1>8. CASE User
  BY <1>8, KeysOrder
<1>9. CASE Crash
  BY <1>9, RestartedOrder DEF Crash, Order
<1>10. CASE Reset
  <2>1. /\ hist' \in History /\ hist'.keyed = hist.keyed /\ hist'.tried = hist.tried
        /\ hist'.wanted = hist.wanted
    BY <1>10 DEF Reset, Order, History
  <2> QED
    BY <1>10, <2>1, RestartedOrder DEF Reset
<1>11. CASE UNCHANGED vars
  <2>1. /\ menu' = menu /\ phase' = phase /\ fallbacks' = fallbacks /\ fallbackno' = fallbackno
        /\ hist' = hist /\ outer' = outer /\ current' = current /\ timeout' = timeout
        /\ view' = view /\ script' = script /\ count' = count /\ default' = default
    BY <1>11 DEF vars
  <2>2. Listing => Listing'
    BY <2>1, SameChain DEF Listing
  <2>3. InOrder => InOrder'
    BY <2>1, SameChain DEF InOrder, Editing, Here, NextIs
  <2> QED
    BY <2>1, <2>2, <2>3 DEF Order
<1> QED
  BY <1>1, <1>2, <1>3, <1>4, <1>5, <1>6, <1>7, <1>8, <1>9, <1>10, <1>11 DEF Next, Program

LEMMA InitOrder ==
  ASSUME SoundMenus, OnceMenus, Init
  PROVE  Order
<1>1. /\ menu \in Menus /\ phase = "load" /\ timeout = -1
      /\ hist = [keyed |-> FALSE, tried |-> <<>>, wanted |-> 0, resets |-> 0]
  BY DEF Init
<1>2. hist \in History
  <2>1. <<>> \in Seq(Nat)
    OBVIOUS
  <2> QED
    BY <1>1, <2>1 DEF History
<1>3. Listing
  BY <1>1 DEF Listing
<1>4. ASSUME Plain(menu) PROVE InOrder
  <2>1. Chain \in Seq(Nat)
    BY <1>1, <1>2, <1>4, ChainFacts DEF OnceMenus
  <2>2. Len(Chain) \in Nat /\ Len(<<>>) = 0 /\ 1 .. 0 = {}
    BY <2>1, LenProperties
  <2>3. 0 <= Len(Chain)
    BY <2>2
  <2> QED
    BY <1>1, <2>2, <2>3 DEF InOrder
<1> QED
  BY <1>1, <1>2, <1>3, <1>4 DEF Order

\* What "savedefault fallback" finds is what the list is at.
LEMMA SavedIsNext ==
  ASSUME SoundMenus, OnceMenus, Inv, Order, phase = "script", ~hist.keyed, Plain(menu),
         hist.wanted \notin Range(menu.fallback), ~(NextFallback(fallbacks, current) < 0)
  PROVE  fallbackno >= 0 /\ NextFallback(fallbacks, current) = fallbacks[fallbackno]
<1> DEFINE n == Len(hist.tried)
           V == Valids
           L == Len(V)
           m == n - Lead
           there == {k \in DOMAIN Complete : Complete[k] = current
                                             /\ \A j \in 0 .. k : Complete[j] >= 0}
<1>1. fallbacks = Complete /\ n > 0 /\ n <= Len(Chain) /\ current = Chain[n] /\ NextIs(m)
  BY DEF Order, Listing, InOrder
<1>2. OnceEach(menu) /\ menu \in Menus /\ hist \in History /\ n \in Nat
  <2>1. hist \in History
    BY DEF Order
  <2> QED
    BY <2>1, LenProperties DEF OnceMenus, Inv, Numbers, History
<1>3. /\ L \in Nat /\ L <= MAX_FALLBACK_ENTRIES /\ DOMAIN Complete = Rows
      /\ \A k \in Rows : Complete[k] = IF k < L THEN V[k + 1] ELSE -1
      /\ \A i \in 1 .. L : V[i] \in Nat
      /\ \A i, j \in 1 .. L : V[i] = V[j] => i = j
      /\ MAX_FALLBACK_ENTRIES \in Nat
  BY <1>2, ValidFacts, Bounds
<1>4. m \in 0 .. L /\ fallbackno = IF m < L THEN m ELSE -1
  BY <1>1 DEF NextIs
<1>5. /\ Lead \in {0, 1} /\ \A k \in 0 .. L - 1 : Chain[k + 1 + Lead] = V[k + 1]
      /\ Lead = 1 => Chain[1] = hist.wanted \/ L = 0
  <2>1. hist.wanted \in Nat /\ Size(menu) \in Nat /\ (V = <<>> <=> L = 0)
    BY <1>2, MenuFacts, ValidFacts DEF History
  <2>2. hist.wanted < Size(menu) \/ hist.wanted >= Size(menu)
    BY <2>1
  <2> QED
    BY <1>2, <2>1, <2>2, ChainFacts
<1>6. \A k \in there : k + 1 \in 1 .. L /\ V[k + 1] = current
  <2>1. ASSUME NEW k \in there PROVE k + 1 \in 1 .. L /\ V[k + 1] = current
    <3>1. k \in Rows /\ k \in Nat /\ Complete[k] = current /\ Complete[k] >= 0
      <4>1. k \in Rows /\ Complete[k] = current /\ \A j \in 0 .. k : Complete[j] >= 0
        BY <1>3, <2>1
      <4>2. k \in Nat
        BY <4>1, Bounds DEF Rows
      <4> QED
        BY <4>1, <4>2
    <3>2. k < L
      BY <1>3, <3>1
    <3> QED
      BY <1>3, <3>1, <3>2
  <2> QED
    BY <2>1
<1>7. ASSUME NEW k \in 0 .. L - 1, V[k + 1] = current PROVE k \in there
  <2>1. \A j \in 0 .. k : j \in Rows /\ j < L /\ j + 1 \in 1 .. L
    BY <1>3 DEF Rows
  <2>2. \A j \in 0 .. k : Complete[j] >= 0
    <3>1. \A x \in Nat : x >= 0
      OBVIOUS
    <3> QED
      BY <1>3, <2>1, <3>1
  <2>3. k \in 0 .. k
    BY <1>3
  <2> QED
    BY <1>3, <1>7, <2>1, <2>2, <2>3
<1>8. \A i \in 1 .. L : V[i] # hist.wanted
  <2>1. ASSUME NEW i \in 1 .. L, V[i] = hist.wanted PROVE FALSE
    <3>1. PICK k \in 1 .. Len(Given) : V[i] = Given[k]
      BY <1>2, ValidFacts
    <3>2. k \in DOMAIN menu.fallback
      BY <1>2, <3>1, MenuFacts, LenProperties DEF Given
    <3>3. Given[k] \in Range(menu.fallback)
      BY <3>2 DEF Given, Range
    <3> QED
      BY <2>1, <3>1, <3>3
  <2> QED
    BY <2>1
<1> DEFINE least == CHOOSE k \in there : \A j \in there : k <= j
           index == IF there = {} THEN 0 ELSE 1 + least
<1>9. NextFallback(Complete, current) = IF index >= MAX_FALLBACK_ENTRIES THEN -1
                                        ELSE Complete[index]
  BY DEF NextFallback
<1> HIDE DEF n, V, L, there
<1>10. index = m
  <2>1. CASE m > 0
    <3>1. m - 1 \in 0 .. L - 1 /\ (m - 1) + 1 = m /\ (m - 1) + 1 + Lead = n
      BY <1>2, <1>3, <1>4, <1>5, <2>1
    <3>2. V[m] = current
      BY <1>1, <1>5, <3>1
    <3>3. m - 1 \in there
      BY <1>7, <3>1, <3>2
    <3>4. \A k \in there : k = m - 1
      <4>1. ASSUME NEW k \in there PROVE k = m - 1
        <5>1. k + 1 \in 1 .. L /\ V[k + 1] = V[m] /\ m \in 1 .. L
          BY <1>3, <1>4, <1>6, <2>1, <3>2
        <5>2. k + 1 = m /\ k \in Nat
          <6>1. k \in Rows
            BY <1>3 DEF there
          <6> QED
            BY <1>3, <5>1, <6>1 DEF Rows
        <5> QED
          BY <5>2
      <4> QED
        BY <4>1
    <3>5. there = {m - 1} /\ m - 1 <= m - 1
      BY <1>4, <3>1, <3>3, <3>4
    <3>6. least = m - 1
      BY <3>5
    <3> HIDE DEF least
    <3> QED
      BY <1>2, <1>5, <3>5, <3>6
  <2>2. CASE ~(m > 0)
    <3>1. m = 0 /\ n = 1 /\ Lead = 1
      BY <1>1, <1>2, <1>3, <1>4, <1>5, <2>2
    <3>2. there = {}
      <4>1. ASSUME NEW k \in there PROVE FALSE
        <5>1. k + 1 \in 1 .. L /\ V[k + 1] = Chain[1]
          BY <1>1, <1>6, <3>1
        <5>2. L # 0
          BY <1>3, <5>1
        <5> QED
          BY <1>5, <1>8, <3>1, <5>1, <5>2
      <4> QED
        BY <4>1
    <3> QED
      BY <3>1, <3>2
  <2> QED
    BY <2>1, <2>2
<1> HIDE DEF index, m
<1>11. m < L
  <2>1. SUFFICES ASSUME ~(m < L) PROVE FALSE
    OBVIOUS
  <2>2. m \in Nat /\ (m >= MAX_FALLBACK_ENTRIES \/ m \in Rows)
    BY <1>3, <1>4 DEF Rows
  <2>3. NextFallback(Complete, current) = -1
    BY <1>3, <1>9, <1>10, <2>1, <2>2
  <2> QED
    BY <1>1, <2>3
<1>12. m \in Nat /\ ~(m >= MAX_FALLBACK_ENTRIES)
  BY <1>3, <1>4, <1>11
<1> QED
  BY <1>1, <1>4, <1>9, <1>10, <1>11, <1>12

\* Only savedefault writes the default file.
LEMMA OnlyCommandsSave ==
  ASSUME Next, saved' # saved
  PROVE  RunCommand
<1>1. CASE Program
  BY <1>1 DEF Program, LoadMenu, CheckFallback, CheckDefault, Restart, Second, Timeout, BootTurn,
              RunFallback, CommandFails, ScriptEnds, BootKernel, Still, fixed
<1>2. CASE User
  BY <1>2 DEF User, KeyWhileHidden, Boot, Edit, DeleteLine, LeaveEditor, PromptKey, Move,
              InsertLine, Digit, fixed
<1>3. CASE Crash \/ Reset
  BY <1>3 DEF Crash, Reset, Restarted
<1> QED
  BY <1>1, <1>2, <1>3 DEF Next

-----------------------------------------------------------------------------
(* The theorems about the order *)

LEMMA Ordered ==
  ASSUME SoundMenus, OnceMenus
  PROVE  Spec => [](Inv /\ Order)
<1>1. Init => Inv
  <2> SUFFICES ASSUME Init PROVE Inv
    OBVIOUS
  <2>1. Empty /\ menu \in Menus /\ saved \in Nat
    BY DEF Init, Empty
  <2> QED
    BY <2>1, EmptyInv
<1>2. Init => Order
  BY InitOrder
<1>3. Inv /\ Order /\ [Next]_vars => Inv' /\ Order'
  BY Step, OrderStep
<1> QED
  BY <1>1, <1>2, <1>3, PTL DEF Spec

\* An unattended boot tries the default entry and then the entries of the fallback
\* list that the menu has, in their order, each once, and stops for a key only when
\* all have failed: on every menu whose list names no entry twice and fits the table
\* (cmain compresses the list in place, the default entry may be taken from it, and
\* run_menu goes on in it by an index of its own).
THEOREM FallbackOrder ==
  ASSUME SoundMenus, \A m \in Menus : Plain(m) => OnceEach(m)
  PROVE  Spec => []FallbackInOrder
<1>1. OnceMenus
  BY DEF OnceMenus
<1>2. Inv /\ Order => FallbackInOrder
  <2> SUFFICES ASSUME Inv, Order, ~hist.keyed, Plain(menu)
               PROVE  /\ IsPrefix(hist.tried, Chain)
                      /\ phase = "prompt" => hist.tried = Chain
    BY DEF FallbackInOrder
  <2> DEFINE t == hist.tried
             C == Chain
  <2>1. /\ Len(t) <= Len(C) /\ (\A i \in 1 .. Len(t) : t[i] = C[i])
        /\ phase = "prompt" => Len(t) = Len(C)
    BY DEF Order, InOrder
  <2>2. t \in Seq(Nat) /\ C \in Seq(Nat)
    BY <1>1, ChainFacts DEF OnceMenus, Order, History, Inv, Numbers
  <2> HIDE DEF t, C
  <2>3. Len(t) \in Nat /\ Len(C) \in Nat /\ Len(t) \in 0 .. Len(C)
    BY <2>1, <2>2, LenProperties
  <2>4. SubSeq(t, 1, Len(t)) = SubSeq(C, 1, Len(t))
    <3>1. \A i \in 1 .. Len(t) : t[i] \in Nat /\ C[i] \in Nat
      BY <2>1, <2>2, ElementOfSeq
    <3>2. /\ SubSeq(t, 1, Len(t)) \in Seq(Nat) /\ SubSeq(C, 1, Len(t)) \in Seq(Nat)
          /\ Len(SubSeq(t, 1, Len(t))) = Len(t) /\ Len(SubSeq(C, 1, Len(t))) = Len(t)
          /\ \A i \in 1 .. Len(t) : SubSeq(t, 1, Len(t))[i] = t[i] /\ SubSeq(C, 1, Len(t))[i] = C[i]
      BY <2>2, <2>3, <3>1, SubSeqProperties
    <3> QED
      BY <2>1, <3>2, SeqEqual
  <2>5. Len(t) = Len(C) => t = C
    BY <2>1, <2>2, SeqEqual
  <2> QED
    BY <2>1, <2>4, <2>5 DEF IsPrefix, t, C
<1> QED
  BY <1>1, <1>2, Ordered, PTL

\* "savedefault fallback" in such a boot saves the entry that is tried next if this
\* one fails: the place of current_entryno in the list and fallback_entryno, the
\* index run_menu keeps, agree at every turn of the loop.
THEOREM SavedNext ==
  ASSUME SoundMenus, \A m \in Menus : Plain(m) => OnceEach(m)
  PROVE  Spec => SavedFallbackIsNext
<1>1. OnceMenus
  BY DEF OnceMenus
<1> DEFINE Saves == /\ phase = "script" /\ script # <<>> /\ saved' # saved
                    /\ Head(script).op = "save" /\ Head(script).arg = "fallback"
                    /\ ~hist.keyed /\ Plain(menu) /\ hist.wanted \notin Range(menu.fallback)
           Right == fallbackno >= 0 /\ saved' = fallbacks[fallbackno]
<1>2. Inv /\ Order /\ [Next]_vars => [Saves => Right]_vars
  <2> SUFFICES ASSUME Inv, Order, Next, Saves PROVE Right
    OBVIOUS
  <2>1. RunCommand
    BY OnlyCommandsSave
  <2>2. /\ ~(NextFallback(fallbacks, current) < 0)
        /\ saved' = NextFallback(fallbacks, current)
    BY <2>1 DEF RunCommand, Command
  <2> QED
    BY <1>1, <2>2, SavedIsNext
<1> QED
  BY <1>1, <1>2, Ordered, PTL DEF Spec, SavedFallbackIsNext
=============================================================================
