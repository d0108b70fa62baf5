----------------------------- MODULE FileProofs -----------------------------
(***************************************************************************)
(* Reading a file, whatever its list, the sectors and the requests are,    *)
(* and wherever a read fails: block_read_func, grub_read's loop and        *)
(* gunzip_read keep each other's positions, so that the cursor stays in    *)
(* the list (CursorInv).                                                   *)
(*                                                                         *)
(* If the gzipped files are sound (SoundStreams) and no read fails inside  *)
(* compressed data ("coded"), what is decoded, what the window holds and   *)
(* what the caller has is the files' data too (ReadInv), and the reader    *)
(* implements ByteFile.                                                    *)
(***************************************************************************)
EXTENDS FileRead, SequenceTheorems, WellFoundedInduction, TLAPS

-----------------------------------------------------------------------------
(* Least elements and recursive functions *)

LEMMA Least ==
  ASSUME NEW S \in SUBSET Nat, S # {}
  PROVE  \E i \in S : \A j \in S : i <= j
<1> DEFINE R == {ss \in Nat \X Nat : ss[1] < ss[2]}
<1>1. IsWellFoundedOn(R, Nat)
  BY NatLessThanWellFounded DEF OpToRel
<1>2. \E i \in S : \A j \in S : ~(<<j, i>> \in R)
  <2> HIDE DEF R
  <2> QED
    BY <1>1, WFMin
<1>3. PICK i \in S : \A j \in S : ~(<<j, i>> \in R)
  BY <1>2
<1>4. \A j \in S : ~(j < i)
  BY <1>3
<1> QED
  BY <1>3, <1>4

\* A set of numbers that has 0, and with a number below n the next one, has all
\* numbers up to n.
LEMMA Upward ==
  ASSUME NEW n \in Nat, NEW T, 0 \in T, \A m \in T : m \in 0..(n - 1) => m + 1 \in T
  PROVE  0..n \subseteq T
<1> DEFINE S == {m \in 0..n : m \notin T}
<1>1. SUFFICES ASSUME S # {} PROVE FALSE
  OBVIOUS
<1>2. PICK i \in S : \A j \in S : i <= j
  <2>1. S \in SUBSET Nat
    OBVIOUS
  <2> HIDE DEF S
  <2>2. QED
    BY <1>1, <2>1, Least
<1>3. i \in Nat /\ i # 0 /\ i - 1 \in 0..(n - 1) /\ i - 1 \in 0..n /\ ~ (i <= i - 1)
  BY <1>2
<1>4. i - 1 \in T /\ (i - 1) + 1 = i
  BY <1>2, <1>3
<1>5. QED
  BY <1>2, <1>3, <1>4

\* The loops of the model have their recursive functions.
LEMMA AheadLoop ==
  ASSUME NEW f, NEW c, NEW n \in Nat
  PROVE  \E g : /\ g = [k \in 0..n |-> IF k = 0 THEN c ELSE NextBlock(f, g[k - 1])]
                /\ Ahead(f, c, n) = g[n]
<1> DEFINE Fits(m, g) == g = [k \in 0..m |-> IF k = 0 THEN c ELSE NextBlock(f, g[k - 1])]
           T == {m \in Nat : \E g : Fits(m, g)}
<1>1. 0 \in T
  <2>1. Fits(0, [k \in 0..0 |-> c])
    OBVIOUS
  <2>2. QED
    BY <2>1
<1>2. ASSUME NEW m \in T PROVE m + 1 \in T
  <2>1. PICK g : Fits(m, g)
    OBVIOUS
  <2> DEFINE h == [k \in 0..(m + 1) |-> IF k = m + 1 THEN NextBlock(f, g[m]) ELSE g[k]]
  <2>2. Fits(m + 1, h)
    BY <2>1
  <2> HIDE DEF Fits, h
  <2>3. m + 1 \in Nat
    OBVIOUS
  <2>4. QED
    BY <2>2, <2>3
<1>3. \E g : Fits(n, g)
  <2> HIDE DEF Fits
  <2>1. n \in Nat /\ n \in 0..n
    OBVIOUS
  <2>2. n \in T
    <3> HIDE DEF T
    <3> QED
      BY <1>1, <1>2, <2>1, Upward
  <2>3. QED
    BY <2>2
<1>4. QED
  BY <1>3 DEF Ahead

LEMMA SectorsLoop ==
  ASSUME NEW S, NEW list \in Seq(S)
  PROVE  \E g : /\ g = [k \in 0..Len(list) |-> IF k = 0 THEN 0 ELSE g[k - 1] + list[k].length]
                /\ SectorsUpTo(list) = g
<1> DEFINE Fits(m, g) == g = [k \in 0..m |-> IF k = 0 THEN 0 ELSE g[k - 1] + list[k].length]
           T == {m \in Nat : \E g : Fits(m, g)}
<1>1. 0 \in T
  <2>1. Fits(0, [k \in 0..0 |-> 0])
    OBVIOUS
  <2>2. QED
    BY <2>1
<1>2. ASSUME NEW m \in T PROVE m + 1 \in T
  <2>1. PICK g : Fits(m, g)
    OBVIOUS
  <2> DEFINE h == [k \in 0..(m + 1) |-> IF k = m + 1 THEN g[m] + list[(m + 1)].length ELSE g[k]]
  <2>2. Fits(m + 1, h)
    BY <2>1
  <2> HIDE DEF Fits, h
  <2>3. m + 1 \in Nat
    OBVIOUS
  <2>4. QED
    BY <2>2, <2>3
<1>3. \E g : Fits(Len(list), g)
  <2> HIDE DEF Fits
  <2>1. Len(list) \in Nat /\ Len(list) \in 0..Len(list)
    OBVIOUS
  <2>2. Len(list) \in T
    <3> HIDE DEF T
    <3> QED
      BY <1>1, <1>2, <2>1, Upward
  <2>3. QED
    BY <2>2
<1>4. QED
  BY <1>3 DEF SectorsUpTo

\* The copies that Extended makes, one by one.
Extending(g, out, n, d) ==
  /\ g[0] = out
  /\ \A m \in 0..(n - 1) : g[m + 1] = Append(g[m], g[m][Len(out) + (m + 1) - d])
  /\ Extended(out, n, d) = g[n]

LEMMA ExtendedLoop ==
  ASSUME NEW out, NEW n \in Nat, NEW d
  PROVE  \E g : Extending(g, out, n, d)
<1> DEFINE More(x, k) == Append(x, x[Len(out) + k - d])
           Fits(m, g) == g = [k \in 0..m |-> IF k = 0 THEN out ELSE More(g[k - 1], k)]
           T == {m \in Nat : \E g : Fits(m, g)}
<1> HIDE DEF More
<1>1. 0 \in T
  <2>1. Fits(0, [k \in 0..0 |-> out])
    OBVIOUS
  <2>2. QED
    BY <2>1
<1>2. ASSUME NEW m \in T PROVE m + 1 \in T
  <2>1. PICK g : Fits(m, g)
    OBVIOUS
  <2> DEFINE h == [k \in 0..(m + 1) |-> IF k = m + 1 THEN More(g[m], m + 1) ELSE g[k]]
  <2>2. Fits(m + 1, h)
    BY <2>1
  <2> HIDE DEF Fits, h
  <2>3. m + 1 \in Nat
    OBVIOUS
  <2>4. QED
    BY <2>2, <2>3
<1>3. \E g : Fits(n, g)
  <2> HIDE DEF Fits
  <2>1. n \in Nat /\ n \in 0..n
    OBVIOUS
  <2>2. n \in T
    <3> HIDE DEF T
    <3> QED
      BY <1>1, <1>2, <2>1, Upward
  <2>3. QED
    BY <2>2
<1>4. PICK g : Fits(n, g) /\ Extended(out, n, d) = g[n]
  BY <1>3 DEF More, Extended
<1>5. g[0] = out /\ \A m \in 0..(n - 1) : g[m + 1] = More(g[m], m + 1)
  <2>1. \A k \in 0..n : g[k] = IF k = 0 THEN out ELSE More(g[k - 1], k)
    BY <1>4
  <2>2. 0 \in 0..n /\ \A m \in 0..(n - 1) : m + 1 \in 0..n /\ m + 1 # 0 /\ (m + 1) - 1 = m
    OBVIOUS
  <2>3. QED
    BY <2>1, <2>2
<1>6. QED
  BY <1>4, <1>5 DEF More, Extending

LEMMA DecodingLoop ==
  ASSUME NEW f \in Gzipped, f.max - 1 \in Nat
  PROVE  \E g : /\ g = [k \in 0..(f.max - 1) |-> IF k = 0 THEN Start ELSE Step1(g[k - 1], SymbolAt(f, k))]
                /\ Decoding[f] = g
<1> DEFINE More(x, k) == Step1(x, SymbolAt(f, k))
           Fits(m, g) == g = [k \in 0..m |-> IF k = 0 THEN Start ELSE More(g[k - 1], k)]
           T == {m \in Nat : \E g : Fits(m, g)}
<1> HIDE DEF More
<1>1. 0 \in T
  <2>1. Fits(0, [k \in 0..0 |-> Start])
    OBVIOUS
  <2>2. QED
    BY <2>1
<1>2. ASSUME NEW m \in T PROVE m + 1 \in T
  <2>1. PICK g : Fits(m, g)
    OBVIOUS
  <2> DEFINE h == [k \in 0..(m + 1) |-> IF k = m + 1 THEN More(g[m], m + 1) ELSE g[k]]
  <2>2. Fits(m + 1, h)
    BY <2>1
  <2> HIDE DEF Fits, h
  <2>3. m + 1 \in Nat
    OBVIOUS
  <2>4. QED
    BY <2>2, <2>3
<1>3. \E g : Fits((f.max - 1), g)
  <2> HIDE DEF Fits
  <2>1. (f.max - 1) \in Nat /\ (f.max - 1) \in 0..(f.max - 1)
    OBVIOUS
  <2>2. (f.max - 1) \in T
    <3> HIDE DEF T
    <3> QED
      BY <1>1, <1>2, <2>1, Upward
  <2>3. QED
    BY <2>2
<1>4. QED
  BY <1>3 DEF More, Decoding

LEMMA CopiedLoop ==
  ASSUME NEW e \in Nat, e = Min({inflate.inflate_n, WSIZE - inflate.wp})
  PROVE  \E g :
    /\ g = [k \in 0..e |->
              IF k = 0 THEN inflate.slide
              ELSE [g[k - 1] EXCEPT ![inflate.wp + k - 1] =
                      g[k - 1][(inflate.inflate_d + k - 1) % WSIZE]]]
    /\ Copied = [inflate EXCEPT !.slide = g[e], !.wp = @ + e, !.inflate_n = @ - e,
                                !.inflate_d = (@ + e) % WSIZE]
<1> DEFINE More(x, k) ==
             [x EXCEPT ![inflate.wp + k - 1] = x[(inflate.inflate_d + k - 1) % WSIZE]]
           Fits(m, g) == g = [k \in 0..m |-> IF k = 0 THEN inflate.slide ELSE More(g[k - 1], k)]
           T == {m \in Nat : \E g : Fits(m, g)}
<1> HIDE DEF More
<1>1. 0 \in T
  <2>1. Fits(0, [k \in 0..0 |-> inflate.slide])
    OBVIOUS
  <2>2. QED
    BY <2>1
<1>2. ASSUME NEW m \in T PROVE m + 1 \in T
  <2>1. PICK g : Fits(m, g)
    OBVIOUS
  <2> DEFINE h == [k \in 0..(m + 1) |-> IF k = m + 1 THEN More(g[m], m + 1) ELSE g[k]]
  <2>2. Fits(m + 1, h)
    BY <2>1
  <2> HIDE DEF Fits, h
  <2>3. m + 1 \in Nat
    OBVIOUS
  <2>4. QED
    BY <2>2, <2>3
<1>3. \E g : Fits(e, g)
  <2> HIDE DEF Fits
  <2>1. e \in Nat /\ e \in 0..e
    OBVIOUS
  <2>2. e \in T
    <3> HIDE DEF T
    <3> QED
      BY <1>1, <1>2, <2>1, Upward
  <2>3. QED
    BY <2>2
<1>4. QED
  BY <1>3 DEF More, Copied

LEMMA FlattenLoop ==
  ASSUME NEW seqs, Len(seqs) \in Nat \ {0}
  PROVE  \E g : /\ g = [i \in 1..Len(seqs) |-> IF i = 1 THEN seqs[i] ELSE g[i - 1] \o seqs[i]]
                /\ FlattenSeq(seqs) = g[Len(seqs)]
<1> DEFINE More(x, i) == x \o seqs[i]
           Fits(m, g) == g = [i \in 1..(m + 1) |-> IF i = 1 THEN seqs[i] ELSE More(g[i - 1], i)]
           T == {m \in Nat : \E g : Fits(m, g)}
           n == Len(seqs) - 1
<1> HIDE DEF More
<1>1. 0 \in T
  <2>1. Fits(0, [i \in 1..1 |-> seqs[i]])
    OBVIOUS
  <2>2. QED
    BY <2>1
<1>2. ASSUME NEW m \in T PROVE m + 1 \in T
  <2>1. PICK g : Fits(m, g)
    OBVIOUS
  <2> DEFINE h == [i \in 1..(m + 2) |-> IF i = m + 2 THEN More(g[m + 1], m + 2) ELSE g[i]]
  <2>2. Fits(m + 1, h)
    BY <2>1
  <2> HIDE DEF Fits, h
  <2>3. m + 1 \in Nat
    OBVIOUS
  <2>4. QED
    BY <2>2, <2>3
<1>3. \E g : Fits(n, g)
  <2>1. n \in Nat /\ n \in 0..n
    OBVIOUS
  <2> HIDE DEF Fits, n
  <2>2. n \in T
    <3> HIDE DEF T
    <3> QED
      BY <1>1, <1>2, <2>1, Upward
  <2>3. QED
    BY <2>2
<1>4. n + 1 = Len(seqs) /\ Len(seqs) # 0
  OBVIOUS
<1>5. \E g : /\ g = [i \in 1..Len(seqs) |-> IF i = 1 THEN seqs[i] ELSE More(g[i - 1], i)]
             /\ FlattenSeq(seqs) = g[Len(seqs)]
  <2>1. \E g : g = [i \in 1..Len(seqs) |-> IF i = 1 THEN seqs[i] ELSE More(g[i - 1], i)]
    BY <1>3, <1>4
  <2>2. QED
    BY <1>4, <2>1 DEF More, FlattenSeq
<1>6. QED
  BY <1>5 DEF More

-----------------------------------------------------------------------------
(* Numbers *)

LEMMA Constants ==
  /\ SS \in Nat \ {0} /\ WSIZE \in Nat \ {0} /\ INBUFSIZ \in Nat \ {0} /\ Step \in Nat \ {0}
  /\ Lengths \subseteq Nat
BY FileAssumption

LEMMA DivMod ==
  ASSUME NEW x \in Nat, NEW n \in Nat \ {0}
  PROVE  /\ x \div n \in Nat /\ x % n \in 0..(n - 1) /\ x % n \in Nat /\ x % n < n
         /\ x = n * (x \div n) + (x % n) /\ n * (x \div n) \in Nat
<1>1. x \div n \in Nat /\ x % n \in 0..(n - 1)
  BY SMT
<1>2. x = n * (x \div n) + (x % n)
  BY SMT
<1>3. QED
  BY <1>1, <1>2

LEMMA DivUnique ==
  ASSUME NEW n \in Nat \ {0}, NEW q \in Nat, NEW r \in 0..(n - 1)
  PROVE  (n * q + r) % n = r /\ (n * q + r) \div n = q /\ n * q + r \in Nat
<1>1. (n * q + r) % n = r
  BY SMT
<1>2. (n * q + r) \div n = q
  BY SMT
<1>3. QED
  BY <1>1, <1>2

LEMMA Product ==
  ASSUME NEW n \in Nat \ {0}, NEW a \in Nat, NEW b \in Nat
  PROVE  /\ n * a \in Nat /\ n * (a + b) = n * a + n * b /\ n * (a + 1) = n * a + n
         /\ a <= b => n * a <= n * b
         /\ n * a < n * b => a < b
<1>1. n * a \in Nat /\ n * b \in Nat /\ n * (a + b) = n * a + n * b /\ n * (a + 1) = n * a + n
  OBVIOUS
<1>2. ASSUME NEW x \in Nat, NEW y \in Nat, x <= y PROVE n * x <= n * y
  <2>1. PICK e \in Nat : y = x + e
    BY <1>2
  <2>2. n * y = n * x + n * e /\ n * e \in Nat /\ n * x \in Nat
    BY <2>1
  <2>3. QED
    BY <2>2
<1>3. n * a < n * b => a < b
  <2>1. ~ (a < b) => n * b <= n * a
    BY <1>2
  <2>2. QED
    BY <1>1, <2>1
<1>4. QED
  BY <1>1, <1>2, <1>3

\* A number is in one place of a row of n's.
LEMMA SameQuotient ==
  ASSUME NEW x \in Nat, NEW n \in Nat \ {0}, NEW k \in Nat
  PROVE  /\ x < n * k => x \div n < k
         /\ x >= n * k => x \div n >= k
         /\ \A y \in Nat : x <= y => x \div n <= y \div n
<1>1. ASSUME NEW m \in Nat, NEW y \in Nat, y < n * m PROVE y \div n < m
  <2>1. y \div n \in Nat /\ n * (y \div n) <= y /\ n * (y \div n) \in Nat /\ n * m \in Nat
    BY DivMod, Product
  <2>2. n * (y \div n) < n * m
    BY <1>1, <2>1
  <2>3. QED
    BY <2>1, <2>2, Product
<1>2. ASSUME NEW m \in Nat, NEW y \in Nat, y >= n * m PROVE y \div n >= m
  <2>1. /\ y \div n \in Nat /\ y < n * (y \div n) + n /\ n * (y \div n) \in Nat /\ n * m \in Nat
        /\ n * ((y \div n) + 1) = n * (y \div n) + n
    BY DivMod, Product
  <2>2. n * m < n * ((y \div n) + 1)
    BY <1>2, <2>1
  <2>3. m < (y \div n) + 1
    BY <2>1, <2>2, Product
  <2>4. QED
    BY <2>1, <2>3
<1>3. ASSUME NEW y \in Nat, x <= y PROVE x \div n <= y \div n
  <2>1. x \div n \in Nat /\ y \div n \in Nat /\ n * (x \div n) <= x /\ n * (x \div n) \in Nat
    BY DivMod
  <2>2. y >= n * (x \div n)
    BY <1>3, <2>1
  <2>3. QED
    BY <1>2, <2>1, <2>2
<1>4. QED
  BY <1>1, <1>2, <1>3

LEMMA Lesser ==
  ASSUME NEW a \in Int, NEW b \in Int
  PROVE  Min({a, b}) = IF a <= b THEN a ELSE b
<1> DEFINE m == IF a <= b THEN a ELSE b
<1>1. m \in {a, b} /\ \A y \in {a, b} : m <= y
  OBVIOUS
<1>2. \A x \in {a, b} : (\A y \in {a, b} : x <= y) => x = m
  OBVIOUS
<1> HIDE DEF m
<1>3. (CHOOSE x \in {a, b} : \A y \in {a, b} : x <= y) = m
  BY <1>1, <1>2
<1>4. QED
  BY <1>3 DEF Min, m

-----------------------------------------------------------------------------
(* Lists of blocks *)

Lists == Seq([start : Nat, length : Nat \ {0}])

\* The sectors before an entry, counted.
LEMMA UpToFacts ==
  ASSUME NEW list \in Lists
  PROVE  LET U == SectorsUpTo(list)
         IN  /\ U \in [0..Len(list) -> Nat] /\ U[0] = 0
             /\ \A i \in 1..Len(list) : U[i] = U[i - 1] + list[i].length
             /\ \A i, j \in 0..Len(list) : i <= j => U[i] <= U[j]
<1> DEFINE n == Len(list)
           U == SectorsUpTo(list)
<1>1. n \in Nat /\ \A i \in 1..n : list[i].length \in Nat \ {0}
  <2>1. \A i \in 1..n : list[i] \in [start : Nat, length : Nat \ {0}]
    BY ElementOfSeq DEF Lists
  <2>2. QED
    BY <2>1 DEF Lists
<1>2. U = [k \in 0..n |-> IF k = 0 THEN 0 ELSE U[k - 1] + list[k].length]
  BY SectorsLoop DEF Lists
<1> HIDE DEF U, n
<1>3. DOMAIN U = 0..n /\ U[0] = 0 /\ \A i \in 1..n : U[i] = U[i - 1] + list[i].length
  <2>1. \A k \in 0..n : U[k] = IF k = 0 THEN 0 ELSE U[k - 1] + list[k].length
    BY <1>2
  <2>2. DOMAIN U = 0..n
    BY <1>2
  <2>3. QED
    BY <1>1, <2>1, <2>2
<1> DEFINE T == {m \in 0..n : U[m] \in Nat /\ \A i \in 0..m : U[i] \in Nat /\ U[i] <= U[m]}
<1>4. 0 \in T
  BY <1>1, <1>3
<1>5. ASSUME NEW m \in T, m \in 0..(n - 1) PROVE m + 1 \in T
  <2>1. m + 1 \in 1..n /\ (m + 1) - 1 = m /\ m + 1 \in 0..n
    BY <1>1, <1>5
  <2>2. U[m + 1] = U[m] + list[m + 1].length /\ list[m + 1].length \in Nat
    BY <1>1, <1>3, <2>1
  <2>3. U[m] \in Nat /\ U[m + 1] \in Nat /\ U[m] <= U[m + 1]
    BY <2>2
  <2>4. ASSUME NEW i \in 0..(m + 1) PROVE U[i] \in Nat /\ U[i] <= U[m + 1]
    <3>1. i \in 0..m \/ i = m + 1
      BY <2>1
    <3>2. QED
      BY <2>3, <3>1
  <2>5. QED
    BY <2>1, <2>3, <2>4
<1>6. 0..n \subseteq T
  <2> HIDE DEF T
  <2>1. QED
    BY <1>1, <1>4, <1>5, Upward
<1>7. \A i \in 0..n : U[i] \in Nat
  BY <1>6
<1>8. ASSUME NEW i \in 0..n, NEW j \in 0..n, i <= j PROVE U[i] <= U[j]
  <2>1. j \in T /\ i \in 0..j
    BY <1>6, <1>8
  <2>2. QED
    BY <2>1
<1>9. U \in [0..n -> Nat]
  <2>1. U = [k \in 0..n |-> U[k]]
    BY <1>2
  <2>2. QED
    BY <1>7, <2>1
<1>10. QED
  BY <1>3, <1>8, <1>9 DEF U, n

\* A place in a list is an entry and a sector of it.
LEMMA EntryOf ==
  ASSUME NEW list \in Lists, NEW t \in Nat, t < SectorsUpTo(list)[Len(list)]
  PROVE  \E i \in 1..Len(list), b \in Nat :
           /\ b < list[i].length /\ t = SectorsUpTo(list)[i - 1] + b
<1> DEFINE n == Len(list)
           U == SectorsUpTo(list)
           S == {i \in 1..n : t < U[i]}
<1>1. n \in Nat /\ U[0] = 0 /\ U \in [0..n -> Nat]
  BY UpToFacts DEF Lists
<1>2. n # 0 /\ n \in S
  BY <1>1
<1>3. PICK i \in S : \A j \in S : i <= j
  <2>1. S \in SUBSET Nat /\ S # {}
    BY <1>2
  <2> HIDE DEF S
  <2>2. QED
    BY <2>1, Least
<1>4. i \in 1..n /\ i - 1 \in 0..n /\ ~ (i <= i - 1) /\ U[i] = U[i - 1] + list[i].length
  BY <1>1, <1>3, UpToFacts
<1>5. U[i - 1] <= t
  <2>1. CASE i = 1
    BY <1>1, <2>1
  <2>2. CASE i # 1
    <3>1. i - 1 \in 1..n /\ i - 1 \notin S /\ U[i - 1] \in Nat
      BY <1>1, <1>3, <1>4, <2>2
    <3>2. QED
      BY <3>1
  <2>3. QED
    BY <2>1, <2>2
<1>6. list[i].length \in Nat
  <2>1. list[i] \in [start : Nat, length : Nat \ {0}]
    BY <1>4, ElementOfSeq DEF Lists
  <2>2. QED
    BY <2>1
<1>7. U[i - 1] \in Nat
  BY <1>1, <1>4
<1> DEFINE b == t - U[i - 1]
<1>8. b \in Nat /\ b < list[i].length /\ t = U[i - 1] + b
  <2>1. t < U[i - 1] + list[i].length
    BY <1>3, <1>4
  <2> HIDE DEF U
  <2>2. QED
    BY <1>5, <1>6, <1>7, <2>1
<1>9. QED
  BY <1>4, <1>8

-----------------------------------------------------------------------------
(* Sequences one behind the other *)

LEMMA Joined ==
  ASSUME NEW T, NEW s \in Seq(T), NEW t \in Seq(T)
  PROVE  /\ s \o t \in Seq(T) /\ Len(s \o t) = Len(s) + Len(t)
         /\ \A k \in 1..Len(s) : (s \o t)[k] = s[k]
         /\ \A k \in 1..Len(t) : (s \o t)[Len(s) + k] = t[k]
<1>1. s \o t \in Seq(T) /\ Len(s \o t) = Len(s) + Len(t)
  OBVIOUS
<1>2. \A k \in 1..Len(s) : (s \o t)[k] = s[k]
  OBVIOUS
<1>3. ASSUME NEW k \in 1..Len(t) PROVE (s \o t)[Len(s) + k] = t[k]
  <2>1. Len(s) + k \in 1..(Len(s) + Len(t)) /\ ~ (Len(s) + k <= Len(s))
        /\ (Len(s) + k) - Len(s) = k
    OBVIOUS
  <2>2. QED
    BY <2>1
<1>4. QED
  BY <1>1, <1>2, <1>3

Symbols == UNION {Range(Disk[s]) : s \in DOMAIN Disk}

LEMMA Flattened ==
  ASSUME NEW seqs \in Seq(Seq(Symbols)), Len(seqs) # 0,
         NEW w \in [0..Len(seqs) -> Nat], w[0] = 0,
         \A i \in 1..Len(seqs) : w[i] = w[i - 1] + Len(seqs[i])
  PROVE  /\ FlattenSeq(seqs) \in Seq(Symbols) /\ Len(FlattenSeq(seqs)) = w[Len(seqs)]
         /\ \A i \in 1..Len(seqs) : \A k \in 1..Len(seqs[i]) :
              FlattenSeq(seqs)[w[i - 1] + k] = seqs[i][k]
<1> DEFINE n == Len(seqs)
<1>1. n \in Nat \ {0} /\ \A i \in 1..n : seqs[i] \in Seq(Symbols) /\ Len(seqs[i]) \in Nat
  OBVIOUS
<1>2. PICK g : /\ g = [i \in 1..n |-> IF i = 1 THEN seqs[i] ELSE g[i - 1] \o seqs[i]]
               /\ FlattenSeq(seqs) = g[n]
  BY <1>1, FlattenLoop
<1> HIDE DEF n
<1>3. g[1] = seqs[1] /\ \A i \in 1..n : i # 1 => g[i] = g[i - 1] \o seqs[i]
  <2>1. \A i \in 1..n : g[i] = IF i = 1 THEN seqs[i] ELSE g[i - 1] \o seqs[i]
    BY <1>2
  <2>2. 1 \in 1..n
    BY <1>1
  <2>3. QED
    BY <2>1, <2>2
<1> DEFINE Good(m) ==
             /\ g[m] \in Seq(Symbols) /\ Len(g[m]) = w[m]
             /\ \A i \in 1..m : w[i] <= w[m] /\ \A k \in 1..Len(seqs[i]) : g[m][w[i - 1] + k] = seqs[i][k]
           S == {m \in Nat : m = 0 \/ Good(m)}
<1>4. 0 \in S
  OBVIOUS
<1>5. ASSUME NEW m \in S, m \in 0..(n - 1) PROVE m + 1 \in S
  <2>1. m + 1 \in 1..n /\ (m + 1) - 1 = m /\ m + 1 \in Nat /\ m \in 0..n /\ m + 1 \in 0..n
        /\ m \in Nat
    BY <1>1, <1>5
  <2>2. w[m + 1] = w[m] + Len(seqs[m + 1]) /\ w[m] \in Nat /\ w[m + 1] \in Nat
        /\ Len(seqs[m + 1]) \in Nat /\ seqs[m + 1] \in Seq(Symbols)
    BY <1>1, <2>1 DEF n
  <2>3. CASE m = 0
    <3>1. g[1] = seqs[1] /\ w[1] = Len(seqs[1]) /\ w[0] = 0
      BY <1>3, <2>2, <2>3
    <3>2. \A i \in 1..1 : i = 1 /\ i - 1 = 0
      OBVIOUS
    <3>3. \A k \in 1..Len(seqs[1]) : 0 + k = k
      OBVIOUS
    <3>4. Good(1)
      BY <2>2, <2>3, <3>1, <3>2, <3>3
    <3> HIDE DEF Good
    <3>5. m + 1 = 1 /\ 1 \in Nat
      BY <2>3
    <3>6. QED
      BY <3>4, <3>5
  <2>4. CASE m # 0
    <3>1. Good(m) /\ m \in Nat
      BY <1>5, <2>4
    <3>2. g[m + 1] = g[m] \o seqs[m + 1]
      <4>1. m + 1 # 1
        BY <2>1, <2>4
      <4>2. QED
        BY <1>3, <2>1, <4>1
    <3>3. /\ g[m + 1] \in Seq(Symbols) /\ Len(g[m + 1]) = w[m] + Len(seqs[m + 1])
          /\ \A k \in 1..w[m] : g[m + 1][k] = g[m][k]
          /\ \A k \in 1..Len(seqs[m + 1]) : g[m + 1][w[m] + k] = seqs[m + 1][k]
      <4> DEFINE x == g[m]
                 y == seqs[m + 1]
      <4>1. x \in Seq(Symbols) /\ Len(x) = w[m] /\ y \in Seq(Symbols)
        BY <2>2, <3>1
      <4>2. g[m + 1] = x \o y
        BY <3>2
      <4> HIDE DEF Good, S, x, y
      <4>3. /\ x \o y \in Seq(Symbols) /\ Len(x \o y) = Len(x) + Len(y)
            /\ \A k \in 1..Len(x) : (x \o y)[k] = x[k]
            /\ \A k \in 1..Len(y) : (x \o y)[Len(x) + k] = y[k]
        <5>1. x \in Seq(Symbols) /\ y \in Seq(Symbols)
          BY <4>1
        <5>2. x \o y \in Seq(Symbols) /\ Len(x \o y) = Len(x) + Len(y)
          BY <5>1
        <5>3. \A k \in 1..Len(x) : (x \o y)[k] = x[k]
          BY <5>1
        <5>4. \A k \in 1..Len(y) : (x \o y)[Len(x) + k] = y[k]
          BY <5>1, Joined
        <5>5. QED
          BY <5>2, <5>3, <5>4
      <4>4. /\ g[m + 1] \in Seq(Symbols) /\ Len(g[m + 1]) = w[m] + Len(y)
            /\ \A k \in 1..w[m] : g[m + 1][k] = x[k]
            /\ \A k \in 1..Len(y) : g[m + 1][w[m] + k] = y[k]
        BY <4>1, <4>2, <4>3
      <4>5. QED
        BY <4>4 DEF x, y
    <3>4. ASSUME NEW i \in 1..(m + 1)
          PROVE  w[i] <= w[m + 1] /\ \A k \in 1..Len(seqs[i]) : g[m + 1][w[i - 1] + k] = seqs[i][k]
      <4>1. CASE i = m + 1
        BY <2>1, <2>2, <3>3, <4>1
      <4>2. CASE i # m + 1
        <5>1. i \in 1..m /\ i \in 1..n /\ i - 1 \in 0..n /\ i \in 0..n
          BY <1>1, <2>1, <4>2
        <5>2. w[i] <= w[m] /\ w[i] \in Nat /\ w[i - 1] \in Nat /\ w[i] = w[i - 1] + Len(seqs[i])
              /\ Len(seqs[i]) \in Nat
          BY <1>1, <3>1, <5>1 DEF n
        <5>3. ASSUME NEW k \in 1..Len(seqs[i]) PROVE g[m + 1][w[i - 1] + k] = seqs[i][k]
          <6>1. w[i - 1] + k \in 1..w[m]
            <7> DEFINE x == w[i - 1]
                       y == Len(seqs[i])
                       z == w[i]
                       u == w[m]
            <7>1. x \in Nat /\ y \in Nat /\ z \in Nat /\ u \in Nat /\ k \in 1..y
                  /\ z <= u /\ z = x + y
              BY <2>2, <5>2
            <7> HIDE DEF Good, S, x, y, z, u
            <7>2. x + k \in 1..u
              BY <7>1
            <7>3. QED
              BY <7>2 DEF x, u
          <6>2. g[m][w[i - 1] + k] = seqs[i][k]
            BY <3>1, <5>1
          <6>3. QED
            BY <3>3, <6>1, <6>2
        <5>4. w[i] <= w[m + 1]
          BY <2>2, <5>2
        <5>5. QED
          BY <5>3, <5>4
      <4>3. QED
        BY <4>1, <4>2
    <3>5. Good(m + 1)
      BY <2>2, <3>3, <3>4
    <3> HIDE DEF Good
    <3>6. QED
      BY <2>1, <3>5
  <2>5. QED
    BY <2>3, <2>4
<1>6. n \in S
  <2> HIDE DEF S
  <2>1. n \in 0..n
    BY <1>1
  <2>2. QED
    BY <1>1, <1>4, <1>5, <2>1, Upward
<1>7. Good(n)
  <2> HIDE DEF Good
  <2> QED
    BY <1>1, <1>6
<1>8. QED
  BY <1>2, <1>7 DEF n

-----------------------------------------------------------------------------
(* The bytes of a file *)

LEMMA Sector ==
  ASSUME NEW s \in DOMAIN Disk
  PROVE  /\ Disk[s] \in Seq(Symbols) /\ Len(Disk[s]) = SS
         /\ \A o \in 1..SS : Disk[s][o] \in Symbols /\ SymbolOK(Disk[s][o])
<1>1. Disk[s] \in Seq(Range(Disk[s])) /\ Len(Disk[s]) = SS /\ \A o \in 1..SS : SymbolOK(Disk[s][o])
  BY FileAssumption
<1>2. Range(Disk[s]) \subseteq Symbols
  BY DEF Symbols
<1>3. Disk[s] \in Seq(Symbols)
  BY <1>1, <1>2
<1>4. \A o \in 1..SS : Disk[s][o] \in Symbols
  BY <1>1, <1>3
<1>5. QED
  BY <1>1, <1>3, <1>4

LEMMA Whole ==
  ASSUME NEW f \in Files
  PROVE  /\ f.list \in Lists /\ Len(f.list) \in Nat \ {0}
         /\ \A i \in Entries(f) :
              /\ f.list[i].start \in Nat /\ f.list[i].length \in Nat \ {0}
              /\ \A b \in Nat : b < f.list[i].length => f.list[i].start + b \in DOMAIN Disk
         /\ Entries(f) = 1..Len(f.list)
         /\ f.max \in Nat \ {0} /\ f.max <= SS * SectorsUpTo(f.list)[Len(f.list)]
         /\ SectorsUpTo(f.list)[Len(f.list)] \in Nat
<1>1. /\ f.list \in Lists
      /\ f.max \in 1..(SS * SectorsUpTo(f.list)[Len(f.list)])
      /\ \A i \in Entries(f) : SectorsOf(f.list[i]) \subseteq DOMAIN Disk
  BY FileAssumption DEF FileOK, Lists
<1>2. Len(f.list) \in Nat /\ Entries(f) = 1..Len(f.list)
  BY <1>1 DEF Lists, Entries
<1>3. SectorsUpTo(f.list)[Len(f.list)] \in Nat /\ SectorsUpTo(f.list)[0] = 0
  BY <1>1, <1>2, UpToFacts
<1>4. f.max \in Nat \ {0} /\ f.max <= SS * SectorsUpTo(f.list)[Len(f.list)]
  BY <1>1, <1>3, Constants, Product
<1>5. Len(f.list) # 0
  BY <1>3, <1>4, Constants
<1>6. \A i \in Entries(f) : f.list[i] \in [start : Nat, length : Nat \ {0}]
  BY <1>1, <1>2, ElementOfSeq DEF Lists
<1>7. ASSUME NEW i \in Entries(f), NEW b \in Nat, b < f.list[i].length
      PROVE  f.list[i].start + b \in DOMAIN Disk
  <2>1. f.list[i].start + b \in SectorsOf(f.list[i])
    BY <1>6, <1>7 DEF SectorsOf
  <2>2. QED
    BY <1>1, <2>1
<1>8. QED
  BY <1>1, <1>2, <1>3, <1>4, <1>5, <1>6, <1>7

LEMMA Tuple ==
  ASSUME NEW T, NEW n \in Nat, NEW s, DOMAIN s = 1..n, s = [i \in 1..n |-> s[i]],
         \A i \in 1..n : s[i] \in T
  PROVE  s \in Seq(T) /\ Len(s) = n
OBVIOUS

LEMMA EntryFlat ==
  ASSUME NEW e, e.start \in Nat, e.length \in Nat \ {0},
         \A b \in Nat : b < e.length => e.start + b \in DOMAIN Disk
  PROVE  LET flat == FlattenSeq([j \in 1..e.length |-> Disk[e.start + j - 1]])
         IN  /\ flat \in Seq(Symbols) /\ Len(flat) = SS * e.length
             /\ \A b \in Nat, o \in 1..SS :
                  b < e.length => flat[SS * b + o] = Disk[e.start + b][o]
<1> DEFINE seqs == [j \in 1..e.length |-> Disk[e.start + j - 1]]
           w == [j \in 0..e.length |-> SS * j]
<1>1. \A j \in 1..e.length : seqs[j] \in Seq(Symbols) /\ Len(seqs[j]) = SS /\ seqs[j] = Disk[e.start + (j - 1)]
  <2>1. \A j \in 1..e.length : e.start + j - 1 = e.start + (j - 1) /\ e.start + (j - 1) \in DOMAIN Disk
    OBVIOUS
  <2>2. QED
    BY <2>1, Sector
<1>2. seqs \in Seq(Seq(Symbols)) /\ Len(seqs) = e.length
  <2>1. DOMAIN seqs = 1..e.length /\ seqs = [j \in 1..e.length |-> seqs[j]]
    OBVIOUS
  <2> HIDE DEF seqs
  <2>2. QED
    BY <1>1, <2>1, Tuple
<1>3. /\ w \in [0..e.length -> Nat] /\ w[0] = 0 /\ \A j \in 1..e.length : w[j] = w[j - 1] + SS
      /\ \A j \in 0..e.length : w[j] = SS * j
  <2>1. \A j \in 1..e.length : j - 1 \in Nat /\ (j - 1) + 1 = j /\ SS * ((j - 1) + 1) = SS * (j - 1) + SS
    BY Constants, Product
  <2>2. QED
    BY <2>1, Constants
<1> HIDE DEF w
<1>4. /\ FlattenSeq(seqs) \in Seq(Symbols) /\ Len(FlattenSeq(seqs)) = w[Len(seqs)]
      /\ \A i \in 1..Len(seqs) : \A k \in 1..Len(seqs[i]) : FlattenSeq(seqs)[w[i - 1] + k] = seqs[i][k]
  <2> HIDE DEF seqs
  <2>1. /\ Len(seqs) # 0 /\ \A i \in 1..Len(seqs) : w[i] = w[i - 1] + Len(seqs[i])
        /\ w \in [0..Len(seqs) -> Nat]
    BY <1>1, <1>2, <1>3
  <2>2. QED
    BY <1>2, <1>3, <2>1, Flattened
<1>5. ASSUME NEW b \in Nat, NEW o \in 1..SS, b < e.length
      PROVE  FlattenSeq(seqs)[SS * b + o] = Disk[e.start + b][o]
  <2> DEFINE i == b + 1
  <2>1. i \in 1..e.length /\ i - 1 = b /\ i - 1 \in 0..e.length
    BY <1>5
  <2> HIDE DEF i, seqs
  <2>2. FlattenSeq(seqs)[w[i - 1] + o] = seqs[i][o]
    BY <1>1, <1>2, <1>4, <2>1
  <2>3. QED
    BY <1>1, <1>3, <2>1, <2>2
<1> HIDE DEF seqs
<1>6. /\ FlattenSeq(seqs) \in Seq(Symbols) /\ Len(FlattenSeq(seqs)) = SS * e.length
  BY <1>2, <1>3, <1>4
<1>7. QED
  BY <1>5, <1>6 DEF seqs

\* Where the list's entries come to be.
LEMMA FlatFacts ==
  ASSUME NEW f \in Files
  PROVE  /\ Flat[f] \in Seq(Symbols) /\ Len(Flat[f]) = f.max
         /\ \A i \in Entries(f), b \in Nat, o \in 1..SS :
              b < f.list[i].length /\ SS * (SectorsUpTo(f.list)[i - 1] + b) + o <= f.max =>
                Flat[f][SS * (SectorsUpTo(f.list)[i - 1] + b) + o] = Disk[f.list[i].start + b][o]
<1> DEFINE sectors(e) == FlattenSeq([j \in 1..e.length |-> Disk[e.start + j - 1]])
           n == Len(f.list)
           U == SectorsUpTo(f.list)
           seqs == [i \in Entries(f) |-> sectors(f.list[i])]
           w == [i \in 0..n |-> SS * U[i]]
<1>1. \A i \in 1..n :
        /\ seqs[i] \in Seq(Symbols) /\ Len(seqs[i]) = SS * f.list[i].length
        /\ \A b \in Nat, o \in 1..SS :
             b < f.list[i].length => seqs[i][SS * b + o] = Disk[f.list[i].start + b][o]
  <2>1. SUFFICES ASSUME NEW i \in 1..n
                 PROVE  /\ seqs[i] \in Seq(Symbols) /\ Len(seqs[i]) = SS * f.list[i].length
                        /\ \A b \in Nat, o \in 1..SS :
                             b < f.list[i].length => seqs[i][SS * b + o] = Disk[f.list[i].start + b][o]
    OBVIOUS
  <2>2. i \in Entries(f) /\ seqs[i] = sectors(f.list[i])
    BY Whole
  <2> HIDE DEF seqs
  <2> DEFINE e == f.list[i]
  <2>3. /\ e.start \in Nat /\ e.length \in Nat \ {0}
        /\ \A b \in Nat : b < e.length => e.start + b \in DOMAIN Disk
    BY <2>2, Whole
  <2> HIDE DEF e
  <2>4. /\ sectors(e) \in Seq(Symbols) /\ Len(sectors(e)) = SS * e.length
        /\ \A b \in Nat, o \in 1..SS : b < e.length => sectors(e)[SS * b + o] = Disk[e.start + b][o]
    BY <2>3, EntryFlat
  <2> HIDE DEF sectors
  <2>5. QED
    BY <2>2, <2>4 DEF e
<1>2. seqs \in Seq(Seq(Symbols)) /\ Len(seqs) = n /\ n \in Nat \ {0}
  <2>1. DOMAIN seqs = 1..n /\ seqs = [j \in 1..n |-> seqs[j]] /\ n \in Nat \ {0}
    BY Whole
  <2> HIDE DEF seqs, n
  <2>2. QED
    BY <1>1, <2>1, Tuple
<1>3. U \in [0..n -> Nat] /\ U[0] = 0 /\ \A i \in 1..n : U[i] = U[i - 1] + f.list[i].length
  BY UpToFacts, Whole
<1> HIDE DEF seqs, U
<1>4. w \in [0..n -> Nat] /\ w[0] = 0 /\ \A i \in 1..n : w[i] = w[i - 1] + Len(seqs[i])
  <2>1. w \in [0..n -> Nat] /\ w[0] = 0
    BY <1>2, <1>3, Constants
  <2>2. ASSUME NEW i \in 1..n PROVE w[i] = w[i - 1] + Len(seqs[i])
    <3>0. i \in 0..n /\ i - 1 \in 0..n
      <4> HIDE DEF n
      <4> QED
        BY <1>2
    <3>1. i \in 0..n /\ i - 1 \in 0..n /\ U[i - 1] \in Nat /\ f.list[i].length \in Nat
          /\ U[i] = U[i - 1] + f.list[i].length
      BY <1>3, <3>0, Whole
    <3>2. SS * (U[i - 1] + f.list[i].length) = SS * U[i - 1] + SS * f.list[i].length
      BY <3>1, Constants, Product
    <3>3. QED
      BY <1>1, <3>1, <3>2
  <2>3. QED
    BY <2>1, <2>2
<1>5. \A i \in 0..n : w[i] = SS * U[i]
  OBVIOUS
<1> HIDE DEF w
<1> DEFINE all == FlattenSeq(seqs)
<1>6. /\ all \in Seq(Symbols) /\ Len(all) = w[n]
      /\ \A i \in 1..n : \A k \in 1..Len(seqs[i]) : all[w[i - 1] + k] = seqs[i][k]
  <2>1. /\ w \in [0..Len(seqs) -> Nat] /\ Len(seqs) # 0
        /\ \A i \in 1..Len(seqs) : w[i] = w[i - 1] + Len(seqs[i])
    BY <1>2, <1>4
  <2>2. /\ all \in Seq(Symbols) /\ Len(all) = w[Len(seqs)]
        /\ \A i \in 1..Len(seqs) : \A k \in 1..Len(seqs[i]) : all[w[i - 1] + k] = seqs[i][k]
    BY <1>2, <1>4, <2>1, Flattened
  <2>3. QED
    BY <1>2, <2>2
<1> HIDE DEF all, n
<1>7. f.max \in Nat /\ f.max <= Len(all) /\ Len(all) \in Nat
  <2>1. n \in 0..n
    BY <1>2
  <2>2. w[n] = SS * U[n] /\ w[n] \in Nat
    BY <1>4, <1>5, <2>1
  <2>3. f.max \in Nat /\ f.max <= SS * U[n]
    BY Whole DEF n, U
  <2> DEFINE k == SS * U[n]
  <2>4. Len(all) = k /\ k \in Nat /\ f.max <= k
    BY <1>6, <2>2, <2>3
  <2> HIDE DEF k
  <2>5. QED
    BY <2>3, <2>4
<1>8. Flat[f] = SubSeq(all, 1, f.max)
  BY DEF Flat, all, seqs
<1>9. /\ Flat[f] \in Seq(Symbols) /\ Len(Flat[f]) = f.max
      /\ \A k \in 1..f.max : Flat[f][k] = all[k]
  BY <1>6, <1>7, <1>8
<1>10. ASSUME NEW i \in Entries(f), NEW b \in Nat, NEW o \in 1..SS,
              b < f.list[i].length, SS * (U[i - 1] + b) + o <= f.max
       PROVE  Flat[f][SS * (U[i - 1] + b) + o] = Disk[f.list[i].start + b][o]
  <2>1. i \in 1..n /\ i - 1 \in 0..n /\ f.list[i].length \in Nat
    BY <1>2, Whole DEF n
  <2>2. U[i - 1] \in Nat
    BY <1>3, <2>1
  <2> DEFINE l == f.list[i].length
             u == U[i - 1]
  <2>3. /\ SS * (u + b) = SS * u + SS * b /\ SS * u \in Nat /\ SS * b \in Nat /\ SS * l \in Nat
        /\ SS * (b + 1) = SS * b + SS /\ SS * (b + 1) <= SS * l /\ l \in Nat /\ SS \in Nat
    <3>1. b + 1 <= l /\ l \in Nat /\ u \in Nat /\ b + 1 \in Nat
      BY <1>10, <2>1, <2>2
    <3> HIDE DEF l, u
    <3>2. QED
      BY <3>1, Constants, Product
  <2>4. SS * b + o \in 1..(SS * l) /\ SS * (u + b) + o \in 1..f.max
        /\ SS * (u + b) + o = SS * u + (SS * b + o)
    <3>1. SS * (u + b) + o <= f.max
      BY <1>10
    <3> HIDE DEF l, u
    <3>2. QED
      BY <1>7, <2>3, <3>1
  <2>5. Flat[f][SS * (u + b) + o] = all[w[i - 1] + (SS * b + o)]
    BY <1>5, <1>9, <2>1, <2>4
  <2>6. all[w[i - 1] + (SS * b + o)] = seqs[i][SS * b + o]
    BY <1>1, <1>6, <2>1, <2>4
  <2>7. seqs[i][SS * b + o] = Disk[f.list[i].start + b][o]
    BY <1>1, <1>10, <2>1
  <2>8. QED
    BY <2>5, <2>6, <2>7
<1>11. QED
  BY <1>9, <1>10 DEF U

LEMMA SymbolsOK ==
  ASSUME NEW f \in Files, NEW p \in Nat, p < f.max
  PROVE  SymbolOK(SymbolAt(f, p))
<1> DEFINE t == p \div SS
           U == SectorsUpTo(f.list)
<1>1. /\ t \in Nat /\ p = SS * t + (p % SS) /\ p % SS \in 0..(SS - 1)
      /\ t < SectorsUpTo(f.list)[Len(f.list)]
  <2>1. f.max <= SS * U[Len(f.list)] /\ U[Len(f.list)] \in Nat /\ f.max \in Nat
    BY Whole
  <2>2. p < SS * U[Len(f.list)]
    <3> HIDE DEF U
    <3>1. SS * U[Len(f.list)] \in Nat
      BY <2>1, Constants
    <3>2. QED
      BY <2>1, <3>1
  <2>3. t < U[Len(f.list)]
    BY <2>1, <2>2, SameQuotient, Constants
  <2>4. QED
    BY <2>3, DivMod, Constants
<1> HIDE DEF t
<1>2. PICK i \in 1..Len(f.list), b \in Nat : b < f.list[i].length /\ t = U[i - 1] + b
  BY <1>1, EntryOf, Whole
<1> DEFINE o == (p % SS) + 1
<1>3. o \in 1..SS /\ SS * (U[i - 1] + b) + o = p + 1 /\ p + 1 <= f.max
  <2>1. o \in 1..SS /\ SS * t + o = p + 1
    <3>1. SS * t \in Nat /\ SS \in Nat
      BY <1>1, Constants
    <3>2. QED
      BY <1>1, <3>1
  <2>2. p + 1 <= f.max
    BY Whole
  <2>3. QED
    BY <1>2, <2>1, <2>2
<1>4. i \in Entries(f) /\ f.list[i].start + b \in DOMAIN Disk
  BY <1>2, Whole
<1> HIDE DEF o, U
<1>5. Flat[f][p + 1] = Disk[f.list[i].start + b][o]
  BY <1>2, <1>3, <1>4, FlatFacts DEF U
<1>6. QED
  BY <1>3, <1>4, <1>5, Sector DEF SymbolAt

-----------------------------------------------------------------------------
(* The cursor *)

\* A cursor is at sector t of a file.
At(f, c, t) ==
  /\ c \in [filepos : Nat, blklist : Nat, blknum : Nat] /\ c.blklist \in Entries(f)
  /\ c.blknum < f.list[c.blklist].length
  /\ t = c.blknum + SectorsUpTo(f.list)[c.blklist - 1]

\* It is at the sector of its position.
Points(f, c) == At(f, c, c.filepos \div SS)

LEMMA NextAt ==
  ASSUME NEW f \in Files, NEW c, NEW t \in Nat, At(f, c, t),
         t + 1 < SectorsUpTo(f.list)[Len(f.list)]
  PROVE  At(f, NextBlock(f, c), t + 1) /\ NextBlock(f, c).filepos = c.filepos
<1> DEFINE n == Len(f.list)
           U == SectorsUpTo(f.list)
           i == c.blklist
           l == f.list[i].length
<1>1. c \in [filepos : Nat, blklist : Nat, blknum : Nat] /\ c.blknum < l /\ t = c.blknum + U[i - 1]
  BY DEF At
<1>2. /\ n \in Nat /\ i \in 1..n /\ l \in Nat /\ i \in Entries(f) /\ Entries(f) = 1..n
      /\ U \in [0..n -> Nat] /\ U[i] = U[i - 1] + l
  BY Whole, UpToFacts DEF At
<1>3. i \in 0..n /\ i - 1 \in 0..n /\ U[i] \in Nat /\ U[i - 1] \in Nat /\ i \in Nat /\ c.blknum \in Nat
      /\ (i + 1) - 1 = i
  <2> HIDE DEF i, n, U
  <2>1. i \in 0..n /\ i - 1 \in 0..n /\ i \in Nat /\ (i + 1) - 1 = i
    BY <1>2
  <2>2. c.blknum \in Nat
    BY <1>1
  <2>3. QED
    BY <1>2, <2>1, <2>2
<1>4. CASE c.blknum + 1 = l
  <2> DEFINE d == [c EXCEPT !.blklist = @ + 1, !.blknum = 0]
  <2>1. NextBlock(f, c) = d
    BY <1>4 DEF NextBlock
  <2>2. t + 1 = U[i] /\ U[i] < U[n]
    <3>1. t + 1 = U[i]
      <4> DEFINE b == c.blknum
                 u == U[i - 1]
                 v == U[i]
      <4>1. t = b + u /\ v = u + l /\ b + 1 = l /\ b \in Nat /\ u \in Nat /\ v \in Nat /\ l \in Nat
        BY <1>1, <1>2, <1>3, <1>4
      <4> HIDE DEF b, u, v, l
      <4>2. t + 1 = v
        BY <4>1
      <4>3. QED
        BY <4>2 DEF v
    <3>2. QED
      BY <3>1
  <2>3. i + 1 \in 1..n
    <3>1. i # n
      BY <2>2, <1>3
    <3>2. i \in 1..n /\ n \in Nat
      BY <1>2
    <3> HIDE DEF i, n
    <3>3. QED
      BY <3>1, <3>2
  <2>4. /\ d \in [filepos : Nat, blklist : Nat, blknum : Nat] /\ d.blklist = i + 1 /\ d.blknum = 0
        /\ d.filepos = c.filepos
    <3>1. c \in [filepos : Nat, blklist : Nat, blknum : Nat]
      BY <1>1
    <3>2. c.blklist + 1 \in Nat /\ d.blklist = c.blklist + 1
      BY <3>1
    <3>3. d \in [filepos : Nat, blklist : Nat, blknum : Nat]
      BY <3>1, <3>2
    <3>4. d.blknum = 0 /\ d.filepos = c.filepos
      BY <3>1
    <3>5. QED
      BY <3>2, <3>3, <3>4
  <2>5. f.list[i + 1].length \in Nat \ {0}
    BY <1>2, <2>3, Whole
  <2> HIDE DEF d, i, U
  <2>6. 0 < f.list[i + 1].length /\ t + 1 = 0 + U[i]
    BY <1>3, <2>2, <2>5
  <2>7. At(f, d, t + 1)
    BY <1>2, <1>3, <2>3, <2>4, <2>6 DEF At, U
  <2>8. QED
    BY <2>1, <2>4, <2>7
<1>5. CASE c.blknum + 1 # l
  <2> DEFINE d == [c EXCEPT !.blknum = @ + 1]
  <2>1. NextBlock(f, c) = d
    BY <1>5 DEF NextBlock
  <2>2. /\ d \in [filepos : Nat, blklist : Nat, blknum : Nat] /\ d.blklist = i
        /\ d.blknum = c.blknum + 1 /\ d.filepos = c.filepos
    <3>1. c \in [filepos : Nat, blklist : Nat, blknum : Nat]
      BY <1>1
    <3>2. QED
      BY <3>1
  <2>3. c.blknum + 1 < l /\ t + 1 = (c.blknum + 1) + U[i - 1]
    <3> DEFINE b == c.blknum
               u == U[i - 1]
    <3>1. t = b + u /\ b + 1 # l /\ b \in Nat /\ u \in Nat /\ l \in Nat /\ b < l
      BY <1>1, <1>2, <1>3, <1>5
    <3> HIDE DEF b, u, l
    <3>2. b + 1 < l /\ t + 1 = (b + 1) + u
      BY <3>1
    <3>3. QED
      BY <3>2 DEF b, u
  <2> HIDE DEF d, U
  <2>4. At(f, d, t + 1)
    BY <1>2, <2>2, <2>3 DEF At, U
  <2>5. QED
    BY <2>1, <2>2, <2>4
<1>6. QED
  BY <1>4, <1>5

LEMMA AheadAt ==
  ASSUME NEW f \in Files, NEW c, NEW t \in Nat, At(f, c, t), NEW n \in Nat,
         t + n < SectorsUpTo(f.list)[Len(f.list)]
  PROVE  At(f, Ahead(f, c, n), t + n) /\ Ahead(f, c, n).filepos = c.filepos
<1>1. PICK g : /\ g = [k \in 0..n |-> IF k = 0 THEN c ELSE NextBlock(f, g[k - 1])]
               /\ Ahead(f, c, n) = g[n]
  BY AheadLoop
<1>2. g[0] = c /\ \A m \in 0..(n - 1) : g[m + 1] = NextBlock(f, g[m])
  <2>1. \A k \in 0..n : g[k] = IF k = 0 THEN c ELSE NextBlock(f, g[k - 1])
    BY <1>1
  <2>2. 0 \in 0..n /\ \A m \in 0..(n - 1) : m + 1 \in 0..n /\ m + 1 # 0 /\ (m + 1) - 1 = m
    OBVIOUS
  <2>3. QED
    BY <2>1, <2>2
<1> DEFINE T == {m \in Nat : At(f, g[m], t + m) /\ g[m].filepos = c.filepos}
           last == SectorsUpTo(f.list)[Len(f.list)]
<1>3. 0 \in T
  <2>1. t + 0 = t
    OBVIOUS
  <2>2. QED
    BY <1>2, <2>1
<1>4. ASSUME NEW m \in T, m \in 0..(n - 1) PROVE m + 1 \in T
  <2>1. last \in Nat
    BY Whole
  <2>2. m \in Nat /\ t + m \in Nat /\ (t + m) + 1 < last /\ (t + m) + 1 = t + (m + 1) /\ m + 1 \in Nat
    <3> HIDE DEF last, T
    <3>1. t + n < last
      BY DEF last
    <3>2. QED
      BY <1>4, <2>1, <3>1
  <2>3. At(f, g[m], t + m) /\ g[m].filepos = c.filepos
    OBVIOUS
  <2> HIDE DEF T
  <2>4. At(f, NextBlock(f, g[m]), (t + m) + 1) /\ NextBlock(f, g[m]).filepos = g[m].filepos
    BY <2>2, <2>3, NextAt
  <2>5. QED
    BY <1>2, <1>4, <2>2, <2>3, <2>4 DEF T
<1>5. n \in T
  <2> HIDE DEF T
  <2>1. 0..n \subseteq T
    BY <1>3, <1>4, Upward
  <2>2. QED
    BY <2>1
<1>6. QED
  BY <1>1, <1>5

LEMMA StartAt ==
  ASSUME NEW f \in Files
  PROVE  At(f, AtStart, 0) /\ Points(f, AtStart)
<1>1. 1 \in Entries(f) /\ 0 < f.list[1].length
  BY Whole
<1>2. SectorsUpTo(f.list)[0] = 0
  BY Whole, UpToFacts
<1>3. AtStart \in [filepos : Nat, blklist : Nat, blknum : Nat] /\ AtStart.blklist = 1
      /\ AtStart.blknum = 0 /\ AtStart.filepos = 0
  BY DEF AtStart
<1>4. At(f, AtStart, 0)
  BY <1>1, <1>2, <1>3 DEF At
<1>5. 0 \div SS = 0
  BY Constants, DivUnique
<1>6. QED
  BY <1>3, <1>4, <1>5 DEF Points

\* A position in the file is in a sector of it.
LEMMA InSector ==
  ASSUME NEW f \in Files, NEW p \in Nat, p < f.max
  PROVE  p \div SS \in Nat /\ p \div SS < SectorsUpTo(f.list)[Len(f.list)]
<1> DEFINE last == SectorsUpTo(f.list)[Len(f.list)]
<1>1. f.max <= SS * last /\ last \in Nat /\ f.max \in Nat
  BY Whole
<1> HIDE DEF last
<1>2. SS * last \in Nat /\ p < SS * last
  BY <1>1, Constants
<1>3. p \div SS < last
  BY <1>1, <1>2, SameQuotient, Constants
<1>4. QED
  BY <1>3, DivMod, Constants DEF last

\* Sectors between two positions.
LEMMA Between ==
  ASSUME NEW a \in Nat, NEW p \in Nat, a <= p
  PROVE  /\ (p - (a - (a % SS))) \div SS \in Nat
         /\ (a \div SS) + ((p - (a - (a % SS))) \div SS) = p \div SS
<1> DEFINE x == a \div SS
           y == p \div SS
           r == p % SS
           z == SS * x
<1>1. a = z + (a % SS) /\ a % SS \in Nat /\ x \in Nat /\ z \in Nat /\ p = SS * y + r /\ r \in 0..(SS - 1)
      /\ y \in Nat
  BY DivMod, Constants
<1>2. x <= y
  BY SameQuotient, Constants
<1> HIDE DEF x, y, r, z
<1>3. PICK e \in Nat : y = x + e
  BY <1>1, <1>2
<1>4. SS * y = z + SS * e /\ SS * e \in Nat
  BY <1>1, <1>3, Product, Constants DEF z
<1>5. p - (a - (a % SS)) = SS * e + r
  BY <1>1, <1>4
<1>6. (SS * e + r) \div SS = e
  BY <1>1, DivUnique, Constants
<1>7. x + ((p - (a - (a % SS))) \div SS) = y
  BY <1>3, <1>5, <1>6
<1>8. QED
  BY <1>5, <1>6, <1>7 DEF x, y

LEMMA Located ==
  ASSUME file \in Files, Points(file, cur), NEW p \in Nat, p < file.max
  PROVE  Points(file, Locate(p)) /\ Locate(p).filepos = p
<1> DEFINE c == Before(p)
<1>1. Points(file, c) /\ c.filepos <= p /\ c.filepos \in Nat
  <2>1. Points(file, AtStart) /\ AtStart.filepos = 0
    BY StartAt DEF AtStart
  <2>2. cur.filepos \in Nat
    BY DEF Points, At
  <2>3. QED
    BY <2>1, <2>2 DEF Before
<1> HIDE DEF c
<1>2. CASE p > c.filepos
  <2> DEFINE a == c.filepos
             n == (p - (a - (a % SS))) \div SS
             t == a \div SS
             d == Ahead(file, c, n)
  <2>1. Locate(p) = [d EXCEPT !.filepos = p]
    BY <1>2 DEF Locate, c, SectorsAhead
  <2>2. n \in Nat /\ t + n = p \div SS /\ t \in Nat
    BY <1>1, Between, DivMod, Constants
  <2>3. At(file, c, t)
    BY <1>1 DEF Points
  <2>4. t + n < SectorsUpTo(file.list)[Len(file.list)]
    BY <2>2, InSector
  <2> HIDE DEF n, t, a
  <2>5. At(file, d, t + n)
    BY <2>2, <2>3, <2>4, AheadAt
  <2> HIDE DEF d
  <2>6. Locate(p).filepos = p /\ At(file, Locate(p), p \div SS)
    BY <2>1, <2>2, <2>5 DEF At
  <2>7. QED
    BY <2>6 DEF Points
<1>3. CASE ~ (p > c.filepos)
  <2>1. Locate(p) = c
    BY <1>3 DEF Locate, c
  <2>2. QED
    BY <1>1, <1>3, <2>1
<1>4. QED
  BY <1>2, <1>3

LEMMA Sized ==
  ASSUME file \in Files, NEW c, NEW p \in Nat, At(file, c, p \div SS), NEW len \in Nat \ {0}
  PROVE  /\ Size(c, p, len) \in 1..len
         /\ (p % SS) + Size(c, p, len) <= SS * (file.list[c.blklist].length - c.blknum)
<1> DEFINE r == p % SS
           d == file.list[c.blklist].length - c.blknum
<1>1. r \in 0..(SS - 1) /\ d \in Nat \ {0} /\ SS \in Nat \ {0}
  <2>1. r \in 0..(SS - 1) /\ SS \in Nat \ {0}
    BY DivMod, Constants
  <2>2. c.blknum \in Nat /\ c.blknum < file.list[c.blklist].length
        /\ file.list[c.blklist].length \in Nat
    BY Whole DEF At
  <2>3. QED
    BY <2>1, <2>2
<1>2. Size(c, p, len) = IF d * SS - r > len THEN len ELSE d * SS - r
  BY DEF Size
<1> HIDE DEF r, d
<1>3. d * SS = SS * d /\ SS * d >= SS /\ SS * d \in Nat
  <2>1. SS * d = d * SS /\ SS * 1 = SS
    BY <1>1
  <2>2. SS * 1 <= SS * d /\ SS * d \in Nat
    BY <1>1, Product
  <2>3. QED
    BY <2>1, <2>2
<1>4. Size(c, p, len) \in 1..len /\ r + Size(c, p, len) <= SS * d
  BY <1>1, <1>2, <1>3
<1>5. QED
  BY <1>4 DEF r, d

\* What a read moves is the file's.
LEMMA Bytewise ==
  ASSUME file \in Files, NEW c, NEW p \in Nat, At(file, c, p \div SS), NEW size \in Nat,
         (p % SS) + size <= SS * (file.list[c.blklist].length - c.blknum),
         p + size <= file.max
  PROVE  /\ Bytes(c, p, size) = [k \in 1..size |-> Bytes(c, p, size)[k]]
         /\ \A k \in 1..size : Bytes(c, p, size)[k] = SymbolAt(file, p + k - 1)
<1>1. Bytes(c, p, size) = [k \in 1..size |-> Bytes(c, p, size)[k]]
  BY DEF Bytes
<1>2. ASSUME NEW k \in 1..size PROVE Bytes(c, p, size)[k] = SymbolAt(file, p + k - 1)
  <2> DEFINE r == p % SS
             t == p \div SS
             o == r + k - 1
             q == o \div SS
             s == o % SS
             i == c.blklist
             l == file.list[i].length
             b == c.blknum + q
             u == SectorsUpTo(file.list)[i - 1]
  <2>1. r \in Nat /\ t \in Nat /\ p = SS * t + r /\ SS * t \in Nat /\ SS \in Nat \ {0}
    BY DivMod, Constants
  <2>2. c.blknum \in Nat /\ l \in Nat /\ c.blknum < l /\ i \in Entries(file) /\ t = c.blknum + u
    BY Whole DEF At
  <2>3. o \in Nat /\ o < r + size /\ p + k - 1 + 1 = p + k /\ o + 1 = r + k
    <3> HIDE DEF r
    <3>1. QED
      BY <2>1
  <2>4. q \in Nat /\ s \in 0..(SS - 1) /\ o = SS * q + s
    <3> HIDE DEF o
    <3> QED
      BY <2>1, <2>3, DivMod
  <2>5. u \in Nat
    <3>1. SectorsUpTo(file.list) \in [0..Len(file.list) -> Nat] /\ i \in 1..Len(file.list)
          /\ Len(file.list) \in Nat
      BY <2>2, Whole, UpToFacts
    <3> HIDE DEF i
    <3>2. i - 1 \in 0..Len(file.list)
      BY <3>1
    <3>3. QED
      BY <3>1, <3>2
  <2>6. q < l - c.blknum
    <3> DEFINE d == l - c.blknum
    <3>1. r + size <= SS * d /\ d \in Nat
      BY <2>2
    <3> HIDE DEF o, r, d
    <3>2. o < SS * d /\ SS * d \in Nat
      BY <2>1, <2>3, <3>1
    <3>3. q < d
      BY <2>1, <2>3, <3>1, <3>2, SameQuotient
    <3>4. QED
      BY <3>3 DEF d
  <2> HIDE DEF u, l, q
  <2>7. b \in Nat /\ b < l /\ u + b = t + q
    <3> DEFINE a == c.blknum
    <3>1. a \in Nat /\ a < l /\ t = a + u /\ q < l - a
      BY <2>2, <2>6
    <3> HIDE DEF a, t
    <3>2. a + q \in Nat /\ a + q < l /\ u + (a + q) = t + q
      BY <2>2, <2>4, <2>5, <3>1
    <3>3. QED
      BY <3>2 DEF a
  <2>8. SS * (u + b) + (s + 1) = p + k /\ s + 1 \in 1..SS
    <3> HIDE DEF o, r, t, b, s
    <3>1. SS * (t + q) = SS * t + SS * q /\ SS * q \in Nat
      BY <2>1, <2>4, Product
    <3>2. SS * t + SS * q + (s + 1) = p + k
      BY <2>1, <2>3, <2>4, <3>1
    <3>3. QED
      BY <2>1, <2>4, <2>7, <3>1, <3>2
  <2>9. p + k <= file.max
    BY Whole
  <2> HIDE DEF o, r, t, b, s, i
  <2>10. Flat[file][SS * (u + b) + (s + 1)] = Disk[file.list[i].start + b][s + 1]
    BY <2>2, <2>7, <2>8, <2>9, FlatFacts DEF l, u
  <2>11. Flat[file][p + k] = Disk[file.list[i].start + b][s + 1]
    BY <2>8, <2>10
  <2>12. Bytes(c, p, size)[k] = Disk[file.list[i].start + b][s + 1]
    <3>1. Bytes(c, p, size)[k] = Disk[file.list[i].start + c.blknum + q][s + 1]
      BY DEF Bytes, i, q, s, o, r
    <3>2. file.list[i].start + c.blknum + q = file.list[i].start + b
      <4>1. file.list[i].start \in Nat
        BY <2>2, Whole
      <4> DEFINE a == c.blknum
                 v == file.list[i].start
      <4>2. a \in Nat /\ v \in Nat /\ b = a + q
        BY <2>2, <4>1 DEF b
      <4> HIDE DEF a, v
      <4>3. v + a + q = v + b
        BY <2>4, <4>2
      <4>4. QED
        BY <4>3 DEF a, v
    <3>3. QED
      BY <3>1, <3>2
  <2>13. QED
    BY <2>3, <2>11, <2>12 DEF SymbolAt
<1>3. QED
  BY <1>1, <1>2

-----------------------------------------------------------------------------
(* What holds of the reader's state, for any data *)

Inside == {"serve", "window", "inflate", "head", "stored", "codes"}
Decoder == {"head", "stored", "codes"}

\* gunzip_read is at work, with the positions of the gzipped file in filepos and
\* filemax.
InGunzip == pc \in Inside \/ (pc = "blocks" /\ io.to = "inbuf")

\* inflate_window is at work.
InWindow == pc \in {"inflate"} \cup Decoder \/ (pc = "blocks" /\ io.to = "inbuf")

\* Where the decoder is, also while it waits for its input.
Place == IF pc = "blocks" THEN io.back ELSE pc

\* What the decoder is given, and what a caller gets.
Given == Symbols \cup {Plain("?")}
Data == {ByteOf(s) : s \in Given} \cup {"?"}

Cursors == [filepos : Nat, blklist : Nat, blknum : Nat]
Gzips == [filepos : Nat, filemax : Nat, data_offset : {0, 1}]
Inflates == [saved_filepos : Nat, last_block : BOOLEAN, block_len : Nat,
             block_type : {"stored", "codes"}, code_state : {0, 1}, inflate_n : Nat,
             inflate_d : 0..(WSIZE - 1), wp : 0..WSIZE, slide : [0..(WSIZE - 1) -> Data]]
Inputs == [1..INBUFSIZ -> Given]
Requests == [test : BOOLEAN, start : Nat, asked : Nat, len : Nat, count : Nat, last : Nat,
             out : Seq(Data)]
Moves == [len : Nat, done : Nat, to : {"caller", "inbuf"}, back : {"chunk"} \cup Decoder]

Kinds ==
  /\ pc \in {"idle", "test", "chunk", "blocks", "done"} \cup Inside
  /\ errnum \in 0..2 /\ compressed_file \in BOOLEAN
  /\ file \in Files \cup {Closed} /\ cur \in Cursors
  /\ filepos \in Nat /\ filemax \in Nat /\ gzip \in Gzips
  /\ inflate \in Inflates /\ inbuf \in Inputs /\ bufloc \in 0..INBUFSIZ
  /\ call \in Requests /\ io \in Moves

CursorAt ==
  IF file = Closed THEN cur = AtStart /\ pc = "idle" /\ ~compressed_file
                   ELSE Points(file, cur)

\* gunzip_read has the positions swapped.
Positions ==
  /\ IF InGunzip THEN file \in Gzipped /\ ~compressed_file /\ filemax = file.max
     ELSE IF compressed_file THEN file \in Gzipped /\ gzip.filemax = file.max
     ELSE file # Closed => filemax = file.max
  /\ InGunzip \/ compressed_file => gzip.data_offset = 1

\* What remains of grub_read's call and of block_read_func's.
Calls ==
  /\ call.count <= call.len /\ (pc # "done" => call.count + call.last <= call.len)
  /\ io.to = "caller" <=> io.back = "chunk"
  /\ pc = "test" => compressed_file
  /\ pc # "idle" /\ call.test => compressed_file \/ InGunzip
  /\ pc = "idle" => ~call.test
  /\ InGunzip => call.last <= Step /\ call.count < call.len
  /\ pc = "blocks" => filepos + io.len <= filemax
  /\ pc = "blocks" /\ io.to = "caller" =>
       /\ ~compressed_file /\ call.last = 0 /\ call.count + io.done + io.len <= call.len
       /\ filepos - io.done + (call.len - call.count) <= filemax
  /\ pc = "chunk" /\ ~compressed_file /\ call.last > 0 =>
       filepos - call.last + (call.len - call.count) <= filemax

\* The decoder has room and something left where it writes.
Inflating ==
  /\ InWindow /\ Place \in Decoder => inflate.wp < WSIZE
  /\ InWindow /\ Place = "stored" => inflate.block_len > 0

CursorInv == Kinds /\ CursorAt /\ Positions /\ Calls /\ Inflating

LEMMA Known == ASSUME NEW s \in Given PROVE SymbolOK(s) /\ ByteOf(s) \in Data
<1>1. CASE s \in Symbols
  <2>1. PICK t \in DOMAIN Disk : s \in Range(Disk[t])
    BY <1>1 DEF Symbols
  <2>2. Disk[t] \in Seq(Symbols) /\ Len(Disk[t]) = SS /\ \A o \in 1..SS : SymbolOK(Disk[t][o])
    BY Sector
  <2>3. PICK o \in DOMAIN Disk[t] : s = Disk[t][o]
    BY <2>1 DEF Range
  <2>4. o \in 1..SS
    BY <2>2
  <2>5. QED
    BY <2>2, <2>3, <2>4 DEF Data
<1>2. CASE s = Plain("?")
  BY <1>2 DEF SymbolOK, Plain, Data
<1>3. QED
  BY <1>1, <1>2 DEF Given

LEMMA Remainder ==
  ASSUME NEW x \in Int
  PROVE  x % WSIZE \in 0..(WSIZE - 1)
BY Constants

LEMMA NotClosed == Closed \notin Files
BY Whole DEF Closed

LEMMA Zips == \A f \in Gzipped : f \in Files /\ f # Closed /\ f.max \in Nat \ {0}
BY Whole, NotClosed DEF Gzipped

-----------------------------------------------------------------------------
(* The decoder keeps the invariant *)

LEMMA Taken ==
  ASSUME Kinds, Takes
  PROVE  /\ bufloc' \in 0..INBUFSIZ /\ bufloc' = bufloc + 1 /\ bufloc < INBUFSIZ
         /\ Symbol \in Given /\ SymbolOK(Symbol) /\ ByteOf(Symbol) \in Data
<1>1. bufloc \in 0..INBUFSIZ /\ bufloc # INBUFSIZ /\ bufloc' = bufloc + 1
  BY DEF Kinds, Takes, Dry
<1>2. bufloc' \in 0..INBUFSIZ /\ bufloc + 1 \in 1..INBUFSIZ /\ bufloc < INBUFSIZ
  BY <1>1, Constants
<1>3. Symbol \in Given
  BY <1>2 DEF Symbol, Kinds, Inputs
<1>4. QED
  BY <1>1, <1>2, <1>3, Known

\* Its steps leave the rest alone.
LEMMA DecoderSteps ==
  ASSUME CursorInv, pc \in Inside, pc' \in Inside, UNCHANGED decoding,
         inflate' \in Inflates, bufloc' \in 0..INBUFSIZ, errnum' \in 0..2,
         pc' \in Decoder => inflate'.wp < WSIZE,
         pc' = "stored" => inflate'.block_len > 0
  PROVE  CursorInv'
<1>0. Kinds /\ CursorAt /\ Positions /\ Calls /\ Inflating
  BY DEF CursorInv
<1>1. Kinds'
  BY <1>0 DEF Kinds, decoding
<1>2. CursorAt'
  BY <1>0 DEF CursorAt, decoding, Points, Inside
<1>3. InGunzip /\ InGunzip'
  BY DEF InGunzip
<1>4. Positions'
  BY <1>0, <1>3 DEF Positions, decoding
<1>5. Calls'
  BY <1>0, <1>3 DEF Calls, decoding, Inside
<1>6. Inflating'
  BY DEF Inflating, Place, Inside, Decoder
<1>7. QED
  BY <1>1, <1>2, <1>4, <1>5, <1>6 DEF CursorInv

\* Outside it the window may be full.
LEMMA Serving ==
  ASSUME CursorInv, pc \in {"serve", "window"}, pc' \in {"window", "inflate"},
         UNCHANGED <<decoding, errnum, bufloc>>, inflate' \in Inflates
  PROVE  CursorInv'
<1>1. errnum' \in 0..2 /\ bufloc' \in 0..INBUFSIZ
  BY DEF CursorInv, Kinds
<1>2. pc \in Inside /\ pc' \in Inside /\ pc' \notin Decoder /\ pc' # "stored"
  BY DEF Inside, Decoder
<1>3. QED
  BY <1>1, <1>2, DecoderSteps

LEMMA ServeMoreInv == ASSUME CursorInv, ServeMore PROVE CursorInv'
<1>1. inflate' \in Inflates
  BY DEF ServeMore, CursorInv, Kinds
<1>2. pc = "serve" /\ pc' = "window" /\ UNCHANGED <<decoding, errnum, bufloc>>
  BY DEF ServeMore, decoding
<1>3. QED
  BY <1>1, <1>2, Serving

LEMMA NextWindowInv == ASSUME CursorInv, NextWindow PROVE CursorInv'
<1>1. inflate \in Inflates /\ inflate' = [inflate EXCEPT !.wp = 0]
  BY DEF NextWindow, CursorInv, Kinds
<1>2. inflate' \in Inflates
  BY <1>1, Constants DEF Inflates
<1>3. pc = "window" /\ pc' = "inflate" /\ UNCHANGED <<decoding, errnum, bufloc>>
  BY DEF NextWindow, decoding
<1>4. QED
  BY <1>2, <1>3, Serving

LEMMA InflateInv == ASSUME CursorInv, Inflate PROVE CursorInv'
<1>1. inflate' \in Inflates /\ errnum' \in 0..2 /\ bufloc' \in 0..INBUFSIZ
  BY DEF Inflate, CursorInv, Kinds
<1>2. pc \in Inside /\ UNCHANGED decoding
  BY DEF Inflate, Inside
<1>3. pc' \in Inside /\ (pc' = "stored" => inflate'.block_len > 0)
  BY DEF Inflate, Inside, CursorInv, Kinds, Inflates
<1>4. inflate'.wp < WSIZE
  BY DEF Inflate
<1>5. QED
  BY <1>1, <1>2, <1>3, <1>4, DecoderSteps

LEMMA WindowDoneInv == ASSUME CursorInv, WindowDone PROVE CursorInv'
<1>1. inflate \in Inflates /\ inflate' = [inflate EXCEPT !.saved_filepos = @ + WSIZE]
  BY DEF WindowDone, WindowDoneAt, CursorInv, Kinds
<1>2. inflate' \in Inflates
  <2>1. inflate.saved_filepos + WSIZE \in Nat
    BY <1>1, Constants DEF Inflates
  <2>2. QED
    BY <1>1, <2>1 DEF Inflates
<1>3. pc \in Inside /\ pc' \in Inside /\ pc' \notin Decoder /\ pc' # "stored"
  BY DEF WindowDone, WindowDoneAt, Inside, Decoder
<1>4. UNCHANGED decoding /\ errnum' \in 0..2 /\ bufloc' \in 0..INBUFSIZ
  BY DEF WindowDone, WindowDoneAt, CursorInv, Kinds
<1>5. QED
  BY <1>2, <1>3, <1>4, DecoderSteps

LEMMA GetNewBlockInv == ASSUME CursorInv, GetNewBlock PROVE CursorInv'
<1>1. Kinds /\ Takes /\ pc = "head" /\ UNCHANGED decoding
  BY DEF GetNewBlock, CursorInv
<1>2. bufloc' \in 0..INBUFSIZ /\ SymbolOK(Symbol)
  BY <1>1, Taken
<1>3. errnum' \in 0..2 /\ pc' \in Inside \ Decoder /\ pc' # "stored"
  BY <1>1 DEF GetNewBlock, Kinds, Inside, Decoder
<1>4. inflate' \in Inflates
  <2>1. inflate \in Inflates
    BY <1>1 DEF Kinds
  <2>2. CASE Symbol.is \in {"stored", "block"} /\ inflate' = BlockHeader
    <3>1. Symbol.last \in BOOLEAN /\ (Symbol.is = "stored" => Symbol.n \in Nat)
      BY <1>2, <2>2 DEF SymbolOK
    <3>2. QED
      BY <2>1, <2>2, <3>1 DEF BlockHeader, Inflates
  <2>3. CASE inflate' = inflate
    BY <2>1, <2>3
  <2>4. QED
    BY <2>2, <2>3 DEF GetNewBlock
<1>5. pc \in Inside
  BY <1>1 DEF Inside
<1>6. QED
  BY <1>1, <1>2, <1>3, <1>4, <1>5, DecoderSteps

\* A byte is written.
LEMMA Wrote ==
  ASSUME NEW i \in Inflates, i.wp < WSIZE, NEW b \in Data, NEW l \in Nat
  PROVE  LET j == [i EXCEPT !.slide[i.wp] = b, !.wp = @ + 1, !.block_len = l]
             k == [i EXCEPT !.slide[i.wp] = b, !.wp = @ + 1]
         IN j \in Inflates /\ k \in Inflates
<1> DEFINE w == i.wp
           s == i.slide
<1>1. w \in 0..(WSIZE - 1) /\ w + 1 \in 0..WSIZE /\ s \in [0..(WSIZE - 1) -> Data]
  BY Constants DEF Inflates
<1> HIDE DEF w, s
<1>2. [s EXCEPT ![w] = b] \in [0..(WSIZE - 1) -> Data]
  BY <1>1
<1>3. QED
  BY <1>1, <1>2 DEF Inflates, w, s

LEMMA StoredByteInv == ASSUME CursorInv, StoredByte PROVE CursorInv'
<1>1. Kinds /\ Takes /\ pc = "stored" /\ UNCHANGED decoding /\ UNCHANGED errnum /\ pc' = "inflate"
  BY DEF StoredByte, CursorInv
<1>2. bufloc' \in 0..INBUFSIZ /\ ByteOf(Symbol) \in Data
  BY <1>1, Taken
<1>3. inflate.wp < WSIZE /\ inflate.block_len > 0
  BY <1>1 DEF CursorInv, Inflating, InWindow, Place, Decoder
<1>4. inflate' \in Inflates
  <2>1. inflate \in Inflates /\ inflate.block_len - 1 \in Nat
    BY <1>1, <1>3 DEF Kinds, Inflates
  <2>2. inflate' = [inflate EXCEPT !.slide[inflate.wp] = ByteOf(Symbol), !.wp = @ + 1,
                                   !.block_len = inflate.block_len - 1]
    BY DEF StoredByte
  <2>3. QED
    BY <1>2, <1>3, <2>1, <2>2, Wrote
<1>5. errnum' \in 0..2 /\ pc \in Inside /\ pc' \in Inside \ Decoder /\ pc' # "stored"
  BY <1>1 DEF Kinds, Inside, Decoder
<1>6. QED
  BY <1>1, <1>2, <1>4, <1>5, DecoderSteps

LEMMA DecodeLiteralInv == ASSUME CursorInv, DecodeLiteral PROVE CursorInv'
<1>1. Kinds /\ Takes /\ pc = "codes" /\ UNCHANGED decoding /\ UNCHANGED errnum
  BY DEF DecodeLiteral, TakeCode, CursorInv
<1>2. bufloc' \in 0..INBUFSIZ /\ Symbol.byte \in Data
  BY <1>1, Taken DEF DecodeLiteral, ByteOf
<1>3. inflate.wp < WSIZE
  BY <1>1 DEF CursorInv, Inflating, InWindow, Place, Decoder
<1>4. inflate' \in Inflates
  <2>1. inflate \in Inflates
    BY <1>1 DEF Kinds
  <2>2. inflate' = [inflate EXCEPT !.slide[inflate.wp] = Symbol.byte, !.wp = @ + 1]
    BY DEF DecodeLiteral
  <2>3. QED
    BY <1>2, <1>3, <2>1, <2>2, Wrote
<1>5. pc' \in {"inflate", "codes"} /\ (pc' = "codes" => inflate'.wp < WSIZE)
  <2>1. inflate'.wp \in 0..WSIZE
    BY <1>4 DEF Inflates
  <2>2. pc' = Written(inflate')
    BY DEF DecodeLiteral
  <2>3. QED
    BY <2>1, <2>2, Constants DEF Written
<1>6. errnum' \in 0..2 /\ pc \in Inside
  BY <1>1 DEF Kinds, Inside
<1>7. pc' \in Inside /\ pc' # "stored" /\ (pc' \in Decoder => pc' = "codes")
  BY <1>5 DEF Inside, Decoder
<1>8. QED
  BY <1>1, <1>2, <1>4, <1>5, <1>6, <1>7, DecoderSteps

\* The other codes.
LEMMA CodeInv ==
  ASSUME CursorInv, TakeCode, UNCHANGED decoding, errnum' \in 0..2, pc' \in {"codes", "inflate"},
         inflate' \in Inflates, inflate'.wp = inflate.wp
  PROVE  CursorInv'
<1>1. Kinds /\ Takes /\ pc = "codes"
  BY DEF TakeCode, CursorInv
<1>2. bufloc' \in 0..INBUFSIZ
  BY <1>1, Taken
<1>3. inflate.wp < WSIZE
  BY <1>1 DEF CursorInv, Inflating, InWindow, Place, Decoder
<1>4. pc \in Inside /\ pc' \in Inside /\ pc' # "stored"
  BY <1>1 DEF Inside
<1>5. QED
  BY <1>2, <1>3, <1>4, DecoderSteps

LEMMA DecodeCopyInv == ASSUME CursorInv, DecodeCopy PROVE CursorInv'
<1>1. Kinds /\ TakeCode /\ UNCHANGED decoding /\ errnum' \in 0..2 /\ pc' = "codes"
  BY DEF DecodeCopy, TakeCode, CursorInv, Kinds
<1>2. Symbol.n \in Nat /\ Symbol.d \in 1..WSIZE
  <2>1. SymbolOK(Symbol)
    BY <1>1, Taken DEF TakeCode
  <2>2. QED
    BY <2>1 DEF SymbolOK, DecodeCopy
<1>3. inflate \in Inflates
  BY <1>1 DEF Kinds
<1> DEFINE d == (inflate.wp - Symbol.d) % WSIZE
<1>4. d \in 0..(WSIZE - 1)
  <2>1. inflate.wp - Symbol.d \in Int
    BY <1>2, <1>3, Constants DEF Inflates
  <2>2. QED
    BY <2>1, Remainder
<1>5. inflate' = [inflate EXCEPT !.code_state = 1, !.inflate_n = Symbol.n, !.inflate_d = d]
  BY DEF DecodeCopy
<1> HIDE DEF d
<1>6. inflate' \in Inflates /\ inflate'.wp = inflate.wp
  BY <1>2, <1>3, <1>4, <1>5 DEF Inflates
<1>7. QED
  BY <1>1, <1>6, CodeInv

LEMMA DecodeEndInv == ASSUME CursorInv, DecodeEnd PROVE CursorInv'
<1>1. TakeCode /\ UNCHANGED decoding /\ errnum' \in 0..2 /\ pc' = "inflate"
  BY DEF DecodeEnd, CursorInv, Kinds
<1>2. inflate \in Inflates /\ inflate' = [inflate EXCEPT !.block_len = 0]
  BY DEF DecodeEnd, CursorInv, Kinds
<1>3. inflate' \in Inflates /\ inflate'.wp = inflate.wp
  BY <1>2 DEF Inflates
<1>4. QED
  BY <1>1, <1>3, CodeInv

LEMMA DecodePrefixInv == ASSUME CursorInv, DecodePrefix PROVE CursorInv'
<1>1. TakeCode /\ UNCHANGED decoding /\ errnum' \in 0..2 /\ pc' = "codes"
  BY DEF DecodePrefix, TakeCode, CursorInv, Kinds
<1>2. inflate' \in Inflates /\ inflate'.wp = inflate.wp
  BY DEF DecodePrefix, CursorInv, Kinds
<1>3. QED
  BY <1>1, <1>2, CodeInv

LEMMA DecodeBadInv == ASSUME CursorInv, DecodeBad PROVE CursorInv'
<1>1. TakeCode /\ UNCHANGED decoding /\ errnum' \in 0..2 /\ pc' = "inflate"
  BY DEF DecodeBad
<1>2. inflate' \in Inflates /\ inflate'.wp = inflate.wp
  BY DEF DecodeBad, CursorInv, Kinds
<1>3. QED
  BY <1>1, <1>2, CodeInv

\* What the copy writes: the loop's steps, and what they leave.
LEMMA Copies ==
  ASSUME inflate \in Inflates
  PROVE  \E e \in Nat : \E g :
           /\ e <= inflate.inflate_n /\ inflate.wp + e <= WSIZE
           /\ e < inflate.inflate_n => inflate.wp + e = WSIZE
           /\ g = [k \in 0..e |->
                    IF k = 0 THEN inflate.slide
                    ELSE [g[k - 1] EXCEPT ![inflate.wp + k - 1] =
                            g[k - 1][(inflate.inflate_d + k - 1) % WSIZE]]]
           /\ \A k \in 0..e : g[k] \in [0..(WSIZE - 1) -> Data]
           /\ Copied \in Inflates
           /\ Copied = [inflate EXCEPT !.slide = g[e], !.wp = inflate.wp + e,
                          !.inflate_n = inflate.inflate_n - e,
                          !.inflate_d = (inflate.inflate_d + e) % WSIZE]
<1> DEFINE n == inflate.inflate_n
           w == inflate.wp
           d == inflate.inflate_d
           e == Min({n, WSIZE - w})
           Slides == [0..(WSIZE - 1) -> Data]
<1>1. /\ n \in Nat /\ w \in 0..WSIZE /\ d \in 0..(WSIZE - 1) /\ inflate.slide \in Slides
      /\ WSIZE \in Nat \ {0}
  BY Constants DEF Inflates
<1>2. e \in Nat /\ e <= n /\ w + e <= WSIZE /\ (e < n => w + e = WSIZE)
  <2> HIDE DEF n, w
  <2>1. WSIZE - w \in Int /\ n \in Int
    BY <1>1
  <2>2. e = IF n <= WSIZE - w THEN n ELSE WSIZE - w
    BY <2>1, Lesser
  <2> HIDE DEF e
  <2>3. QED
    BY <1>1, <2>2
<1> DEFINE Step2(s, k) == [s EXCEPT ![w + k - 1] = s[(d + k - 1) % WSIZE]]
<1>3. PICK g : /\ g = [k \in 0..e |-> IF k = 0 THEN inflate.slide ELSE Step2(g[k - 1], k)]
               /\ Copied = [inflate EXCEPT !.slide = g[e], !.wp = @ + e, !.inflate_n = @ - e,
                                           !.inflate_d = (@ + e) % WSIZE]
  BY <1>2, CopiedLoop
<1>4. g[0] = inflate.slide /\ \A m \in 0..(e - 1) : g[m + 1] = Step2(g[m], m + 1)
  <2> HIDE DEF Step2, e
  <2>1. \A k \in 0..e : g[k] = IF k = 0 THEN inflate.slide ELSE Step2(g[k - 1], k)
    BY <1>3
  <2>2. 0 \in 0..e /\ \A m \in 0..(e - 1) : m + 1 \in 0..e /\ m + 1 # 0 /\ (m + 1) - 1 = m
    BY <1>2
  <2>3. QED
    BY <2>1, <2>2
<1>5. 0..e \subseteq {k \in Nat : g[k] \in Slides}
  <2> DEFINE T == {k \in Nat : g[k] \in Slides}
  <2>1. 0 \in T
    BY <1>1, <1>4
  <2>2. ASSUME NEW m \in T, m \in 0..(e - 1) PROVE m + 1 \in T
    <3>1. g[m] \in Slides /\ m + 1 \in Nat /\ g[m + 1] = Step2(g[m], m + 1)
      <4> HIDE DEF Step2, e, Slides
      <4>1. g[m] \in Slides /\ m + 1 \in Nat
        OBVIOUS
      <4>2. g[m + 1] = Step2(g[m], m + 1)
        BY <1>4, <2>2
      <4>3. QED
        BY <4>1, <4>2
    <3>2. w + (m + 1) - 1 \in 0..(WSIZE - 1) /\ d + (m + 1) - 1 \in Nat
      <4> HIDE DEF w, d, e
      <4>1. m \in Nat
        OBVIOUS
      <4>2. QED
        BY <1>1, <1>2, <2>2, <4>1
    <3>3. (d + (m + 1) - 1) % WSIZE \in 0..(WSIZE - 1)
      <4> DEFINE y == d + (m + 1) - 1
      <4>1. y \in Int
        BY <3>2
      <4> HIDE DEF y
      <4>2. y % WSIZE \in 0..(WSIZE - 1)
        BY <4>1, Remainder
      <4>3. QED
        BY <4>2 DEF y
    <3> HIDE DEF w, d
    <3>4. Step2(g[m], m + 1) \in Slides
      BY <3>1, <3>2, <3>3
    <3> HIDE DEF Step2
    <3>5. QED
      BY <3>1, <3>4
  <2> HIDE DEF T
  <2>3. 0..e \subseteq T
    BY <1>2, <2>1, <2>2, Upward
  <2>4. QED
    BY <2>3 DEF T
<1> HIDE DEF e, Step2
<1>6. \A k \in 0..e : g[k] \in Slides
  BY <1>5
<1>7. Copied = [inflate EXCEPT !.slide = g[e], !.wp = w + e, !.inflate_n = n - e,
                               !.inflate_d = (d + e) % WSIZE]
  BY <1>3
<1>8. Copied \in Inflates
  <2>1. g[e] \in Slides
    BY <1>2, <1>6
  <2>2. (d + e) % WSIZE \in 0..(WSIZE - 1) /\ w + e \in 0..WSIZE /\ n - e \in Nat
    <3> HIDE DEF w, d, n
    <3>1. d + e \in Nat /\ w + e \in 0..WSIZE /\ n - e \in Nat
      BY <1>1, <1>2
    <3>2. QED
      BY <3>1, Remainder
  <2> DEFINE x == (d + e) % WSIZE
             y == w + e
             z == n - e
  <2>3. x \in 0..(WSIZE - 1) /\ y \in 0..WSIZE /\ z \in Nat
    BY <2>2
  <2>4. Copied = [inflate EXCEPT !.slide = g[e], !.wp = y, !.inflate_n = z, !.inflate_d = x]
    BY <1>7
  <2> HIDE DEF x, y, z
  <2>5. QED
    BY <2>1, <2>3, <2>4 DEF Inflates
<1>9. QED
  BY <1>2, <1>3, <1>6, <1>7, <1>8 DEF Step2

LEMMA DoCopyInv == ASSUME CursorInv, DoCopy PROVE CursorInv'
<1>1. Kinds /\ pc = "codes" /\ UNCHANGED decoding /\ UNCHANGED <<errnum, bufloc>>
  BY DEF DoCopy, CursorInv
<1>2. inflate \in Inflates
  BY <1>1 DEF Kinds
<1>3. Copied \in Inflates
  BY <1>2, Copies
<1>4. inflate' = [Copied EXCEPT !.code_state = Rest(Copied)] /\ pc' = Written(Copied)
  BY DEF DoCopy
<1>5. inflate' \in Inflates /\ inflate'.wp = Copied.wp /\ Rest(Copied) \in {0, 1}
  BY <1>3, <1>4 DEF Inflates, Rest
<1>6. pc' \in {"inflate", "codes"} /\ (pc' = "codes" => inflate'.wp < WSIZE)
  <2>1. inflate'.wp \in 0..WSIZE
    BY <1>5 DEF Inflates
  <2>2. QED
    BY <1>4, <1>5, <2>1, Constants DEF Written
<1>7. /\ errnum' \in 0..2 /\ bufloc' \in 0..INBUFSIZ /\ pc \in Inside
      /\ pc' \in Inside /\ pc' # "stored" /\ (pc' \in Decoder => pc' = "codes")
  BY <1>1, <1>6 DEF Kinds, Inside, Decoder
<1>8. QED
  BY <1>1, <1>5, <1>6, <1>7, DecoderSteps

-----------------------------------------------------------------------------
(* The rest of the reader keeps it *)

LEMMA Parts == CursorInv <=> Kinds /\ CursorAt /\ Positions /\ Calls /\ Inflating
BY DEF CursorInv

LEMMA InitInv == Init => CursorInv
<1> SUFFICES ASSUME Init PROVE CursorInv
  OBVIOUS
<1>1. inflate \in Inflates
  <2>1. 0 \in 0..(WSIZE - 1) /\ 0 \in 0..WSIZE
    BY Constants
  <2>2. [k \in 0..(WSIZE - 1) |-> "?"] \in [0..(WSIZE - 1) -> Data]
    BY DEF Data
  <2>3. QED
    BY <2>1, <2>2 DEF Init, Inflates
<1>2. call \in Requests /\ io \in Moves /\ gzip \in Gzips /\ cur \in Cursors
  <2>1. <<>> \in Seq(Data)
    OBVIOUS
  <2>2. QED
    BY <2>1 DEF Init, Requests, Moves, Gzips, Cursors, NoCall, NoIo, AtStart
<1>3. inbuf \in Inputs /\ bufloc \in 0..INBUFSIZ
  BY Constants DEF Init, Inputs, Given
<1>4. Kinds
  <2>1. /\ pc = "idle" /\ errnum = 0 /\ compressed_file = FALSE /\ file = Closed
        /\ filepos = 0 /\ filemax = 0
    BY DEF Init
  <2>2. pc \in {"idle", "test", "chunk", "blocks", "done"} \cup Inside /\ errnum \in 0..2
    BY <2>1
  <2>3. compressed_file \in BOOLEAN /\ file \in Files \cup {Closed}
    BY <2>1
  <2>4. filepos \in Nat /\ filemax \in Nat
    BY <2>1
  <2>5. QED
    BY <1>1, <1>2, <1>3, <2>2, <2>3, <2>4 DEF Kinds
<1>5. CursorAt /\ Positions
  BY DEF Init, CursorAt, Positions, InGunzip, Inside
<1>6. Calls
  BY DEF Init, Calls, NoCall, NoIo, InGunzip, Inside
<1>7. Inflating
  BY DEF Init, Inflating, InWindow, Decoder
<1>8. QED
  BY <1>4, <1>5, <1>6, <1>7, Parts

LEMMA SeekInv == ASSUME CursorInv, Seek PROVE CursorInv'
<1>0. Kinds /\ CursorAt /\ Positions /\ Calls /\ Inflating
  BY Parts
<1> USE DEF Seek
<1>1. Kinds'
  BY <1>0 DEF Kinds, Inside
<1>2. CursorAt'
  BY <1>0 DEF CursorAt, Points
<1>3. Positions'
  BY <1>0 DEF Positions, InGunzip, Inside
<1>4. Calls'
  BY <1>0 DEF Calls, InGunzip, Inside
<1>5. Inflating'
  BY <1>0 DEF Inflating, InWindow, Place, Decoder
<1>6. QED
  BY <1>1, <1>2, <1>3, <1>4, <1>5 DEF CursorInv

LEMMA OpenFailsInv == ASSUME CursorInv, OpenFails PROVE CursorInv'
<1>0. Kinds /\ CursorAt /\ Positions /\ Calls /\ Inflating
  BY Parts
<1> USE DEF OpenFails
<1>1. Kinds'
  <2>1. AtStart \in Cursors
    BY DEF AtStart, Cursors
  <2>2. /\ UNCHANGED <<filemax, gzip, inflate, inbuf, bufloc, pc, call, io>>
        /\ errnum' = 1 /\ file' = Closed /\ filepos' = 0 /\ compressed_file' = FALSE
        /\ cur' = AtStart
    OBVIOUS
  <2> HIDE DEF OpenFails
  <2>3. QED
    <3>1. file' \in Files \cup {Closed}
      BY <2>2
    <3>2. errnum' \in 0..2 /\ filepos' \in Nat
      BY <2>2
    <3>4. compressed_file' \in BOOLEAN
      BY <2>2
    <3>3. cur' \in Cursors
      BY <2>1, <2>2
    <3>5. QED
      BY <1>0, <2>2, <3>1, <3>2, <3>3, <3>4 DEF Kinds
<1>2. CursorAt'
  BY <1>0 DEF CursorAt
<1>3. Positions'
  BY <1>0 DEF Positions, InGunzip, Inside
<1>4. Calls'
  BY <1>0 DEF Calls, InGunzip, Inside
<1>5. Inflating'
  BY <1>0 DEF Inflating, InWindow, Place, Decoder
<1>6. QED
  BY <1>1, <1>2, <1>3, <1>4, <1>5 DEF CursorInv

LEMMA ReadDoneInv == ASSUME CursorInv, ReadDone PROVE CursorInv'
<1>0. Kinds /\ CursorAt /\ Positions /\ Calls /\ Inflating
  BY Parts
<1> USE DEF ReadDone
<1>1. Kinds'
  <2>1. NoCall \in Requests /\ NoIo \in Moves
    <3>1. <<>> \in Seq(Data)
      OBVIOUS
    <3>2. QED
      BY <3>1 DEF NoCall, NoIo, Requests, Moves
  <2>2. QED
    BY <1>0, <2>1 DEF Kinds
<1>2. CursorAt'
  BY <1>0 DEF CursorAt, Points
<1>3. Positions'
  BY <1>0 DEF Positions, InGunzip, Inside
<1>4. Calls'
  BY <1>0 DEF Calls, InGunzip, Inside, NoCall, NoIo
<1>5. Inflating'
  BY <1>0 DEF Inflating, InWindow, Place, Decoder
<1>6. QED
  BY <1>1, <1>2, <1>3, <1>4, <1>5 DEF CursorInv

LEMMA TestDoneInv == ASSUME CursorInv, TestDone PROVE CursorInv'
<1>0. Kinds /\ CursorAt /\ Positions /\ Calls /\ Inflating
  BY Parts
<1>a. /\ UNCHANGED <<file, errnum, cur, gzip, inflate, inbuf, bufloc>>
      /\ filepos' = 0 /\ pc = "done" /\ pc' = "idle" /\ call' = NoCall /\ io' = NoIo
  BY DEF TestDone
<1>b. \/ UNCHANGED <<filemax, compressed_file>>
      \/ filemax' = gzip.filemax /\ compressed_file' = FALSE
  BY DEF TestDone
<1>c. compressed_file /\ ~InGunzip
  BY <1>0 DEF TestDone, Calls, InGunzip, Inside
<1>1. Kinds'
  <2>1. NoCall \in Requests /\ NoIo \in Moves
    <3>1. <<>> \in Seq(Data)
      OBVIOUS
    <3>2. QED
      BY <3>1 DEF NoCall, NoIo, Requests, Moves
  <2>2. filemax' \in Nat /\ compressed_file' \in BOOLEAN
    BY <1>0, <1>b DEF Kinds, Gzips
  <2>3. QED
    BY <1>0, <1>a, <2>1, <2>2 DEF Kinds
<1>2. CursorAt'
  BY <1>0, <1>a, <1>b, <1>c DEF CursorAt, Points
<1>3. Positions'
  BY <1>0, <1>a, <1>b, <1>c DEF Positions, InGunzip, Inside
<1>4. Calls'
  BY <1>0, <1>a, <1>b DEF Calls, InGunzip, Inside, NoCall, NoIo
<1>5. Inflating'
  BY <1>a DEF Inflating, InWindow, Place, Decoder
<1>6. QED
  BY <1>1, <1>2, <1>3, <1>4, <1>5 DEF CursorInv

LEMMA GunzipReturnInv == ASSUME CursorInv, GunzipReturn PROVE CursorInv'
<1>0. Kinds /\ CursorAt /\ Positions /\ Calls /\ Inflating
  BY Parts
<1> USE DEF GunzipReturn
<1>1. Kinds'
  <2>1. gzip' \in Gzips /\ filepos' \in Nat /\ filemax' \in Nat
    BY <1>0 DEF Kinds, Gzips
  <2>2. call' \in Requests
    BY <1>0 DEF Kinds, Requests
  <2>3. QED
    BY <1>0, <2>1, <2>2 DEF Kinds
<1>2. CursorAt'
  BY <1>0 DEF CursorAt, Points
<1>3. Positions'
  BY <1>0 DEF Positions, InGunzip, Inside, Kinds, Gzips
<1>4. Calls'
  BY <1>0 DEF Calls, InGunzip, Inside, Kinds, Requests
<1>5. Inflating'
  BY <1>0 DEF Inflating, InWindow, Place, Decoder
<1>6. QED
  BY <1>1, <1>2, <1>3, <1>4, <1>5 DEF CursorInv

LEMMA BlockReturnInv == ASSUME CursorInv, BlockReturn PROVE CursorInv'
<1>0. Kinds /\ CursorAt /\ Positions /\ Calls /\ Inflating
  BY Parts
<1>a. /\ UNCHANGED <<file, filepos, filemax, errnum, compressed_file, cur, gzip, inflate, inbuf,
                     bufloc, io>>
      /\ pc = "blocks" /\ pc' = io.back /\ (io.len = 0 \/ errnum # 0)
      /\ io.to = "caller" => call' = [call EXCEPT !.last = IF errnum = 0 THEN io.done ELSE 0]
      /\ io.to # "caller" => call' = call
  BY DEF BlockReturn
<1>b. /\ io.len \in Nat /\ io.done \in Nat /\ io.to \in {"caller", "inbuf"}
      /\ io.back \in {"chunk", "head", "stored", "codes"} /\ call \in Requests
  BY <1>0 DEF Kinds, Moves, Decoder
<1>1. Kinds'
  <2>1. call' \in Requests
    BY <1>a, <1>b DEF Requests
  <2>2. QED
    BY <1>0, <1>a, <1>b, <2>1 DEF Kinds, Inside
<1>2. CursorAt'
  BY <1>0, <1>a DEF CursorAt, Points
<1>c. (io.to = "caller" <=> io.back = "chunk") /\ (io.to = "inbuf" <=> InGunzip)
      /\ (InGunzip' <=> InGunzip)
  BY <1>0, <1>a, <1>b DEF Calls, InGunzip, Inside
<1>3. Positions'
  BY <1>0, <1>a, <1>c DEF Positions
<1>4. Calls'
  <2>1. CASE io.to = "caller"
    <3> DEFINE last == IF errnum = 0 THEN io.done ELSE 0
    <3>1. call' = [call EXCEPT !.last = last] /\ last \in Nat /\ last \in {0, io.done}
          /\ ~InGunzip /\ ~InGunzip' /\ pc' = "chunk" /\ ~compressed_file
          /\ io.to = "caller" /\ io.back = "chunk"
      BY <1>0, <1>a, <1>b, <1>c, <2>1 DEF Calls
    <3>2. /\ call.count + io.done + io.len <= call.len
          /\ filepos - io.done + (call.len - call.count) <= filemax
          /\ call.count \in Nat /\ call.len \in Nat /\ call.count <= call.len /\ ~call.test
      BY <1>0, <1>a, <1>b, <2>1, <3>1 DEF Calls, Requests
    <3> HIDE DEF last
    <3>3. call'.last = last /\ call'.count = call.count /\ call'.len = call.len
          /\ call'.test = call.test
      BY <1>b, <3>1 DEF Requests
    <3>4. call.count + last <= call.len /\ (last > 0 => last = io.done)
      BY <1>b, <3>1, <3>2
    <3>5. QED
      BY <1>a, <3>1, <3>2, <3>3, <3>4 DEF Calls
  <2>2. CASE io.to = "inbuf"
    BY <1>0, <1>a, <1>b, <1>c, <2>2 DEF Calls
  <2>3. QED
    BY <1>b, <2>1, <2>2
<1>5. Inflating'
  BY <1>0, <1>a, <1>b, <1>c DEF Inflating, InWindow, Place, Decoder
<1>6. QED
  BY <1>1, <1>2, <1>3, <1>4, <1>5 DEF CursorInv

LEMMA WantedRight ==
  ASSUME Kinds, Calls, InGunzip
  PROVE  /\ Wanted \in Nat /\ call.last + Wanted <= Step
         /\ call.count + call.last + Wanted <= call.len
         /\ Wanted = 0 => call.last = Step \/ call.count + call.last = call.len
<1> DEFINE c == call.count
           l == call.last
           n == call.len
<1>1. c \in Nat /\ l \in Nat /\ n \in Nat /\ Step \in Nat /\ l <= Step /\ c < n
  BY Constants DEF Kinds, Requests, Calls
<1>2. c + l <= n
  BY DEF Calls, InGunzip, Inside
<1>3. Wanted = Min({n - c, Step}) - l
  BY DEF Wanted
<1> HIDE DEF c, l, n
<1>4. n - c \in Int /\ Step \in Int
  BY <1>1
<1>5. Wanted = (IF n - c <= Step THEN n - c ELSE Step) - l
  BY <1>3, <1>4, Lesser
<1>6. QED
  BY <1>1, <1>2, <1>5 DEF c, l, n

LEMMA Served ==
  ASSUME CursorInv, Serve
  PROVE  \E size \in Nat, part \in Seq(Data) :
           /\ size <= Wanted /\ gzip.filepos + size <= inflate.saved_filepos
           /\ size = Wanted \/ gzip.filepos + size = inflate.saved_filepos
           /\ Wanted > 0 => size > 0
           /\ part = [k \in 1..size |-> inflate.slide[(gzip.filepos + k - 1) % WSIZE]]
           /\ part \in Seq(Data) /\ Len(part) = size
           /\ gzip' = [gzip EXCEPT !.filepos = gzip.filepos + size] /\ gzip' \in Gzips
           /\ call' = [call EXCEPT !.last = call.last + size, !.out = call.out \o part]
           /\ call' \in Requests
<1> DEFINE p == gzip.filepos
           s == inflate.saved_filepos
           size == Min({s - p, Wanted})
           part == [k \in 1..size |-> inflate.slide[(p + k - 1) % WSIZE]]
<1>1. Kinds /\ Calls /\ pc = "window"
  BY DEF CursorInv, Serve
<1>2. InGunzip
  BY <1>1 DEF InGunzip, Inside
<1>3. Wanted \in Nat
  BY <1>1, <1>2, WantedRight
<1>4. p \in Nat /\ s \in Nat /\ p < s
  BY <1>1 DEF Kinds, Gzips, Inflates, Serve
<1>5. size \in Nat /\ size <= Wanted /\ p + size <= s /\ (size = Wanted \/ p + size = s)
      /\ (Wanted > 0 => size > 0)
  <2> HIDE DEF p, s
  <2>1. s - p \in Int /\ Wanted \in Int
    BY <1>3, <1>4
  <2>2. size = IF s - p <= Wanted THEN s - p ELSE Wanted
    BY <2>1, Lesser
  <2>3. QED
    BY <1>3, <1>4, <2>2
<1>6. /\ gzip' = [gzip EXCEPT !.filepos = p + size]
      /\ call' = [call EXCEPT !.last = call.last + size, !.out = call.out \o part]
  BY DEF Serve
<1>7. part \in Seq(Data) /\ Len(part) = size
  <2> HIDE DEF p, size
  <2>1. \A k \in 1..size : (p + k - 1) % WSIZE \in 0..(WSIZE - 1)
    <3>1. \A k \in 1..size : p + k - 1 \in Int
      BY <1>4, <1>5
    <3>2. QED
      BY <3>1, Remainder
  <2>2. \A x \in 0..(WSIZE - 1) : inflate.slide[x] \in Data
    BY <1>1 DEF Kinds, Inflates
  <2>3. \A k \in 1..size : inflate.slide[(p + k - 1) % WSIZE] \in Data
    BY <2>1, <2>2
  <2>4. QED
    BY <1>5, <2>3
<1> HIDE DEF part, size
<1>8. gzip' \in Gzips
  BY <1>1, <1>4, <1>5, <1>6 DEF Kinds, Gzips
<1>9. call' \in Requests
  <2>1. call \in Requests /\ call.last \in Nat /\ call.out \in Seq(Data)
    BY <1>1 DEF Kinds, Requests
  <2>2. call.out \o part \in Seq(Data) /\ call.last + size \in Nat
    BY <1>5, <1>7, <2>1
  <2> DEFINE new == call.out \o part
             l == call.last + size
  <2> HIDE DEF new, l
  <2>3. call' = [call EXCEPT !.last = l, !.out = new] /\ new \in Seq(Data) /\ l \in Nat
    BY <1>6, <2>2 DEF new, l
  <2>4. QED
    BY <2>1, <2>3 DEF Requests
<1>10. QED
  BY <1>5, <1>6, <1>7, <1>8, <1>9 DEF part

LEMMA ServeInv == ASSUME CursorInv, Serve PROVE CursorInv'
<1>0. Kinds /\ CursorAt /\ Positions /\ Calls /\ Inflating
  BY Parts
<1>1. PICK size \in Nat, part \in Seq(Data) :
        /\ size <= Wanted
        /\ gzip' = [gzip EXCEPT !.filepos = gzip.filepos + size] /\ gzip' \in Gzips
        /\ call' = [call EXCEPT !.last = call.last + size, !.out = call.out \o part]
        /\ call' \in Requests
  BY Served
<1>2. /\ UNCHANGED <<file, filepos, filemax, errnum, compressed_file, cur, inflate, inbuf, bufloc,
                     io>>
      /\ pc = "window" /\ pc' = "serve"
  BY DEF Serve
<1>3. Kinds'
  BY <1>0, <1>1, <1>2 DEF Kinds, Inside
<1>4. CursorAt'
  BY <1>0, <1>2 DEF CursorAt, Points
<1>5. InGunzip /\ InGunzip'
  BY <1>2 DEF InGunzip, Inside
<1>6. Positions'
  <2>1. gzip'.data_offset = gzip.data_offset
    BY <1>0, <1>1 DEF Kinds, Gzips
  <2>2. QED
    BY <1>0, <1>2, <1>5, <2>1 DEF Positions
<1>7. Calls'
  <2>1. /\ call'.last = call.last + size /\ call'.count = call.count /\ call'.len = call.len
        /\ call'.test = call.test /\ call.last \in Nat /\ call.count \in Nat /\ call.len \in Nat
    BY <1>0, <1>1 DEF Kinds, Requests
  <2>2. /\ Wanted \in Nat /\ call.last + Wanted <= Step
        /\ call.count + call.last + Wanted <= call.len /\ Step \in Nat
    BY <1>0, <1>5, WantedRight, Constants
  <2>3. call'.last <= Step /\ call'.count + call'.last <= call'.len
    BY <1>1, <2>1, <2>2
  <2>4. QED
    BY <1>0, <1>2, <1>5, <2>1, <2>3 DEF Calls, InGunzip
<1>8. Inflating'
  BY <1>2 DEF Inflating, InWindow, Decoder
<1>9. QED
  BY <1>3, <1>4, <1>6, <1>7, <1>8 DEF CursorInv

LEMMA RefillInv == ASSUME CursorInv, Refill PROVE CursorInv'
<1>0. Kinds /\ CursorAt /\ Positions /\ Calls /\ Inflating
  BY Parts
<1>1. /\ pc \in Decoder /\ pc \in Inside /\ bufloc' = 0
      /\ UNCHANGED <<file, filepos, filemax, compressed_file, cur, gzip, inflate, inbuf, call>>
  BY DEF Refill, Decoder, Inside
<1>2. CASE filepos >= filemax
  <2>1. UNCHANGED <<errnum, io, pc>>
    BY <1>2 DEF Refill
  <2>2. inflate' \in Inflates /\ bufloc' \in 0..INBUFSIZ /\ errnum' \in 0..2 /\ UNCHANGED decoding
        /\ pc' \in Inside
    <3>1. 0 \in 0..INBUFSIZ
      BY Constants
    <3>2. UNCHANGED <<result, opens>>
      BY DEF Refill
    <3>3. QED
      BY <1>0, <1>1, <2>1, <3>1, <3>2 DEF Kinds, decoding
  <2>3. /\ pc' \in Decoder => inflate'.wp < WSIZE
        /\ pc' = "stored" => inflate'.block_len > 0
    BY <1>0, <1>1, <2>1 DEF Inflating, InWindow, Place, Decoder
  <2>4. QED
    BY <1>1, <2>2, <2>3, DecoderSteps
<1>3. CASE ~ (filepos >= filemax)
  <2> DEFINE len == Min({INBUFSIZ, filemax - filepos})
  <2>1. errnum' = 0 /\ pc' = "blocks"
        /\ io' = [len |-> len, done |-> 0, to |-> "inbuf", back |-> pc]
    BY <1>3 DEF Refill
  <2>2. len \in Nat /\ filepos + len <= filemax
    <3>1. INBUFSIZ \in Int /\ filemax - filepos \in Int /\ filepos \in Nat /\ filemax \in Nat
          /\ filepos < filemax /\ INBUFSIZ \in Nat
      BY <1>0, <1>3, Constants DEF Kinds
    <3>2. len = IF INBUFSIZ <= filemax - filepos THEN INBUFSIZ ELSE filemax - filepos
      BY <3>1, Lesser
    <3> HIDE DEF len
    <3>3. QED
      BY <3>1, <3>2
  <2> HIDE DEF len
  <2>3. io' \in Moves /\ io'.to = "inbuf" /\ io'.back = pc /\ io'.len = len
    BY <1>1, <2>1, <2>2 DEF Moves
  <2>4. Kinds'
    <3>1. bufloc' \in 0..INBUFSIZ
      BY <1>1, Constants
    <3>2. errnum' \in 0..2
      BY <2>1
    <3>3. QED
      BY <1>0, <1>1, <2>1, <2>3, <3>1, <3>2 DEF Kinds
  <2>5. CursorAt'
    BY <1>0, <1>1 DEF CursorAt, Points, Inside
  <2>6. InGunzip /\ InGunzip'
    BY <1>1, <2>1, <2>3 DEF InGunzip
  <2>7. Positions'
    BY <1>0, <1>1, <2>6 DEF Positions
  <2>8. Calls'
    BY <1>0, <1>1, <2>1, <2>2, <2>3, <2>6 DEF Calls, Inside, Decoder
  <2>9. Inflating'
    BY <1>0, <1>1, <2>1, <2>3 DEF Inflating, InWindow, Place, Decoder
  <2>10. QED
    BY <2>4, <2>5, <2>7, <2>8, <2>9 DEF CursorInv
<1>4. QED
  BY <1>2, <1>3

\* What block_read_func moves, and where it stands then.
LEMMA Reads ==
  ASSUME CursorInv, BlockRead
  PROVE  LET size == Size(cur', filepos, io.len)
             data == Bytes(cur', filepos, size)
         IN /\ file \in Files /\ filemax = file.max
            /\ Points(file, cur') /\ cur'.filepos = filepos
            /\ size \in 1..io.len /\ filepos + size <= filemax
            /\ data = [k \in 1..size |-> data[k]]
            /\ \A k \in 1..size : data[k] = SymbolAt(file, filepos + k - 1) /\ data[k] \in Given
<1>0. Kinds /\ CursorAt /\ Positions /\ Calls
  BY Parts
<1>1. pc = "blocks" /\ io.len > 0 /\ io.len \in Nat /\ cur' = Locate(filepos) /\ filepos \in Nat
      /\ filemax \in Nat
  BY <1>0 DEF BlockRead, Kinds, Moves
<1>2. file \in Files /\ Points(file, cur)
  BY <1>0, <1>1 DEF CursorAt, Kinds
<1>3. filemax = file.max
  <2>1. io.to \in {"caller", "inbuf"} /\ file # Closed
    BY <1>0, <1>1 DEF Kinds, Moves, CursorAt
  <2>2. QED
    BY <1>0, <1>1, <2>1 DEF Positions, Calls, InGunzip, Inside
<1>4. filepos + io.len <= filemax /\ filepos < file.max
  BY <1>0, <1>1, <1>3 DEF Calls
<1>5. Points(file, cur') /\ cur'.filepos = filepos
  BY <1>1, <1>2, <1>4, Located
<1>6. At(file, cur', filepos \div SS)
  BY <1>5 DEF Points
<1> DEFINE size == Size(cur', filepos, io.len)
           data == Bytes(cur', filepos, size)
<1>7. size \in 1..io.len
      /\ (filepos % SS) + size <= SS * (file.list[cur'.blklist].length - cur'.blknum)
  BY <1>1, <1>2, <1>6, Sized
<1> HIDE DEF size
<1>8. filepos + size <= filemax /\ size \in Nat
  BY <1>1, <1>4, <1>7
<1>9. data = [k \in 1..size |-> data[k]] /\ \A k \in 1..size : data[k] = SymbolAt(file, filepos + k - 1)
  BY <1>1, <1>2, <1>3, <1>6, <1>7, <1>8, Bytewise
<1>10. ASSUME NEW k \in 1..size PROVE data[k] \in Given
  <2>1. filepos + k \in 1..file.max /\ (filepos + k - 1) + 1 = filepos + k
    BY <1>1, <1>3, <1>8
  <2>2. Flat[file][filepos + k] \in Symbols
    BY <1>2, <2>1, FlatFacts
  <2>3. QED
    BY <1>9, <2>1, <2>2 DEF SymbolAt, Given
<1>11. QED
  BY <1>2, <1>3, <1>5, <1>7, <1>8, <1>9, <1>10 DEF size

LEMMA BlockReadInv == ASSUME CursorInv, BlockRead PROVE CursorInv'
<1>0. Kinds /\ CursorAt /\ Positions /\ Calls /\ Inflating
  BY Parts
<1> DEFINE size == Size(cur', filepos, io.len)
           data == Bytes(cur', filepos, size)
<1>1. /\ Points(file, cur') /\ file \in Files
      /\ size \in 1..io.len /\ filepos + size <= filemax
      /\ \A k \in 1..size : data[k] \in Given
  BY Reads
<1>2. /\ pc = "blocks" /\ pc' = "blocks"
      /\ UNCHANGED <<file, filemax, compressed_file, gzip, inflate, bufloc>>
      /\ filepos' = filepos + size /\ io' = [io EXCEPT !.len = @ - size, !.done = @ + size]
      /\ \/ /\ errnum' = 0
            /\ \/ /\ inbuf' = [k \in 1..INBUFSIZ |->
                                 IF k > io.done /\ k <= io.done + size
                                 THEN data[k - io.done] ELSE inbuf[k]]
                  /\ UNCHANGED call
               \/ /\ call' = [call EXCEPT !.out = @ \o [k \in 1..size |-> ByteOf(data[k])]]
                  /\ UNCHANGED inbuf
         \/ errnum' = 1 /\ UNCHANGED <<inbuf, call>>
  BY DEF BlockRead, Moved
<1> HIDE DEF size, data
<1>3. /\ io.len \in Nat /\ io.done \in Nat /\ io \in Moves /\ filepos \in Nat /\ size \in Nat
      /\ io.len - size \in Nat /\ io.done + size \in Nat
  BY <1>0, <1>1 DEF Kinds, Moves
<1>4. io' \in Moves /\ io'.to = io.to /\ io'.back = io.back
      /\ io'.len = io.len - size /\ io'.done = io.done + size
  BY <1>2, <1>3 DEF Moves
<1>5. inbuf' \in Inputs
  <2>1. CASE inbuf' = inbuf
    BY <1>0, <2>1 DEF Kinds
  <2>2. CASE inbuf' = [k \in 1..INBUFSIZ |-> IF k > io.done /\ k <= io.done + size
                                            THEN data[k - io.done] ELSE inbuf[k]]
    <3>1. ASSUME NEW k \in 1..INBUFSIZ, k > io.done, k <= io.done + size PROVE data[k - io.done] \in Given
      <4>1. k - io.done \in 1..size
        BY <1>3, <3>1, Constants
      <4>2. QED
        BY <1>1, <4>1
    <3>2. \A k \in 1..INBUFSIZ : inbuf[k] \in Given
      BY <1>0 DEF Kinds, Inputs
    <3>3. QED
      BY <2>2, <3>1, <3>2 DEF Inputs
  <2>3. QED
    BY <1>2, <2>1, <2>2
<1>6. /\ call' \in Requests /\ call'.test = call.test /\ call'.count = call.count
      /\ call'.len = call.len /\ call'.last = call.last
  <2>1. CASE call' = call
    BY <1>0, <2>1 DEF Kinds
  <2>2. CASE call' = [call EXCEPT !.out = @ \o [k \in 1..size |-> ByteOf(data[k])]]
    <3> DEFINE part == [k \in 1..size |-> ByteOf(data[k])]
               new == call.out \o part
    <3>1. part \in Seq(Data)
      <4>1. \A k \in 1..size : ByteOf(data[k]) \in Data
        BY <1>1, Known
      <4>2. QED
        BY <1>3, <4>1
    <3>2. call \in Requests /\ call.out \in Seq(Data)
      BY <1>0 DEF Kinds, Requests
    <3> HIDE DEF part
    <3>3. new \in Seq(Data)
      BY <3>1, <3>2
    <3>4. call' = [call EXCEPT !.out = new]
      BY <2>2, <3>2 DEF part, Requests
    <3> HIDE DEF new
    <3>5. QED
      BY <3>2, <3>3, <3>4 DEF Requests
  <2>3. QED
    BY <1>2, <2>1, <2>2
<1>7. Kinds'
  <2>1. cur' \in Cursors
    BY <1>1 DEF Points, At, Cursors
  <2>2. errnum' \in 0..2
    BY <1>2
  <2>3. filepos' \in Nat
    BY <1>2, <1>3
  <2>4. QED
    BY <1>0, <1>2, <1>4, <1>5, <1>6, <2>1, <2>2, <2>3 DEF Kinds
<1>8. CursorAt'
  BY <1>1, <1>2, NotClosed DEF CursorAt, Points
<1>9. InGunzip' <=> InGunzip
  BY <1>2, <1>4 DEF InGunzip, Inside
<1>10. Positions'
  BY <1>0, <1>2, <1>9 DEF Positions
<1>11. Calls'
  <2>1. filepos' + io'.len <= filemax' /\ filepos' - io'.done = filepos - io.done
        /\ call'.count + io'.done + io'.len = call.count + io.done + io.len
    <3>1. filepos + io.len <= filemax /\ filemax \in Nat /\ call.count \in Nat
      BY <1>0, <1>2 DEF Calls, Kinds, Requests
    <3> DEFINE l == io.len
               d == io.done
               c == call.count
    <3>2. /\ filepos' = filepos + size /\ filemax' = filemax /\ io'.len = l - size
          /\ io'.done = d + size /\ call'.count = c /\ l \in Nat /\ d \in Nat /\ c \in Nat
          /\ filepos + l <= filemax
      BY <1>2, <1>3, <1>4, <1>6, <3>1
    <3> HIDE DEF l, d, c
    <3>3. /\ (filepos + size) + (l - size) <= filemax
          /\ (filepos + size) - (d + size) = filepos - d
          /\ c + (d + size) + (l - size) = c + d + l
      BY <1>3, <3>1, <3>2
    <3>4. QED
      BY <3>2, <3>3 DEF l, d, c
  <2>2. QED
    BY <1>0, <1>2, <1>4, <1>6, <1>9, <2>1 DEF Calls
<1>12. Inflating'
  BY <1>0, <1>2, <1>4 DEF Inflating, InWindow, Place, Decoder
<1>13. QED
  BY <1>7, <1>8, <1>10, <1>11, <1>12 DEF CursorInv

LEMMA BlockCallInv ==
  ASSUME CursorInv, file # Closed, ~compressed_file, ~InGunzip,
         NEW out \in Requests, ~out.test, out.count < out.len,
         filepos + (out.len - out.count) <= filemax,
         BlockCall(out), errnum' \in 0..2, UNCHANGED <<file, cur, inbuf>>
  PROVE  CursorInv'
<1>0. Kinds /\ CursorAt /\ Positions /\ Calls /\ Inflating
  BY Parts
<1> DEFINE len == Min({out.len - out.count, Step})
<1>1. /\ io' = [len |-> len, done |-> 0, to |-> "caller", back |-> "chunk"]
      /\ call' = [out EXCEPT !.last = 0] /\ pc' = "blocks"
      /\ UNCHANGED <<filepos, filemax, compressed_file, gzip, inflate, bufloc>>
  BY DEF BlockCall
<1>2. out.len \in Nat /\ out.count \in Nat /\ Step \in Nat
  BY Constants DEF Requests
<1>3. len \in Nat /\ len <= out.len - out.count
  <2>1. out.len - out.count \in Int /\ Step \in Int
    BY <1>2
  <2>2. len = IF out.len - out.count <= Step THEN out.len - out.count ELSE Step
    BY <2>1, Lesser
  <2> HIDE DEF len
  <2>3. QED
    BY <1>2, <2>2
<1> HIDE DEF len
<1>4. /\ call' \in Requests /\ call'.last = 0 /\ call'.count = out.count /\ call'.len = out.len
      /\ call'.test = out.test
  BY <1>1 DEF Requests
<1>5. io' \in Moves /\ io'.len = len /\ io'.done = 0 /\ io'.to = "caller" /\ io'.back = "chunk"
  BY <1>1, <1>3 DEF Moves
<1>6. Kinds'
  BY <1>0, <1>1, <1>4, <1>5 DEF Kinds
<1>7. CursorAt'
  BY <1>0, <1>1 DEF CursorAt, Points
<1>8. ~InGunzip'
  BY <1>1, <1>5 DEF InGunzip, Inside
<1>9. Positions'
  BY <1>0, <1>1, <1>8 DEF Positions
<1>10. Calls'
  <2>1. filepos + len <= filemax /\ out.count + 0 + len <= out.len
        /\ filepos - 0 + (out.len - out.count) <= filemax
    <3>1. filepos \in Nat /\ filemax \in Nat
      BY <1>0 DEF Kinds
    <3>2. QED
      BY <1>2, <1>3, <3>1
  <2>2. QED
    BY <1>1, <1>2, <1>4, <1>5, <1>8, <2>1 DEF Calls
<1>11. Inflating'
  BY <1>1, <1>5 DEF Inflating, InWindow, Place, Decoder
<1>12. QED
  BY <1>6, <1>7, <1>9, <1>10, <1>11 DEF CursorInv

LEMMA GunzipReadInv ==
  ASSUME CursorInv, file # Closed, compressed_file, ~InGunzip,
         NEW out \in Requests, out.count < out.len,
         GunzipRead, call' = [out EXCEPT !.last = 0], errnum' \in 0..2, UNCHANGED <<file, cur, inbuf>>
  PROVE  CursorInv'
<1>0. Kinds /\ CursorAt /\ Positions /\ Calls /\ Inflating
  BY Parts
<1>1. /\ compressed_file' = FALSE /\ filemax' = gzip.filemax /\ pc' = "serve" /\ io' = io
      /\ gzip' = [gzip EXCEPT !.filepos = filepos, !.filemax = filemax]
      /\ filepos' \in {gzip.data_offset, gzip.filepos}
      /\ inflate' \in {inflate, Initialized(inflate)} /\ bufloc' \in {0, bufloc}
  BY DEF GunzipRead
<1>2. gzip \in Gzips /\ filepos \in Nat /\ filemax \in Nat /\ inflate \in Inflates
  BY <1>0 DEF Kinds
<1>3. /\ gzip' \in Gzips /\ gzip'.data_offset = gzip.data_offset
      /\ filemax' \in Nat /\ filepos' \in Nat
  <2>1. gzip' \in Gzips /\ gzip'.data_offset = gzip.data_offset
    BY <1>1, <1>2 DEF Gzips
  <2>2. gzip.filemax \in Nat /\ gzip.data_offset \in Nat /\ gzip.filepos \in Nat
    BY <1>2 DEF Gzips
  <2>3. QED
    BY <1>1, <2>1, <2>2
<1>4. inflate' \in Inflates
  <2>1. Initialized(inflate) \in Inflates
    BY <1>2 DEF Initialized, Inflates
  <2>2. QED
    BY <1>1, <1>2, <2>1
<1>5. bufloc' \in 0..INBUFSIZ
  BY <1>0, <1>1, Constants DEF Kinds
<1>6. /\ call' \in Requests /\ call'.last = 0 /\ call'.count = out.count /\ call'.len = out.len
  BY DEF Requests
<1>7. Kinds'
  <2>1. pc' \in Inside
    BY <1>1 DEF Inside
  <2>2. compressed_file' \in BOOLEAN
    BY <1>1
  <2>3. QED
    BY <1>0, <1>1, <1>3, <1>4, <1>5, <1>6, <2>1, <2>2 DEF Kinds
<1>8. CursorAt'
  BY <1>0 DEF CursorAt, Points
<1>9. InGunzip'
  BY <1>1 DEF InGunzip, Inside
<1>10. Positions'
  BY <1>0, <1>1, <1>3, <1>9 DEF Positions
<1>11. Calls'
  <2>1. out.count \in Nat /\ out.len \in Nat /\ Step \in Nat
    BY Constants DEF Requests
  <2>2. QED
    BY <1>0, <1>1, <1>6, <1>9, <2>1 DEF Calls
<1>12. Inflating'
  BY <1>1 DEF Inflating, InWindow, Decoder
<1>13. QED
  BY <1>7, <1>8, <1>10, <1>11, <1>12 DEF CursorInv

LEMMA FinishInv ==
  ASSUME CursorInv, file # Closed, ~InGunzip,
         NEW out \in Requests, out.count <= out.len, out.test => compressed_file,
         call' = out, pc' = "done", errnum' \in 0..2,
         UNCHANGED <<filepos, filemax, compressed_file, gzip, inflate, bufloc, io, file, cur, inbuf>>
  PROVE  CursorInv'
<1>0. Kinds /\ CursorAt /\ Positions /\ Calls /\ Inflating
  BY Parts
<1>1. Kinds'
  BY <1>0 DEF Kinds
<1>2. CursorAt'
  BY <1>0 DEF CursorAt, Points
<1>3. ~InGunzip'
  BY DEF InGunzip, Inside
<1>4. Positions'
  BY <1>0, <1>3 DEF Positions
<1>5. Calls'
  BY <1>0, <1>3 DEF Calls
<1>6. Inflating'
  BY DEF Inflating, InWindow, Decoder
<1>7. QED
  BY <1>1, <1>2, <1>4, <1>5, <1>6 DEF CursorInv

LEMMA GrubReadInv ==
  ASSUME CursorInv, file # Closed, pc \in {"idle", "test"}, NEW n \in Nat, NEW test \in BOOLEAN,
         test => compressed_file, GrubRead(n, test), UNCHANGED <<file, cur, inbuf>>
  PROVE  CursorInv'
<1> DEFINE len == IF filepos >= filemax THEN 0 ELSE Min({n, filemax - filepos})
           new == [test |-> test, start |-> filepos, asked |-> n, count |-> 0, last |-> 0,
                   out |-> <<>>, len |-> len]
<1>0. Kinds /\ ~InGunzip
  BY Parts DEF InGunzip, Inside
<1>1. filepos \in Nat /\ filemax \in Nat /\ errnum \in 0..2
  BY <1>0 DEF Kinds
<1>2. len \in Nat /\ (len > 0 => filepos + len <= filemax)
  <2>1. CASE filepos >= filemax
    BY <2>1
  <2>2. CASE ~ (filepos >= filemax)
    <3>1. n \in Int /\ filemax - filepos \in Int /\ filepos < filemax
      BY <1>1, <2>2
    <3>2. Min({n, filemax - filepos}) = IF n <= filemax - filepos THEN n ELSE filemax - filepos
      BY <3>1, Lesser
    <3>3. len = IF n <= filemax - filepos THEN n ELSE filemax - filepos
      BY <2>2, <3>2
    <3> HIDE DEF len
    <3>4. QED
      BY <1>1, <3>1, <3>3
  <2>3. QED
    BY <2>1, <2>2
<1>3. \/ new.len > 0 /\ errnum' = 0 /\ ReadFunc(new)
      \/ /\ new.len = 0 /\ call' = new /\ pc' = "done"
         /\ errnum' = IF filepos >= filemax THEN errnum ELSE 0
         /\ UNCHANGED <<filepos, filemax, compressed_file, gzip, inflate, bufloc, io>>
  BY DEF GrubRead
<1> HIDE DEF len
<1>4. /\ new \in Requests /\ new.len = len /\ new.count = 0 /\ new.test = test
  <2>1. <<>> \in Seq(Data)
    OBVIOUS
  <2>2. QED
    BY <1>1, <1>2, <2>1 DEF Requests
<1> HIDE DEF new
<1>5. CASE new.len > 0 /\ errnum' = 0 /\ ~compressed_file /\ BlockCall(new)
  <2>1. filepos + (new.len - new.count) <= filemax /\ new.count < new.len /\ errnum' \in 0..2 /\ ~new.test
    BY <1>1, <1>2, <1>4, <1>5
  <2>2. QED
    BY <1>0, <1>4, <1>5, <2>1, BlockCallInv
<1>6. CASE new.len > 0 /\ errnum' = 0 /\ compressed_file /\ GunzipRead /\ call' = [new EXCEPT !.last = 0]
  <2>1. new.count < new.len /\ errnum' \in 0..2
    BY <1>4, <1>6
  <2>2. QED
    BY <1>0, <1>4, <1>6, <2>1, GunzipReadInv
<1>7. CASE /\ new.len = 0 /\ call' = new /\ pc' = "done"
           /\ errnum' = IF filepos >= filemax THEN errnum ELSE 0
           /\ UNCHANGED <<filepos, filemax, compressed_file, gzip, inflate, bufloc, io>>
  <2>1. errnum' \in 0..2 /\ new.count <= new.len
    BY <1>1, <1>4, <1>7
  <2>2. QED
    BY <1>0, <1>4, <1>7, <2>1, FinishInv
<1>8. QED
  BY <1>3, <1>5, <1>6, <1>7 DEF ReadFunc

LEMMA ReadInvariant == ASSUME CursorInv, Read PROVE CursorInv'
<1>1. PICK n \in Lengths : GrubRead(n, FALSE)
  BY DEF Read
<1>2. n \in Nat
  BY Constants
<1>3. file # Closed /\ pc \in {"idle", "test"} /\ UNCHANGED <<file, cur, inbuf>>
  BY DEF Read
<1>4. QED
  BY <1>1, <1>2, <1>3, GrubReadInv

LEMMA TestInv == ASSUME CursorInv, Test PROVE CursorInv'
<1>1. pc = "test" /\ GrubRead(1, TRUE) /\ UNCHANGED <<file, cur, inbuf>>
  BY DEF Test
<1>2. file # Closed /\ compressed_file
  BY <1>1 DEF CursorInv, CursorAt, Calls
<1>3. QED
  BY <1>1, <1>2, GrubReadInv

LEMMA ChunkInv == ASSUME CursorInv, Chunk PROVE CursorInv'
<1>0. Kinds /\ CursorAt /\ Positions /\ Calls /\ Inflating
  BY Parts
<1>1. /\ pc = "chunk" /\ UNCHANGED <<file, errnum, cur, inbuf>>
      /\ \/ call.last > 0 /\ Counted.count < call.len /\ ReadFunc(Counted)
         \/ /\ call' = Counted /\ pc' = "done"
            /\ UNCHANGED <<filepos, filemax, compressed_file, gzip, inflate, bufloc, io>>
  BY DEF Chunk
<1>2. errnum' \in 0..2 /\ file # Closed /\ ~InGunzip
  BY <1>0, <1>1 DEF Kinds, CursorAt, InGunzip, Inside
<1>3. /\ call \in Requests /\ call.count \in Nat /\ call.last \in Nat /\ call.len \in Nat
      /\ call.count + call.last <= call.len /\ (call.test => compressed_file)
  BY <1>0, <1>1, <1>2 DEF Kinds, Requests, Calls
<1>4. /\ Counted \in Requests /\ Counted.count = call.count + call.last /\ Counted.len = call.len
      /\ Counted.test = call.test
  <2>1. call.count + call.last \in Nat
    BY <1>3
  <2>2. QED
    BY <1>3, <2>1 DEF Counted, Requests
<1>5. CASE call.last > 0 /\ Counted.count < call.len /\ ~compressed_file /\ BlockCall(Counted)
  <2>1. filepos + (Counted.len - Counted.count) <= filemax
    <3>1. filepos - call.last + (call.len - call.count) <= filemax /\ filepos \in Nat
          /\ filemax \in Nat
      BY <1>0, <1>1, <1>5 DEF Calls, Kinds
    <3>2. QED
      BY <1>3, <1>4, <3>1
  <2>2. QED
    BY <1>1, <1>2, <1>3, <1>4, <1>5, <2>1, BlockCallInv
<1>6. CASE /\ call.last > 0 /\ Counted.count < call.len /\ compressed_file /\ GunzipRead
           /\ call' = [Counted EXCEPT !.last = 0]
  BY <1>1, <1>2, <1>4, <1>6, GunzipReadInv
<1>7. CASE /\ call' = Counted /\ pc' = "done"
           /\ UNCHANGED <<filepos, filemax, compressed_file, gzip, inflate, bufloc, io>>
  BY <1>1, <1>2, <1>3, <1>4, <1>7, FinishInv
<1>8. QED
  BY <1>1, <1>5, <1>6, <1>7 DEF ReadFunc

LEMMA OpenInv == ASSUME CursorInv, Open PROVE CursorInv'
<1>0. Kinds /\ CursorAt /\ Positions /\ Calls /\ Inflating
  BY Parts
<1>1. PICK f \in Files :
        IF SymbolAt(f, 0).is = "header"
        THEN LET size == SymbolAt(f, f.max - 1).size
             IN /\ file' = f
                /\ filepos' = 0 /\ filemax' = size /\ compressed_file' = TRUE
                /\ gzip' = [filepos |-> 1, filemax |-> f.max, data_offset |-> 1]
                /\ inflate' = Initialized(inflate) /\ bufloc' = 0
                /\ cur' = [Ahead(f, AtStart, (f.max - 1) \div SS) EXCEPT !.filepos = f.max - 1]
                /\ pc' = "test"
        ELSE /\ file' = f
             /\ filepos' = 0 /\ filemax' = f.max /\ compressed_file' = FALSE
             /\ cur' = AtStart
             /\ UNCHANGED <<gzip, inflate, bufloc, pc>>
  BY DEF Open
<1>2. pc = "idle" /\ errnum' = 0 /\ UNCHANGED <<inbuf, call, io>> /\ file' = f
  BY <1>1 DEF Open
<1>3. f.max \in Nat \ {0} /\ f # Closed
  BY Whole, NotClosed
<1>4. errnum' \in 0..2 /\ file' \in Files \cup {Closed}
  BY <1>2
<1>5. call.test = FALSE /\ (io.to = "caller" <=> io.back = "chunk") /\ call.count + call.last <= call.len
      /\ call.count <= call.len
  BY <1>0, <1>2 DEF Calls, Kinds, Requests
<1>6. CASE SymbolAt(f, 0).is = "header"
  <2> DEFINE c == Ahead(f, AtStart, (f.max - 1) \div SS)
  <2>1. /\ filepos' = 0 /\ filemax' = SymbolAt(f, f.max - 1).size /\ compressed_file' = TRUE
        /\ gzip' = [filepos |-> 1, filemax |-> f.max, data_offset |-> 1]
        /\ inflate' = Initialized(inflate) /\ bufloc' = 0
        /\ cur' = [c EXCEPT !.filepos = f.max - 1] /\ pc' = "test"
    BY <1>1, <1>6
  <2>2. f \in Gzipped
    BY <1>6 DEF Gzipped
  <2>3. filemax' \in Nat
    <3>1. SymbolAt(f, f.max - 1).is = "trailer"
      BY <1>6, FileAssumption DEF FileOK
    <3>2. f.max - 1 \in Nat /\ f.max - 1 < f.max
      BY <1>3
    <3>3. SymbolOK(SymbolAt(f, f.max - 1))
      BY <3>2, SymbolsOK
    <3>4. QED
      BY <2>1, <3>1, <3>3 DEF SymbolOK
  <2>4. Points(f, cur')
    <3> DEFINE p == f.max - 1
               q == p \div SS
    <3>1. p \in Nat /\ p < f.max
      BY <1>3
    <3> HIDE DEF p
    <3>2. q \in Nat /\ q < SectorsUpTo(f.list)[Len(f.list)]
      BY <3>1, InSector
    <3> HIDE DEF q
    <3>3. At(f, AtStart, 0) /\ 0 + q = q
      BY <3>2, StartAt
    <3>4. At(f, Ahead(f, AtStart, q), q)
      BY <3>2, <3>3, AheadAt
    <3>5. cur' = [Ahead(f, AtStart, q) EXCEPT !.filepos = p]
      BY <2>1 DEF p, q
    <3>6. cur'.filepos = p /\ At(f, cur', q)
      BY <3>1, <3>4, <3>5 DEF At
    <3>7. QED
      BY <3>6 DEF Points, q
  <2> HIDE DEF c
  <2>5. gzip' \in Gzips /\ gzip'.filemax = f.max /\ gzip'.data_offset = 1
    BY <1>3, <2>1 DEF Gzips
  <2>6. inflate' \in Inflates
    BY <1>0, <2>1 DEF Kinds, Initialized, Inflates
  <2>7. Kinds'
    <3>1. bufloc' \in 0..INBUFSIZ
      BY <2>1, Constants
    <3>2. compressed_file' \in BOOLEAN
      BY <2>1
    <3>3. cur' \in Cursors
      BY <2>4 DEF Points, At, Cursors
    <3>4. QED
      BY <1>0, <1>2, <1>4, <2>1, <2>3, <2>5, <2>6, <3>1, <3>2, <3>3 DEF Kinds
  <2>8. CursorAt'
    BY <1>2, <1>3, <2>4 DEF CursorAt, Points
  <2>9. ~InGunzip'
    BY <2>1 DEF InGunzip, Inside
  <2>10. Positions'
    BY <1>2, <2>1, <2>2, <2>5, <2>9 DEF Positions
  <2>11. Calls'
    BY <1>2, <1>5, <2>1, <2>9 DEF Calls
  <2>12. Inflating'
    BY <2>1 DEF Inflating, InWindow, Decoder
  <2>13. QED
    BY <2>7, <2>8, <2>10, <2>11, <2>12 DEF CursorInv
<1>7. CASE SymbolAt(f, 0).is # "header"
  <2>1. /\ filepos' = 0 /\ filemax' = f.max /\ compressed_file' = FALSE
        /\ cur' = AtStart /\ UNCHANGED <<gzip, inflate, bufloc, pc>>
    BY <1>1, <1>7
  <2>2. Points(f, cur')
    BY <2>1, StartAt
  <2>3. Kinds'
    <3>1. compressed_file' \in BOOLEAN
      BY <2>1
    <3>2. cur' \in Cursors
      BY <2>2 DEF Points, At, Cursors
    <3>3. filepos' \in Nat /\ filemax' \in Nat
      BY <1>3, <2>1
    <3>4. QED
      BY <1>0, <1>2, <1>4, <2>1, <3>1, <3>2, <3>3 DEF Kinds
  <2>4. CursorAt'
    BY <1>2, <1>3, <2>2 DEF CursorAt, Points
  <2>5. ~InGunzip'
    BY <1>2, <2>1 DEF InGunzip, Inside
  <2>6. Positions'
    BY <1>2, <2>1, <2>5 DEF Positions
  <2>7. Calls'
    BY <1>2, <1>5, <2>1, <2>5 DEF Calls
  <2>8. Inflating'
    BY <1>2, <2>1 DEF Inflating, InWindow, Decoder
  <2>9. QED
    BY <2>3, <2>4, <2>6, <2>7, <2>8 DEF CursorInv
<1>8. QED
  BY <1>6, <1>7

LEMMA StutterInv == ASSUME CursorInv, UNCHANGED vars PROVE CursorInv'
<1>1. /\ UNCHANGED <<file, filepos, filemax, errnum, compressed_file, cur, gzip, inflate>>
      /\ UNCHANGED <<inbuf, bufloc, pc, call, io>>
  BY DEF vars
<1>2. Kinds'
  BY <1>1 DEF CursorInv, Kinds
<1>3. (InGunzip' <=> InGunzip) /\ (InWindow' <=> InWindow) /\ Place' = Place
  BY <1>1 DEF InGunzip, InWindow, Place
<1>4. CursorAt' /\ Positions'
  BY <1>1, <1>3 DEF CursorInv, CursorAt, Points, Positions
<1>5. Calls' /\ Inflating'
  BY <1>1, <1>3 DEF CursorInv, Calls, Inflating
<1>6. QED
  BY <1>2, <1>4, <1>5 DEF CursorInv

LEMMA NextInv == ASSUME CursorInv, [Next]_vars PROVE CursorInv'
<1>1. CASE Gunzip
  BY <1>1, ServeMoreInv, NextWindowInv, ServeInv, GunzipReturnInv, RefillInv, InflateInv, WindowDoneInv,
     GetNewBlockInv, StoredByteInv, DecodeLiteralInv, DecodeCopyInv, DecodeEndInv, DecodePrefixInv,
     DecodeBadInv, DoCopyInv DEF Gunzip
<1>2. CASE Work
  BY <1>1, <1>2, BlockReadInv, BlockReturnInv, ChunkInv, ReadDoneInv, TestInv, TestDoneInv DEF Work
<1>3. CASE Read \/ Seek \/ Open \/ OpenFails
  BY <1>3, ReadInvariant, SeekInv, OpenInv, OpenFailsInv
<1>4. QED
  BY <1>2, <1>3, StutterInv DEF Next

\* The cursor and the positions, for any data on the disk and any failures.
THEOREM Invariant == Spec => []CursorInv
<1>1. Init => CursorInv
  BY InitInv
<1>2. CursorInv /\ [Next]_vars => CursorInv'
  BY NextInv
<1>3. QED
  BY <1>1, <1>2, PTL DEF Spec

\* For any lists, sectors and failures: every variable keeps its range, and with
\* them the cursor its list, the buffers their sizes and grub_read its length.
THEOREM Typing == Spec => []TypeOK
<1>1. CursorInv => TypeOK
  <2> SUFFICES ASSUME CursorInv PROVE TypeOK
    OBVIOUS
  <2>1. Kinds /\ CursorAt /\ call.count <= call.len
    BY DEF CursorInv, Calls
  <2>2. cur.blklist \in 1..(Len(file.list) + 1) /\ cur.blknum \in Nat
    <3>1. CASE file = Closed
      BY <2>1, <3>1 DEF CursorAt, AtStart, Closed
    <3>2. CASE file # Closed
      <4>1. file \in Files /\ At(file, cur, cur.filepos \div SS)
        BY <2>1, <3>2 DEF Kinds, CursorAt, Points
      <4>2. Entries(file) = 1..Len(file.list) /\ Len(file.list) \in Nat
        BY <4>1, Whole
      <4>3. QED
        BY <4>1, <4>2 DEF At
    <3>3. QED
      BY <3>1, <3>2
  <2>3. inflate.wp \in 0..WSIZE /\ inflate.block_len \in Nat /\ inflate.code_state \in {0, 1}
    BY <2>1 DEF Kinds, Inflates
  <2>4. QED
    BY <2>1, <2>2, <2>3 DEF TypeOK, Kinds, Moves
<1>2. QED
  BY <1>1, Invariant, PTL

\* For any lists, sectors and failures, after any opens, seeks and reads:
\* block_read_func's cursor is in the sector where cur_filepos is.
THEOREM Cursor == Spec => []CursorRight
<1>1. CursorInv => CursorRight
  BY DEF CursorInv, CursorAt, Points, At, CursorRight
<1>2. QED
  BY <1>1, Invariant, PTL

-----------------------------------------------------------------------------
(* What the gzipped files hold *)

\* The gzipped files are sound: their data ends with the last block, and is as
\* long as the trailer says, or breaks off and is not longer; no copy goes back
\* to before the data's beginning.
SoundStream(f) ==
  LET D == Decoding[f]
      last == D[f.max - 1]
      size == SymbolAt(f, f.max - 1).size
  IN /\ \/ last.in = "end" /\ size = Len(last.out)
        \/ last.in = "bad" /\ size >= Len(last.out)
     /\ \A k \in 1..(f.max - 1) :
          D[k - 1].in = "codes" /\ SymbolAt(f, k).is = "copy" =>
            SymbolAt(f, k).d <= Len(D[k - 1].out)
SoundStreams == \A f \in Gzipped : SoundStream(f)

States == [in : {"head", "stored", "codes", "end", "bad"}, left : Nat, last : BOOLEAN,
           out : Seq(Data)]

\* One sequence begins with another.
Begins(s, t) == Len(s) <= Len(t) /\ \A i \in 1..Len(s) : t[i] = s[i]

LEMMA BeginsOn ==
  ASSUME NEW s \in Seq(Data), NEW t \in Seq(Data), NEW u \in Seq(Data), Begins(s, t), Begins(t, u)
  PROVE  Begins(s, u)
<1>1. Len(s) \in Nat /\ Len(t) \in Nat /\ Len(u) \in Nat
  OBVIOUS
<1>2. QED
  BY <1>1 DEF Begins

LEMMA ExtendedRight ==
  ASSUME NEW out \in Seq(Data), NEW n \in Nat, NEW d \in 1..Len(out)
  PROVE  LET x == Extended(out, n, d)
         IN  /\ x \in Seq(Data) /\ Len(x) = Len(out) + n /\ Begins(out, x)
             /\ \A j \in 1..n : x[Len(out) + j] = x[Len(out) + j - d]
<1> DEFINE l == Len(out)
           More(x, k) == Append(x, x[l + k - d])
<1>1. PICK g : Extending(g, out, n, d)
  BY ExtendedLoop
<1>2. l \in Nat /\ d \in Nat /\ 1 <= d /\ d <= l
  OBVIOUS
<1>3. g[0] = out /\ \A m \in 0..(n - 1) : g[m + 1] = More(g[m], m + 1)
  BY <1>1 DEF Extending
<1> DEFINE Good(x, m) ==
             /\ x \in Seq(Data) /\ Len(x) = l + m
             /\ \A i \in 1..l : x[i] = out[i]
             /\ \A j \in 1..m : x[l + j] = x[l + j - d]
           T == {m \in Nat : Good(g[m], m)}
<1>4. 0 \in T
  BY <1>2, <1>3
<1> HIDE DEF l
<1>5. ASSUME NEW m \in T, m \in 0..(n - 1) PROVE m + 1 \in T
  <2> DEFINE x == g[m]
             p == l + (m + 1) - d
             y == Append(x, x[p])
  <2>1. m \in Nat /\ x \in Seq(Data) /\ Len(x) = l + m
    OBVIOUS
  <2>2. (\A i \in 1..l : x[i] = out[i]) /\ (\A j \in 1..m : x[l + j] = x[l + j - d])
    OBVIOUS
  <2>3. p \in 1..Len(x) /\ p \in Nat
    BY <1>2, <2>1
  <2>4. g[m + 1] = y
    BY <1>3, <1>5
  <2> HIDE DEF x, p
  <2>5. x[p] \in Data
    BY <2>1, <2>3, ElementOfSeq
  <2>6. y \in Seq(Data) /\ Len(y) = l + (m + 1) /\ y[l + (m + 1)] = x[p] /\ \A i \in 1..(l + m) : y[i] = x[i]
    <3> DEFINE a == x[p]
    <3>1. a \in Data
      BY <2>5
    <3> HIDE DEF a
    <3>2. /\ Append(x, a) \in Seq(Data) /\ Len(Append(x, a)) = Len(x) + 1
          /\ Append(x, a)[Len(x) + 1] = a /\ \A i \in 1..Len(x) : Append(x, a)[i] = x[i]
      BY <2>1, <3>1, AppendProperties
    <3>3. Len(x) + 1 = l + (m + 1)
      BY <1>2, <2>1
    <3>4. QED
      BY <2>1, <3>2, <3>3 DEF a
  <2> HIDE DEF y, T
  <2>7. \A i \in 1..l : y[i] = out[i]
    <3>1. \A i \in 1..l : i \in 1..(l + m)
      BY <1>2, <2>1
    <3>2. QED
      BY <2>2, <2>6, <3>1
  <2>8. ASSUME NEW j \in 1..(m + 1) PROVE y[l + j] = y[l + j - d]
    <3>1. l + j - d \in 1..(l + m)
      BY <1>2, <2>1
    <3>2. CASE j = m + 1
      <4>1. p \in 1..(l + m) /\ l + j = l + (m + 1) /\ l + j - d = p
        BY <2>1, <2>3, <3>2 DEF p
      <4>2. QED
        BY <2>6, <4>1
    <3>3. CASE j # m + 1
      <4>1. j \in 1..m /\ l + j \in 1..(l + m)
        BY <1>2, <2>1, <3>3
      <4>2. QED
        BY <2>2, <2>6, <3>1, <4>1
    <3>4. QED
      BY <3>2, <3>3
  <2>9. Good(g[m + 1], m + 1) /\ m + 1 \in Nat
    BY <2>1, <2>4, <2>6, <2>7, <2>8
  <2> HIDE DEF Good
  <2>10. QED
    BY <2>9 DEF T
<1>6. Good(g[n], n)
  <2> HIDE DEF T, Good
  <2>1. 0..n \subseteq T
    BY <1>4, <1>5, Upward
  <2>2. QED
    BY <2>1 DEF T
<1> HIDE DEF More
<1>7. Good(Extended(out, n, d), n)
  <2> HIDE DEF Good
  <2> QED
    BY <1>1, <1>6 DEF Extending
<1> DEFINE x == Extended(out, n, d)
<1> HIDE DEF x
<1>8. /\ x \in Seq(Data) /\ Len(x) = l + n /\ Begins(out, x)
      /\ \A j \in 1..n : x[l + j] = x[l + j - d]
  <2>1. Good(x, n)
    BY <1>7 DEF x
  <2>2. l <= l + n
    BY <1>2
  <2>3. QED
    BY <2>1, <2>2 DEF Begins, l
<1>9. QED
  BY <1>8 DEF x, l

LEMMA StepRight ==
  ASSUME NEW D \in States, D.in = "stored" => D.left > 0, NEW s \in Given,
         D.in = "codes" /\ s.is = "copy" => s.d <= Len(D.out)
  PROVE  /\ Step1(D, s) \in States /\ Begins(D.out, Step1(D, s).out)
         /\ Step1(D, s).in = "stored" => Step1(D, s).left > 0
         /\ D.in = "end" => Step1(D, s) = D
<1> DEFINE E == Step1(D, s)
           Good(e) == /\ e \in States /\ Begins(D.out, e.out)
                      /\ e.in = "stored" => e.left > 0
                      /\ D.in = "end" => e = D
<1>1. SymbolOK(s) /\ ByteOf(s) \in Data
  BY Known
<1>2. D.out \in Seq(Data) /\ D.left \in Nat /\ D.last \in BOOLEAN /\ Begins(D.out, D.out)
  <2>1. D.out \in Seq(Data) /\ D.left \in Nat /\ D.last \in BOOLEAN
    BY DEF States
  <2>2. QED
    BY <2>1 DEF Begins
<1>3. ASSUME NEW b \in Data PROVE Append(D.out, b) \in Seq(Data) /\ Begins(D.out, Append(D.out, b))
  BY <1>2, AppendProperties DEF Begins
<1>4. \A l \in BOOLEAN : AfterBlock(l) \in {"head", "end"}
  BY DEF AfterBlock
<1>5. CASE D.in = "stored"
  <2> DEFINE n == D.left - 1
             i == IF D.left = 1 THEN AfterBlock(D.last) ELSE D.in
             o == Append(D.out, ByteOf(s))
  <2>1. E = [D EXCEPT !.out = o, !.left = n, !.in = i]
    BY <1>5 DEF Step1
  <2>2. n \in Nat /\ (i = "stored" => n > 0) /\ i \in {"head", "stored", "end"}
    BY <1>2, <1>4, <1>5
  <2>3. o \in Seq(Data) /\ Begins(D.out, o)
    BY <1>1, <1>3
  <2> HIDE DEF n, i, o, E
  <2>4. Good(E)
    BY <1>5, <2>1, <2>2, <2>3 DEF States
  <2>5. QED
    BY <2>4 DEF E
<1>6. CASE D.in = "head" /\ s.is = "stored"
  <2> DEFINE i == IF s.n = 0 THEN AfterBlock(s.last) ELSE "stored"
  <2>1. E = [D EXCEPT !.left = s.n, !.last = s.last, !.in = i]
    BY <1>6 DEF Step1
  <2>2. s.n \in Nat /\ s.last \in BOOLEAN
    BY <1>1, <1>6 DEF SymbolOK
  <2>3. (i = "stored" => s.n > 0) /\ i \in {"head", "stored", "end"}
    BY <1>4, <2>2
  <2> HIDE DEF i, E
  <2>4. Good(E)
    BY <1>2, <1>6, <2>1, <2>2, <2>3 DEF States
  <2>5. QED
    BY <2>4 DEF E
<1>7. CASE D.in = "head" /\ s.is = "block"
  <2>1. E = [D EXCEPT !.last = s.last, !.in = "codes"]
    BY <1>7 DEF Step1
  <2>2. s.last \in BOOLEAN
    BY <1>1, <1>7 DEF SymbolOK
  <2> HIDE DEF E
  <2>3. Good(E)
    BY <1>2, <1>7, <2>1, <2>2 DEF States
  <2>4. QED
    BY <2>3 DEF E
<1>8. CASE D.in = "codes" /\ s.is = "literal"
  <2> DEFINE o == Append(D.out, s.byte)
  <2>1. E = [D EXCEPT !.out = o]
    BY <1>8 DEF Step1
  <2>2. o \in Seq(Data) /\ Begins(D.out, o)
    <3>1. s.byte \in Data
      BY <1>1, <1>8 DEF ByteOf
    <3>2. QED
      BY <1>3, <3>1
  <2> HIDE DEF o, E
  <2>3. Good(E)
    BY <1>8, <2>1, <2>2 DEF States
  <2>4. QED
    BY <2>3 DEF E
<1>9. CASE D.in = "codes" /\ s.is = "copy"
  <2> DEFINE o == Extended(D.out, s.n, s.d)
  <2>1. E = [D EXCEPT !.out = o]
    BY <1>9 DEF Step1
  <2>2. o \in Seq(Data) /\ Begins(D.out, o)
    <3>1. s.n \in Nat /\ s.d \in 1..WSIZE
      BY <1>1, <1>9 DEF SymbolOK
    <3>2. s.d \in 1..Len(D.out)
      BY <1>2, <1>9, <3>1, Constants
    <3>3. QED
      BY <1>2, <3>1, <3>2, ExtendedRight
  <2> HIDE DEF o, E
  <2>3. Good(E)
    BY <1>9, <2>1, <2>2 DEF States
  <2>4. QED
    BY <2>3 DEF E
<1>10. CASE D.in = "codes" /\ s.is = "end"
  <2> DEFINE i == AfterBlock(D.last)
  <2>1. E = [D EXCEPT !.in = i]
    BY <1>10 DEF Step1
  <2>2. i \in {"head", "end"}
    BY <1>2, <1>4
  <2> HIDE DEF i, E
  <2>3. Good(E)
    BY <1>2, <1>10, <2>1, <2>2 DEF States
  <2>4. QED
    BY <2>3 DEF E
<1>11. CASE D.in = "codes" /\ s.is = "prefix"
  <2>1. E = D
    BY <1>11 DEF Step1
  <2>2. QED
    BY <1>2, <2>1
<1>12. CASE /\ D.in # "stored" /\ ~ (D.in = "head" /\ s.is \in {"stored", "block"})
            /\ ~ (D.in = "codes" /\ s.is \in {"literal", "copy", "end", "prefix"})
  <2>1. E = IF D.in = "end" THEN D ELSE [D EXCEPT !.in = "bad"]
    BY <1>12 DEF Step1
  <2> HIDE DEF E
  <2>2. Good(E)
    BY <1>2, <2>1 DEF States
  <2>3. QED
    BY <2>2 DEF E
<1>13. QED
  BY <1>5, <1>6, <1>7, <1>8, <1>9, <1>10, <1>11, <1>12

\* The symbols behind the header, one by one.
LEMMA DecodingSteps ==
  ASSUME NEW f \in Gzipped, SoundStream(f)
  PROVE  /\ f.max - 1 \in Nat /\ Decoding[f][0] = Start
         /\ \A k \in 0..(f.max - 2) : Decoding[f][k + 1] = Step1(Decoding[f][k], SymbolAt(f, k + 1))
         /\ \A k \in 0..(f.max - 1) :
              /\ Decoding[f][k] \in States
              /\ Decoding[f][k].in = "stored" => Decoding[f][k].left > 0
<1> DEFINE D == Decoding[f]
           n == f.max - 1
<1>1. n \in Nat /\ f \in Files /\ f.max = n + 1
  BY Zips
<1>2. D = [k \in 0..n |-> IF k = 0 THEN Start ELSE Step1(D[k - 1], SymbolAt(f, k))]
  BY <1>1, DecodingLoop
<1> HIDE DEF D
<1>3. D[0] = Start /\ \A k \in 0..(n - 1) : D[k + 1] = Step1(D[k], SymbolAt(f, k + 1))
  <2> HIDE DEF n
  <2>1. \A k \in 0..n : D[k] = IF k = 0 THEN Start ELSE Step1(D[k - 1], SymbolAt(f, k))
    BY <1>2
  <2>2. 0 \in 0..n /\ \A k \in 0..(n - 1) : k + 1 \in 0..n /\ k + 1 # 0 /\ (k + 1) - 1 = k
    BY <1>1
  <2>3. QED
    BY <2>1, <2>2
<1> DEFINE T == {k \in Nat : D[k] \in States /\ (D[k].in = "stored" => D[k].left > 0)}
<1>4. 0 \in T
  <2>1. <<>> \in Seq(Data)
    OBVIOUS
  <2>2. Start \in States /\ Start.in # "stored"
    BY <2>1 DEF Start, States
  <2>3. D[0] \in States /\ D[0].in # "stored"
    BY <1>3, <2>2
  <2>4. QED
    BY <2>3
<1>5. ASSUME NEW k \in T, k \in 0..(n - 1) PROVE k + 1 \in T
  <2>1. D[k] \in States /\ (D[k].in = "stored" => D[k].left > 0) /\ k \in Nat
    OBVIOUS
  <2> HIDE DEF T
  <2>2. SymbolAt(f, k + 1) \in Given
    <3>1. (k + 1) + 1 \in 1..f.max
      BY <1>1, <1>5, <2>1
    <3>2. Flat[f][(k + 1) + 1] \in Symbols
      BY <1>1, <3>1, FlatFacts
    <3>3. QED
      BY <3>2 DEF SymbolAt, Given
  <2>3. D[k].in = "codes" /\ SymbolAt(f, k + 1).is = "copy" => SymbolAt(f, k + 1).d <= Len(D[k].out)
    <3>1. \A j \in 1..n : D[j - 1].in = "codes" /\ SymbolAt(f, j).is = "copy" =>
                            SymbolAt(f, j).d <= Len(D[j - 1].out)
      BY DEF SoundStream, D
    <3>2. k + 1 \in 1..n /\ (k + 1) - 1 = k
      BY <1>1, <1>5, <2>1
    <3>3. QED
      BY <3>1, <3>2
  <2>4. D[k + 1] \in States /\ (D[k + 1].in = "stored" => D[k + 1].left > 0)
    BY <1>3, <1>5, <2>1, <2>2, <2>3, StepRight
  <2>5. QED
    BY <2>1, <2>4 DEF T
<1>6. 0..n \subseteq T
  <2> HIDE DEF T, n
  <2> QED
    BY <1>1, <1>4, <1>5, Upward
<1>7. n - 1 = f.max - 2
  BY <1>1
<1>8. QED
  BY <1>1, <1>3, <1>6, <1>7 DEF D

\* What is decoded is not taken back, and the end is the end.
LEMMA DecodingGrows ==
  ASSUME NEW f \in Gzipped, SoundStream(f), NEW j \in 0..(f.max - 1)
  PROVE  /\ Begins(Decoding[f][j].out, Decoding[f][f.max - 1].out)
         /\ Decoding[f][j].in = "end" => Decoding[f][f.max - 1] = Decoding[f][j]
<1> DEFINE D == Decoding[f]
           n == f.max - 1
           T == {m \in Nat : j + m <= n =>
                   Begins(D[j].out, D[j + m].out) /\ (D[j].in = "end" => D[j + m] = D[j])}
<1>1. /\ n \in Nat /\ j \in 0..n
      /\ \A k \in 0..(n - 1) : D[k + 1] = Step1(D[k], SymbolAt(f, k + 1))
      /\ \A k \in 0..n : D[k] \in States /\ D[k].out \in Seq(Data)
                         /\ (D[k].in = "stored" => D[k].left > 0)
  <2>1. f.max - 1 \in Nat /\ f.max - 2 = (f.max - 1) - 1
    BY DecodingSteps, Zips
  <2>2. QED
    BY <2>1, DecodingSteps DEF States
<1> HIDE DEF D
<1>2. 0 \in T
  <2>1. j + 0 = j /\ D[j].out \in Seq(Data)
    BY <1>1
  <2>2. QED
    BY <2>1 DEF Begins
<1>3. ASSUME NEW m \in T PROVE m + 1 \in T
  <2>1. m \in Nat /\ m + 1 \in Nat
    OBVIOUS
  <2>2. SUFFICES ASSUME j + (m + 1) <= n
                 PROVE  Begins(D[j].out, D[j + (m + 1)].out) /\ (D[j].in = "end" => D[j + (m + 1)] = D[j])
    BY <2>1
  <2>3. j + m <= n /\ j + m \in 0..(n - 1) /\ j + (m + 1) = (j + m) + 1 /\ j + m \in 0..n
        /\ j + (m + 1) \in 0..n
    BY <1>1, <2>1, <2>2
  <2>4. Begins(D[j].out, D[j + m].out) /\ (D[j].in = "end" => D[j + m] = D[j])
    BY <2>3
  <2> HIDE DEF T
  <2> DEFINE k == j + m
  <2>5. D[k + 1] = Step1(D[k], SymbolAt(f, k + 1)) /\ D[k] \in States
        /\ (D[k].in = "stored" => D[k].left > 0)
    BY <1>1, <2>3
  <2>6. SymbolAt(f, k + 1) \in Given
    <3>1. (k + 1) + 1 \in 1..f.max /\ f \in Files
      BY <1>1, <2>3, Zips
    <3>2. Flat[f][(k + 1) + 1] \in Symbols
      BY <3>1, FlatFacts
    <3>3. QED
      BY <3>2 DEF SymbolAt, Given
  <2>7. D[k].in = "codes" /\ SymbolAt(f, k + 1).is = "copy" => SymbolAt(f, k + 1).d <= Len(D[k].out)
    <3>1. \A i \in 1..n : D[i - 1].in = "codes" /\ SymbolAt(f, i).is = "copy" =>
                            SymbolAt(f, i).d <= Len(D[i - 1].out)
      BY DEF SoundStream, D
    <3>2. k + 1 \in 1..n /\ (k + 1) - 1 = k
      BY <1>1, <2>3
    <3>3. QED
      BY <3>1, <3>2
  <2> HIDE DEF k
  <2>8. Begins(D[k].out, D[k + 1].out) /\ (D[k].in = "end" => D[k + 1] = D[k])
    BY <2>5, <2>6, <2>7, StepRight
  <2>9. D[j].out \in Seq(Data) /\ D[k].out \in Seq(Data) /\ D[k + 1].out \in Seq(Data)
    BY <1>1, <2>3 DEF k
  <2>10. Begins(D[j].out, D[k + 1].out)
    BY <2>4, <2>8, <2>9, BeginsOn DEF k
  <2>11. QED
    BY <2>3, <2>4, <2>8, <2>10 DEF k
<1>4. n - j \in Nat /\ j + (n - j) = n /\ n - j \in 0..(n - j)
  BY <1>1
<1>5. n - j \in T
  <2> HIDE DEF T, n
  <2>1. 0..(n - j) \subseteq T
    BY <1>2, <1>3, <1>4, Upward
  <2>2. QED
    BY <1>4, <2>1
<1>6. QED
  BY <1>4, <1>5 DEF D

-----------------------------------------------------------------------------
(* What the reader has read and decoded *)

\* The stream before the symbol at q.
State(q) == Decoding[file][q - 1]

\* The position in the gzipped file: its bytes from s on are in inbuf, and the
\* decoder takes the symbol at q next.
Filling == pc = "blocks" /\ io.to = "inbuf"
RawPos == IF InGunzip THEN filepos ELSE gzip.filepos
Piece(s) == Min({INBUFSIZ, file.max - s})
InputAt(s, q) ==
  /\ s <= RawPos /\ q = s + bufloc
  /\ Filling => bufloc = 0 /\ s < file.max /\ RawPos = s + io.done /\ RawPos + io.len = s + Piece(s)
  /\ ~Filling => \/ s = 1 /\ RawPos = 1 /\ bufloc = 0
                 \/ s < file.max /\ RawPos = s + Piece(s)
  /\ \A k \in 1..(RawPos - s) : inbuf[k] = SymbolAt(file, s + k - 1)

\* How much is decoded: saved_filepos is the end of the window.
Reached == IF InWindow THEN inflate.saved_filepos + inflate.wp
           ELSE IF inflate.saved_filepos = 0 THEN 0
           ELSE inflate.saved_filepos - WSIZE + inflate.wp

\* The decoder is in the block that the stream is in.
InBlock(i, D) ==
  /\ D.in # "bad"
  /\ D.in = "head" => i.block_len = 0 /\ ~i.last_block
  /\ D.in = "stored" => i.block_type = "stored" /\ i.block_len = D.left /\ D.left > 0
                        /\ i.last_block = D.last
  /\ D.in = "codes" => i.block_type = "codes" /\ i.block_len > 0 /\ i.last_block = D.last
  /\ D.in = "end" => i.block_len = 0 /\ i.last_block

\* A window holds the WSIZE bytes before r.
Holds(slide, out, r) == \A p \in 0..(r - 1) : p + WSIZE >= r => slide[p % WSIZE] = out[p + 1]

\* What a copy at r still has to write comes from d bytes before.
From(i, r, out, d) ==
  /\ d <= r /\ i.inflate_d = (r - d) % WSIZE
  /\ \A j \in 1..i.inflate_n : out[r + j] = out[r + j - d]

\* r bytes are written, or all but the rest of a copy.
Shows(i, r, D) ==
  /\ i.saved_filepos % WSIZE = 0 /\ r <= Len(D.out) /\ Holds(i.slide, D.out, r)
  /\ IF D.in = "codes" /\ i.code_state = 1
     THEN Len(D.out) = r + i.inflate_n /\ \E d \in 1..WSIZE : From(i, r, D.out, d)
     ELSE Len(D.out) = r

\* A window is full, or the data has ended.
Ended(i, D) == i.saved_filepos > 0 => i.wp = WSIZE \/ D.in = "end"

DecodesAt(s, q) ==
  /\ InputAt(s, q) /\ InBlock(inflate, State(q)) /\ Shows(inflate, Reached, State(q))
  /\ InWindow /\ Place \in Decoder => State(q).in = Place
  /\ ~InWindow => Ended(inflate, State(q))
DecoderInv ==
  errnum = 0 /\ (InGunzip \/ compressed_file) =>
    \E s \in 1..file.max, q \in 1..file.max : DecodesAt(s, q)

\* An error stops the decoder before it asks for input, or at a code.
Faulty == errnum # 0 /\ InWindow /\ Place \in Decoder => Place # "codes" /\ ~Dry

\* Where the caller's data ends, and how far it is read.
Limit == IF InGunzip THEN gzip.filemax ELSE filemax
Position == IF InGunzip THEN gzip.filepos ELSE filepos
Got == call.count + IF pc = "blocks" /\ io.to = "caller" THEN io.done ELSE call.last

\* n bytes are those of the content from b on.
Agrees(out, b, all, n) == \A k \in 1..n : b + k <= Len(all) /\ out[k] = all[b + k]
OutIs(n) == Agrees(call.out, call.start, Content, n)

Asked == call.len = IF call.start >= Limit THEN 0 ELSE Min({call.asked, Limit - call.start})
Answering ==
  pc \notin {"idle", "test"} =>
    /\ Asked
    /\ call.count <= Len(call.out) /\ OutIs(call.count)
    /\ pc = "done" /\ errnum = 0 => call.count = call.len /\ filepos = call.start + call.count
    /\ pc # "done" => call.count < call.len
    /\ pc # "done" /\ errnum = 0 => Len(call.out) = Got /\ OutIs(Got)
    /\ pc # "done" /\ (pc # "chunk" \/ errnum = 0) => Position = call.start + Got
    /\ pc = "chunk" => (call.last > 0 <=> errnum = 0)
    /\ pc = "blocks" /\ io.to = "caller" => io.done + io.len > 0

Reading ==
  /\ Testing => result = Nothing
  /\ pc # "idle" /\ call.test => call.start = 0 /\ call.asked = 1
  /\ pc = "test" => filepos = 0 /\ errnum = 0
  /\ InGunzip \/ compressed_file => Limit = SymbolAt(file, file.max - 1).size
  /\ InGunzip => gzip.filepos + WSIZE >= inflate.saved_filepos
  /\ InWindow => gzip.filepos >= inflate.saved_filepos
  /\ InWindow \/ pc = "window" => Wanted > 0

ReadInv == CursorInv /\ DecoderInv /\ Faulty /\ Answering /\ Reading

-----------------------------------------------------------------------------
(* Windows *)

\* Places that are turns of the window apart are the same.
LEMMA SamePlace ==
  ASSUME NEW x \in Int, NEW q \in Int
  PROVE  (x + WSIZE * q) % WSIZE = x % WSIZE
<1> DEFINE n == WSIZE
<1>1. n \in Nat \ {0}
  BY Constants
<1> HIDE DEF n
<1>2. x = n * (x \div n) + (x % n) /\ x \div n \in Int /\ x % n \in 0..(n - 1)
  BY <1>1, SMT
<1>3. ASSUME NEW a \in Int, NEW r \in 0..(n - 1) PROVE (n * a + r) % n = r
  BY <1>1, SMT
<1>4. n * q \in Int /\ n * (x \div n) \in Int /\ n * ((x \div n) + q) = n * (x \div n) + n * q
      /\ (x \div n) + q \in Int
  BY <1>1, <1>2
<1>5. x + n * q = n * ((x \div n) + q) + (x % n)
  BY <1>2, <1>4
<1>6. (x + n * q) % n = x % n
  BY <1>2, <1>3, <1>4, <1>5
<1>7. QED
  BY <1>6 DEF n

LEMMA Turned ==
  ASSUME NEW x \in Int, NEW y \in Int, x % WSIZE = y % WSIZE
  PROVE  \E q \in Int : y = x + WSIZE * q
<1> DEFINE n == WSIZE
<1>1. n \in Nat \ {0}
  BY Constants
<1> HIDE DEF n
<1>2. /\ x = n * (x \div n) + (x % n) /\ x \div n \in Int /\ x % n \in 0..(n - 1)
      /\ y = n * (y \div n) + (y % n) /\ y \div n \in Int /\ y % n \in 0..(n - 1)
  BY <1>1, SMT
<1> DEFINE a == x \div n
           b == y \div n
           r == x % n
<1>3. a \in Int /\ b \in Int /\ r \in Int /\ x = n * a + r /\ y = n * b + r
  BY <1>2 DEF n
<1> HIDE DEF a, b, r
<1>4. b - a \in Int /\ n * (b - a) = n * b - n * a /\ n * a \in Int /\ n * b \in Int
  BY <1>1, <1>3
<1>5. y = x + n * (b - a)
  BY <1>3, <1>4
<1>6. QED
  BY <1>4, <1>5 DEF n

\* Nearer than a window they differ.
LEMMA OtherPlace ==
  ASSUME NEW x \in Int, NEW y \in Int, x < y, y < x + WSIZE
  PROVE  x % WSIZE # y % WSIZE
<1>1. SUFFICES ASSUME x % WSIZE = y % WSIZE PROVE FALSE
  OBVIOUS
<1>2. PICK q \in Int : y = x + WSIZE * q
  BY <1>1, Turned
<1> DEFINE n == WSIZE
<1>3. n \in Nat \ {0} /\ 0 < n * q /\ n * q < n /\ n * q \in Int
  BY <1>2, Constants
<1> HIDE DEF n
<1>4. CASE q <= 0
  <2>1. n * q <= 0
    BY <1>3, <1>4
  <2>2. QED
    BY <1>3, <2>1
<1>5. CASE q >= 1
  <2>1. PICK e \in Nat : q = e + 1
    BY <1>5
  <2>2. n * q = n * e + n /\ n * e \in Nat
    BY <1>3, <2>1
  <2>3. QED
    BY <1>3, <2>2
<1>6. QED
  BY <1>4, <1>5

\* A place in the window, its end being a whole number of windows.
LEMMA WindowPlace ==
  ASSUME NEW s \in Int, s % WSIZE = 0
  PROVE  /\ (s + WSIZE) % WSIZE = 0
         /\ \A x \in Int : (s + x) % WSIZE = x % WSIZE
         /\ \A x \in 0..(WSIZE - 1) : (s + x) % WSIZE = x
<1> DEFINE n == WSIZE
<1>1. n \in Nat \ {0} /\ 0 % n = 0
  BY Constants, SMT
<1>2. PICK q \in Int : s = 0 + n * q
  <2>1. s % WSIZE = 0 % WSIZE
    BY <1>1
  <2>2. QED
    BY <2>1, Turned
<1>3. ASSUME NEW x \in Int PROVE (s + x) % n = x % n
  <2>1. s + x = x + WSIZE * q
    BY <1>1, <1>2
  <2>2. QED
    BY <2>1, SamePlace
<1>4. n \in Int /\ n = 0 + n * 1
  BY <1>1
<1>5. n % n = 0
  BY <1>1, <1>4, SamePlace
<1>6. ASSUME NEW x \in 0..(n - 1) PROVE x % n = x
  <2> HIDE DEF n
  <2>1. QED
    BY <1>1, SMT
<1> HIDE DEF n
<1>7. /\ (s + n) % n = 0
      /\ \A x \in 0..(n - 1) : (s + x) % n = x
  <2>1. (s + n) % n = 0
    BY <1>3, <1>4, <1>5
  <2>2. \A x \in 0..(n - 1) : x \in Int
    BY <1>1
  <2>3. QED
    BY <1>3, <1>6, <2>1, <2>2
<1>8. QED
  BY <1>3, <1>7 DEF n

LEMMA AddedPlace ==
  ASSUME NEW x \in Int, NEW k \in Int
  PROVE  ((x % WSIZE) + k) % WSIZE = (x + k) % WSIZE
<1>1. x % WSIZE \in 0..(WSIZE - 1)
  BY Remainder
<1> DEFINE r == x % WSIZE
<1>2. r \in Int /\ r % WSIZE = x % WSIZE
  <2> DEFINE n == WSIZE
  <2>1. n \in Nat \ {0}
    BY Constants
  <2> HIDE DEF n
  <2>2. x % n \in 0..(n - 1) /\ (x % n) % n = x % n
    BY <2>1, SMT
  <2>3. QED
    BY <1>1, <2>2, Constants DEF n
<1> HIDE DEF r
<1>3. PICK q \in Int : x = r + WSIZE * q
  BY <1>2, Turned
<1>4. x + k = (r + k) + WSIZE * q /\ r + k \in Int
  BY <1>2, <1>3, Constants
<1>5. QED
  BY <1>4, SamePlace DEF r

\* One byte more.
LEMMA OneMore ==
  ASSUME NEW slide \in [0..(WSIZE - 1) -> Data], NEW out \in Seq(Data), NEW r \in Nat,
         r < Len(out), Holds(slide, out, r)
  PROVE  Holds([slide EXCEPT ![r % WSIZE] = out[r + 1]], out, r + 1)
<1> DEFINE w == r % WSIZE
           new == [slide EXCEPT ![w] = out[r + 1]]
<1>1. w \in 0..(WSIZE - 1) /\ WSIZE \in Nat \ {0}
  BY Remainder, Constants
<1>2. new[w] = out[r + 1] /\ \A x \in 0..(WSIZE - 1) : x # w => new[x] = slide[x]
  BY <1>1
<1> HIDE DEF new
<1>3. ASSUME NEW p \in 0..((r + 1) - 1), p + WSIZE >= r + 1 PROVE new[p % WSIZE] = out[p + 1]
  <2>1. CASE p = r
    BY <1>2, <2>1 DEF w
  <2>2. CASE p # r
    <3>1. p \in 0..(r - 1) /\ p \in Int /\ p < r /\ r < p + WSIZE /\ p + WSIZE >= r
      BY <1>1, <1>3, <2>2
    <3>2. p % WSIZE # w
      BY <3>1, OtherPlace DEF w
    <3>3. p % WSIZE \in 0..(WSIZE - 1)
      BY <3>1, Remainder
    <3>4. slide[p % WSIZE] = out[p + 1]
      BY <3>1 DEF Holds
    <3>5. QED
      BY <1>2, <3>2, <3>3, <3>4
  <2>3. QED
    BY <2>1, <2>2
<1>4. QED
  BY <1>3 DEF Holds, new, w

\* The stream goes on.
LEMMA HoldsOn ==
  ASSUME NEW slide, NEW out \in Seq(Data), NEW more \in Seq(Data), NEW r \in Nat, r <= Len(out),
         Begins(out, more), Holds(slide, out, r)
  PROVE  r <= Len(more) /\ Holds(slide, more, r)
<1>1. Len(out) \in Nat /\ Len(more) \in Nat /\ Len(out) <= Len(more)
  BY DEF Begins
<1>2. ASSUME NEW p \in 0..(r - 1) PROVE more[p + 1] = out[p + 1]
  BY <1>1, <1>2 DEF Begins
<1>3. QED
  BY <1>1, <1>2 DEF Holds

-----------------------------------------------------------------------------
(* The decoder follows the stream *)

LEMMA InvParts == ReadInv => /\ Kinds /\ CursorAt /\ Positions /\ Calls /\ Inflating
                             /\ CursorInv /\ DecoderInv /\ Faulty /\ Answering /\ Reading
BY DEF ReadInv, CursorInv

\* The stream at q, and at the end.
LEMMA Stream ==
  ASSUME SoundStreams, file \in Gzipped, NEW q \in 1..file.max
  PROVE  /\ file.max \in Nat \ {0} /\ file \in Files
         /\ State(q) \in States /\ State(q).out \in Seq(Data)
         /\ (State(q).in = "stored" => State(q).left > 0)
         /\ Begins(State(q).out, Decoded[file]) /\ Decoded[file] \in Seq(Data)
         /\ State(file.max).out = Decoded[file]
         /\ State(q).in = "end" => State(q) = State(file.max)
         /\ State(file.max).in \in {"end", "bad"}
         /\ State(file.max).in = "end" => SymbolAt(file, file.max - 1).size = Len(Decoded[file])
<1>1. file.max \in Nat \ {0} /\ file \in Files /\ SoundStream(file)
  BY Zips DEF SoundStreams
<1>2. q - 1 \in 0..(file.max - 1) /\ file.max - 1 \in 0..(file.max - 1)
  BY <1>1
<1>3. \A k \in 0..(file.max - 1) :
              /\ Decoding[file][k] \in States
              /\ Decoding[file][k].in = "stored" => Decoding[file][k].left > 0
  BY <1>1, DecodingSteps
<1>4. /\ Begins(Decoding[file][q - 1].out, Decoding[file][file.max - 1].out)
      /\ Decoding[file][q - 1].in = "end" => Decoding[file][file.max - 1] = Decoding[file][q - 1]
  BY <1>1, <1>2, DecodingGrows
<1>5. Decoded[file] = State(file.max).out /\ State(file.max) = Decoding[file][file.max - 1]
  BY DEF Decoded, State
<1>6. \A D \in States : D.out \in Seq(Data)
  BY DEF States
<1>7. /\ State(file.max).in \in {"end", "bad"}
      /\ State(file.max).in = "end" => SymbolAt(file, file.max - 1).size = Len(State(file.max).out)
  BY <1>1, <1>5 DEF SoundStream
<1>8. QED
  BY <1>1, <1>2, <1>3, <1>4, <1>5, <1>6, <1>7 DEF State

\* A symbol is taken: the next one of the file.
LEMMA Took ==
  ASSUME Kinds, Positions, SoundStreams, pc \in Decoder, NEW s \in 1..file.max,
         NEW q \in 1..file.max, DecodesAt(s, q), Takes,
         UNCHANGED <<file, filepos, gzip, inbuf, io>>, pc' \in Inside
  PROVE  /\ q + 1 \in 1..file'.max /\ State(q) \in States /\ State(q).in = pc
         /\ Symbol = SymbolAt(file, q) /\ Symbol \in Given /\ SymbolOK(Symbol)
         /\ State(q + 1)' = Step1(State(q), Symbol) /\ State(q + 1)' \in States
         /\ Begins(State(q).out, State(q + 1)'.out)
         /\ State(q).in = "stored" => State(q).left > 0
         /\ pc = "codes" /\ Symbol.is = "copy" => Symbol.d \in 1..Len(State(q).out)
         /\ InputAt(s, q + 1)'
<1>1. InGunzip /\ InGunzip' /\ ~Filling /\ ~Filling' /\ InWindow /\ Place = pc
  BY DEF InGunzip, Filling, InWindow, Place, Decoder, Inside
<1>2. file \in Gzipped /\ gzip.data_offset = 1 /\ filepos \in Nat
  BY <1>1 DEF Positions, Kinds
<1>3. /\ bufloc' \in 0..INBUFSIZ /\ bufloc' = bufloc + 1 /\ bufloc < INBUFSIZ
      /\ Symbol \in Given /\ SymbolOK(Symbol) /\ bufloc \in Nat /\ INBUFSIZ \in Nat \ {0}
  <2>1. bufloc \in 0..INBUFSIZ /\ INBUFSIZ \in Nat \ {0}
    BY Constants DEF Kinds
  <2>2. QED
    BY <2>1, Taken
<1>4. /\ State(q) \in States /\ State(q).in = pc /\ file.max \in Nat \ {0} /\ file \in Files
      /\ State(q).in = "end" => State(q) = State(file.max)
      /\ State(file.max).in \in {"end", "bad"} /\ SoundStream(file)
      /\ State(q).in = "stored" => State(q).left > 0
  BY <1>1, <1>2, Stream DEF DecodesAt, SoundStreams
<1>5. q # file.max /\ q \in Nat /\ q < file.max /\ q + 1 \in 1..file.max
  <2>1. State(q).in \notin {"end", "bad"}
    BY <1>4 DEF Decoder
  <2>2. q # file.max
    BY <1>4, <2>1
  <2>3. QED
    BY <1>4, <2>2
<1>6. /\ s <= filepos /\ q = s + bufloc /\ s \in Nat
      /\ s < file.max /\ filepos = s + Piece(s)
      /\ \A k \in 1..(filepos - s) : inbuf[k] = SymbolAt(file, s + k - 1)
  <2>1. InputAt(s, q) /\ RawPos = filepos /\ filepos # 1
    BY <1>1, <1>2 DEF DecodesAt, RawPos, Takes, Dry
  <2>2. QED
    BY <1>1, <1>4, <2>1 DEF InputAt
<1>7. bufloc + 1 \in 1..(filepos - s) /\ s + (bufloc + 1) - 1 = q
  <2>1. file.max - s \in Int /\ INBUFSIZ \in Int
    BY <1>3, <1>4
  <2>2. Piece(s) = IF INBUFSIZ <= file.max - s THEN INBUFSIZ ELSE file.max - s
    BY <2>1, Lesser DEF Piece
  <2>3. QED
    BY <1>2, <1>3, <1>4, <1>5, <1>6, <2>2
<1>8. Symbol = SymbolAt(file, q)
  BY <1>6, <1>7 DEF Symbol
<1>9. /\ (q + 1) - 1 = (q - 1) + 1 /\ q - 1 \in 0..(file.max - 2) /\ (q - 1) + 1 = q
      /\ q \in 1..(file.max - 1) /\ file.max - 2 \in Int
  BY <1>4, <1>5
<1>10. State(q + 1) = Step1(State(q), Symbol)
  BY <1>2, <1>4, <1>8, <1>9, DecodingSteps DEF State
<1>11. State(q + 1)' = State(q + 1)
  BY DEF State
<1>12. State(q).in = "codes" /\ Symbol.is = "copy" => Symbol.d <= Len(State(q).out)
  BY <1>4, <1>8, <1>9 DEF SoundStream, State
<1>13. State(q + 1) \in States /\ Begins(State(q).out, State(q + 1).out)
  BY <1>3, <1>4, <1>10, <1>12, StepRight
<1>14. pc = "codes" /\ Symbol.is = "copy" => Symbol.d \in 1..Len(State(q).out)
  <2>1. State(q).out \in Seq(Data) /\ WSIZE \in Nat
    BY <1>4, Constants DEF States
  <2>2. Symbol.is = "copy" => Symbol.d \in 1..WSIZE
    BY <1>3 DEF SymbolOK
  <2>3. QED
    BY <1>4, <1>12, <2>1, <2>2
<1>15. InputAt(s, q + 1)'
  <2>1. RawPos' = filepos /\ Piece(s)' = Piece(s) /\ bufloc' = bufloc + 1 /\ file' = file /\ inbuf' = inbuf
    BY <1>1, <1>3 DEF RawPos, Piece
  <2>2. q + 1 = s + (bufloc + 1)
    BY <1>3, <1>6
  <2>3. \A k \in 1..(filepos - s) : inbuf'[k] = SymbolAt(file', s + k - 1)
    BY <1>6, <2>1
  <2>4. QED
    BY <1>1, <1>6, <2>1, <2>2, <2>3 DEF InputAt
<1>16. QED
  BY <1>3, <1>4, <1>5, <1>8, <1>10, <1>11, <1>13, <1>14, <1>15

\* What the decoder knows, without errors.
LEMMA Decoding1 ==
  ASSUME ReadInv, SoundStreams, InGunzip \/ compressed_file, errnum = 0
  PROVE  /\ file \in Gzipped /\ file \in Files /\ file.max \in Nat \ {0}
         /\ \E s \in 1..file.max, q \in 1..file.max : DecodesAt(s, q)
BY Zips, InvParts DEF DecoderInv, Positions

LEMMA InflateStep == ASSUME ReadInv, SoundStreams, Inflate PROVE DecoderInv'
<1>1. /\ pc = "inflate" /\ errnum = 0 /\ InWindow /\ InGunzip /\ ~Filling
      /\ UNCHANGED <<file, filepos, gzip, inbuf, io, errnum, inflate, bufloc>>
  BY DEF Inflate, decoding, InWindow, InGunzip, Inside, Decoder, Filling
<1>2. PICK s \in 1..file.max, q \in 1..file.max : DecodesAt(s, q)
  BY <1>1, Decoding1
<1>3. State(q) \in States /\ Kinds
  BY <1>1, <1>2, Decoding1, Stream, InvParts
<1>4. State(q).in = pc' /\ pc' \in Decoder
  <2>1. InBlock(inflate, State(q)) /\ State(q).in \in {"head", "stored", "codes", "end", "bad"}
    BY <1>2, <1>3 DEF DecodesAt, States
  <2>2. CASE inflate.block_len = 0 /\ ~inflate.last_block /\ pc' = "head"
    BY <1>3, <2>1, <2>2 DEF InBlock, Decoder
  <2>3. CASE inflate.block_len > 0 /\ pc' = inflate.block_type
    BY <1>3, <2>1, <2>3 DEF InBlock, Decoder
  <2>4. QED
    BY <2>2, <2>3 DEF Inflate
<1>5. InWindow' /\ InGunzip' /\ ~Filling' /\ Place' = pc'
  BY <1>4 DEF InWindow, InGunzip, Inside, Decoder, Filling, Place
<1>6. /\ Reached' = Reached /\ State(q)' = State(q) /\ RawPos' = RawPos /\ Piece(s)' = Piece(s)
  BY <1>1, <1>5 DEF Reached, State, RawPos, Piece
<1>7. InputAt(s, q)'
  <2>1. InputAt(s, q)
    BY <1>2 DEF DecodesAt
  <2>2. QED
    BY <1>1, <1>5, <1>6, <2>1 DEF InputAt
<1>8. DecodesAt(s, q)'
  BY <1>1, <1>2, <1>4, <1>5, <1>6, <1>7 DEF DecodesAt
<1>9. QED
  BY <1>1, <1>8 DEF DecoderInv
\* The decoder has taken the symbol before q.
LEMMA Follows ==
  ASSUME NEW s \in 1..file'.max, NEW q \in 1..file'.max, InputAt(s, q)',
         InBlock(inflate', State(q)'),
         Shows(inflate', inflate'.saved_filepos + inflate'.wp, State(q)'),
         pc' \in {"inflate"} \cup Decoder, pc' \in Decoder => State(q)'.in = pc'
  PROVE  DecoderInv'
<1>1. InWindow' /\ Place' = pc'
  BY DEF InWindow, Place, Decoder
<1>2. Reached' = inflate'.saved_filepos + inflate'.wp
  BY <1>1 DEF Reached
<1>3. DecodesAt(s, q)'
  BY <1>1, <1>2 DEF DecodesAt
<1>4. QED
  BY <1>3 DEF DecoderInv

LEMMA HeadStep == ASSUME ReadInv, SoundStreams, GetNewBlock PROVE DecoderInv'
<1>1. CASE errnum' # 0
  BY <1>1 DEF DecoderInv
<1>2. CASE errnum' = 0
  <2>1. /\ pc = "head" /\ pc \in Decoder /\ Takes /\ InGunzip /\ InWindow
        /\ UNCHANGED <<file, filepos, gzip, inbuf, io>>
    BY DEF GetNewBlock, decoding, InGunzip, InWindow, Inside, Decoder
  <2>2. /\ Symbol.is \in {"stored", "block"} /\ inflate' = BlockHeader /\ errnum = 0
        /\ pc' = "inflate"
    BY <1>2 DEF GetNewBlock
  <2>3. PICK s \in 1..file.max, q \in 1..file.max : DecodesAt(s, q)
    BY <2>1, <2>2, Decoding1
  <2>4. Kinds /\ Positions /\ pc' \in Inside
    BY <2>2, InvParts DEF Inside
  <2> DEFINE D == State(q)
             E == State(q + 1)'
  <2>5. /\ q + 1 \in 1..file'.max /\ D \in States /\ D.in = "head" /\ SymbolOK(Symbol)
        /\ E = Step1(D, Symbol) /\ InputAt(s, q + 1)'
    BY <2>1, <2>3, <2>4, Took
  <2>6. Reached = inflate.saved_filepos + inflate.wp /\ Shows(inflate, Reached, D)
        /\ inflate \in Inflates
    BY <2>1, <2>3, <2>4 DEF Reached, DecodesAt, Kinds
  <2> HIDE DEF D, E
  <2>7. /\ inflate'.saved_filepos = inflate.saved_filepos /\ inflate'.wp = inflate.wp
        /\ inflate'.slide = inflate.slide /\ inflate'.last_block = Symbol.last
        /\ inflate'.block_type = IF Symbol.is = "stored" THEN "stored" ELSE "codes"
        /\ inflate'.block_len = IF Symbol.is = "stored" THEN Symbol.n ELSE 1
        /\ Symbol.is # "stored" => inflate'.code_state = 0
    BY <2>2, <2>6 DEF BlockHeader, Inflates
  <2>8. Len(D.out) = Reached
    BY <2>5, <2>6 DEF Shows
  <2>9. CASE Symbol.is = "stored"
    <3>1. E = [D EXCEPT !.left = Symbol.n, !.last = Symbol.last,
                 !.in = IF Symbol.n = 0 THEN AfterBlock(Symbol.last) ELSE "stored"]
      BY <2>5, <2>9 DEF Step1
    <3>2. /\ E.out = D.out /\ E.left = Symbol.n /\ E.last = Symbol.last
          /\ E.in = IF Symbol.n = 0 THEN AfterBlock(Symbol.last) ELSE "stored"
          /\ Symbol.n \in Nat /\ Symbol.last \in BOOLEAN
      BY <2>5, <2>9, <3>1 DEF States, SymbolOK
    <3>3. InBlock(inflate', E)
      <4>1. CASE Symbol.n = 0
        <5>1. CASE Symbol.last
          BY <2>7, <2>9, <3>2, <4>1, <5>1 DEF InBlock, AfterBlock
        <5>2. CASE ~Symbol.last
          BY <2>7, <2>9, <3>2, <4>1, <5>2 DEF InBlock, AfterBlock
        <5>3. QED
          BY <5>1, <5>2
      <4>2. CASE Symbol.n # 0
        <5>1. Symbol.n > 0 /\ E.in = "stored"
          BY <3>2, <4>2
        <5>2. QED
          BY <2>7, <2>9, <3>2, <5>1 DEF InBlock
      <4>3. QED
        BY <4>1, <4>2
    <3>4. E.in # "codes"
      BY <3>2 DEF AfterBlock
    <3>5. Shows(inflate', Reached, E)
      BY <2>6, <2>7, <2>8, <3>2, <3>4 DEF Shows
    <3>6. QED
      BY <2>1, <2>2, <2>5, <2>6, <2>7, <3>3, <3>5, Follows DEF E, Decoder
  <2>10. CASE Symbol.is # "stored"
    <3>1. Symbol.is = "block"
      BY <2>2, <2>10
    <3>2. E = [D EXCEPT !.last = Symbol.last, !.in = "codes"]
      BY <2>5, <3>1 DEF Step1
    <3>3. E.out = D.out /\ E.last = Symbol.last /\ E.in = "codes"
      BY <2>5, <3>2 DEF States
    <3>4. InBlock(inflate', E)
      BY <2>7, <2>10, <3>3 DEF InBlock
    <3>5. Shows(inflate', Reached, E)
      BY <2>6, <2>7, <2>8, <2>10, <3>3 DEF Shows
    <3>6. QED
      BY <2>1, <2>2, <2>5, <2>6, <2>7, <3>4, <3>5, Follows DEF E, Decoder
  <2>11. QED
    BY <2>9, <2>10
<1>3. QED
  BY <1>1, <1>2
\* A byte is written.
LEMMA Puts ==
  ASSUME inflate \in Inflates, NEW D \in States, NEW b \in Data, inflate.wp < WSIZE,
         Shows(inflate, inflate.saved_filepos + inflate.wp, D),
         ~(D.in = "codes" /\ inflate.code_state = 1),
         NEW i, i.saved_filepos = inflate.saved_filepos,
         i.slide = [inflate.slide EXCEPT ![inflate.wp] = b],
         NEW E, E.out = Append(D.out, b), ~(E.in = "codes" /\ i.code_state = 1)
  PROVE  Shows(i, inflate.saved_filepos + (inflate.wp + 1), E)
<1> DEFINE v == inflate.saved_filepos
           w == inflate.wp
           r == v + w
<1>1. /\ v \in Nat /\ w \in 0..(WSIZE - 1) /\ r \in Nat /\ WSIZE \in Nat \ {0}
      /\ inflate.slide \in [0..(WSIZE - 1) -> Data] /\ D.out \in Seq(Data)
  <2>1. v \in Nat /\ w \in 0..WSIZE /\ inflate.slide \in [0..(WSIZE - 1) -> Data]
    BY DEF Inflates
  <2>2. QED
    BY <2>1, Constants DEF States
<1>2. v % WSIZE = 0 /\ Len(D.out) = r /\ Holds(inflate.slide, D.out, r)
  BY DEF Shows
<1>3. r % WSIZE = w
  <2> HIDE DEF v, w
  <2>1. (v + w) % WSIZE = w
    <3>1. v \in Int /\ v % WSIZE = 0 /\ w \in 0..(WSIZE - 1)
      BY <1>1, <1>2 DEF v
    <3>2. QED
      BY <3>1, WindowPlace
  <2>2. QED
    BY <2>1
<1>4. /\ E.out \in Seq(Data) /\ Len(E.out) = r + 1 /\ E.out[r + 1] = b /\ Begins(D.out, E.out)
  BY <1>1, <1>2, AppendProperties DEF Begins
<1>5. v + (w + 1) = r + 1 /\ r <= Len(D.out) /\ r < Len(E.out)
  BY <1>1, <1>2, <1>4
<1> HIDE DEF v, w, r
<1>6. Holds(inflate.slide, E.out, r)
  BY <1>1, <1>2, <1>4, <1>5, HoldsOn
<1>7. Holds(i.slide, E.out, r + 1)
  <2>1. Holds([inflate.slide EXCEPT ![r % WSIZE] = E.out[r + 1]], E.out, r + 1)
    BY <1>1, <1>4, <1>5, <1>6, OneMore
  <2>2. QED
    BY <1>3, <1>4, <2>1 DEF w
<1>8. r + 1 <= Len(E.out)
  BY <1>1, <1>4
<1>9. QED
  BY <1>2, <1>4, <1>5, <1>7, <1>8 DEF Shows, v, w

LEMMA StoredStep == ASSUME ReadInv, SoundStreams, StoredByte PROVE DecoderInv'
<1>1. CASE errnum' # 0
  BY <1>1 DEF DecoderInv
<1>2. CASE errnum' = 0
  <2>1. /\ pc = "stored" /\ pc \in Decoder /\ Takes /\ InGunzip /\ InWindow /\ errnum = 0
        /\ pc' = "inflate" /\ pc' \in Inside /\ Place = pc
        /\ UNCHANGED <<file, filepos, gzip, inbuf, io>>
    BY <1>2 DEF StoredByte, decoding, InGunzip, InWindow, Inside, Decoder, Place
  <2>2. PICK s \in 1..file.max, q \in 1..file.max : DecodesAt(s, q)
    BY <2>1, Decoding1
  <2>3. Kinds /\ Positions /\ Inflating
    BY InvParts
  <2> DEFINE D == State(q)
             E == State(q + 1)'
             b == ByteOf(Symbol)
  <2>4. /\ q + 1 \in 1..file'.max /\ D \in States /\ D.in = "stored" /\ D.left > 0
        /\ Symbol \in Given /\ E = Step1(D, Symbol) /\ InputAt(s, q + 1)'
    BY <2>1, <2>2, <2>3, Took
  <2>5. b \in Data
    BY <2>4, Known
  <2>6. Reached = inflate.saved_filepos + inflate.wp /\ Shows(inflate, Reached, D)
        /\ inflate \in Inflates /\ InBlock(inflate, D) /\ inflate.wp < WSIZE
    BY <2>1, <2>2, <2>3 DEF Reached, DecodesAt, Kinds, Inflating
  <2> HIDE DEF D, E, b
  <2>7. inflate' = [inflate EXCEPT !.slide = [inflate.slide EXCEPT ![inflate.wp] = b],
                                   !.wp = inflate.wp + 1, !.block_len = inflate.block_len - 1]
    BY <2>6 DEF StoredByte, Inflates, b
  <2>8. /\ inflate'.saved_filepos = inflate.saved_filepos /\ inflate'.wp = inflate.wp + 1
        /\ inflate'.slide = [inflate.slide EXCEPT ![inflate.wp] = b]
        /\ inflate'.block_type = inflate.block_type /\ inflate'.last_block = inflate.last_block
        /\ inflate'.block_len = inflate.block_len - 1
    BY <2>6, <2>7 DEF Inflates
  <2>9. E = [D EXCEPT !.out = Append(D.out, b), !.left = D.left - 1,
               !.in = IF D.left = 1 THEN AfterBlock(D.last) ELSE D.in]
    BY <2>4 DEF Step1, b
  <2>10. /\ E.out = Append(D.out, b) /\ E.left = D.left - 1 /\ E.last = D.last
         /\ E.in = IF D.left = 1 THEN AfterBlock(D.last) ELSE D.in
         /\ D.left \in Nat /\ D.last \in BOOLEAN
    BY <2>4, <2>9 DEF States
  <2>11. InBlock(inflate', E)
    <3>1. /\ inflate.block_type = "stored" /\ inflate.block_len = D.left
          /\ inflate.last_block = D.last
      BY <2>4, <2>6 DEF InBlock
    <3>2. CASE D.left = 1
      <4>1. inflate'.block_len = 0
        BY <2>8, <3>1, <3>2
      <4>2. CASE D.last
        BY <2>8, <2>10, <3>1, <3>2, <4>1, <4>2 DEF InBlock, AfterBlock
      <4>3. CASE ~D.last
        BY <2>8, <2>10, <3>1, <3>2, <4>1, <4>3 DEF InBlock, AfterBlock
      <4>4. QED
        BY <4>2, <4>3
    <3>3. CASE D.left # 1
      <4>1. D.left - 1 > 0
        BY <2>4, <2>10, <3>3
      <4>2. QED
        BY <2>4, <2>8, <2>10, <3>1, <3>3, <4>1 DEF InBlock
    <3>4. QED
      BY <3>2, <3>3
  <2>12. E.in # "codes"
    BY <2>4, <2>10 DEF AfterBlock
  <2>13. Shows(inflate', inflate.saved_filepos + (inflate.wp + 1), E)
    BY <2>4, <2>5, <2>6, <2>8, <2>10, <2>12, Puts
  <2>14. QED
    BY <2>1, <2>4, <2>8, <2>11, <2>13, Follows DEF E, Decoder
<1>3. QED
  BY <1>1, <1>2

\* A code is taken, and there are no errors.
LEMMA TookCode ==
  ASSUME ReadInv, SoundStreams, TakeCode, errnum = 0, pc' \in {"inflate", "codes"},
         UNCHANGED decoding
  PROVE  \E s \in 1..file'.max, q \in 1..file'.max :
           LET D == State(q - 1)
               E == State(q)'
           IN /\ InputAt(s, q)' /\ E = Step1(D, Symbol) /\ E \in States /\ D \in States
              /\ D.in = "codes" /\ Symbol \in Given /\ Begins(D.out, E.out)
              /\ Symbol.is = "copy" => Symbol.d \in 1..Len(D.out) /\ SymbolOK(Symbol)
              /\ InBlock(inflate, D) /\ inflate \in Inflates /\ inflate.wp < WSIZE
              /\ Shows(inflate, inflate.saved_filepos + inflate.wp, D)
              /\ inflate.code_state = 0
<1>1. /\ pc = "codes" /\ pc \in Decoder /\ Takes /\ InGunzip /\ InWindow /\ Place = pc
      /\ pc' \in Inside /\ inflate.code_state = 0
      /\ UNCHANGED <<file, filepos, gzip, inbuf, io>>
  BY DEF TakeCode, decoding, InGunzip, InWindow, Inside, Decoder, Place
<1>2. PICK s \in 1..file.max, q \in 1..file.max : DecodesAt(s, q)
  BY <1>1, Decoding1
<1>3. Kinds /\ Positions /\ Inflating
  BY InvParts
<1>4. /\ q + 1 \in 1..file'.max /\ State(q) \in States /\ State(q).in = "codes"
      /\ Symbol \in Given /\ SymbolOK(Symbol) /\ State(q + 1)' = Step1(State(q), Symbol)
      /\ State(q + 1)' \in States /\ Begins(State(q).out, State(q + 1)'.out)
      /\ Symbol.is = "copy" => Symbol.d \in 1..Len(State(q).out)
      /\ InputAt(s, q + 1)'
  BY <1>1, <1>2, <1>3, Took
<1>5. /\ Shows(inflate, inflate.saved_filepos + inflate.wp, State(q)) /\ inflate \in Inflates
      /\ InBlock(inflate, State(q)) /\ inflate.wp < WSIZE
  BY <1>1, <1>2, <1>3 DEF Reached, DecodesAt, Kinds, Inflating
<1>6. State((q + 1) - 1) = State(q) /\ s \in 1..file'.max
  <2>1. (q + 1) - 1 = q
    OBVIOUS
  <2>2. QED
    BY <1>1, <2>1
<1> DEFINE u == q + 1
<1>7. u \in 1..file'.max /\ State(u - 1) = State(q) /\ InputAt(s, u)' /\ State(u)' = State(q + 1)'
  BY <1>4, <1>6
<1> HIDE DEF u
<1>8. QED
  BY <1>1, <1>4, <1>5, <1>6, <1>7
LEMMA LiteralStep == ASSUME ReadInv, SoundStreams, DecodeLiteral PROVE DecoderInv'
<1>1. CASE errnum' # 0
  BY <1>1 DEF DecoderInv
<1>2. CASE errnum' = 0
  <2>1. /\ TakeCode /\ Symbol.is = "literal" /\ errnum = 0 /\ UNCHANGED decoding
        /\ pc' = Written(inflate') /\ pc' \in {"inflate", "codes"}
    BY <1>2 DEF DecodeLiteral, Written
  <2>2. PICK s \in 1..file'.max, q \in 1..file'.max :
           LET D == State(q - 1)
               E == State(q)'
           IN /\ InputAt(s, q)' /\ E = Step1(D, Symbol) /\ D \in States /\ D.in = "codes"
              /\ Symbol \in Given /\ InBlock(inflate, D) /\ inflate \in Inflates
              /\ inflate.wp < WSIZE /\ inflate.code_state = 0
              /\ Shows(inflate, inflate.saved_filepos + inflate.wp, D)
    BY <2>1, TookCode
  <2> DEFINE D == State(q - 1)
             E == State(q)'
             b == Symbol.byte
  <2>3. b \in Data /\ InputAt(s, q)' /\ D \in States /\ D.in = "codes" /\ E = Step1(D, Symbol)
    BY <2>1, <2>2, Known DEF ByteOf
  <2>4. /\ InBlock(inflate, D) /\ inflate \in Inflates /\ inflate.wp < WSIZE
        /\ inflate.code_state = 0 /\ Shows(inflate, inflate.saved_filepos + inflate.wp, D)
    BY <2>2
  <2> HIDE DEF D, E, b
  <2>5. inflate' = [inflate EXCEPT !.slide = [inflate.slide EXCEPT ![inflate.wp] = b],
                                   !.wp = inflate.wp + 1]
    BY <2>4 DEF DecodeLiteral, Inflates, b
  <2>6. /\ inflate'.saved_filepos = inflate.saved_filepos /\ inflate'.wp = inflate.wp + 1
        /\ inflate'.slide = [inflate.slide EXCEPT ![inflate.wp] = b]
        /\ inflate'.block_type = inflate.block_type /\ inflate'.last_block = inflate.last_block
        /\ inflate'.block_len = inflate.block_len /\ inflate'.code_state = 0
    BY <2>4, <2>5 DEF Inflates
  <2>7. E = [D EXCEPT !.out = Append(D.out, b)]
    BY <2>1, <2>3 DEF Step1, b
  <2>8. E.out = Append(D.out, b) /\ E.last = D.last /\ E.in = D.in /\ E.left = D.left
    BY <2>3, <2>7 DEF States
  <2>9. InBlock(inflate', E)
    BY <2>3, <2>4, <2>6, <2>8 DEF InBlock
  <2>10. Shows(inflate', inflate.saved_filepos + (inflate.wp + 1), E)
    BY <2>3, <2>4, <2>6, <2>8, Puts
  <2>11. QED
    BY <2>1, <2>3, <2>6, <2>8, <2>9, <2>10, Follows DEF E, Decoder
<1>3. QED
  BY <1>1, <1>2

LEMMA CopyStep == ASSUME ReadInv, SoundStreams, DecodeCopy PROVE DecoderInv'
<1>1. CASE errnum' # 0
  BY <1>1 DEF DecoderInv
<1>2. CASE errnum' = 0
  <2>1. /\ TakeCode /\ Symbol.is = "copy" /\ errnum = 0 /\ UNCHANGED decoding
        /\ pc' = "codes" /\ pc' \in {"inflate", "codes"}
    BY <1>2 DEF DecodeCopy, TakeCode
  <2>2. PICK s \in 1..file'.max, q \in 1..file'.max :
           LET D == State(q - 1)
               E == State(q)'
           IN /\ InputAt(s, q)' /\ E = Step1(D, Symbol) /\ D \in States /\ E \in States
              /\ D.in = "codes" /\ InBlock(inflate, D) /\ inflate \in Inflates
              /\ inflate.wp < WSIZE /\ inflate.code_state = 0
              /\ Symbol.d \in 1..Len(D.out) /\ SymbolOK(Symbol) /\ Begins(D.out, E.out)
              /\ Shows(inflate, inflate.saved_filepos + inflate.wp, D)
    BY <2>1, TookCode
  <2> DEFINE D == State(q - 1)
             E == State(q)'
             n == Symbol.n
             d == Symbol.d
             v == inflate.saved_filepos
             w == inflate.wp
             r == v + w
  <2>3. /\ InputAt(s, q)' /\ D \in States /\ E \in States /\ D.in = "codes"
        /\ E = Step1(D, Symbol) /\ d \in 1..Len(D.out) /\ Begins(D.out, E.out)
    BY <2>2
  <2>4. /\ InBlock(inflate, D) /\ inflate \in Inflates /\ w < WSIZE
        /\ inflate.code_state = 0 /\ Shows(inflate, r, D)
    BY <2>2
  <2>5. n \in Nat /\ d \in 1..WSIZE
    BY <2>1, <2>2 DEF SymbolOK
  <2> HIDE DEF D, E, n, d
  <2>6. inflate' = [inflate EXCEPT !.code_state = 1, !.inflate_n = n, !.inflate_d = (w - d) % WSIZE]
    BY DEF DecodeCopy, n, d
  <2>7. /\ inflate'.saved_filepos = v /\ inflate'.wp = w /\ inflate'.slide = inflate.slide
        /\ inflate'.block_type = inflate.block_type /\ inflate'.last_block = inflate.last_block
        /\ inflate'.block_len = inflate.block_len /\ inflate'.code_state = 1
        /\ inflate'.inflate_n = n /\ inflate'.inflate_d = (w - d) % WSIZE
    BY <2>4, <2>6 DEF Inflates
  <2>8. E = [D EXCEPT !.out = Extended(D.out, n, d)]
    BY <2>1, <2>3 DEF Step1, n, d
  <2>9. E.out = Extended(D.out, n, d) /\ E.last = D.last /\ E.in = D.in /\ E.left = D.left
    BY <2>3, <2>8 DEF States
  <2>10. InBlock(inflate', E)
    BY <2>3, <2>4, <2>7, <2>9 DEF InBlock
  <2>11. /\ v \in Nat /\ w \in Nat /\ r \in Nat /\ d \in Nat /\ D.out \in Seq(Data)
         /\ E.out \in Seq(Data)
    BY <2>3, <2>4, <2>5, Constants DEF Inflates, States
  <2>12. v % WSIZE = 0 /\ Len(D.out) = r /\ Holds(inflate.slide, D.out, r)
    BY <2>4 DEF Shows
  <2>13. /\ Len(E.out) = r + n
         /\ \A j \in 1..n : E.out[r + j] = E.out[r + j - d]
    <3> HIDE DEF r
    <3> DEFINE o == D.out
               x == Extended(o, n, d)
    <3>1. o \in Seq(Data) /\ n \in Nat /\ d \in 1..Len(o) /\ Len(o) = r
      BY <2>3, <2>5, <2>11, <2>12
    <3> HIDE DEF o
    <3>2. /\ Len(x) = Len(o) + n
          /\ \A j \in 1..n : x[Len(o) + j] = x[Len(o) + j - d]
      BY <3>1, ExtendedRight
    <3>3. E.out = x
      BY <2>9 DEF o
    <3> HIDE DEF x
    <3>4. QED
      BY <3>1, <3>2, <3>3
  <2>14. (w - d) % WSIZE = (r - d) % WSIZE
    <3> HIDE DEF r
    <3>1. w - d \in Int /\ r - d = v + (w - d)
      BY <2>11 DEF r
    <3>2. (v + (w - d)) % WSIZE = (w - d) % WSIZE
      <4> DEFINE x == w - d
      <4>1. v \in Int /\ v % WSIZE = 0 /\ x \in Int
        BY <2>11, <2>12, <3>1
      <4> HIDE DEF v, x
      <4>2. (v + x) % WSIZE = x % WSIZE
        BY <4>1, WindowPlace
      <4>3. QED
        BY <4>2 DEF x
    <3>3. QED
      BY <3>1, <3>2
  <2>15. d <= r
    BY <2>3, <2>12
  <2> HIDE DEF r, v, w
  <2>16. From(inflate', r, E.out, d)
    BY <2>7, <2>13, <2>14, <2>15 DEF From
  <2>17. r <= Len(E.out) /\ Holds(inflate.slide, E.out, r)
    <3>1. r <= Len(D.out)
      BY <2>11, <2>12
    <3>2. QED
      BY <2>3, <2>11, <2>12, <3>1, HoldsOn
  <2>18. Shows(inflate', r, E)
    BY <2>3, <2>5, <2>7, <2>9, <2>12, <2>13, <2>16, <2>17 DEF Shows
  <2>19. r = inflate'.saved_filepos + inflate'.wp
    BY <2>7 DEF r
  <2>20. QED
    BY <2>1, <2>3, <2>9, <2>10, <2>18, <2>19, Follows DEF E, Decoder
<1>3. QED
  BY <1>1, <1>2

LEMMA EndStep == ASSUME ReadInv, SoundStreams, DecodeEnd PROVE DecoderInv'
<1>1. CASE errnum' # 0
  BY <1>1 DEF DecoderInv
<1>2. CASE errnum' = 0
  <2>1. /\ TakeCode /\ Symbol.is = "end" /\ errnum = 0 /\ UNCHANGED decoding
        /\ pc' = "inflate" /\ pc' \in {"inflate", "codes"}
    BY <1>2 DEF DecodeEnd
  <2>2. PICK s \in 1..file'.max, q \in 1..file'.max :
           LET D == State(q - 1)
               E == State(q)'
           IN /\ InputAt(s, q)' /\ E = Step1(D, Symbol) /\ D \in States
              /\ D.in = "codes" /\ InBlock(inflate, D) /\ inflate \in Inflates
              /\ inflate.code_state = 0
              /\ Shows(inflate, inflate.saved_filepos + inflate.wp, D)
    BY <2>1, TookCode
  <2> DEFINE D == State(q - 1)
             E == State(q)'
             r == inflate.saved_filepos + inflate.wp
  <2>3. /\ InputAt(s, q)' /\ E = Step1(D, Symbol) /\ D \in States
        /\ D.in = "codes" /\ InBlock(inflate, D) /\ inflate \in Inflates
        /\ inflate.code_state = 0 /\ Shows(inflate, r, D)
    BY <2>2
  <2> HIDE DEF D, E
  <2>4. inflate' = [inflate EXCEPT !.block_len = 0]
    BY DEF DecodeEnd
  <2>5. /\ inflate'.saved_filepos = inflate.saved_filepos /\ inflate'.wp = inflate.wp
        /\ inflate'.slide = inflate.slide /\ inflate'.last_block = inflate.last_block
        /\ inflate'.block_len = 0
    BY <2>3, <2>4 DEF Inflates
  <2>6. E = [D EXCEPT !.in = AfterBlock(D.last)]
    BY <2>1, <2>3 DEF Step1
  <2>7. E.out = D.out /\ E.in = AfterBlock(D.last) /\ D.last \in BOOLEAN
    BY <2>3, <2>6 DEF States
  <2>8. inflate.last_block = D.last
    BY <2>3 DEF InBlock
  <2>9. InBlock(inflate', E) /\ E.in # "codes"
    <3>1. CASE D.last
      BY <2>5, <2>7, <2>8, <3>1 DEF InBlock, AfterBlock
    <3>2. CASE ~D.last
      BY <2>5, <2>7, <2>8, <3>2 DEF InBlock, AfterBlock
    <3>3. QED
      BY <3>1, <3>2
  <2> HIDE DEF r
  <2>10. Shows(inflate', r, E)
    BY <2>3, <2>5, <2>7, <2>9 DEF Shows
  <2>11. r = inflate'.saved_filepos + inflate'.wp
    BY <2>5 DEF r
  <2>12. QED
    BY <2>1, <2>3, <2>9, <2>10, <2>11, Follows DEF E, Decoder
<1>3. QED
  BY <1>1, <1>2

LEMMA PrefixStep == ASSUME ReadInv, SoundStreams, DecodePrefix PROVE DecoderInv'
<1>1. CASE errnum' # 0
  BY <1>1 DEF DecoderInv
<1>2. CASE errnum' = 0
  <2>1. /\ TakeCode /\ Symbol.is = "prefix" /\ errnum = 0 /\ UNCHANGED decoding
        /\ pc' = "codes" /\ pc' \in {"inflate", "codes"} /\ inflate' = inflate
    BY <1>2 DEF DecodePrefix, TakeCode
  <2>2. PICK s \in 1..file'.max, q \in 1..file'.max :
           LET D == State(q - 1)
               E == State(q)'
           IN /\ InputAt(s, q)' /\ E = Step1(D, Symbol) /\ D.in = "codes" /\ InBlock(inflate, D)
              /\ Shows(inflate, inflate.saved_filepos + inflate.wp, D)
    BY <2>1, TookCode
  <2>3. State(q)' = State(q - 1)
    BY <2>1, <2>2 DEF Step1
  <2>4. QED
    BY <2>1, <2>2, <2>3, Follows DEF Decoder
<1>3. QED
  BY <1>1, <1>2

LEMMA BadStep == ASSUME DecodeBad PROVE DecoderInv'
BY DEF DecodeBad, DecoderInv

\* A copy of e bytes at r, of the n bytes of out there, written one by one into
\* the windows g.
Copying(g, e, out, r, w, n, d, from) ==
  /\ out \in Seq(Data) /\ r \in Nat /\ w \in Nat /\ n \in Nat /\ d \in Nat /\ from \in Int
  /\ w = r % WSIZE /\ e <= n /\ w + e <= WSIZE
  /\ 1 <= d /\ d <= WSIZE /\ from = (r - d) % WSIZE /\ d <= r /\ Len(out) = r + n
  /\ \A j \in 1..n : out[r + j] = out[r + j - d]
  /\ \A k \in 0..e : g[k] \in [0..(WSIZE - 1) -> Data]
  /\ \A k \in 0..(e - 1) : g[k + 1] = [g[k] EXCEPT ![w + k] = g[k][(from + k) % WSIZE]]
  /\ Holds(g[0], out, r)

LEMMA Copies1 ==
  ASSUME NEW g, NEW e \in Nat, NEW out, NEW r, NEW w, NEW n, NEW d, NEW from,
         Copying(g, e, out, r, w, n, d, from)
  PROVE  Holds(g[e], out, r + e)
<1>0. /\ out \in Seq(Data) /\ r \in Nat /\ w \in Nat /\ n \in Nat /\ d \in Nat /\ from \in Int
      /\ w = r % WSIZE /\ e <= n /\ w + e <= WSIZE
      /\ 1 <= d /\ d <= WSIZE /\ from = (r - d) % WSIZE /\ d <= r /\ Len(out) = r + n
      /\ \A j \in 1..n : out[r + j] = out[r + j - d]
      /\ \A k \in 0..e : g[k] \in [0..(WSIZE - 1) -> Data]
      /\ \A k \in 0..(e - 1) : g[k + 1] = [g[k] EXCEPT ![w + k] = g[k][(from + k) % WSIZE]]
      /\ Holds(g[0], out, r)
  BY DEF Copying
<1> DEFINE T == {k \in Nat : Holds(g[k], out, r + k)}
<1>1. WSIZE \in Nat \ {0} /\ w \in Int /\ r \in Int
  BY <1>0, Constants
<1>2. 0 \in T
  BY <1>0
<1>3. ASSUME NEW m \in T, m \in 0..(e - 1) PROVE m + 1 \in T
  <2>1. m \in Nat /\ m \in Int /\ Holds(g[m], out, r + m)
    OBVIOUS
  <2> HIDE DEF T
  <2> DEFINE u == r + m
             p == (r - d) + m
             y == r - d
             z == w + m
  <2>2. /\ z \in 0..(WSIZE - 1) /\ z \in Int /\ m + 1 \in 1..n /\ u \in Nat /\ u < Len(out)
        /\ m \in 0..e /\ u + 1 = r + (m + 1) /\ m + 1 \in Nat /\ u \in Int
    BY <1>0, <1>1, <1>3, <2>1
  <2>3. u % WSIZE = z
    <3>1. ((r % WSIZE) + m) % WSIZE = (r + m) % WSIZE
      BY <1>1, <2>1, AddedPlace
    <3>2. (0 + z) % WSIZE = z
      <4>1. 0 \in Int /\ 0 % WSIZE = 0
        BY <1>1, SMT
      <4> HIDE DEF z
      <4>2. QED
        BY <2>2, <4>1, WindowPlace
    <3>3. 0 + z = w + m
      BY <2>2
    <3>4. QED
      BY <1>0, <3>1, <3>2, <3>3
  <2>4. y \in Int /\ y + m = p
    BY <1>0, <1>1, <2>1
  <2>5. (from + m) % WSIZE = p % WSIZE
    <3>1. from = y % WSIZE
      BY <1>0
    <3> HIDE DEF y, p
    <3>2. ((y % WSIZE) + m) % WSIZE = (y + m) % WSIZE
      BY <2>1, <2>4, AddedPlace
    <3>3. QED
      BY <2>4, <3>1, <3>2
  <2>6. p \in 0..(u - 1) /\ p + WSIZE >= u /\ p + 1 = r + (m + 1) - d
    BY <1>0, <1>1, <2>1
  <2>7. out[r + (m + 1)] = out[r + (m + 1) - d]
    BY <1>0, <2>2
  <2>8. Holds(g[m], out, u)
    BY <2>1
  <2> HIDE DEF p, u, y, z
  <2>9. g[m][p % WSIZE] = out[u + 1]
    BY <2>2, <2>6, <2>7, <2>8 DEF Holds
  <2>10. g[m + 1] = [g[m] EXCEPT ![w + m] = g[m][(from + m) % WSIZE]]
    BY <1>0, <1>3
  <2>11. g[m + 1] = [g[m] EXCEPT ![u % WSIZE] = out[u + 1]]
    BY <2>3, <2>5, <2>9, <2>10 DEF z
  <2>12. g[m] \in [0..(WSIZE - 1) -> Data]
    BY <1>0, <2>2
  <2> DEFINE f == g[m]
             h == g[m + 1]
  <2>13. /\ f \in [0..(WSIZE - 1) -> Data] /\ Holds(f, out, u)
         /\ h = [f EXCEPT ![u % WSIZE] = out[u + 1]]
    BY <2>8, <2>11, <2>12
  <2> HIDE DEF f, h
  <2>14. Holds(h, out, u + 1)
    BY <1>0, <2>2, <2>13, OneMore
  <2>15. QED
    BY <2>2, <2>14 DEF T, h
<1>4. 0..e \subseteq T
  <2> HIDE DEF T
  <2> QED
    BY <1>2, <1>3, Upward
<1>5. QED
  BY <1>4

LEMMA DoCopyStep == ASSUME ReadInv, SoundStreams, DoCopy PROVE DecoderInv'
<1>1. CASE errnum' # 0
  BY <1>1 DEF DecoderInv
<1>2. CASE errnum' = 0
  <2>1. /\ pc = "codes" /\ pc \in Decoder /\ InGunzip /\ InWindow /\ errnum = 0 /\ Place = pc
        /\ pc' \in {"inflate", "codes"} /\ ~Filling /\ inflate.code_state = 1
        /\ inflate' = [Copied EXCEPT !.code_state = Rest(Copied)]
        /\ UNCHANGED <<file, filepos, gzip, inbuf, io, bufloc>>
    BY <1>2 DEF DoCopy, decoding, InGunzip, InWindow, Inside, Decoder, Place, Filling, Written
  <2>2. PICK s \in 1..file.max, q \in 1..file.max : DecodesAt(s, q)
    BY <2>1, Decoding1
  <2>3. inflate \in Inflates /\ file \in Gzipped
    BY <2>1, Decoding1, InvParts DEF Kinds
  <2> DEFINE D == State(q)
             v == inflate.saved_filepos
             w == inflate.wp
             n == inflate.inflate_n
             r == v + w
  <2>4. /\ D \in States /\ D.in = "codes" /\ D.out \in Seq(Data) /\ InputAt(s, q)
        /\ InBlock(inflate, D) /\ Shows(inflate, r, D)
    BY <2>1, <2>2, <2>3, Stream DEF DecodesAt, Reached
  <2>5. State(q)' = D
    BY <2>1 DEF State
  <2> HIDE DEF D
  <2>6. /\ v % WSIZE = 0 /\ Len(D.out) = r + n /\ Holds(inflate.slide, D.out, r)
    BY <2>1, <2>4 DEF Shows
  <2>7. PICK d \in 1..WSIZE : From(inflate, r, D.out, d)
    BY <2>1, <2>4 DEF Shows
  <2>8. v \in Nat /\ w \in Nat /\ n \in Nat /\ r \in Nat /\ WSIZE \in Nat /\ d \in Nat
        /\ inflate.inflate_d \in Int
    BY <2>3, Constants DEF Inflates
  <2>9. PICK e \in Nat : \E g :
           /\ e <= inflate.inflate_n /\ inflate.wp + e <= WSIZE
           /\ e < inflate.inflate_n => inflate.wp + e = WSIZE
           /\ g = [k \in 0..e |->
                    IF k = 0 THEN inflate.slide
                    ELSE [g[k - 1] EXCEPT ![inflate.wp + k - 1] =
                            g[k - 1][(inflate.inflate_d + k - 1) % WSIZE]]]
           /\ \A k \in 0..e : g[k] \in [0..(WSIZE - 1) -> Data]
           /\ Copied \in Inflates
           /\ Copied = [inflate EXCEPT !.slide = g[e], !.wp = inflate.wp + e,
                          !.inflate_n = inflate.inflate_n - e,
                          !.inflate_d = (inflate.inflate_d + e) % WSIZE]
    BY <2>3, Copies
  <2>10. PICK g :
           /\ e <= n /\ w + e <= WSIZE
           /\ g = [k \in 0..e |->
                    IF k = 0 THEN inflate.slide
                    ELSE [g[k - 1] EXCEPT ![inflate.wp + k - 1] =
                            g[k - 1][(inflate.inflate_d + k - 1) % WSIZE]]]
           /\ \A k \in 0..e : g[k] \in [0..(WSIZE - 1) -> Data]
           /\ Copied \in Inflates
           /\ Copied = [inflate EXCEPT !.slide = g[e], !.wp = inflate.wp + e,
                          !.inflate_n = inflate.inflate_n - e,
                          !.inflate_d = (inflate.inflate_d + e) % WSIZE]
    BY <2>9
  <2>11. g[0] = inflate.slide
    BY <2>10
  <2>12. ASSUME NEW k \in 0..(e - 1)
         PROVE  g[k + 1] = [g[k] EXCEPT ![w + k] = g[k][(inflate.inflate_d + k) % WSIZE]]
    <3>1. k + 1 \in 0..e /\ k + 1 # 0 /\ (k + 1) - 1 = k
      BY <2>12
    <3>2. w + (k + 1) - 1 = w + k /\ inflate.inflate_d + (k + 1) - 1 = inflate.inflate_d + k
      BY <2>8, <2>12
    <3>3. g[k + 1] = [g[(k + 1) - 1] EXCEPT ![w + (k + 1) - 1] =
                            g[(k + 1) - 1][(inflate.inflate_d + (k + 1) - 1) % WSIZE]]
      BY <2>10, <3>1
    <3>4. QED
      BY <3>1, <3>2, <3>3
  <2>13. /\ inflate'.saved_filepos = v /\ inflate'.wp = w + e /\ inflate'.slide = g[e]
         /\ inflate'.inflate_n = n - e /\ inflate'.inflate_d = (inflate.inflate_d + e) % WSIZE
         /\ inflate'.block_type = inflate.block_type /\ inflate'.last_block = inflate.last_block
         /\ inflate'.block_len = inflate.block_len /\ inflate'.code_state = IF n - e = 0 THEN 0 ELSE 1
    <3> DEFINE c == Copied
    <3>1. /\ c \in Inflates /\ inflate' = [c EXCEPT !.code_state = Rest(c)]
          /\ c = [inflate EXCEPT !.slide = g[e], !.wp = w + e, !.inflate_n = n - e,
                    !.inflate_d = (inflate.inflate_d + e) % WSIZE]
      BY <2>1, <2>10
    <3> HIDE DEF c
    <3>2. /\ c.saved_filepos = v /\ c.wp = w + e /\ c.slide = g[e]
          /\ c.inflate_n = n - e /\ c.inflate_d = (inflate.inflate_d + e) % WSIZE
          /\ c.block_type = inflate.block_type /\ c.last_block = inflate.last_block
          /\ c.block_len = inflate.block_len
      BY <2>3, <3>1 DEF Inflates
    <3>3. Rest(c) = IF n - e = 0 THEN 0 ELSE 1
      BY <3>2 DEF Rest
    <3> HIDE DEF v, w, n
    <3>4. QED
      BY <3>1, <3>2, <3>3 DEF Inflates
  <2>14. /\ d <= r /\ inflate.inflate_d = (r - d) % WSIZE
         /\ \A j \in 1..n : D.out[r + j] = D.out[r + j - d]
    BY <2>7 DEF From
  <2>15. Holds(g[e], D.out, r + e)
    <3> DEFINE from == inflate.inflate_d
               out == D.out
    <3>1. /\ out \in Seq(Data) /\ from \in Int /\ from = (r - d) % WSIZE /\ d <= r
          /\ Len(out) = r + n /\ \A j \in 1..n : out[r + j] = out[r + j - d]
          /\ Holds(g[0], out, r) /\ 1 <= d /\ d <= WSIZE
      <4>1. out \in Seq(Data) /\ from \in Int
        BY <2>4, <2>8
      <4>2. from = (r - d) % WSIZE /\ d <= r /\ \A j \in 1..n : out[r + j] = out[r + j - d]
        BY <2>14
      <4>3. Len(out) = r + n /\ 1 <= d /\ d <= WSIZE
        BY <2>6, <2>8
      <4>4. Holds(g[0], out, r)
        BY <2>6, <2>11
      <4>5. QED
        BY <4>1, <4>2, <4>3, <4>4
    <3>2. /\ \A k \in 0..e : g[k] \in [0..(WSIZE - 1) -> Data]
          /\ \A k \in 0..(e - 1) : g[k + 1] = [g[k] EXCEPT ![w + k] = g[k][(from + k) % WSIZE]]
      BY <2>10, <2>12
    <3>3. w = r % WSIZE
      <4>1. v \in Int /\ v % WSIZE = 0 /\ w \in 0..(WSIZE - 1)
        BY <2>1, <2>3, <2>6, <2>8, InvParts DEF Inflating, Inflates
      <4> HIDE DEF v, w
      <4>2. QED
        BY <4>1, WindowPlace
    <3>4. r \in Nat /\ w \in Nat /\ n \in Nat /\ d \in Nat /\ e \in Nat /\ e <= n /\ w + e <= WSIZE
      BY <2>8, <2>10
    <3> HIDE DEF from, out, v, w, n, r
    <3>5. Holds(g[e], out, r + e)
      <4>1. Copying(g, e, out, r, w, n, d, from)
        BY <3>1, <3>2, <3>3, <3>4 DEF Copying
      <4>2. QED
        BY <4>1, Copies1
    <3>6. QED
      BY <3>5 DEF out
  <2> DEFINE x == r + e
  <2>16. x \in Nat /\ x = v + (w + e) /\ n - e \in Nat /\ x <= Len(D.out) /\ Len(D.out) = x + (n - e)
         /\ v + (w + e) = r + e
    <3>1. Len(D.out) = r + n /\ e <= n /\ e \in Nat /\ v + (w + e) = r + e
      BY <2>6, <2>8, <2>10
    <3>2. r \in Nat /\ n \in Nat
      BY <2>8
    <3> HIDE DEF r, n, v, w
    <3>3. QED
      BY <3>1, <3>2
  <2>17. CASE n - e # 0
    <3>1. From(inflate', x, D.out, d)
      <4>1. d <= x
        BY <2>8, <2>14
      <4>2. inflate'.inflate_d = (x - d) % WSIZE
        <5> DEFINE y == r - d
        <5>1. y \in Int /\ e \in Int /\ x - d = y + e /\ inflate.inflate_d = y % WSIZE
          BY <2>8, <2>14
        <5> HIDE DEF y
        <5>2. ((y % WSIZE) + e) % WSIZE = (y + e) % WSIZE
          BY <5>1, AddedPlace
        <5> HIDE DEF x
        <5>3. QED
          BY <2>13, <5>1, <5>2
      <4>3. ASSUME NEW j \in 1..(n - e) PROVE D.out[x + j] = D.out[x + j - d]
        <5>1. e + j \in 1..n /\ r + (e + j) = x + j /\ r + (e + j) - d = x + j - d
          <6>1. r \in Nat /\ n \in Nat /\ d \in Nat /\ e \in Nat /\ j \in 1..(n - e)
            BY <2>8
          <6> HIDE DEF r, n
          <6>2. QED
            BY <6>1
        <5>2. QED
          BY <2>14, <5>1
      <4> HIDE DEF x
      <4>4. QED
        BY <2>13, <4>1, <4>2, <4>3 DEF From
    <3> HIDE DEF x, r, v, w, n
    <3>2. Shows(inflate', x, D)
      BY <2>6, <2>7, <2>13, <2>15, <2>16, <2>17, <3>1, <2>4 DEF Shows, x
    <3>3. QED
      <4>1. x = inflate'.saved_filepos + inflate'.wp
        BY <2>13, <2>16
      <4>2. InBlock(inflate', D)
        BY <2>4, <2>13 DEF InBlock
      <4>3. InputAt(s, q)'
        BY <2>1, <2>4 DEF InputAt, RawPos, InGunzip, Inside, Filling, Piece
      <4>4. QED
        BY <2>1, <2>4, <2>5, <3>2, <4>1, <4>2, <4>3, Follows DEF Decoder
  <2>18. CASE n - e = 0
    <3> HIDE DEF r, v, w, n
    <3>1. Len(D.out) = x /\ Holds(g[e], D.out, x)
      BY <2>15, <2>16, <2>18
    <3> HIDE DEF x
    <3>2. Shows(inflate', x, D)
      BY <2>6, <2>13, <2>16, <2>18, <3>1 DEF Shows
    <3>3. QED
      <4>1. x = inflate'.saved_filepos + inflate'.wp
        BY <2>13, <2>16
      <4>2. InBlock(inflate', D)
        BY <2>4, <2>13 DEF InBlock
      <4>3. InputAt(s, q)'
        BY <2>1, <2>4 DEF InputAt, RawPos, InGunzip, Inside, Filling, Piece
      <4>4. QED
        BY <2>1, <2>4, <2>5, <3>2, <4>1, <4>2, <4>3, Follows DEF Decoder
  <2>19. QED
    BY <2>17, <2>18
<1>3. QED
  BY <1>1, <1>2

-----------------------------------------------------------------------------
(* Windows and pieces of the input *)

\* Nothing is read or taken.
LEMMA SameInput ==
  ASSUME NEW s, NEW q, InputAt(s, q), ~Filling, ~Filling', RawPos' = RawPos,
         UNCHANGED <<file, inbuf, bufloc>>
  PROVE  InputAt(s, q)'
BY DEF InputAt, Piece

\* What gunzip_read still wants is in the data.
LEMMA WantedThere ==
  ASSUME ReadInv, InGunzip, Wanted > 0
  PROVE  /\ gzip.filepos + Wanted <= gzip.filemax /\ gzip.filepos < gzip.filemax
         /\ gzip.filepos = call.start + call.count + call.last
<1>1. Kinds /\ Calls /\ Answering /\ pc \notin {"idle", "test", "done", "chunk"}
      /\ ~ (pc = "blocks" /\ io.to = "caller")
  BY InvParts DEF InGunzip, Inside
<1> DEFINE p == gzip.filepos
           n == gzip.filemax
           b == call.start
           c == call.count
           l == call.last
           e == call.len
<1>2. p \in Nat /\ n \in Nat /\ b \in Nat /\ c \in Nat /\ l \in Nat /\ e \in Nat /\ call.asked \in Nat
      /\ Wanted \in Nat
  BY <1>1, WantedRight DEF Kinds, Gzips, Requests
<1>3. p = b + (c + l)
  BY <1>1 DEF Answering, Position, Got
<1>4. c + l + Wanted <= e
  BY <1>1, WantedRight
<1>5. e = IF b >= n THEN 0 ELSE Min({call.asked, n - b})
  BY <1>1 DEF Answering, Asked, Limit
<1> HIDE DEF p, n, b, c, l, e
<1>6. e > 0
  BY <1>2, <1>4
<1>7. b < n /\ e = Min({call.asked, n - b})
  BY <1>2, <1>5, <1>6
<1>8. e <= n - b
  <2>1. call.asked \in Int /\ n - b \in Int
    BY <1>2
  <2>2. e = IF call.asked <= n - b THEN call.asked ELSE n - b
    BY <1>7, <2>1, Lesser
  <2>3. QED
    BY <1>2, <2>2
<1>9. p + Wanted <= n /\ p < n /\ p = b + c + l
  BY <1>2, <1>3, <1>4, <1>8
<1>10. QED
  BY <1>9 DEF p, n, b, c, l

LEMMA WindowDoneStep == ASSUME ReadInv, SoundStreams, WindowDone PROVE DecoderInv'
<1>1. CASE errnum' # 0
  BY <1>1 DEF DecoderInv
<1>2. CASE errnum' = 0
  <2>1. /\ pc = "inflate" /\ pc' = "window" /\ InGunzip /\ InWindow /\ InGunzip' /\ ~InWindow' /\ errnum = 0
        /\ ~Filling /\ ~Filling'
        /\ inflate' = [inflate EXCEPT !.saved_filepos = inflate.saved_filepos + WSIZE]
        /\ inflate.wp = WSIZE \/ (inflate.block_len = 0 /\ inflate.last_block)
        /\ UNCHANGED <<file, filepos, gzip, inbuf, io, bufloc>>
    BY <1>2 DEF WindowDone, WindowDoneAt, decoding, InGunzip, InWindow, Inside, Decoder, Filling
  <2>2. PICK s \in 1..file.max, q \in 1..file.max : DecodesAt(s, q)
    BY <2>1, Decoding1
  <2>3. inflate \in Inflates /\ file \in Gzipped
    BY <2>1, Decoding1, InvParts DEF Kinds
  <2> DEFINE D == State(q)
             v == inflate.saved_filepos
             w == inflate.wp
             x == v + WSIZE
  <2>4. /\ D \in States /\ InputAt(s, q) /\ InBlock(inflate, D) /\ Shows(inflate, v + w, D)
        /\ D.in = "stored" => D.left > 0
    BY <2>1, <2>2, <2>3, Stream DEF DecodesAt, Reached
  <2>5. State(q)' = D
    BY <2>1 DEF State
  <2> HIDE DEF D
  <2>6. v \in Nat /\ w \in Nat /\ WSIZE \in Nat \ {0} /\ v % WSIZE = 0 /\ v \in Int
    BY <2>3, <2>4, Constants DEF Inflates, Shows
  <2>7. x % WSIZE = 0
    <3> HIDE DEF v
    <3> QED
      BY <2>6, WindowPlace
  <2>8. x \in Nat /\ x > 0 /\ x - WSIZE + w = v + w
    <3> HIDE DEF v, w
    <3> QED
      BY <2>6
  <2>9. /\ inflate'.saved_filepos = x /\ inflate'.wp = w /\ inflate'.slide = inflate.slide
        /\ inflate'.block_len = inflate.block_len /\ inflate'.last_block = inflate.last_block
        /\ inflate'.block_type = inflate.block_type /\ inflate'.code_state = inflate.code_state
        /\ inflate'.inflate_n = inflate.inflate_n /\ inflate'.inflate_d = inflate.inflate_d
    BY <2>1, <2>3 DEF Inflates
  <2> HIDE DEF v, x
  <2>10. Reached' = v + w
    BY <2>1, <2>8, <2>9 DEF Reached
  <2>11. Shows(inflate', v + w, D)
    BY <2>4, <2>7, <2>9 DEF Shows, From
  <2>12. InBlock(inflate', D)
    BY <2>4, <2>9 DEF InBlock
  <2>13. Ended(inflate', D)
    <3>1. CASE w = WSIZE
      BY <2>9, <3>1 DEF Ended
    <3>2. CASE inflate.block_len = 0 /\ inflate.last_block
      <4>1. D.in \notin {"head", "stored", "codes", "bad"}
        <5>1. D.in # "head" /\ D.in # "bad"
          BY <2>4, <3>2, Zenon DEF InBlock
        <5>2. D.in = "stored" \/ D.in = "codes" => inflate.block_len > 0
          BY <2>4 DEF InBlock
        <5>3. QED
          BY <3>2, <5>1, <5>2
      <4>2. D.in = "end"
        BY <2>4, <4>1 DEF States
      <4>3. QED
        BY <4>2 DEF Ended
    <3>3. QED
      BY <2>1, <3>1, <3>2
  <2>14. InputAt(s, q)'
    <3>1. RawPos' = RawPos
      BY <2>1 DEF RawPos
    <3>2. QED
      BY <2>1, <2>4, <3>1, SameInput
  <2>15. DecodesAt(s, q)'
    BY <2>1, <2>5, <2>10, <2>11, <2>12, <2>13, <2>14 DEF DecodesAt
  <2>16. QED
    BY <2>1, <2>15 DEF DecoderInv
<1>3. QED
  BY <1>1, <1>2

LEMMA NextWindowStep == ASSUME ReadInv, SoundStreams, NextWindow PROVE DecoderInv'
<1>1. CASE errnum' # 0
  BY <1>1 DEF DecoderInv
<1>2. CASE errnum' = 0
  <2>1. /\ pc = "window" /\ pc' = "inflate" /\ InGunzip /\ ~InWindow /\ InGunzip' /\ InWindow' /\ errnum = 0
        /\ ~Filling /\ ~Filling' /\ Place' = "inflate" /\ gzip.filepos >= inflate.saved_filepos
        /\ inflate' = [inflate EXCEPT !.wp = 0]
        /\ UNCHANGED <<file, filepos, gzip, inbuf, io, bufloc>>
    BY <1>2 DEF NextWindow, InGunzip, InWindow, Inside, Decoder, Filling, Place
  <2>2. PICK s \in 1..file.max, q \in 1..file.max : DecodesAt(s, q)
    BY <2>1, Decoding1
  <2>3. inflate \in Inflates /\ file \in Gzipped /\ gzip \in Gzips
    BY <2>1, Decoding1, InvParts DEF Kinds
  <2> DEFINE D == State(q)
             v == inflate.saved_filepos
             w == inflate.wp
  <2>4. /\ D \in States /\ InputAt(s, q) /\ InBlock(inflate, D) /\ Shows(inflate, Reached, D)
        /\ Ended(inflate, D)
        /\ D.in = "end" => D.out = Decoded[file]
        /\ D.in = "end" => SymbolAt(file, file.max - 1).size = Len(Decoded[file])
    BY <2>1, <2>2, <2>3, Stream DEF DecodesAt
  <2>5. State(q)' = D
    BY <2>1 DEF State
  <2>6. v \in Nat /\ w \in 0..WSIZE /\ WSIZE \in Nat \ {0}
    BY <2>3, <2>4, Constants DEF Inflates, Shows
  <2> HIDE DEF D
  <2>7. Reached = IF v = 0 THEN 0 ELSE v - WSIZE + w
    BY <2>1 DEF Reached
  <2>8. D.in # "end" \/ v = 0
    <3>1. SUFFICES ASSUME D.in = "end", v # 0 PROVE FALSE
      OBVIOUS
    <3>2. Len(D.out) = Reached
      BY <2>4, <3>1 DEF Shows
    <3>3. gzip.filemax = Len(D.out)
      BY <2>1, <2>4, <3>1, InvParts DEF Reading, Limit
    <3>4. gzip.filepos < gzip.filemax
      BY <2>1, WantedThere, InvParts DEF Reading
    <3>5. gzip.filepos \in Nat
      BY <2>3 DEF Gzips
    <3> DEFINE p == gzip.filepos
               n == gzip.filemax
    <3>6. n = v - WSIZE + w /\ p < n /\ v <= p /\ p \in Nat
      BY <2>1, <2>7, <3>1, <3>2, <3>3, <3>4, <3>5
    <3> HIDE DEF p, n, v, w
    <3>7. QED
      BY <2>6, <3>6
  <2>9. Reached = v
    <3>1. v = 0 \/ w = WSIZE
      BY <2>4, <2>6, <2>8 DEF Ended
    <3> HIDE DEF v, w
    <3>2. QED
      BY <2>6, <2>7, <3>1
  <2>10. /\ inflate'.saved_filepos = v /\ inflate'.wp = 0 /\ inflate'.slide = inflate.slide
         /\ inflate'.block_len = inflate.block_len /\ inflate'.last_block = inflate.last_block
         /\ inflate'.block_type = inflate.block_type /\ inflate'.code_state = inflate.code_state
         /\ inflate'.inflate_n = inflate.inflate_n /\ inflate'.inflate_d = inflate.inflate_d
    BY <2>1, <2>3 DEF Inflates
  <2>11. Reached' = v
    BY <2>1, <2>6, <2>10 DEF Reached
  <2>12. Shows(inflate', v, D)
    <3>1. Shows(inflate, v, D) /\ inflate'.saved_filepos = inflate.saved_filepos
      BY <2>4, <2>9, <2>10
    <3> HIDE DEF v
    <3>2. QED
      BY <2>10, <3>1 DEF Shows, From
  <2>13. InBlock(inflate', D)
    BY <2>4, <2>10 DEF InBlock
  <2>14. InputAt(s, q)'
    <3>1. RawPos' = RawPos
      BY <2>1 DEF RawPos
    <3>2. QED
      BY <2>1, <2>4, <3>1, SameInput
  <2>15. DecodesAt(s, q)'
    BY <2>1, <2>5, <2>11, <2>12, <2>13, <2>14 DEF DecodesAt, Decoder
  <2>16. QED
    BY <2>1, <2>15 DEF DecoderInv
<1>3. QED
  BY <1>1, <1>2

\* A piece of the input, as far as the file goes.
LEMMA Pieces ==
  ASSUME NEW s \in 1..file.max, file.max \in Nat
  PROVE  /\ Piece(s) \in 0..INBUFSIZ /\ s + Piece(s) <= file.max
         /\ s < file.max => Piece(s) > 0
         /\ Piece(s) = INBUFSIZ \/ s + Piece(s) = file.max
<1>1. INBUFSIZ \in Nat \ {0} /\ s \in Nat /\ s <= file.max
  BY Constants
<1>2. INBUFSIZ \in Int /\ file.max - s \in Int
  BY <1>1
<1>3. Piece(s) = IF INBUFSIZ <= file.max - s THEN INBUFSIZ ELSE file.max - s
  BY <1>2, Lesser DEF Piece
<1>4. QED
  BY <1>1, <1>3

\* get_byte asks for the piece where the decoder is, and there is one.
LEMMA DryAt ==
  ASSUME ReadInv, SoundStreams, pc \in Decoder, errnum = 0, Dry,
         NEW s \in 1..file.max, NEW q \in 1..file.max, DecodesAt(s, q)
  PROVE  filepos = q /\ q < file.max /\ filemax = file.max
<1>1. InGunzip /\ ~Filling /\ InWindow /\ Place = pc
  BY DEF InGunzip, Filling, InWindow, Place, Decoder, Inside
<1>2. /\ file \in Gzipped /\ gzip.data_offset = 1 /\ filepos \in Nat /\ filemax = file.max
      /\ bufloc \in 0..INBUFSIZ /\ file.max \in Nat \ {0}
  BY <1>1, Decoding1, InvParts DEF Positions, Kinds
<1>3. State(q).in = pc /\ q # file.max
  BY <1>1, <1>2, Stream DEF DecodesAt, Decoder
<1>4. /\ s <= filepos /\ q = s + bufloc
      /\ \/ s = 1 /\ filepos = 1 /\ bufloc = 0
         \/ s < file.max /\ filepos = s + Piece(s)
  BY <1>1 DEF DecodesAt, InputAt, RawPos
<1>5. /\ Piece(s) \in 0..INBUFSIZ /\ (s < file.max => Piece(s) > 0)
      /\ Piece(s) = INBUFSIZ \/ s + Piece(s) = file.max
  BY <1>2, Pieces
<1>6. filepos = 1 \/ bufloc = INBUFSIZ
  BY <1>2 DEF Dry
<1>7. INBUFSIZ \in Nat \ {0}
  BY Constants
<1> DEFINE p == Piece(s)
           m == file.max
<1> HIDE DEF p
<1>8. filepos = q /\ q < m
  BY <1>2, <1>3, <1>4, <1>5, <1>6, <1>7 DEF p
<1>9. QED
  BY <1>2, <1>8

LEMMA RefillStep == ASSUME ReadInv, SoundStreams, Refill PROVE DecoderInv'
<1>1. /\ pc \in Decoder /\ Dry /\ bufloc' = 0 /\ InGunzip /\ InWindow /\ Place = pc
      /\ UNCHANGED <<file, filepos, filemax, compressed_file, gzip, inflate, inbuf>>
  BY DEF Refill, InGunzip, InWindow, Place, Decoder, Inside
<1>2. errnum = 0
  BY <1>1, InvParts DEF Faulty
<1>3. PICK s \in 1..file.max, q \in 1..file.max : DecodesAt(s, q)
  BY <1>1, <1>2, Decoding1
<1>4. filepos = q /\ q < file.max /\ filemax = file.max /\ file.max \in Nat /\ q \in Nat
  BY <1>1, <1>2, <1>3, DryAt, Decoding1
<1> DEFINE len == Min({INBUFSIZ, filemax - filepos})
<1>5. errnum' = 0 /\ pc' = "blocks" /\ io' = [len |-> len, done |-> 0, to |-> "inbuf", back |-> pc]
  BY <1>4 DEF Refill
<1>6. len = Piece(q)
  BY <1>4 DEF Piece
<1> HIDE DEF len
<1>7. InGunzip' /\ InWindow' /\ Filling' /\ Place' = pc /\ Place \in Decoder
  BY <1>1, <1>5 DEF InGunzip, InWindow, Filling, Place
<1>8. InputAt(q, q)'
  <2>1. RawPos' = q /\ Piece(q)' = Piece(q) /\ io'.done = 0 /\ io'.len = Piece(q)
    BY <1>1, <1>4, <1>5, <1>6, <1>7 DEF RawPos, Piece
  <2>2. q + 0 = q /\ q - q = 0 /\ q <= q
    BY <1>4
  <2>3. \A k \in 1..0 : inbuf'[k] = SymbolAt(file', q + k - 1)
    OBVIOUS
  <2>4. QED
    BY <1>1, <1>4, <1>7, <2>1, <2>2, <2>3 DEF InputAt
<1>9. Reached' = Reached /\ State(q)' = State(q)
  BY <1>1, <1>7 DEF Reached, State
<1>10. /\ InBlock(inflate, State(q)) /\ Shows(inflate, Reached, State(q)) /\ State(q).in = pc
  BY <1>1, <1>3 DEF DecodesAt
<1>11. DecodesAt(q, q)'
  BY <1>1, <1>7, <1>8, <1>9, <1>10 DEF DecodesAt
<1>12. q \in 1..file'.max
  BY <1>1
<1>13. QED
  BY <1>11, <1>12 DEF DecoderInv

-----------------------------------------------------------------------------
(* Reading the input, and the callers *)

LEMMA BlockReadStep == ASSUME ReadInv, SoundStreams, BlockRead PROVE DecoderInv'
<1>1. /\ pc = "blocks" /\ pc' = "blocks" /\ errnum = 0
      /\ UNCHANGED <<file, compressed_file, gzip, inflate, bufloc>>
      /\ filepos' = filepos + Size(cur', filepos, io.len)
      /\ io' = [io EXCEPT !.len = io.len - Size(cur', filepos, io.len),
                          !.done = io.done + Size(cur', filepos, io.len)]
  BY DEF BlockRead, Moved
<1>2. Kinds /\ Calls /\ io \in Moves /\ io.to \in {"caller", "inbuf"}
  BY InvParts DEF Kinds, Moves
<1>3. io'.to = io.to /\ io'.back = io.back
  BY <1>1, <1>2 DEF Moves
<1>4. CASE io.to = "caller" \/ errnum' # 0
  <2>1. CASE errnum' # 0
    BY <2>1 DEF DecoderInv
  <2>2. CASE io.to = "caller"
    <3>1. ~compressed_file /\ ~InGunzip'
      BY <1>1, <1>2, <1>3, <2>2 DEF Calls, InGunzip, Inside
    <3>2. QED
      BY <1>1, <3>1 DEF DecoderInv
  <2>3. QED
    BY <1>4, <2>1, <2>2
<1>5. CASE io.to = "inbuf" /\ errnum' = 0
  <2> DEFINE size == Size(cur', filepos, io.len)
             data == Bytes(cur', filepos, size)
             l == io.len
             d == io.done
  <2>1. size \in 1..l /\ \A k \in 1..size : data[k] = SymbolAt(file, filepos + k - 1)
    BY Reads, InvParts
  <2>2. inbuf' = [k \in 1..INBUFSIZ |-> IF k > d /\ k <= d + size THEN data[k - d] ELSE inbuf[k]]
    BY <1>5 DEF BlockRead
  <2>3. l \in Nat /\ d \in Nat /\ filepos \in Nat /\ io'.len = l - size /\ io'.done = d + size
        /\ filepos' = filepos + size
    BY <1>1, <1>2 DEF Moves, Kinds
  <2> HIDE DEF size, data
  <2>4. /\ InGunzip /\ InWindow /\ Filling /\ InGunzip' /\ InWindow' /\ Filling' /\ Place' = Place
        /\ Place \in Decoder
    BY <1>1, <1>2, <1>3, <1>5 DEF InGunzip, InWindow, Filling, Place, Moves, Calls, Decoder
  <2>5. PICK s \in 1..file.max, q \in 1..file.max : DecodesAt(s, q)
    BY <1>1, <2>4, Decoding1
  <2>6. file.max \in Nat
    BY <1>1, <2>4, Decoding1
  <2>7. /\ s <= filepos /\ q = s + bufloc /\ bufloc = 0 /\ s < file.max
        /\ filepos = s + d /\ filepos + l = s + Piece(s)
        /\ \A k \in 1..(filepos - s) : inbuf[k] = SymbolAt(file, s + k - 1)
    BY <2>4, <2>5 DEF DecodesAt, InputAt, RawPos
  <2>8. Piece(s) \in 0..INBUFSIZ /\ INBUFSIZ \in Nat
    BY <2>6, Pieces, Constants
  <2> DEFINE p == Piece(s)
  <2> HIDE DEF l, d, p
  <2>9. /\ s <= filepos + size /\ filepos + size = s + (d + size) /\ d + size <= INBUFSIZ
        /\ (filepos + size) + (l - size) = s + p /\ (filepos + size) - s = d + size /\ filepos - s = d
    BY <2>1, <2>3, <2>7, <2>8 DEF p
  <2>10. ASSUME NEW k \in 1..(d + size) PROVE inbuf'[k] = SymbolAt(file, s + k - 1)
    <3>1. k \in 1..INBUFSIZ
      BY <2>1, <2>3, <2>8, <2>9
    <3>2. CASE k > d
      <4>1. k - d \in 1..size /\ filepos + (k - d) - 1 = s + k - 1 /\ k <= d + size
        BY <2>1, <2>3, <2>7, <3>2
      <4>2. data[k - d] = SymbolAt(file, s + k - 1)
        BY <2>1, <4>1
      <4>3. QED
        BY <2>2, <3>1, <3>2, <4>1, <4>2
    <3>3. CASE ~ (k > d)
      <4>1. k \in 1..(filepos - s)
        BY <2>3, <2>9, <3>3
      <4>2. QED
        BY <2>2, <2>7, <3>1, <3>3, <4>1
    <3>4. QED
      BY <3>2, <3>3
  <2>11. InputAt(s, q)'
    <3>1. RawPos' = filepos + size /\ Piece(s)' = p /\ bufloc' = bufloc /\ file' = file
      BY <1>1, <2>3, <2>4 DEF RawPos, Piece, p
    <3>2. QED
      BY <2>3, <2>4, <2>7, <2>9, <2>10, <3>1 DEF InputAt
  <2>12. Reached' = Reached /\ State(q)' = State(q)
    BY <1>1, <2>4 DEF Reached, State
  <2>13. DecodesAt(s, q)'
    BY <1>1, <2>4, <2>5, <2>11, <2>12 DEF DecodesAt
  <2>14. QED
    BY <1>1, <2>13 DEF DecoderInv
<1>6. QED
  BY <1>2, <1>4, <1>5

LEMMA BlockReturnStep == ASSUME ReadInv, SoundStreams, BlockReturn PROVE DecoderInv'
<1>1. /\ pc = "blocks" /\ pc' = io.back
      /\ UNCHANGED <<file, filepos, errnum, compressed_file, gzip, inflate, inbuf, bufloc, io>>
  BY DEF BlockReturn
<1>2. Kinds /\ Calls /\ io \in Moves /\ io.to \in {"caller", "inbuf"}
  BY InvParts DEF Kinds, Moves
<1>3. CASE io.to = "caller" \/ errnum' # 0
  <2>1. CASE errnum' # 0
    BY <2>1 DEF DecoderInv
  <2>2. CASE io.to = "caller"
    <3>1. ~compressed_file /\ ~InGunzip'
      BY <1>1, <1>2, <2>2 DEF Calls, InGunzip, Inside
    <3>2. QED
      BY <1>1, <3>1 DEF DecoderInv
  <2>3. QED
    BY <1>3, <2>1, <2>2
<1>4. CASE io.to = "inbuf" /\ errnum' = 0
  <2>1. /\ InGunzip /\ InWindow /\ Filling /\ Place = io.back /\ io.back \in Decoder
        /\ io.len = 0
    BY <1>1, <1>2, <1>4 DEF InGunzip, InWindow, Filling, Place, Moves, Calls, BlockReturn
  <2>2. InGunzip' /\ InWindow' /\ ~Filling' /\ Place' = Place
    BY <1>1, <2>1 DEF InGunzip, InWindow, Filling, Place, Decoder, Inside
  <2>3. PICK s \in 1..file.max, q \in 1..file.max : DecodesAt(s, q)
    BY <1>1, <1>4, <2>1, Decoding1
  <2>4. filepos \in Nat
    BY <1>2 DEF Kinds
  <2>5. InputAt(s, q)'
    <3>1. RawPos' = filepos /\ RawPos = filepos /\ Piece(s)' = Piece(s)
      BY <1>1, <2>1, <2>2 DEF RawPos, Piece
    <3>2. InputAt(s, q)
      BY <2>3 DEF DecodesAt
    <3>3. filepos + 0 = filepos
      BY <2>4
    <3>4. s < file.max /\ filepos = s + Piece(s)
      BY <2>1, <3>1, <3>2, <3>3 DEF InputAt
    <3>5. QED
      BY <1>1, <2>2, <3>1, <3>2, <3>4 DEF InputAt
  <2>6. Reached' = Reached /\ State(q)' = State(q)
    BY <1>1, <2>1, <2>2 DEF Reached, State
  <2>7. DecodesAt(s, q)'
    BY <1>1, <2>1, <2>2, <2>3, <2>5, <2>6 DEF DecodesAt
  <2>8. QED
    BY <1>1, <2>7 DEF DecoderInv
<1>5. QED
  BY <1>2, <1>3, <1>4

\* Outside inflate_window, the gzipped file and its positions stay.
LEMMA Remains ==
  ASSUME ReadInv, SoundStreams, errnum = 0, ~InWindow, ~InWindow',
         InGunzip \/ compressed_file, RawPos' = RawPos, UNCHANGED <<file, inbuf, bufloc, inflate>>
  PROVE  DecoderInv'
<1>1. PICK s \in 1..file.max, q \in 1..file.max : DecodesAt(s, q)
  BY Decoding1
<1>2. ~Filling /\ ~Filling'
  BY DEF Filling, InWindow
<1>3. InputAt(s, q)'
  BY <1>1, <1>2, SameInput DEF DecodesAt
<1>4. Reached' = Reached /\ State(q)' = State(q)
  BY DEF Reached, State
<1>5. DecodesAt(s, q)'
  BY <1>1, <1>3, <1>4 DEF DecodesAt
<1>6. QED
  BY <1>5 DEF DecoderInv

\* From the beginning of the data.
LEMMA Afresh ==
  ASSUME SoundStreams, file' \in Gzipped, ~InWindow', RawPos' = 1, bufloc' = 0,
         inflate \in Inflates, inflate' = Initialized(inflate)
  PROVE  DecoderInv'
<1>1. file' \in Files /\ file'.max \in Nat \ {0} /\ SoundStream(file')
  BY Zips DEF SoundStreams
<1>2. 1 \in 1..file'.max
  BY <1>1
<1>3. State(1)' = Start
  <2>1. Decoding[file'][0] = Start
    BY <1>1, DecodingSteps
  <2>2. QED
    BY <2>1 DEF State
<1>4. ~Filling'
  BY DEF Filling, InWindow
<1>5. InputAt(1, 1)'
  <2>1. \A k \in 1..(1 - 1) : inbuf'[k] = SymbolAt(file', 1 + k - 1)
    OBVIOUS
  <2>2. 1 <= 1 /\ 1 = 1 + 0
    OBVIOUS
  <2>3. QED
    BY <1>4, <2>1, <2>2 DEF InputAt
<1>6. inflate'.saved_filepos = 0 /\ inflate'.block_len = 0 /\ inflate'.last_block = FALSE
  BY DEF Initialized, Inflates
<1>7. Start.in = "head" /\ Start.out = <<>>
  BY DEF Start
<1>8. Reached' = 0
  BY <1>6 DEF Reached
<1>9. InBlock(inflate', Start)
  BY <1>6, <1>7 DEF InBlock
<1>10. Shows(inflate', 0, Start)
  <2>1. 0 % WSIZE = 0
    BY Constants, SMT
  <2>2. Len(Start.out) = 0
    BY <1>7
  <2>3. Holds(inflate'.slide, Start.out, 0)
    BY DEF Holds
  <2>4. QED
    BY <1>6, <1>7, <2>1, <2>2, <2>3 DEF Shows
<1>11. Ended(inflate', Start)
  BY <1>6 DEF Ended
<1>12. DecodesAt(1, 1)'
  BY <1>3, <1>5, <1>8, <1>9, <1>10, <1>11 DEF DecodesAt
<1>13. QED
  BY <1>2, <1>12 DEF DecoderInv

\* gunzip_read goes on where the window is, or from the beginning.
LEMMA GunzipReadStep ==
  ASSUME ReadInv, SoundStreams, compressed_file, ~InGunzip, errnum = 0,
         GunzipRead, UNCHANGED <<file, inbuf>>
  PROVE  DecoderInv'
<1>1. /\ pc' = "serve" /\ ~InWindow' /\ InGunzip' /\ ~InWindow
      /\ filepos' = IF Behind THEN gzip.data_offset ELSE gzip.filepos
      /\ inflate' = IF Behind THEN Initialized(inflate) ELSE inflate
      /\ bufloc' = IF Behind THEN 0 ELSE bufloc
  BY DEF GunzipRead, InWindow, InGunzip, Inside, Decoder
<1>2. inflate \in Inflates /\ file \in Gzipped /\ gzip.data_offset = 1
  BY Decoding1, InvParts DEF Kinds, Positions
<1>3. RawPos' = filepos' /\ RawPos = gzip.filepos
  BY <1>1 DEF RawPos
<1>4. CASE Behind
  BY <1>1, <1>2, <1>3, <1>4, Afresh
<1>5. CASE ~Behind
  BY <1>1, <1>3, <1>5, Remains
<1>6. QED
  BY <1>4, <1>5

\* A step of grub_read, at the beginning or between two chunks.
LEMMA ReadFuncStep ==
  ASSUME ReadInv, SoundStreams, pc \in {"idle", "test", "chunk"}, compressed_file => errnum = 0,
         NEW out, \/ ReadFunc(out)
                  \/ pc' = "done" /\ UNCHANGED <<compressed_file, gzip, inflate, bufloc>>,
         UNCHANGED <<file, inbuf>>
  PROVE  DecoderInv'
<1>1. ~InGunzip /\ ~InWindow
  BY DEF InGunzip, InWindow, Inside, Decoder
<1>2. CASE ~compressed_file /\ BlockCall(out)
  <2>1. ~InGunzip' /\ ~compressed_file'
    BY <1>2 DEF BlockCall, InGunzip, Inside
  <2>2. QED
    BY <2>1 DEF DecoderInv
<1>3. CASE compressed_file /\ GunzipRead
  BY <1>1, <1>3, GunzipReadStep
<1>4. CASE pc' = "done" /\ UNCHANGED <<compressed_file, gzip, inflate, bufloc>>
  <2>1. ~InGunzip' /\ ~InWindow'
    BY <1>4 DEF InGunzip, InWindow, Inside, Decoder
  <2>2. CASE compressed_file
    <3>1. RawPos' = RawPos
      BY <1>1, <1>4, <2>1 DEF RawPos
    <3>2. QED
      BY <1>1, <1>4, <2>1, <2>2, <3>1, Remains
  <2>3. CASE ~compressed_file
    BY <1>4, <2>1, <2>3 DEF DecoderInv
  <2>4. QED
    BY <2>2, <2>3
<1>5. QED
  BY <1>2, <1>3, <1>4 DEF ReadFunc

LEMMA CallersStep ==
  ASSUME ReadInv, SoundStreams, Read \/ Test \/ Chunk
  PROVE  DecoderInv'
<1>1. CASE Read
  <2>1. PICK n \in Lengths : GrubRead(n, FALSE)
    BY <1>1 DEF Read
  <2>2. /\ pc = "idle" /\ UNCHANGED <<file, inbuf>> /\ (compressed_file => errnum = 0)
        /\ \E out : \/ ReadFunc(out)
                    \/ pc' = "done" /\ UNCHANGED <<compressed_file, gzip, inflate, bufloc>>
    BY <1>1, <2>1 DEF Read, GrubRead
  <2>3. QED
    BY <2>2, ReadFuncStep
<1>2. CASE Test
  <2>1. /\ pc = "test" /\ UNCHANGED <<file, inbuf>> /\ errnum = 0
        /\ \E out : \/ ReadFunc(out)
                    \/ pc' = "done" /\ UNCHANGED <<compressed_file, gzip, inflate, bufloc>>
    BY <1>2, InvParts DEF Test, GrubRead, Reading
  <2>2. QED
    BY <2>1, ReadFuncStep
<1>3. CASE Chunk
  <2>1. /\ pc = "chunk" /\ UNCHANGED <<file, inbuf, errnum>>
        /\ \E out : \/ ReadFunc(out)
                    \/ pc' = "done" /\ UNCHANGED <<compressed_file, gzip, inflate, bufloc>>
    BY <1>3 DEF Chunk
  <2>2. CASE errnum = 0
    BY <2>1, <2>2, ReadFuncStep
  <2>3. CASE errnum # 0
    BY <2>1, <2>3 DEF DecoderInv
  <2>4. QED
    BY <2>2, <2>3
<1>4. QED
  BY <1>1, <1>2, <1>3

\* The rest of gunzip_read, and of the callers.
LEMMA OthersStep ==
  ASSUME ReadInv, SoundStreams,
         ServeMore \/ Serve \/ GunzipReturn \/ Seek \/ ReadDone \/ TestDone \/ OpenFails
  PROVE  DecoderInv'
<1>1. CASE errnum' # 0
  BY <1>1 DEF DecoderInv
<1>2. CASE errnum' = 0 /\ (ServeMore \/ Serve \/ GunzipReturn)
  <2>1. /\ pc \in {"serve", "window"} /\ errnum = 0 /\ UNCHANGED <<file, inbuf, bufloc, inflate>>
        /\ pc' \in {"serve", "window", "chunk"}
    BY <1>2 DEF ServeMore, Serve, GunzipReturn
  <2>2. InGunzip /\ ~InWindow /\ ~InWindow'
    BY <2>1 DEF InGunzip, InWindow, Inside, Decoder
  <2>3. RawPos' = RawPos
    <3>1. gzip \in Gzips
      BY InvParts DEF Kinds
    <3>2. CASE ServeMore \/ Serve
      BY <2>1, <3>2 DEF ServeMore, Serve, RawPos, InGunzip, Inside
    <3>3. CASE GunzipReturn
      BY <2>1, <3>1, <3>3 DEF GunzipReturn, RawPos, InGunzip, Inside, Gzips
    <3>4. QED
      BY <1>2, <3>2, <3>3
  <2>4. QED
    BY <2>1, <2>2, <2>3, Remains
<1>3. CASE errnum' = 0 /\ (Seek \/ ReadDone \/ TestDone)
  <2>1. /\ pc \in {"idle", "done"} /\ pc' = "idle" /\ errnum = 0
        /\ UNCHANGED <<file, inbuf, bufloc, inflate, gzip>> /\ compressed_file' \in {compressed_file, FALSE}
    BY <1>3 DEF Seek, ReadDone, TestDone
  <2>2. ~InGunzip /\ ~InGunzip' /\ ~InWindow /\ ~InWindow'
    BY <2>1 DEF InGunzip, InWindow, Inside, Decoder
  <2>3. RawPos' = RawPos
    BY <2>1, <2>2 DEF RawPos
  <2>4. CASE compressed_file
    BY <2>1, <2>2, <2>3, <2>4, Remains
  <2>5. CASE ~compressed_file
    BY <2>1, <2>2, <2>5 DEF DecoderInv
  <2>6. QED
    BY <2>4, <2>5
<1>4. QED
  BY <1>1, <1>2, <1>3 DEF OpenFails

LEMMA OpenStep == ASSUME ReadInv, SoundStreams, Open PROVE DecoderInv'
<1>1. PICK f \in Files :
        /\ file' = f
        /\ IF SymbolAt(f, 0).is = "header"
           THEN /\ gzip' = [filepos |-> 1, filemax |-> f.max, data_offset |-> 1]
                /\ inflate' = Initialized(inflate) /\ bufloc' = 0 /\ pc' = "test"
           ELSE compressed_file' = FALSE /\ pc' = pc
  BY DEF Open
<1>2. pc = "idle" /\ inflate \in Inflates
  BY InvParts DEF Open, Kinds
<1>3. ~InGunzip' /\ ~InWindow'
  BY <1>1, <1>2 DEF InGunzip, InWindow, Inside, Decoder
<1>4. CASE SymbolAt(f, 0).is = "header"
  <2>1. RawPos' = 1 /\ file' \in Gzipped
    BY <1>1, <1>3, <1>4 DEF RawPos, Gzipped
  <2>2. QED
    BY <1>1, <1>2, <1>3, <1>4, <2>1, Afresh
<1>5. CASE SymbolAt(f, 0).is # "header"
  BY <1>1, <1>3, <1>5 DEF DecoderInv
<1>6. QED
  BY <1>4, <1>5

\* Every step.
LEMMA DecoderNext == ASSUME ReadInv, SoundStreams, Next PROVE DecoderInv'
<1>1. CASE Gunzip
  BY <1>1, OthersStep, NextWindowStep, RefillStep, InflateStep, WindowDoneStep, HeadStep, StoredStep,
     LiteralStep, CopyStep, EndStep, PrefixStep, BadStep, DoCopyStep DEF Gunzip
<1>2. CASE Work
  BY <1>1, <1>2, BlockReadStep, BlockReturnStep, CallersStep, OthersStep DEF Work
<1>3. CASE Read \/ Seek \/ Open \/ OpenFails
  BY <1>3, CallersStep, OthersStep, OpenStep
<1>4. QED
  BY <1>2, <1>3 DEF Next

-----------------------------------------------------------------------------
(* Errors in the decoder *)

LEMMA FaultyNext ==
  ASSUME ReadInv, SoundStreams, "coded" \notin Failing, Next
  PROVE  Faulty'
<1>1. CASE errnum' = 0
  BY <1>1 DEF Faulty
<1>2. CASE errnum' # 0 /\ BlockRead
  <2>1. /\ pc = "blocks" /\ pc' = "blocks" /\ errnum = 0 /\ UNCHANGED <<file, gzip, inflate, bufloc>>
        /\ filepos' = filepos + Size(cur', filepos, io.len)
        /\ io' = [io EXCEPT !.len = io.len - Size(cur', filepos, io.len),
                            !.done = io.done + Size(cur', filepos, io.len)]
        /\ MayFail
    BY <1>2 DEF BlockRead, Moved
  <2>2. Kinds /\ Calls /\ Positions /\ io \in Moves /\ io.to \in {"caller", "inbuf"}
    BY InvParts DEF Kinds, Moves
  <2>3. io'.to = io.to /\ io'.back = io.back
    BY <2>1, <2>2 DEF Moves
  <2>4. CASE io.to = "caller"
    BY <2>1, <2>3, <2>4 DEF Faulty, InWindow, Decoder
  <2>5. CASE io.to = "inbuf"
    <3>1. io.back # "codes"
      BY <2>1, <2>5 DEF MayFail
    <3>2. InGunzip /\ Filling /\ INBUFSIZ \in Nat \ {0}
      BY <2>1, <2>5, Constants DEF InGunzip, Filling
    <3>3. PICK s \in 1..file.max, q \in 1..file.max : DecodesAt(s, q)
      BY <2>1, <3>2, Decoding1
    <3>4. bufloc = 0 /\ s <= filepos /\ filepos \in Nat /\ gzip.data_offset = 1 /\ file.max \in Nat
      BY <2>1, <2>2, <3>2, <3>3, Decoding1 DEF DecodesAt, InputAt, RawPos, Kinds, Positions
    <3> DEFINE size == Size(cur', filepos, io.len)
    <3>5. size \in Nat \ {0}
      <4>1. size \in 1..io.len /\ io.len \in Nat
        BY <1>2, <2>2, Reads, InvParts DEF Moves
      <4> HIDE DEF size
      <4>2. QED
        BY <4>1
    <3> HIDE DEF size
    <3>6. filepos' # 1
      BY <2>1, <3>4, <3>5 DEF size
    <3>7. ~Dry'
      BY <2>1, <3>2, <3>4, <3>6 DEF Dry
    <3>8. QED
      BY <2>1, <2>3, <3>1, <3>7 DEF Faulty, Place
  <2>6. QED
    BY <2>2, <2>4, <2>5
<1>3. CASE errnum' # 0 /\ BlockReturn
  <2>1. /\ pc = "blocks" /\ pc' = io.back /\ UNCHANGED <<errnum, filepos, gzip, bufloc, io>>
    BY <1>3 DEF BlockReturn
  <2>2. Kinds /\ Calls /\ io \in Moves /\ io.to \in {"caller", "inbuf"} /\ Faulty
    BY InvParts DEF Kinds, Moves
  <2>3. CASE io.to = "caller"
    BY <2>1, <2>2, <2>3 DEF Faulty, InWindow, Place, Decoder, Calls
  <2>4. CASE io.to = "inbuf"
    <3>1. InWindow /\ Place = io.back /\ io.back \in Decoder /\ Place' = io.back /\ Dry' = Dry
      BY <2>1, <2>2, <2>4 DEF InWindow, Place, Decoder, Calls, Moves, Dry
    <3>2. QED
      BY <1>3, <2>1, <2>2, <3>1 DEF Faulty
  <2>5. QED
    BY <2>2, <2>3, <2>4
<1>4. CASE errnum' # 0 /\ Refill
  <2>1. pc \in Decoder /\ Dry /\ InWindow /\ Place = pc /\ errnum' \in {0, errnum}
    BY <1>4 DEF Refill, InWindow, Place, Decoder
  <2>2. errnum = 0
    BY <2>1, InvParts DEF Faulty
  <2>3. QED
    BY <1>4, <2>1, <2>2
<1>5. CASE errnum' # 0 /\ pc = "codes" /\ Gunzip
  <2>1. errnum = 0
    BY <1>5, InvParts DEF Faulty, InWindow, Place, Decoder
  <2>2. CASE Refill
    BY <1>4, <1>5, <2>2
  <2>3. CASE DecodeBad
    BY <2>3 DEF DecodeBad, Faulty, Place, Decoder
  <2>4. QED
    BY <1>5, <2>1, <2>2, <2>3 DEF Gunzip, ServeMore, NextWindow, Serve, GunzipReturn, Inflate,
       WindowDone, WindowDoneAt, GetNewBlock, StoredByte, DecodeLiteral, DecodeCopy, DecodeEnd,
       DecodePrefix, DoCopy
<1>6. CASE errnum' # 0 /\ pc # "codes" /\ Gunzip
  <2>1. CASE Refill
    BY <1>4, <1>6, <2>1
  <2>2. CASE Inflate
    BY <1>6, <2>2 DEF Inflate
  <2>3. CASE ServeMore \/ NextWindow \/ Serve \/ GunzipReturn \/ WindowDone \/ GetNewBlock \/ StoredByte
    <3>1. pc' \in {"serve", "window", "chunk", "inflate"}
      BY <1>6, <2>3 DEF ServeMore, NextWindow, Serve, GunzipReturn, WindowDone, WindowDoneAt, GetNewBlock,
         StoredByte
    <3>2. QED
      BY <3>1 DEF Faulty, Place, Decoder
  <2>4. CASE DecodeLiteral \/ DecodeCopy \/ DecodeEnd \/ DecodePrefix \/ DecodeBad \/ DoCopy
    BY <1>6, <2>4 DEF DecodeLiteral, DecodeCopy, DecodeEnd, DecodePrefix, DecodeBad, DoCopy, TakeCode
  <2>5. QED
    BY <1>6, <2>1, <2>2, <2>3, <2>4 DEF Gunzip
<1>7. CASE Read \/ Seek \/ Open \/ OpenFails \/ Chunk \/ ReadDone \/ Test \/ TestDone
  <2>1. ~InWindow'
    <3>1. CASE Read \/ Test \/ Chunk
      <4>1. pc' \in {"done", "serve"} \/ (pc' = "blocks" /\ io'.to = "caller")
        <5>1. pc' = "done" \/ \E out : ReadFunc(out)
          BY <3>1 DEF Read, Test, Chunk, GrubRead
        <5>2. ASSUME NEW out, ReadFunc(out) PROVE pc' = "serve" \/ (pc' = "blocks" /\ io'.to = "caller")
          BY <5>2 DEF ReadFunc, BlockCall, GunzipRead
        <5>3. QED
          BY <5>1, <5>2
      <4>2. QED
        BY <4>1 DEF InWindow, Decoder
    <3>2. CASE Seek \/ Open \/ OpenFails \/ ReadDone \/ TestDone
      <4>1. pc' \in {"idle", "test"}
        BY <3>2 DEF Seek, Open, OpenFails, ReadDone, TestDone
      <4>2. QED
        BY <4>1 DEF InWindow, Decoder
    <3>3. QED
      BY <1>7, <3>1, <3>2
  <2>2. QED
    BY <2>1 DEF Faulty
<1>8. QED
  BY <1>1, <1>2, <1>3, <1>5, <1>6, <1>7 DEF Next, Work

-----------------------------------------------------------------------------
(* What the caller is given *)

LEMMA ZippedIs == Kinds /\ Calls => (Zipped <=> compressed_file \/ InGunzip)
BY DEF Zipped, InGunzip, Inside

\* The decoder's own steps.
LEMMA InsideStep ==
  ASSUME ReadInv, InGunzip, InGunzip', errnum' = 0 => errnum = 0,
         UNCHANGED <<file, gzip, call, result>>,
         gzip.filepos + WSIZE >= inflate'.saved_filepos,
         InWindow' => gzip.filepos >= inflate'.saved_filepos,
         InWindow' \/ pc' = "window" => Wanted > 0
  PROVE  Answering' /\ Reading'
<1>1. Answering /\ Reading
  BY InvParts
<1>2. /\ pc \notin {"idle", "test", "done", "chunk"} /\ pc' \notin {"idle", "test", "done", "chunk"}
      /\ ~ (pc = "blocks" /\ io.to = "caller") /\ ~ (pc = "blocks" /\ io.to = "caller")'
  BY DEF InGunzip, Inside
<1>3. Zipped /\ Zipped'
  BY DEF Zipped, InGunzip, Inside
<1>4. Content' = Content
  BY <1>3 DEF Content
<1>5. Limit' = Limit /\ Position' = Position /\ Got' = Got /\ Wanted' = Wanted
  BY <1>2 DEF Limit, Position, Got, Wanted
<1>6. \A n : OutIs(n)' <=> OutIs(n)
  BY <1>4 DEF OutIs
<1>7. Asked' <=> Asked
  BY <1>5 DEF Asked
<1>8. Answering'
  BY <1>1, <1>2, <1>5, <1>6, <1>7 DEF Answering
<1>9. Reading'
  <2>1. Testing' <=> Testing
    BY <1>2 DEF Testing
  <2>2. QED
    BY <1>1, <1>2, <1>5, <2>1 DEF Reading
<1>10. QED
  BY <1>8, <1>9

LEMMA DecoderAnswers ==
  ASSUME ReadInv, SoundStreams,
         \/ ServeMore \/ NextWindow \/ Refill \/ Inflate \/ WindowDone \/ GetNewBlock \/ StoredByte
         \/ DecodeLiteral \/ DecodeCopy \/ DecodeEnd \/ DecodePrefix \/ DecodeBad \/ DoCopy
  PROVE  Answering' /\ Reading'
<1>1. Kinds /\ Inflating /\ Faulty /\ Reading /\ inflate \in Inflates /\ gzip.filepos \in Nat
      /\ WSIZE \in Nat
  BY InvParts, Constants DEF Kinds, Gzips
<1>2. CASE ServeMore
  <2>1. InGunzip /\ InGunzip' /\ ~InWindow'
    BY <1>2 DEF ServeMore, InGunzip, InWindow, Inside, Decoder
  <2>2. gzip.filepos + WSIZE >= inflate'.saved_filepos
    BY <1>1, <1>2, <2>1 DEF ServeMore, Reading
  <2>3. QED
    BY <1>2, <2>1, <2>2, InsideStep DEF ServeMore
<1>3. CASE NextWindow
  <2>1. InGunzip /\ InGunzip' /\ pc = "window" /\ Wanted > 0
    BY <1>1, <1>3 DEF NextWindow, InGunzip, Inside, Reading
  <2>2. inflate'.saved_filepos = inflate.saved_filepos /\ gzip.filepos >= inflate.saved_filepos
        /\ inflate.saved_filepos \in Nat
    BY <1>1, <1>3 DEF NextWindow, Inflates
  <2>3. gzip.filepos + WSIZE >= inflate'.saved_filepos
    BY <1>1, <2>2
  <2>4. QED
    BY <1>3, <2>1, <2>2, <2>3, InsideStep DEF NextWindow
<1>4. CASE WindowDone
  <2>1. InGunzip /\ InGunzip' /\ InWindow /\ ~InWindow'
    BY <1>4 DEF WindowDone, WindowDoneAt, InGunzip, InWindow, Inside, Decoder
  <2>2. inflate'.saved_filepos = inflate.saved_filepos + WSIZE /\ inflate.saved_filepos \in Nat
    BY <1>1, <1>4 DEF WindowDone, WindowDoneAt, Inflates
  <2>3. gzip.filepos >= inflate.saved_filepos /\ Wanted > 0
    BY <1>1, <2>1 DEF Reading
  <2>4. gzip.filepos + WSIZE >= inflate'.saved_filepos
    BY <1>1, <2>2, <2>3
  <2>5. QED
    BY <1>4, <2>1, <2>3, <2>4, InsideStep DEF WindowDone, WindowDoneAt, decoding
<1>5. CASE \/ Refill \/ Inflate \/ GetNewBlock \/ StoredByte
           \/ DecodeLiteral \/ DecodeCopy \/ DecodeEnd \/ DecodePrefix \/ DecodeBad \/ DoCopy
  <2>1. pc \in {"inflate"} \cup Decoder /\ UNCHANGED <<file, gzip, call, result>>
    BY <1>5 DEF Refill, Inflate, GetNewBlock, StoredByte, DecodeLiteral, DecodeCopy, DecodeEnd,
       DecodePrefix, DecodeBad, DoCopy, TakeCode, Decoder, decoding
  <2>2. InGunzip /\ InWindow /\ Place = pc
    BY <2>1 DEF InGunzip, InWindow, Inside, Decoder, Place
  <2>3. InGunzip'
    <3>1. CASE Refill
      <4>1. pc' = pc \/ (pc' = "blocks" /\ io'.to = "inbuf")
        BY <3>1 DEF Refill
      <4>2. QED
        BY <2>1, <4>1 DEF InGunzip, Inside, Decoder
    <3>2. CASE Inflate \/ GetNewBlock \/ StoredByte
      <4>1. pc' \in {"head", "stored", "codes", "inflate", "window"}
        BY <1>1, <3>2 DEF Inflate, GetNewBlock, StoredByte, Inflates
      <4>2. QED
        BY <4>1 DEF InGunzip, Inside
    <3>3. CASE DecodeLiteral \/ DecodeCopy \/ DecodeEnd \/ DecodePrefix \/ DecodeBad \/ DoCopy
      <4>1. pc' \in {"codes", "inflate"}
        BY <3>3 DEF DecodeLiteral, DecodeCopy, DecodeEnd, DecodePrefix, DecodeBad, DoCopy, TakeCode,
           Written
      <4>2. QED
        BY <4>1 DEF InGunzip, Inside
    <3>4. QED
      BY <1>5, <3>1, <3>2, <3>3
  <2>4. errnum' = 0 => errnum = 0
    <3>1. CASE Refill
      BY <1>1, <2>1, <2>2, <3>1 DEF Refill, Faulty, Decoder
    <3>2. CASE ~Refill
      BY <1>5, <3>2 DEF Inflate, GetNewBlock, StoredByte, DecodeLiteral, DecodeCopy, DecodeEnd,
         DecodePrefix, DecodeBad, DoCopy
    <3>3. QED
      BY <3>1, <3>2
  <2>5. inflate'.saved_filepos = inflate.saved_filepos
    <3>1. CASE Refill \/ Inflate \/ DecodePrefix \/ DecodeBad
      BY <3>1 DEF Refill, Inflate, DecodePrefix, DecodeBad
    <3>2. CASE GetNewBlock
      BY <1>1, <3>2 DEF GetNewBlock, BlockHeader, Inflates
    <3>3. CASE StoredByte \/ DecodeLiteral \/ DecodeCopy \/ DecodeEnd
      BY <1>1, <3>3 DEF StoredByte, DecodeLiteral, DecodeCopy, DecodeEnd, Inflates
    <3>4. CASE DoCopy
      <4>1. \E e, g : Copied = [inflate EXCEPT !.slide = g, !.wp = inflate.wp + e,
                          !.inflate_n = inflate.inflate_n - e,
                          !.inflate_d = (inflate.inflate_d + e) % WSIZE]
        BY <1>1, Copies
      <4>2. PICK e, g : Copied = [inflate EXCEPT !.slide = g, !.wp = inflate.wp + e,
                          !.inflate_n = inflate.inflate_n - e,
                          !.inflate_d = (inflate.inflate_d + e) % WSIZE]
        BY <4>1
      <4> DEFINE a == inflate.wp + e
                 b == inflate.inflate_n - e
                 d == (inflate.inflate_d + e) % WSIZE
                 c == Copied
      <4>3. /\ c = [inflate EXCEPT !.slide = g, !.wp = a, !.inflate_n = b, !.inflate_d = d]
            /\ inflate' = [c EXCEPT !.code_state = Rest(c)]
        BY <3>4, <4>2 DEF DoCopy
      <4> HIDE DEF a, b, c, d
      <4>4. QED
        BY <1>1, <4>3 DEF Inflates
    <3>5. QED
      BY <1>5, <3>1, <3>2, <3>3, <3>4
  <2>6. /\ gzip.filepos >= inflate.saved_filepos /\ Wanted > 0
        /\ gzip.filepos + WSIZE >= inflate.saved_filepos
    BY <1>1, <2>2 DEF Reading
  <2>7. QED
    BY <2>1, <2>2, <2>3, <2>4, <2>5, <2>6, InsideStep
<1>6. QED
  BY <1>2, <1>3, <1>4, <1>5

\* What the window holds is the data's, as far as it goes.
LEMMA Shown ==
  ASSUME ReadInv, SoundStreams, errnum = 0, InGunzip \/ compressed_file, ~InWindow,
         NEW p \in Nat, p < inflate.saved_filepos, p + WSIZE >= inflate.saved_filepos, p < Limit
  PROVE  p < Len(Decoded[file]) /\ inflate.slide[p % WSIZE] = Decoded[file][p + 1]
<1>1. PICK s \in 1..file.max, q \in 1..file.max : DecodesAt(s, q)
  BY Decoding1
<1>2. inflate \in Inflates /\ file \in Gzipped
  BY Decoding1, InvParts DEF Kinds
<1> DEFINE D == State(q)
           v == inflate.saved_filepos
           w == inflate.wp
           r == Reached
<1>3. /\ D \in States /\ D.out \in Seq(Data) /\ Shows(inflate, r, D) /\ Ended(inflate, D)
      /\ Begins(D.out, Decoded[file]) /\ Decoded[file] \in Seq(Data)
      /\ D.in = "end" => D.out = Decoded[file]
      /\ D.in = "end" => SymbolAt(file, file.max - 1).size = Len(Decoded[file])
  BY <1>1, <1>2, Stream DEF DecodesAt
<1>4. Limit = SymbolAt(file, file.max - 1).size
  BY InvParts DEF Reading
<1> HIDE DEF D
<1>5. v \in Nat /\ w \in 0..WSIZE /\ WSIZE \in Nat \ {0} /\ r = IF v = 0 THEN 0 ELSE v - WSIZE + w
  BY <1>2, Constants DEF Inflates, Reached
<1>6. r <= Len(D.out) /\ Holds(inflate.slide, D.out, r) /\ (D.in = "end" => Len(D.out) = r)
  BY <1>3 DEF Shows
<1>7. w = WSIZE \/ D.in = "end"
  BY <1>3, <1>5 DEF Ended
<1>8. Len(D.out) \in Nat /\ Len(Decoded[file]) \in Nat /\ Len(D.out) <= Len(Decoded[file])
  BY <1>3 DEF Begins
<1>9. D.in = "end" => p < r
  BY <1>3, <1>4, <1>6
<1>10. p < v /\ p + WSIZE >= v
  OBVIOUS
<1> HIDE DEF v, w, r
<1>11. p < r /\ p + WSIZE >= r /\ p \in 0..(r - 1) /\ p + 1 \in 1..Len(D.out)
  BY <1>5, <1>6, <1>7, <1>8, <1>9, <1>10
<1>12. inflate.slide[p % WSIZE] = D.out[p + 1]
  BY <1>6, <1>11 DEF Holds
<1>13. Decoded[file][p + 1] = D.out[p + 1]
  BY <1>3, <1>11 DEF Begins
<1>14. p < Len(Decoded[file])
  BY <1>8, <1>11
<1>15. QED
  BY <1>12, <1>13, <1>14

\* More is added to what the caller has.
LEMMA OutGrows ==
  ASSUME NEW out \in Seq(Data), NEW part \in Seq(Data), NEW b \in Nat, NEW all,
         Agrees(out, b, all, Len(out)), Agrees(part, b + Len(out), all, Len(part))
  PROVE  /\ Len(out \o part) = Len(out) + Len(part)
         /\ Agrees(out \o part, b, all, Len(out) + Len(part))
         /\ \A k \in 1..Len(out) : (out \o part)[k] = out[k]
<1> DEFINE l == Len(out)
           m == Len(part)
           new == out \o part
<1>1. /\ Len(new) = l + m /\ (\A k \in 1..l : new[k] = out[k]) /\ l \in Nat /\ m \in Nat
      /\ \A k \in 1..m : new[l + k] = part[k]
  BY Joined
<1>0. /\ \A k \in 1..l : b + k <= Len(all) /\ out[k] = all[b + k]
      /\ \A k \in 1..m : b + l + k <= Len(all) /\ part[k] = all[b + l + k]
  BY DEF Agrees
<1> HIDE DEF l, m, new
<1>2. ASSUME NEW k \in 1..(l + m) PROVE b + k <= Len(all) /\ new[k] = all[b + k]
  <2>1. CASE k <= l
    <3>1. k \in 1..l
      BY <1>1, <2>1
    <3>2. QED
      BY <1>0, <1>1, <3>1
  <2>2. CASE ~ (k <= l)
    <3>1. k - l \in 1..m /\ l + (k - l) = k /\ b + l + (k - l) = b + k
      BY <1>1, <2>2
    <3>2. new[l + (k - l)] = part[k - l]
      BY <1>1, <3>1
    <3>3. b + l + (k - l) <= Len(all) /\ part[k - l] = all[b + l + (k - l)]
      BY <1>0, <3>1
    <3>4. QED
      BY <3>1, <3>2, <3>3
  <2>3. QED
    BY <2>1, <2>2
<1>3. Agrees(new, b, all, l + m)
  BY <1>2 DEF Agrees
<1>4. QED
  BY <1>1, <1>3 DEF l, m, new

LEMMA ServeAnswers == ASSUME ReadInv, SoundStreams, Serve PROVE Answering' /\ Reading'
<1>0. Kinds /\ Calls /\ Answering /\ Reading /\ CursorInv /\ Positions
  BY InvParts
<1>1. PICK size \in Nat, part \in Seq(Data) :
           /\ size <= Wanted /\ gzip.filepos + size <= inflate.saved_filepos
           /\ part = [k \in 1..size |-> inflate.slide[(gzip.filepos + k - 1) % WSIZE]]
           /\ Len(part) = size
           /\ gzip' = [gzip EXCEPT !.filepos = gzip.filepos + size]
           /\ call' = [call EXCEPT !.last = call.last + size, !.out = call.out \o part]
  BY <1>0, Served
<1>2. /\ pc = "window" /\ pc' = "serve" /\ InGunzip /\ InGunzip' /\ ~InWindow /\ ~InWindow' /\ Wanted > 0
      /\ UNCHANGED <<file, errnum, inflate, result>>
  BY <1>0 DEF Serve, InGunzip, InWindow, Inside, Decoder, Reading
<1> DEFINE p == gzip.filepos
           b == call.start
           c == call.count
           l == call.last
           out == call.out
           new == call.out \o part
           x == call.last + size
           y == gzip.filepos + size
<1>3. /\ p \in Nat /\ b \in Nat /\ c \in Nat /\ l \in Nat /\ out \in Seq(Data) /\ gzip \in Gzips
      /\ call \in Requests
  BY <1>0 DEF Kinds, Gzips, Requests
<1>4. /\ gzip' = [gzip EXCEPT !.filepos = y] /\ call' = [call EXCEPT !.last = x, !.out = new]
      /\ new = out \o part /\ x = l + size /\ y = p + size
  BY <1>1
<1>5. /\ Wanted \in Nat /\ p + Wanted <= gzip.filemax /\ p = b + c + l /\ gzip.filemax \in Nat
  BY <1>0, <1>2, <1>3, WantedThere, WantedRight DEF Gzips
<1>6. p + size <= inflate.saved_filepos /\ p + WSIZE >= inflate.saved_filepos
      /\ inflate.saved_filepos \in Nat /\ WSIZE \in Nat
  BY <1>0, <1>1, <1>2, Constants DEF Reading, Kinds, Inflates
<1> HIDE DEF p, b, c, l, out, new, x, y
<1>7. /\ gzip'.filepos = y /\ gzip'.filemax = gzip.filemax /\ call'.last = x /\ call'.out = new
      /\ call'.start = b /\ call'.count = c /\ call'.len = call.len /\ call'.asked = call.asked
      /\ call'.test = call.test
  BY <1>3, <1>4 DEF Gzips, Requests, b, c
<1>8. /\ ~ (pc = "blocks" /\ io.to = "caller") /\ ~ (pc = "blocks" /\ io.to = "caller")'
      /\ Zipped /\ Zipped' /\ file \in Gzipped
  BY <1>0, <1>2 DEF Zipped, InGunzip, Inside, Positions
<1>9. Content' = Content /\ Content = Decoded[file]
  BY <1>2, <1>8, Zips DEF Content
<1>10. Limit' = gzip.filemax /\ Limit = gzip.filemax /\ Position' = y /\ Position = p
       /\ Got' = c + x /\ Got = c + l
  BY <1>2, <1>7, <1>8 DEF Limit, Position, Got, p, c, l
<1>11. /\ c <= Len(out) /\ OutIs(c) /\ c < call.len
       /\ errnum = 0 => Len(out) = c + l /\ OutIs(c + l)
  BY <1>0, <1>2, <1>10 DEF Answering, out, c
<1>12. Len(new) = Len(out) + size /\ \A k \in 1..Len(out) : new[k] = out[k]
  BY <1>1, <1>3, <1>4, Joined
<1>13. Len(out) \in Nat
  BY <1>3
<1>14. c <= Len(new) /\ Agrees(new, b, Content, c)
  <2>1. c <= Len(new)
    BY <1>3, <1>11, <1>12, <1>13
  <2>2. \A k \in 1..c : k \in 1..Len(out)
    BY <1>3, <1>11, <1>13
  <2>3. \A k \in 1..c : new[k] = out[k]
    BY <1>12, <2>2
  <2>4. QED
    BY <1>11, <2>1, <2>3 DEF OutIs, Agrees, out, b
<1>15. ASSUME errnum = 0 PROVE Len(new) = c + x /\ Agrees(new, b, Content, c + x)
  <2> DEFINE all == Decoded[file]
  <2>1. Agrees(out, b, all, Len(out))
    BY <1>9, <1>11, <1>15 DEF OutIs, b, out
  <2>2. ASSUME NEW k \in 1..size PROVE b + Len(out) + k <= Len(all) /\ part[k] = all[b + Len(out) + k]
    <3> DEFINE z == p + k - 1
    <3>1. /\ z \in Nat /\ z < inflate.saved_filepos /\ z + WSIZE >= inflate.saved_filepos /\ z < Limit
          /\ z + 1 = b + Len(out) + k
      <4>1. size <= Wanted /\ Len(out) = c + l
        BY <1>1, <1>11, <1>15
      <4>2. QED
        BY <1>3, <1>5, <1>6, <1>10, <4>1
    <3>2. part[k] = inflate.slide[z % WSIZE]
      BY <1>1 DEF p
    <3> HIDE DEF z
    <3>3. z < Len(all) /\ inflate.slide[z % WSIZE] = all[z + 1]
      BY <1>2, <1>15, <3>1, Shown
    <3>4. Len(all) \in Nat
      <4>1. all \in Seq(Data)
        <5>1. PICK s \in 1..file.max, q \in 1..file.max : DecodesAt(s, q)
          BY <1>2, <1>15, Decoding1
        <5>2. QED
          BY <1>8, <5>1, Stream
      <4> HIDE DEF all
      <4>2. QED
        BY <4>1
    <3>5. z + 1 <= Len(all)
      BY <3>1, <3>3, <3>4
    <3>6. QED
      BY <3>1, <3>2, <3>3, <3>5
  <2> HIDE DEF all
  <2>3. Len(new) = Len(out) + size /\ Agrees(new, b, all, Len(out) + size)
    <3>1. Agrees(part, b + Len(out), all, size)
      BY <2>2 DEF Agrees
    <3>2. QED
      BY <1>1, <1>3, <1>4, <2>1, <3>1, OutGrows
  <2>4. Len(out) + size = c + x
    BY <1>3, <1>4, <1>11, <1>15
  <2>5. QED
    BY <1>9, <2>3, <2>4 DEF all
<1>16. y = b + (c + x)
  BY <1>3, <1>4, <1>5
<1>17. Asked'
  BY <1>0, <1>2, <1>7, <1>10 DEF Answering, Asked, b
<1>18. Answering'
  <2>1. call'.count <= Len(call'.out) /\ OutIs(call.count)' /\ call'.count < call'.len
    BY <1>7, <1>9, <1>11, <1>14 DEF OutIs
  <2>2. Position' = call'.start + Got'
    BY <1>7, <1>10, <1>16
  <2>3. errnum' = 0 => Len(call'.out) = Got' /\ OutIs(Got)'
    BY <1>2, <1>7, <1>9, <1>10, <1>15 DEF OutIs
  <2>4. QED
    BY <1>2, <1>17, <2>1, <2>2, <2>3 DEF Answering
<1>19. Reading'
  <2>1. Testing' <=> Testing
    BY <1>2, <1>7 DEF Testing
  <2>2. y + WSIZE >= inflate.saved_filepos
    BY <1>3, <1>4, <1>6
  <2>3. Limit = SymbolAt(file, file.max - 1).size /\ (call.test => call.start = 0 /\ call.asked = 1)
        /\ (Testing => result = Nothing)
    BY <1>0, <1>2 DEF Reading
  <2>4. QED
    BY <1>2, <1>7, <1>10, <2>1, <2>2, <2>3 DEF Reading, b
<1>20. QED
  BY <1>18, <1>19

LEMMA GunzipReturnAnswers == ASSUME ReadInv, SoundStreams, GunzipReturn PROVE Answering' /\ Reading'
<1>0. Kinds /\ Calls /\ Answering /\ Reading /\ Positions
  BY InvParts
<1>1. /\ pc = "serve" /\ pc' = "chunk" /\ InGunzip /\ ~InGunzip' /\ ~InWindow' /\ compressed_file' = TRUE
      /\ filepos' = gzip.filepos /\ filemax' = gzip.filemax /\ UNCHANGED <<file, errnum, result>>
      /\ call' = IF errnum = 0 THEN call ELSE [call EXCEPT !.last = 0]
      /\ Wanted = 0 \/ errnum # 0
  BY <1>0 DEF GunzipReturn, InGunzip, InWindow, Inside, Decoder
<1>2. /\ call'.start = call.start /\ call'.count = call.count /\ call'.len = call.len
      /\ call'.asked = call.asked /\ call'.test = call.test /\ call'.out = call.out
      /\ errnum = 0 => call'.last = call.last
      /\ errnum # 0 => call'.last = 0
      /\ call \in Requests
  BY <1>0, <1>1 DEF Kinds, Requests
<1>3. Zipped /\ Zipped'
  BY <1>1 DEF Zipped
<1>4. Content' = Content
  BY <1>1, <1>3 DEF Content
<1>5. Limit' = Limit /\ Position' = Position /\ (errnum = 0 => Got' = Got)
  BY <1>1, <1>2 DEF Limit, Position, Got
<1>6. \A n : OutIs(n)' <=> OutIs(n)
  BY <1>2, <1>4 DEF OutIs
<1>7. Asked' <=> Asked
  BY <1>2, <1>5 DEF Asked
<1>8. errnum = 0 => call.last > 0
  <2>1. ASSUME errnum = 0 PROVE call.last = Step \/ call.count + call.last = call.len
    BY <1>0, <1>1, <2>1, WantedRight
  <2>2. call.count < call.len /\ call.count \in Nat /\ call.last \in Nat /\ call.len \in Nat
        /\ Step \in Nat \ {0}
    BY <1>0, <1>1, <1>2, Constants DEF Answering, Requests
  <2>3. QED
    BY <2>1, <2>2
<1>9. Answering'
  <2>1. pc \notin {"idle", "test", "done", "chunk"}
    BY <1>1
  <2>2. call'.last > 0 <=> errnum' = 0
    <3>1. ~ (0 > 0)
      OBVIOUS
    <3>2. QED
      BY <1>1, <1>2, <1>8, <3>1
  <2>3. /\ Asked' /\ call'.count <= Len(call'.out) /\ OutIs(call.count)' /\ call'.count < call'.len
    BY <1>0, <1>2, <1>4, <1>7, <2>1 DEF Answering, OutIs
  <2>4. ASSUME errnum' = 0 PROVE Len(call'.out) = Got' /\ OutIs(Got)' /\ Position' = call'.start + Got'
    <3>1. Got' = Got /\ errnum = 0
      BY <1>1, <1>5, <2>4
    <3>2. Len(call.out) = Got /\ OutIs(Got) /\ Position = call.start + Got
      BY <1>0, <2>1, <3>1 DEF Answering
    <3>3. QED
      BY <1>2, <1>4, <1>5, <3>1, <3>2 DEF OutIs
  <2>5. QED
    BY <1>1, <2>2, <2>3, <2>4 DEF Answering
<1>10. Reading'
  <2>1. Testing' <=> Testing
    BY <1>1, <1>2 DEF Testing
  <2>2. QED
    BY <1>0, <1>1, <1>2, <1>5, <2>1 DEF Reading
<1>11. QED
  BY <1>9, <1>10

\* A file that is not gzipped, byte by byte.
LEMMA PlainBytes ==
  ASSUME NEW f \in Files
  PROVE  /\ Len(Plainly[f]) = f.max
         /\ \A k \in 1..f.max : Plainly[f][k] = ByteOf(SymbolAt(f, k - 1))
<1>1. Flat[f] \in Seq(Symbols) /\ Len(Flat[f]) = f.max /\ DOMAIN Flat[f] = 1..f.max /\ f.max \in Nat
  BY FlatFacts, Whole
<1>2. Plainly[f] = [i \in 1..f.max |-> ByteOf(Flat[f][i])]
  BY <1>1 DEF Plainly
<1>3. \A k \in 1..f.max : (k - 1) + 1 = k
  OBVIOUS
<1>4. QED
  BY <1>1, <1>2, <1>3 DEF SymbolAt

LEMMA BlockReadAnswers == ASSUME ReadInv, SoundStreams, BlockRead PROVE Answering' /\ Reading'
<1>0. Kinds /\ Calls /\ Answering /\ Reading /\ CursorInv /\ Positions /\ CursorAt
  BY InvParts
<1> DEFINE size == Size(cur', filepos, io.len)
           data == Bytes(cur', filepos, size)
           l == io.len
           d == io.done
<1>1. /\ pc = "blocks" /\ pc' = "blocks" /\ errnum = 0
      /\ UNCHANGED <<file, filemax, compressed_file, gzip, inflate, result>>
      /\ filepos' = filepos + size
      /\ io' = [io EXCEPT !.len = l - size, !.done = d + size]
  BY DEF BlockRead, Moved
<1>a. /\ io.to = "inbuf" \/ errnum' # 0 => call' = call
      /\ errnum' = 0 /\ io.to # "inbuf" =>
           call' = [call EXCEPT !.out = call.out \o [k \in 1..size |-> ByteOf(data[k])]]
  <2>1. \/ /\ errnum' = 0
           /\ IF io.to = "inbuf" THEN UNCHANGED call
              ELSE call' = [call EXCEPT !.out = call.out \o [k \in 1..size |-> ByteOf(data[k])]]
        \/ errnum' = 1 /\ UNCHANGED call
    BY DEF BlockRead
  <2> DEFINE new == [call EXCEPT !.out = call.out \o [k \in 1..size |-> ByteOf(data[k])]]
  <2>2. \/ errnum' = 0 /\ io.to = "inbuf" /\ call' = call
        \/ errnum' = 0 /\ io.to # "inbuf" /\ call' = new
        \/ errnum' = 1 /\ call' = call
    BY <2>1
  <2> HIDE DEF new
  <2>3. (io.to = "inbuf" \/ errnum' # 0 => call' = call) /\ (errnum' = 0 /\ io.to # "inbuf" => call' = new)
    BY <2>2
  <2>4. QED
    BY <2>3 DEF new
<1>2. /\ size \in 1..l /\ filepos + size <= filemax
      /\ \A k \in 1..size : data[k] = SymbolAt(file, filepos + k - 1) /\ data[k] \in Given
  BY <1>0, Reads
<1> HIDE DEF size, data
<1>3. /\ io \in Moves /\ l \in Nat /\ d \in Nat /\ filepos \in Nat /\ filemax \in Nat
      /\ io.to \in {"caller", "inbuf"} /\ call \in Requests
  BY <1>0 DEF Kinds, Moves
<1>4. io'.to = io.to /\ io'.len = l - size /\ io'.done = d + size
  BY <1>1, <1>3 DEF Moves
<1>5. CASE io.to = "inbuf"
  <2>1. InGunzip /\ InGunzip' /\ InWindow
    BY <1>1, <1>4, <1>5 DEF InGunzip, InWindow
  <2>2. gzip.filepos + WSIZE >= inflate'.saved_filepos /\ gzip.filepos >= inflate'.saved_filepos /\ Wanted > 0
    BY <1>0, <1>1, <2>1 DEF Reading
  <2>3. QED
    BY <1>1, <1>a, <1>5, <2>1, <2>2, InsideStep
<1>6. CASE io.to = "caller"
  <2>1. /\ ~InGunzip /\ ~InGunzip' /\ ~compressed_file /\ ~Zipped /\ ~Zipped' /\ file \in Files
        /\ file # Closed /\ filemax = file.max
    <3>1. ~InGunzip /\ ~InGunzip' /\ ~compressed_file /\ ~Zipped /\ ~Zipped'
      BY <1>0, <1>1, <1>4, <1>6 DEF InGunzip, Inside, Calls, Zipped
    <3>2. file \in Files /\ file # Closed
      BY <1>0, <1>1 DEF CursorAt, Kinds
    <3>3. QED
      BY <1>0, <3>1, <3>2 DEF Positions
  <2>2. Content' = Content /\ Content = Plainly[file]
    BY <1>1, <2>1 DEF Content
  <2> DEFINE b == call.start
             c == call.count
             out == call.out
             p == filepos
  <2>3. b \in Nat /\ c \in Nat /\ out \in Seq(Data) /\ p \in Nat
    BY <1>3 DEF Requests
  <2>4. /\ call'.start = b /\ call'.count = c /\ call'.len = call.len /\ call'.asked = call.asked
        /\ call'.test = call.test
    BY <1>1, <1>a, <1>3, <1>6 DEF Requests
  <2>5. /\ Limit' = filemax /\ Limit = filemax /\ Position' = p + size /\ Position = p
        /\ Got' = c + (d + size) /\ Got = c + d
    BY <1>1, <1>4, <1>6, <2>1, <2>4 DEF Limit, Position, Got
  <2>6. /\ c <= Len(out) /\ Agrees(out, b, Content, c) /\ c < call.len /\ Asked
        /\ Len(out) = c + d /\ Agrees(out, b, Content, c + d) /\ p = b + (c + d)
    BY <1>0, <1>1, <2>5 DEF Answering, OutIs
  <2> HIDE DEF b, c, out, p, d, l
  <2>7. /\ size \in Nat /\ c + (d + size) \in Nat /\ p + size = b + (c + (d + size))
        /\ (d + size) + (l - size) > 0 /\ b + Len(out) = p
    BY <1>2, <1>3, <2>3, <2>6
  <2>8. Asked' <=> Asked
    BY <2>4, <2>5 DEF Asked, b
  <2>9. ASSUME errnum' = 0
        PROVE  /\ Len(call'.out) = c + (d + size) /\ Agrees(call'.out, b, Content, c + (d + size))
               /\ c <= Len(call'.out) /\ Agrees(call'.out, b, Content, c)
    <3> DEFINE part == [k \in 1..size |-> ByteOf(data[k])]
               new == out \o part
    <3>1. part \in Seq(Data) /\ Len(part) = size /\ \A k \in 1..size : part[k] = ByteOf(data[k])
      <4>1. \A k \in 1..size : ByteOf(data[k]) \in Data
        BY <1>2, Known
      <4>2. QED
        BY <2>7, <4>1
    <3>2. Agrees(part, b + Len(out), Content, Len(part))
      <4>1. ASSUME NEW k \in 1..size PROVE p + k <= Len(Content) /\ part[k] = Content[p + k]
        <5>1. p + k \in 1..file.max /\ (p + k) - 1 = p + k - 1 /\ p + k <= file.max
          <6>1. p + size <= file.max /\ file.max \in Nat
            BY <1>2, <2>1, Whole DEF p
          <6>2. QED
            BY <2>3, <2>7, <6>1
        <5>2. Plainly[file][p + k] = ByteOf(SymbolAt(file, p + k - 1)) /\ Len(Plainly[file]) = file.max
          BY <2>1, <5>1, PlainBytes
        <5>3. data[k] = SymbolAt(file, p + k - 1)
          BY <1>2 DEF p
        <5>4. QED
          BY <2>2, <3>1, <5>1, <5>2, <5>3
      <4> HIDE DEF part
      <4>2. QED
        BY <2>7, <3>1, <4>1 DEF Agrees
    <3>3. call'.out = new
      BY <1>1, <1>a, <1>3, <1>6, <2>9 DEF Requests, out
    <3> HIDE DEF part
    <3>4. Len(new) = Len(out) + size /\ Agrees(new, b, Content, Len(out) + size)
      BY <2>3, <2>6, <3>1, <3>2, OutGrows
    <3> HIDE DEF new
    <3>5. Len(out) + size = c + (d + size) /\ c <= c + (d + size) /\ \A k \in 1..c : k \in 1..(c + (d + size))
      BY <1>3, <2>3, <2>6, <2>7
    <3>6. QED
      BY <3>3, <3>4, <3>5 DEF Agrees
  <2>10. c <= Len(call'.out) /\ Agrees(call'.out, b, Content, c)
    BY <1>1, <1>a, <2>6, <2>9 DEF out
  <2>11. Answering'
    <3>1. OutIs(call.count)' /\ (errnum' = 0 => OutIs(Got)')
      BY <2>2, <2>4, <2>5, <2>9, <2>10 DEF OutIs
    <3>2. io'.done + io'.len > 0
      BY <1>4, <2>7
    <3>3. QED
      BY <1>1, <2>4, <2>5, <2>6, <2>7, <2>8, <2>9, <2>10, <3>1, <3>2 DEF Answering
  <2>12. Reading'
    <3>1. Testing' <=> Testing
      BY <1>1, <2>4 DEF Testing
    <3>2. ~InWindow'
      BY <1>1, <1>4, <1>6 DEF InWindow, Decoder
    <3>3. QED
      BY <1>0, <1>1, <2>1, <2>4, <3>1, <3>2 DEF Reading, b
  <2>13. QED
    BY <2>11, <2>12
<1>7. QED
  BY <1>3, <1>5, <1>6

LEMMA BlockReturnAnswers == ASSUME ReadInv, SoundStreams, BlockReturn PROVE Answering' /\ Reading'
<1>0. Kinds /\ Calls /\ Answering /\ Reading /\ Positions
  BY InvParts
<1>1. /\ pc = "blocks" /\ pc' = io.back
      /\ io.len = 0 \/ errnum # 0
      /\ UNCHANGED <<file, filepos, filemax, errnum, compressed_file, gzip, inflate, io, result>>
      /\ call' = IF io.to = "caller" THEN [call EXCEPT !.last = IF errnum = 0 THEN io.done ELSE 0] ELSE call
  BY DEF BlockReturn
<1>2. /\ io \in Moves /\ io.len \in Nat /\ io.done \in Nat /\ io.to \in {"caller", "inbuf"}
      /\ call \in Requests
  BY <1>0 DEF Kinds, Moves
<1>3. CASE io.to = "inbuf"
  <2>1. InGunzip /\ InGunzip' /\ InWindow
    BY <1>0, <1>1, <1>2, <1>3 DEF InGunzip, InWindow, Inside, Moves, Calls, Decoder
  <2>2. gzip.filepos + WSIZE >= inflate'.saved_filepos /\ gzip.filepos >= inflate'.saved_filepos /\ Wanted > 0
    BY <1>0, <1>1, <2>1 DEF Reading
  <2>3. QED
    BY <1>1, <1>3, <2>1, <2>2, InsideStep
<1>4. CASE io.to = "caller"
  <2>1. pc' = "chunk" /\ ~compressed_file /\ ~InGunzip /\ ~InGunzip' /\ ~InWindow' /\ ~Zipped /\ ~Zipped'
    BY <1>0, <1>1, <1>4 DEF Calls, InGunzip, InWindow, Inside, Decoder, Zipped
  <2>2. Content' = Content
    BY <1>1, <2>1 DEF Content
  <2>3. /\ call'.start = call.start /\ call'.count = call.count /\ call'.len = call.len
        /\ call'.asked = call.asked /\ call'.test = call.test /\ call'.out = call.out
        /\ call'.last = IF errnum = 0 THEN io.done ELSE 0
    BY <1>1, <1>2, <1>4 DEF Requests
  <2>4. Limit' = Limit /\ Position' = Position /\ (errnum = 0 => Got' = Got)
    BY <1>1, <1>4, <2>1, <2>3 DEF Limit, Position, Got
  <2>5. Asked' <=> Asked
    BY <2>3, <2>4 DEF Asked
  <2>6. call'.last > 0 <=> errnum' = 0
    <3>1. io.done + io.len > 0
      BY <1>0, <1>1, <1>4 DEF Answering
    <3>2. QED
      BY <1>1, <1>2, <2>3, <3>1
  <2>7. /\ call.count <= Len(call.out) /\ OutIs(call.count) /\ Asked /\ call.count < call.len
        /\ errnum = 0 => Len(call.out) = Got /\ OutIs(Got) /\ Position = call.start + Got
    BY <1>0, <1>1 DEF Answering
  <2>8. Answering'
    <3>1. OutIs(call.count)' /\ (errnum' = 0 => OutIs(Got)')
      BY <1>1, <2>2, <2>3, <2>4, <2>7 DEF OutIs
    <3>2. QED
      BY <1>1, <2>1, <2>3, <2>4, <2>5, <2>6, <2>7, <3>1 DEF Answering
  <2>9. Reading'
    <3>1. Testing' <=> Testing
      BY <1>1, <2>1, <2>3 DEF Testing
    <3>2. QED
      BY <1>0, <1>1, <2>1, <2>3, <3>1 DEF Reading
  <2>10. QED
    BY <2>8, <2>9
<1>5. QED
  BY <1>2, <1>3, <1>4

\* A call between two chunks.
Underway(out) ==
  /\ out \in Requests
  /\ out.len = IF out.start >= filemax THEN 0 ELSE Min({out.asked, filemax - out.start})
  /\ out.count <= Len(out.out) /\ Agrees(out.out, out.start, Content, out.count)
  /\ out.test => out.start = 0 /\ out.asked = 1 /\ result = Nothing

LEMMA FuncAnswers ==
  ASSUME ReadInv, pc \in {"idle", "test", "chunk"}, NEW out, Underway(out), ReadFunc(out),
         out.count < out.len, Len(out.out) = out.count, filepos = out.start + out.count,
         UNCHANGED <<file, result>>
  PROVE  Answering' /\ Reading'
<1>0. Kinds /\ Calls /\ Reading /\ Positions
  BY InvParts
<1>1. ~InGunzip
  BY DEF InGunzip, Inside
<1> DEFINE new == [out EXCEPT !.last = 0]
           b == out.start
           c == out.count
<1>2. out \in Requests /\ b \in Nat /\ c \in Nat /\ out.len \in Nat
  BY DEF Underway, Requests
<1>3. /\ new.start = b /\ new.count = c /\ new.len = out.len /\ new.asked = out.asked
      /\ new.test = out.test /\ new.out = out.out /\ new.last = 0
  BY <1>2 DEF Requests
<1> HIDE DEF new
<1>4. CASE ~compressed_file /\ BlockCall(out)
  <2> DEFINE len == Min({out.len - out.count, Step})
  <2>1. /\ pc' = "blocks" /\ call' = new /\ UNCHANGED <<filepos, filemax, compressed_file>>
        /\ io' = [len |-> len, done |-> 0, to |-> "caller", back |-> "chunk"]
    BY <1>4 DEF BlockCall, new
  <2>2. len > 0 /\ len \in Int
    <3>1. out.len - out.count \in Int /\ Step \in Int /\ Step > 0 /\ out.len - out.count > 0
      BY <1>2, Constants
    <3>2. len = IF out.len - out.count <= Step THEN out.len - out.count ELSE Step
      BY <3>1, Lesser
    <3> HIDE DEF len
    <3>3. QED
      BY <3>1, <3>2
  <2>3. io'.len = len /\ io'.done = 0 /\ io'.to = "caller"
    BY <2>1
  <2> HIDE DEF len
  <2>4. ~InGunzip' /\ ~InWindow' /\ ~Zipped /\ ~Zipped'
    BY <1>1, <1>4, <2>1, <2>3 DEF InGunzip, Inside, InWindow, Decoder, Zipped
  <2>5. Content' = Content
    BY <2>4 DEF Content
  <2>6. Limit' = filemax /\ Position' = filepos /\ Got' = c + 0 /\ c + 0 = c /\ 0 + len > 0
    <3>1. Limit' = filemax /\ Position' = filepos /\ Got' = c + 0
      BY <1>3, <2>1, <2>3, <2>4 DEF Limit, Position, Got
    <3>2. c + 0 = c /\ 0 + len > 0
      BY <1>2, <2>2, Constants
    <3>3. QED
      BY <3>1, <3>2
  <2>7. Asked'
    BY <1>3, <2>1, <2>6 DEF Asked, Underway
  <2>8. OutIs(c)' /\ OutIs(call.count)' /\ OutIs(Got)'
    BY <1>3, <2>1, <2>5, <2>6 DEF OutIs, Underway
  <2>9. Answering'
    BY <1>3, <2>1, <2>3, <2>6, <2>7, <2>8 DEF Answering
  <2>10. Reading'
    <3>1. Testing' => new.test
      BY <2>1 DEF Testing
    <3>2. QED
      BY <1>3, <1>4, <2>1, <2>4, <3>1 DEF Reading, Underway
  <2>11. QED
    BY <2>9, <2>10
<1>5. CASE compressed_file /\ GunzipRead /\ call' = new
  <2>1. /\ pc' = "serve" /\ gzip' = [gzip EXCEPT !.filepos = filepos, !.filemax = filemax]
        /\ inflate' = IF Behind THEN Initialized(inflate) ELSE inflate
        /\ compressed_file' = FALSE
    BY <1>5 DEF GunzipRead
  <2>2. gzip'.filepos = filepos /\ gzip'.filemax = filemax /\ filepos \in Nat /\ inflate \in Inflates
        /\ filemax \in Nat /\ WSIZE \in Nat
    BY <1>0, <2>1, Constants DEF Kinds, Gzips
  <2>3. InGunzip' /\ ~InWindow' /\ Zipped /\ Zipped'
    BY <1>5, <2>1 DEF InGunzip, Inside, InWindow, Decoder, Zipped
  <2>4. Content' = Content
    BY <2>3 DEF Content
  <2>5. Limit' = filemax /\ Position' = filepos /\ Got' = c + 0 /\ c + 0 = c
    BY <1>2, <1>3, <1>5, <2>1, <2>2, <2>3 DEF Limit, Position, Got
  <2>6. Asked'
    BY <1>3, <1>5, <2>5 DEF Asked, Underway
  <2>7. OutIs(call.count)' /\ OutIs(Got)'
    BY <1>3, <1>5, <2>4, <2>5 DEF OutIs, Underway
  <2>8. Answering'
    BY <1>3, <1>5, <2>1, <2>5, <2>6, <2>7 DEF Answering
  <2>9. filepos + WSIZE >= inflate'.saved_filepos
    <3>1. CASE Behind
      <4>1. inflate'.saved_filepos = 0
        BY <2>1, <2>2, <3>1 DEF Initialized, Inflates
      <4>2. QED
        BY <2>2, <4>1
    <3>2. CASE ~Behind
      <4>1. inflate.saved_filepos \in Nat /\ inflate' = inflate
        BY <2>1, <2>2, <3>2 DEF Inflates
      <4>2. QED
        BY <2>2, <3>2, <4>1 DEF Behind
    <3>3. QED
      BY <3>1, <3>2
  <2>10. Reading'
    <3>1. Testing' => new.test
      BY <1>5, <2>1 DEF Testing
    <3>2. filemax = SymbolAt(file, file.max - 1).size
      BY <1>0, <1>1, <1>5 DEF Reading, Limit
    <3>3. QED
      BY <1>3, <1>5, <2>1, <2>2, <2>3, <2>5, <2>9, <3>1, <3>2 DEF Reading, Underway
  <2>11. QED
    BY <2>8, <2>10
<1>6. QED
  BY <1>4, <1>5 DEF ReadFunc, new

LEMMA FinishAnswers ==
  ASSUME ReadInv, pc \in {"idle", "test", "chunk"}, NEW out, Underway(out), call' = out, pc' = "done",
         errnum' = 0 => out.count = out.len /\ filepos = out.start + out.count,
         UNCHANGED <<file, result, filepos, filemax, compressed_file, gzip, inflate, io>>
  PROVE  Answering' /\ Reading'
<1>0. Kinds /\ Calls /\ Reading /\ Positions
  BY InvParts
<1>1. ~InGunzip /\ ~InGunzip' /\ ~InWindow'
  BY DEF InGunzip, InWindow, Inside, Decoder
<1>2. Zipped' <=> Zipped
  BY DEF Zipped
<1>3. Content' = Content
  BY <1>2 DEF Content
<1>4. Limit' = filemax
  BY <1>1 DEF Limit
<1>5. Asked'
  BY <1>4 DEF Asked, Underway
<1>6. OutIs(call.count)'
  BY <1>3 DEF OutIs, Underway
<1>7. Answering'
  BY <1>5, <1>6 DEF Answering, Underway
<1>8. Reading'
  <2>1. Testing' => out.test
    BY DEF Testing
  <2>2. compressed_file => filemax = SymbolAt(file, file.max - 1).size
    BY <1>0, <1>1 DEF Reading, Limit
  <2>3. QED
    BY <1>1, <1>4, <2>1, <2>2 DEF Reading, Underway
<1>9. QED
  BY <1>7, <1>8

LEMMA GrubReadAnswers ==
  ASSUME ReadInv, pc \in {"idle", "test"}, NEW n \in Nat, NEW test \in BOOLEAN, GrubRead(n, test),
         test => filepos = 0 /\ n = 1 /\ result = Nothing, UNCHANGED <<file, result>>
  PROVE  Answering' /\ Reading'
<1> DEFINE len == IF filepos >= filemax THEN 0 ELSE Min({n, filemax - filepos})
           new == [test |-> test, start |-> filepos, asked |-> n, count |-> 0, last |-> 0,
                   out |-> <<>>, len |-> len]
<1>0. Kinds
  BY InvParts
<1>1. filepos \in Nat /\ filemax \in Nat
  BY <1>0 DEF Kinds
<1>2. \/ new.len > 0 /\ errnum' = 0 /\ ReadFunc(new)
      \/ /\ new.len = 0 /\ call' = new /\ pc' = "done"
         /\ UNCHANGED <<filepos, filemax, compressed_file, gzip, inflate, bufloc, io>>
  BY DEF GrubRead
<1>3. len \in Nat
  <2>1. CASE filepos >= filemax
    BY <2>1
  <2>2. CASE ~ (filepos >= filemax)
    <3>1. n \in Int /\ filemax - filepos \in Int /\ filemax - filepos >= 0
      BY <1>1, <2>2
    <3>2. Min({n, filemax - filepos}) = IF n <= filemax - filepos THEN n ELSE filemax - filepos
      BY <3>1, Lesser
    <3>3. len = IF n <= filemax - filepos THEN n ELSE filemax - filepos
      BY <2>2, <3>2
    <3> HIDE DEF len
    <3>4. QED
      BY <3>1, <3>3
  <2>3. QED
    BY <2>1, <2>2
<1>4. /\ new.len = len /\ new.count = 0 /\ new.start = filepos /\ new.asked = n /\ new.test = test
      /\ new.out = <<>> /\ Len(new.out) = 0 /\ filepos + 0 = filepos /\ 0 <= 0
  BY <1>1
<1>5. new \in Requests
  <2>1. <<>> \in Seq(Data)
    OBVIOUS
  <2> HIDE DEF len
  <2>2. QED
    BY <1>1, <1>3, <2>1 DEF Requests
<1>6. Underway(new)
  <2>1. Agrees(<<>>, filepos, Content, 0)
    BY DEF Agrees
  <2>2. new.len = IF new.start >= filemax THEN 0 ELSE Min({new.asked, filemax - new.start})
    BY <1>4
  <2> HIDE DEF len, new
  <2>3. QED
    BY <1>4, <1>5, <2>1, <2>2 DEF Underway
<1> HIDE DEF len, new
<1>7. CASE new.len > 0 /\ errnum' = 0 /\ ReadFunc(new)
  BY <1>4, <1>6, <1>7, FuncAnswers
<1>8. CASE /\ new.len = 0 /\ call' = new /\ pc' = "done"
           /\ UNCHANGED <<filepos, filemax, compressed_file, gzip, inflate, bufloc, io>>
  BY <1>4, <1>6, <1>8, FinishAnswers
<1>9. QED
  BY <1>2, <1>7, <1>8

LEMMA ChunkAnswers == ASSUME ReadInv, Chunk PROVE Answering' /\ Reading'
<1>0. Kinds /\ Calls /\ Answering /\ Reading
  BY InvParts
<1>1. /\ pc = "chunk" /\ UNCHANGED <<file, errnum, result>>
      /\ \/ call.last > 0 /\ Counted.count < call.len /\ ReadFunc(Counted)
         \/ /\ call.last = 0 \/ Counted.count >= call.len
            /\ call' = Counted /\ pc' = "done"
            /\ UNCHANGED <<filepos, filemax, compressed_file, gzip, inflate, bufloc, io>>
  BY DEF Chunk
<1>2. ~InGunzip
  BY <1>1 DEF InGunzip, Inside
<1>3. /\ call \in Requests /\ call.count \in Nat /\ call.last \in Nat /\ call.len \in Nat
      /\ call.count + call.last <= call.len /\ call.start \in Nat
  BY <1>0, <1>1 DEF Kinds, Requests, Calls
<1> DEFINE c == call.count + call.last
<1>4. c \in Nat /\ c <= call.len /\ (call.last = 0 => c = call.count)
  BY <1>3
<1>5. Counted = [call EXCEPT !.count = c]
  BY DEF Counted
<1> HIDE DEF c
<1>6. /\ Counted \in Requests /\ Counted.count = c /\ Counted.len = call.len /\ Counted.test = call.test
      /\ Counted.start = call.start /\ Counted.asked = call.asked /\ Counted.out = call.out
  BY <1>3, <1>4, <1>5 DEF Requests
<1>7. Limit = filemax /\ Position = filepos /\ Got = c
  BY <1>1, <1>2 DEF Limit, Position, Got, c
<1>8. /\ Asked /\ call.count <= Len(call.out) /\ OutIs(call.count) /\ call.count < call.len
      /\ call.last > 0 <=> errnum = 0
      /\ errnum = 0 => Len(call.out) = c /\ OutIs(c) /\ filepos = call.start + c
  BY <1>0, <1>1, <1>7 DEF Answering
<1>9. errnum # 0 => call.last = 0 /\ c = call.count
  BY <1>3, <1>4, <1>8
<1>10. Underway(Counted)
  <2>1. c <= Len(call.out) /\ Agrees(call.out, call.start, Content, c)
    <3>1. CASE errnum = 0
      BY <1>4, <1>8, <3>1 DEF OutIs
    <3>2. CASE errnum # 0
      BY <1>8, <1>9, <3>2 DEF OutIs
    <3>3. QED
      BY <3>1, <3>2
  <2>2. call.test => call.start = 0 /\ call.asked = 1 /\ result = Nothing
    BY <1>0, <1>1 DEF Reading, Testing
  <2>3. Counted.len = IF Counted.start >= filemax THEN 0
                      ELSE Min({Counted.asked, filemax - Counted.start})
    BY <1>6, <1>7, <1>8 DEF Asked
  <2>4. QED
    BY <1>6, <2>1, <2>2, <2>3 DEF Underway
<1>11. CASE call.last > 0 /\ Counted.count < call.len /\ ReadFunc(Counted)
  <2>1. errnum = 0
    BY <1>8, <1>11
  <2>2. QED
    BY <1>1, <1>6, <1>8, <1>10, <1>11, <2>1, FuncAnswers
<1>12. CASE /\ call.last = 0 \/ Counted.count >= call.len
            /\ call' = Counted /\ pc' = "done"
            /\ UNCHANGED <<filepos, filemax, compressed_file, gzip, inflate, bufloc, io>>
  <2>1. ASSUME errnum' = 0 PROVE c = call.len /\ filepos = call.start + c
    <3>1. errnum = 0 /\ c >= call.len
      BY <1>1, <1>3, <1>6, <1>8, <1>12, <2>1
    <3>2. QED
      BY <1>3, <1>4, <1>8, <3>1
  <2>2. QED
    BY <1>1, <1>6, <1>10, <1>12, <2>1, FinishAnswers
<1>13. QED
  BY <1>1, <1>11, <1>12

\* Between the calls.
LEMMA CallerAnswers ==
  ASSUME ReadInv, Seek \/ ReadDone \/ TestDone \/ Open \/ OpenFails
  PROVE  Answering' /\ Reading'
<1>0. Kinds /\ Calls /\ Reading
  BY InvParts
<1>1. CASE Seek \/ ReadDone \/ TestDone \/ OpenFails
  <2>1. pc' = "idle" /\ pc \in {"idle", "done"}
    BY <1>1 DEF Seek, ReadDone, TestDone, OpenFails
  <2>2. ~InGunzip /\ ~InGunzip' /\ ~InWindow' /\ ~Testing'
    BY <2>1 DEF InGunzip, InWindow, Inside, Decoder, Testing
  <2>3. compressed_file' => compressed_file /\ filemax' = filemax /\ file' = file
    BY <1>1 DEF Seek, ReadDone, TestDone, OpenFails
  <2>4. compressed_file' => Limit' = SymbolAt(file, file.max - 1).size /\ file' = file
    BY <1>0, <2>2, <2>3 DEF Reading, Limit
  <2>5. QED
    BY <2>1, <2>2, <2>4 DEF Answering, Reading
<1>2. CASE Open
  <2>1. PICK f \in Files :
          /\ file' = f /\ filepos' = 0
          /\ \/ filemax' = SymbolAt(f, f.max - 1).size /\ pc' = "test"
             \/ compressed_file' = FALSE /\ pc' = pc
    BY <1>2 DEF Open
  <2>2. errnum' = 0 /\ pc = "idle" /\ result' = Nothing
    BY <1>2 DEF Open, Opens
  <2>3. ~InGunzip' /\ ~InWindow' /\ pc' \in {"idle", "test"}
    BY <2>1, <2>2 DEF InGunzip, InWindow, Inside, Decoder
  <2>4. UNCHANGED call /\ ~call.test
    BY <1>0, <1>2, <2>2 DEF Open, Calls
  <2>5. compressed_file' => Limit' = SymbolAt(file', file'.max - 1).size
    BY <2>1, <2>3 DEF Limit
  <2>6. QED
    BY <2>1, <2>2, <2>3, <2>4, <2>5 DEF Answering, Reading
<1>3. QED
  BY <1>1, <1>2

LEMMA AnswersNext == ASSUME ReadInv, SoundStreams, Next PROVE Answering' /\ Reading'
<1>1. CASE Gunzip
  BY <1>1, DecoderAnswers, ServeAnswers, GunzipReturnAnswers DEF Gunzip
<1>2. CASE Read \/ Test
  <2>1. CASE Read
    <3>1. PICK n \in Lengths : GrubRead(n, FALSE)
      BY <2>1 DEF Read
    <3>2. n \in Nat /\ pc = "idle" /\ UNCHANGED <<file, result>>
      BY <2>1, Constants DEF Read
    <3>3. QED
      BY <3>1, <3>2, GrubReadAnswers
  <2>2. CASE Test
    <3>1. pc = "test" /\ GrubRead(1, TRUE) /\ UNCHANGED <<file, result>>
      BY <2>2 DEF Test
    <3>2. filepos = 0 /\ result = Nothing /\ 1 \in Nat /\ TRUE \in BOOLEAN
      BY <3>1, InvParts DEF Reading, Testing
    <3>3. QED
      BY <3>1, <3>2, GrubReadAnswers
  <2>3. QED
    BY <1>2, <2>1, <2>2
<1>3. CASE BlockRead \/ BlockReturn \/ Chunk
  BY <1>3, BlockReadAnswers, BlockReturnAnswers, ChunkAnswers
<1>4. CASE Seek \/ ReadDone \/ TestDone \/ Open \/ OpenFails
  BY <1>4, CallerAnswers
<1>5. QED
  BY <1>1, <1>2, <1>3, <1>4 DEF Next, Work

LEMMA ReadInit == Init => ReadInv
<1> SUFFICES ASSUME Init PROVE ReadInv
  OBVIOUS
<1>1. pc = "idle" /\ compressed_file = FALSE /\ errnum = 0
  BY DEF Init
<1>2. ~InGunzip /\ ~InWindow /\ ~Testing
  BY <1>1 DEF InGunzip, InWindow, Inside, Decoder, Testing
<1>3. QED
  BY <1>1, <1>2, InitInv DEF ReadInv, DecoderInv, Faulty, Answering, Reading

LEMMA ReadStutter == ASSUME ReadInv, UNCHANGED vars PROVE ReadInv'
<1>1. /\ UNCHANGED <<file, filepos, filemax, errnum, compressed_file, gzip, inflate>>
      /\ UNCHANGED <<inbuf, bufloc, pc, call, io, result>>
  BY DEF vars
<1>2. (InGunzip' <=> InGunzip) /\ (InWindow' <=> InWindow) /\ Place' = Place /\ (Filling' <=> Filling)
  BY <1>1 DEF InGunzip, InWindow, Place, Filling
<1>3. (Zipped' <=> Zipped) /\ (Testing' <=> Testing)
  BY <1>1 DEF Zipped, Testing
<1>4. /\ RawPos' = RawPos /\ Reached' = Reached /\ Limit' = Limit /\ Position' = Position /\ Got' = Got
      /\ Wanted' = Wanted /\ Content' = Content
  BY <1>1, <1>2, <1>3 DEF RawPos, Reached, Limit, Position, Got, Wanted, Content
<1>5. CursorInv'
  BY StutterInv, InvParts
<1>6. DecoderInv'
  <2>1. \A s, q : State(q)' = State(q) /\ (InputAt(s, q) => InputAt(s, q)')
    BY <1>1, <1>2, <1>4 DEF State, InputAt, Piece
  <2>2. \A s, q : DecodesAt(s, q) => DecodesAt(s, q)'
    BY <1>1, <1>2, <1>4, <2>1 DEF DecodesAt
  <2>3. QED
    BY <1>1, <1>2, <2>2, InvParts DEF DecoderInv
<1>7. Faulty'
  BY <1>1, <1>2, InvParts DEF Faulty, Dry
<1>8. Answering'
  <2>1. (Asked' <=> Asked) /\ \A n : OutIs(n)' <=> OutIs(n)
    BY <1>1, <1>4 DEF Asked, OutIs
  <2>2. QED
    BY <1>1, <1>4, <2>1, InvParts DEF Answering
<1>9. Reading'
  BY <1>1, <1>2, <1>3, <1>4, InvParts DEF Reading
<1>10. QED
  BY <1>5, <1>6, <1>7, <1>8, <1>9 DEF ReadInv

\* While reads of compressed data do not fail, the decoder and what is served
\* from its window stay those of the data, through all swaps of the positions,
\* restarts from the beginning, refills, and copies cut by a window's end.
THEOREM Decodings == SoundStreams /\ "coded" \notin Failing => (Spec => []ReadInv)
<1> SUFFICES ASSUME SoundStreams, "coded" \notin Failing PROVE Spec => []ReadInv
  OBVIOUS
<1>1. Init => ReadInv
  BY ReadInit
<1>2. ReadInv /\ [Next]_vars => ReadInv'
  <2> SUFFICES ASSUME ReadInv, [Next]_vars PROVE ReadInv'
    OBVIOUS
  <2>1. CASE Next
    <3>1. CursorInv'
      BY <2>1, NextInv, InvParts
    <3>2. DecoderInv' /\ Faulty' /\ Answering' /\ Reading'
      BY <2>1, DecoderNext, FaultyNext, AnswersNext
    <3>3. QED
      BY <3>1, <3>2 DEF ReadInv
  <2>2. CASE UNCHANGED vars
    BY <2>2, ReadStutter
  <2>3. QED
    BY <2>1, <2>2
<1>3. QED
  BY <1>1, <1>2, PTL DEF Spec

\* For any sound files, lists and sectors, any window and buffer sizes, and any
\* failures of reads but those inside compressed data: between reads, the window
\* that gunzip_read would serve from holds the file's bytes.
THEOREM Window == SoundStreams /\ "coded" \notin Failing => (Spec => []WindowRight)
<1> SUFFICES ASSUME SoundStreams, "coded" \notin Failing PROVE Spec => []WindowRight
  OBVIOUS
<1>1. ReadInv => WindowRight
  <2> SUFFICES ASSUME ReadInv, pc = "idle", compressed_file, errnum = 0, NEW p \in 0..(filemax - 1),
                      p < inflate.saved_filepos, p + WSIZE >= inflate.saved_filepos
               PROVE  inflate.slide[p % WSIZE] = Decoded[file][p + 1]
    BY DEF WindowRight
  <2>1. ~InGunzip /\ ~InWindow /\ filemax \in Nat
    BY InvParts DEF InGunzip, InWindow, Inside, Decoder, Kinds
  <2>2. p \in Nat /\ p < Limit
    BY <2>1 DEF Limit
  <2>3. QED
    BY <2>1, <2>2, Shown
<1>2. Spec => []ReadInv
  BY Decodings
<1>3. QED
  BY <1>1, <1>2, PTL

-----------------------------------------------------------------------------
(* A file of bytes *)

\* What the caller sees, in the terms of ByteFile.
Text == IF Testing THEN <<>> ELSE Content
Pos == IF Testing THEN 0 ELSE IF pc = "idle" THEN filepos ELSE call.start

LEMMA Unseen == ASSUME UNCHANGED <<Text, Pos, result>> PROVE UNCHANGED AsBytes!vars
BY DEF AsBytes!vars, Text, Pos

\* n bytes that are the content's are its first ones from there.
LEMMA FirstBytes ==
  ASSUME NEW all \in Seq(Data), NEW b \in Nat, NEW out \in Seq(Data), NEW n \in Nat,
         n <= Len(out), Agrees(out, b, all, n)
  PROVE  LET rest == SubSeq(all, b + 1, Len(all))
         IN  /\ Len(rest) = IF b < Len(all) THEN Len(all) - b ELSE 0
             /\ n <= Len(rest) /\ n <= Len(all)
             /\ SubSeq(out, 1, n) = SubSeq(rest, 1, n) /\ Len(SubSeq(out, 1, n)) = n
<1> DEFINE rest == SubSeq(all, b + 1, Len(all))
           l == Len(all)
<1>1. l \in Nat
  OBVIOUS
<1>2. /\ Len(rest) = IF b < l THEN l - b ELSE 0
      /\ \A k \in 1..Len(rest) : rest[k] = all[b + k]
  <2>1. rest = [k \in 1..(l - (b + 1) + 1) |-> all[b + 1 + k - 1]]
    BY <1>1
  <2> DEFINE m == IF b < l THEN l - b ELSE 0
  <2>2. 1..(l - (b + 1) + 1) = 1..m /\ m \in Nat /\ \A k \in 1..m : b + 1 + k - 1 = b + k
    BY <1>1
  <2> HIDE DEF rest, m, l
  <2>3. rest = [k \in 1..m |-> all[b + k]]
    BY <2>1, <2>2
  <2>4. Len(rest) = m
    BY <2>2, <2>3
  <2>5. QED
    BY <2>3, <2>4 DEF m
<1>3. \A k \in 1..n : b + k <= l /\ out[k] = all[b + k]
  BY DEF Agrees
<1> HIDE DEF rest, l
<1>4. n <= Len(rest) /\ n <= l
  <2>1. CASE n = 0
    BY <1>1, <1>2, <2>1
  <2>2. CASE n > 0
    BY <1>1, <1>2, <1>3, <2>2
  <2>3. QED
    BY <2>1, <2>2
<1>5. \A k \in 1..n : out[k] = rest[k]
  <2>1. Len(rest) \in Nat
    BY <1>1, <1>2
  <2>2. QED
    BY <1>2, <1>3, <1>4, <2>1
<1>6. SubSeq(out, 1, n) = [k \in 1..n |-> out[k]] /\ SubSeq(rest, 1, n) = [k \in 1..n |-> rest[k]]
  OBVIOUS
<1>7. SubSeq(out, 1, n) = SubSeq(rest, 1, n) /\ Len(SubSeq(out, 1, n)) = n
  BY <1>5, <1>6
<1>8. QED
  BY <1>2, <1>4, <1>7 DEF rest, l

\* The content is a sequence of bytes, and not longer than filemax.
LEMMA ContentIs ==
  ASSUME ReadInv, SoundStreams, pc = "done"
  PROVE  Content \in Seq(Data) /\ Len(Content) <= filemax
<1>0. Kinds /\ Calls /\ CursorAt /\ Positions /\ Reading
  BY InvParts
<1>1. ~InGunzip /\ (Zipped <=> compressed_file) /\ file \in Files /\ file # Closed
  BY <1>0, NotClosed DEF InGunzip, Inside, Zipped, CursorAt, Kinds
<1>2. CASE compressed_file
  <2>1. file \in Gzipped /\ filemax = SymbolAt(file, file.max - 1).size
    BY <1>0, <1>1, <1>2 DEF Positions, Reading, Limit
  <2>2. Decoded[file] \in Seq(Data)
    <3>1. 1 \in 1..file.max
      BY <2>1, Zips
    <3>2. QED
      BY <2>1, <3>1, Stream
  <2>3. Decoded[file] = Decoding[file][file.max - 1].out
    BY <2>1 DEF Decoded
  <2>4. Len(Decoded[file]) <= filemax
    <3>1. Len(Decoded[file]) \in Nat /\ filemax \in Nat
      BY <1>0, <2>2 DEF Kinds
    <3>2. \/ filemax = Len(Decoded[file])
          \/ filemax >= Len(Decoded[file])
      BY <2>1, <2>3 DEF SoundStreams, SoundStream
    <3>3. QED
      BY <3>1, <3>2
  <2>5. QED
    BY <1>1, <1>2, <2>2, <2>4 DEF Content
<1>3. CASE ~compressed_file
  <2>1. filemax = file.max /\ filemax \in Nat
    BY <1>0, <1>1, <1>3 DEF Positions, Kinds
  <2>2. Len(Plainly[file]) = file.max /\ Plainly[file] \in Seq(Data)
    <3>1. Flat[file] \in Seq(Symbols) /\ Len(Flat[file]) = file.max
      BY <1>1, FlatFacts
    <3>2. Plainly[file] = [i \in DOMAIN Flat[file] |-> ByteOf(Flat[file][i])]
      BY <1>1 DEF Plainly
    <3>3. DOMAIN Flat[file] = 1..file.max /\ \A i \in 1..file.max : Flat[file][i] \in Symbols
      BY <2>1, <3>1
    <3>4. \A i \in 1..file.max : ByteOf(Flat[file][i]) \in Data
      BY <3>3, Known DEF Given
    <3>5. QED
      BY <2>1, <3>2, <3>3, <3>4
  <2>3. QED
    BY <1>1, <1>3, <2>1, <2>2 DEF Content
<1>4. QED
  BY <1>2, <1>3

\* Within a call nothing is seen of it.
LEMMA Within ==
  ASSUME pc \notin {"idle", "test"}, pc' \notin {"idle", "test"}, UNCHANGED <<file, result>>,
         call'.start = call.start, call'.test = call.test, Zipped' <=> Zipped
  PROVE  UNCHANGED <<Text, Pos, result>>
<1>1. (Testing' <=> Testing) /\ Content' = Content
  BY DEF Testing, Content
<1>2. QED
  BY <1>1 DEF Text, Pos

LEMMA GunzipUnseen == ASSUME ReadInv, Gunzip PROVE UNCHANGED <<Text, Pos, result>>
<1>0. Kinds /\ call \in Requests
  BY InvParts DEF Kinds
<1>1. CASE Serve
  BY <1>0, <1>1, Within DEF Serve, Requests, Zipped
<1>2. CASE GunzipReturn
  <2>1. call'.start = call.start /\ call'.test = call.test
    BY <1>0, <1>2 DEF GunzipReturn, Requests
  <2>2. QED
    BY <1>2, <2>1, Within DEF GunzipReturn, Zipped
<1>3. CASE \/ ServeMore \/ NextWindow \/ Refill \/ Inflate \/ WindowDone \/ GetNewBlock \/ StoredByte
           \/ DecodeLiteral \/ DecodeCopy \/ DecodeEnd \/ DecodePrefix \/ DecodeBad \/ DoCopy
  <2>1. UNCHANGED <<file, call, result>>
    BY <1>3 DEF ServeMore, NextWindow, Refill, Inflate, WindowDone, WindowDoneAt, GetNewBlock,
       StoredByte, DecodeLiteral, DecodeCopy, DecodeEnd, DecodePrefix, DecodeBad, DoCopy, decoding
  <2>2. pc \in Inside
    BY <1>3 DEF ServeMore, NextWindow, Refill, Inflate, WindowDone, WindowDoneAt, GetNewBlock,
       StoredByte, DecodeLiteral, DecodeCopy, DecodeEnd, DecodePrefix, DecodeBad, DoCopy, TakeCode,
       Inside
  <2>3. pc' \in Inside \/ (pc' = "blocks" /\ io'.to = "inbuf")
    <3>1. CASE Refill
      <4>1. pc' = pc \/ (pc' = "blocks" /\ io'.to = "inbuf")
        BY <3>1 DEF Refill
      <4>2. QED
        BY <2>2, <4>1
    <3>2. CASE ServeMore \/ NextWindow \/ WindowDone \/ Inflate \/ GetNewBlock \/ StoredByte
      <4>1. inflate.block_type \in {"stored", "codes"}
        BY <1>0 DEF Kinds, Inflates
      <4>2. pc' \in {"head", "stored", "codes", "inflate", "window"}
        BY <3>2, <4>1 DEF ServeMore, NextWindow, WindowDone, WindowDoneAt, Inflate, GetNewBlock,
           StoredByte
      <4>3. QED
        BY <4>2 DEF Inside
    <3>3. CASE DecodeLiteral \/ DecodeCopy \/ DecodeEnd \/ DecodePrefix \/ DecodeBad \/ DoCopy
      <4>1. pc' \in {"codes", "inflate"}
        BY <3>3 DEF DecodeLiteral, DecodeCopy, DecodeEnd, DecodePrefix, DecodeBad, DoCopy, TakeCode,
           Written
      <4>2. QED
        BY <4>1 DEF Inside
    <3>4. QED
      BY <1>3, <3>1, <3>2, <3>3
  <2>4. pc \notin {"idle", "test"} /\ pc' \notin {"idle", "test"} /\ Zipped /\ Zipped'
    BY <2>2, <2>3 DEF Inside, Zipped
  <2>5. QED
    BY <2>1, <2>4, Within
<1>4. QED
  BY <1>1, <1>2, <1>3 DEF Gunzip

LEMMA BlocksUnseen ==
  ASSUME ReadInv, BlockRead \/ BlockReturn PROVE UNCHANGED <<Text, Pos, result>>
<1>0. Kinds /\ Calls /\ call \in Requests /\ io \in Moves
  BY InvParts DEF Kinds
<1>1. CASE BlockRead
  <2>1. /\ pc = "blocks" /\ pc' = "blocks" /\ UNCHANGED <<file, compressed_file, result>>
        /\ io'.to = io.to
    BY <1>0, <1>1 DEF BlockRead, Moved, Moves
  <2>2. call'.start = call.start /\ call'.test = call.test
    <3>1. call' = call \/ \E x : call' = [call EXCEPT !.out = x]
      BY <1>1 DEF BlockRead
    <3>2. QED
      BY <1>0, <3>1 DEF Requests
  <2>3. QED
    BY <2>1, <2>2, Within DEF Zipped
<1>2. CASE BlockReturn
  <2>1. /\ pc = "blocks" /\ pc' = io.back /\ UNCHANGED <<file, compressed_file, io, result>>
    BY <1>2 DEF BlockReturn
  <2>2. call'.start = call.start /\ call'.test = call.test
    <3>1. call' = call \/ \E x : call' = [call EXCEPT !.last = x]
      BY <1>2 DEF BlockReturn
    <3>2. QED
      BY <1>0, <3>1 DEF Requests
  <2>3. io.back \in {"chunk"} \cup Decoder /\ (io.to = "caller" <=> io.back = "chunk")
        /\ io.to \in {"caller", "inbuf"}
    BY <1>0 DEF Calls, Moves
  <2>4. QED
    BY <2>1, <2>2, <2>3, Within DEF Zipped, Decoder
<1>3. QED
  BY <1>1, <1>2

LEMMA ChunkUnseen == ASSUME ReadInv, Chunk PROVE UNCHANGED <<Text, Pos, result>>
<1>0. Kinds /\ call \in Requests
  BY InvParts DEF Kinds
<1> DEFINE out == Counted
<1>1. out.start = call.start /\ out.test = call.test
  BY <1>0 DEF Requests, Counted
<1>2. /\ pc = "chunk" /\ UNCHANGED <<file, result>>
      /\ \/ ReadFunc(out)
         \/ call' = out /\ pc' = "done" /\ UNCHANGED compressed_file
  BY DEF Chunk
<1>3. CASE call' = out /\ pc' = "done" /\ UNCHANGED compressed_file
  BY <1>1, <1>2, <1>3, Within DEF Zipped
<1>4. CASE ReadFunc(out)
  <2>1. /\ call' = [out EXCEPT !.last = 0]
        /\ \/ ~compressed_file /\ UNCHANGED compressed_file /\ pc' = "blocks" /\ io'.to = "caller"
           \/ compressed_file /\ pc' = "serve"
    BY <1>4 DEF ReadFunc, BlockCall, GunzipRead
  <2>2. call'.start = call.start /\ call'.test = call.test
    BY <1>0, <2>1 DEF Counted, Requests
  <2>3. QED
    BY <1>2, <2>1, <2>2, Within DEF Zipped
<1>5. QED
  BY <1>2, <1>3, <1>4

\* A call begins where the position is.
LEMMA GrubReadUnseen ==
  ASSUME ReadInv, pc \in {"idle", "test"}, NEW n \in Nat, NEW test \in BOOLEAN, GrubRead(n, test),
         pc = "test" <=> test, UNCHANGED <<file, result>>
  PROVE  UNCHANGED <<Text, Pos, result>>
<1>0. Kinds /\ Calls /\ ~InGunzip
  BY InvParts DEF InGunzip, Inside
<1>1. /\ call'.start = filepos /\ call'.test = test
      /\ \/ UNCHANGED compressed_file /\ pc' = "done"
         \/ ~compressed_file /\ UNCHANGED compressed_file /\ pc' = "blocks" /\ io'.to = "caller"
         \/ compressed_file /\ pc' = "serve"
  <2> DEFINE new == [test |-> test, start |-> filepos, asked |-> n, count |-> 0, last |-> 0,
                     out |-> <<>>,
                     len |-> IF filepos >= filemax THEN 0 ELSE Min({n, filemax - filepos})]
  <2>1. \/ ReadFunc(new)
        \/ call' = new /\ pc' = "done" /\ UNCHANGED compressed_file
    BY DEF GrubRead
  <2>2. CASE call' = new /\ pc' = "done" /\ UNCHANGED compressed_file
    BY <2>2
  <2>3. CASE ReadFunc(new)
    <3>1. /\ call' = [new EXCEPT !.last = 0]
          /\ \/ ~compressed_file /\ UNCHANGED compressed_file /\ pc' = "blocks" /\ io'.to = "caller"
             \/ compressed_file /\ pc' = "serve"
      BY <2>3 DEF ReadFunc, BlockCall, GunzipRead
    <3>2. call'.start = filepos /\ call'.test = test
      BY <3>1
    <3>3. QED
      BY <3>1, <3>2
  <2>4. QED
    BY <2>1, <2>2, <2>3
<1>2. (Zipped' <=> Zipped) /\ pc' \notin {"idle", "test"}
  BY <1>1 DEF Zipped
<1>3. Content' = Content
  BY <1>2 DEF Content
<1>4. CASE pc = "test"
  <2>1. Testing /\ Testing'
    BY <1>1, <1>2, <1>4 DEF Testing
  <2>2. QED
    BY <2>1 DEF Text, Pos
<1>5. CASE pc = "idle"
  <2>1. ~Testing /\ ~Testing'
    BY <1>0, <1>1, <1>2, <1>5 DEF Testing, Calls
  <2>2. QED
    BY <1>1, <1>2, <1>3, <1>5, <2>1 DEF Text, Pos
<1>6. QED
  BY <1>4, <1>5

LEMMA CallsUnseen == ASSUME ReadInv, Read \/ Test PROVE UNCHANGED <<Text, Pos, result>>
<1>1. CASE Read
  <2>1. PICK n \in Lengths : GrubRead(n, FALSE)
    BY <1>1 DEF Read
  <2>2. n \in Nat /\ pc = "idle" /\ UNCHANGED <<file, result>>
    BY <1>1, Constants DEF Read
  <2>3. QED
    BY <2>1, <2>2, GrubReadUnseen
<1>2. CASE Test
  <2>1. pc = "test" /\ GrubRead(1, TRUE) /\ UNCHANGED <<file, result>>
    BY <1>2 DEF Test
  <2>2. QED
    BY <2>1, GrubReadUnseen
<1>3. QED
  BY <1>1, <1>2

\* A call that comes to its end reads, or fails.
LEMMA DoneSeen ==
  ASSUME ReadInv, SoundStreams, ReadDone PROVE AsBytes!Read \/ AsBytes!ReadFails
<1>0. Kinds /\ Calls /\ Answering /\ call \in Requests
  BY InvParts DEF Kinds
<1> DEFINE b == call.start
           c == call.count
           out == call.out
           bytes == SubSeq(out, 1, c)
           rest == SubSeq(Content, b + 1, Len(Content))
<1>1. /\ pc = "done" /\ pc' = "idle" /\ ~call.test /\ UNCHANGED <<file, filepos, filemax, compressed_file>>
      /\ result' = [asked |-> call.asked, bytes |-> bytes, ok |-> errnum = 0]
  BY DEF ReadDone
<1>2. result'.asked = call.asked /\ result'.bytes = bytes /\ (result'.ok <=> errnum = 0)
  BY <1>1
<1>3. ~Testing /\ ~Testing' /\ (Zipped' <=> Zipped) /\ ~InGunzip
  BY <1>1 DEF Testing, Zipped, InGunzip, Inside
<1>4. /\ Text = Content /\ Text' = Content /\ Pos = b /\ Pos' = filepos
  BY <1>1, <1>3 DEF Text, Pos, Content
<1>5. /\ b \in Nat /\ c \in Nat /\ out \in Seq(Data) /\ call.asked \in Nat /\ call.len \in Nat
      /\ filepos \in Nat /\ filemax \in Nat
  BY <1>0 DEF Requests, Kinds
<1>6. c <= Len(out) /\ Agrees(out, b, Content, c)
      /\ call.len = (IF b >= filemax THEN 0 ELSE Min({call.asked, filemax - b}))
      /\ (errnum = 0 => c = call.len /\ filepos = b + c)
  BY <1>0, <1>1, <1>3 DEF Answering, OutIs, Asked, Limit
<1>7. Content \in Seq(Data) /\ Len(Content) <= filemax /\ Len(Content) \in Nat
  BY <1>1, ContentIs
<1>8. /\ Len(rest) = IF b < Len(Content) THEN Len(Content) - b ELSE 0
      /\ c <= Len(rest) /\ c <= Len(Content)
      /\ bytes = SubSeq(rest, 1, c) /\ Len(bytes) = c
  <2> HIDE DEF b, c, out
  <2>1. QED
    BY <1>5, <1>6, <1>7, FirstBytes
<1>9. CASE errnum = 0
  <2> DEFINE a == call.asked
  <2>1. c = IF b >= filemax THEN 0 ELSE IF a <= filemax - b THEN a ELSE filemax - b
    <3>1. a \in Int /\ filemax - b \in Int
      BY <1>5
    <3>2. Min({a, filemax - b}) = IF a <= filemax - b THEN a ELSE filemax - b
      BY <3>1, Lesser
    <3>3. QED
      BY <1>6, <1>9, <3>2
  <2>2. c = IF a < Len(rest) THEN a ELSE Len(rest)
    <3> DEFINE l == Len(Content)
               r == Len(rest)
    <3>1. /\ r = IF b < l THEN l - b ELSE 0
          /\ c <= r /\ l <= filemax /\ l \in Nat /\ a \in Nat /\ c \in Nat /\ b \in Nat /\ filemax \in Nat
      BY <1>5, <1>7, <1>8
    <3> HIDE DEF a, b, c, l, r
    <3>2. c = IF a < r THEN a ELSE r
      BY <2>1, <3>1
    <3>3. QED
      BY <3>2 DEF r
  <2>3. filepos = b + c
    BY <1>6, <1>9
  <2>4. /\ bytes = SubSeq(rest, 1, IF a < Len(rest) THEN a ELSE Len(rest)) /\ Len(bytes) = c
        /\ a \in Nat
    BY <1>5, <1>8, <2>2
  <2> HIDE DEF b, c, out, bytes
  <2>5. /\ result'.ok /\ result'.asked \in Nat
        /\ result'.bytes = SubSeq(SubSeq(Text, Pos + 1, Len(Text)), 1,
             IF result'.asked < Len(SubSeq(Text, Pos + 1, Len(Text))) THEN result'.asked
             ELSE Len(SubSeq(Text, Pos + 1, Len(Text))))
        /\ Pos' = Pos + Len(result'.bytes) /\ Text' = Text
    BY <1>2, <1>4, <1>9, <2>3, <2>4
  <2>6. QED
    BY <2>5 DEF AsBytes!Read, AsBytes!FirstOf, AsBytes!Rest, Text, Pos
<1>10. CASE errnum # 0
  <2>1. c = IF c < Len(rest) THEN c ELSE Len(rest)
    <3> DEFINE l == Len(Content)
               r == Len(rest)
    <3>1. r = (IF b < l THEN l - b ELSE 0) /\ c <= r /\ l \in Nat /\ c \in Nat /\ b \in Nat
      BY <1>5, <1>7, <1>8
    <3> HIDE DEF b, c, l, r
    <3>2. c = IF c < r THEN c ELSE r
      BY <3>1
    <3>3. QED
      BY <3>2 DEF r
  <2>2. c \in 0..Len(Content)
    <3> HIDE DEF c
    <3> QED
      BY <1>5, <1>7, <1>8
  <2>3. bytes = SubSeq(rest, 1, IF c < Len(rest) THEN c ELSE Len(rest))
    BY <1>8, <2>1
  <2> HIDE DEF b, c, out, bytes
  <2>4. /\ ~result'.ok /\ Pos' \in Nat /\ Text' = Text
        /\ \E n \in 0..Len(Text) : result'.bytes = SubSeq(SubSeq(Text, Pos + 1, Len(Text)), 1,
             IF n < Len(SubSeq(Text, Pos + 1, Len(Text))) THEN n
             ELSE Len(SubSeq(Text, Pos + 1, Len(Text))))
    BY <1>2, <1>4, <1>5, <1>10, <2>2, <2>3
  <2>5. QED
    BY <2>4 DEF AsBytes!ReadFails, AsBytes!FirstOf, AsBytes!Rest, Text, Pos
<1>11. QED
  BY <1>9, <1>10

LEMMA SeekSeen == ASSUME ReadInv, Seek PROVE AsBytes!Seek
<1>1. /\ pc = "idle" /\ pc' = "idle" /\ filepos' \in 0..filemax /\ result' = Nothing
      /\ UNCHANGED <<file, compressed_file, io>>
  BY DEF Seek
<1>2. ~Testing /\ ~Testing' /\ (Zipped' <=> Zipped) /\ filemax \in Nat
  BY <1>1, InvParts DEF Testing, Zipped, Kinds
<1>3. Text' = Text /\ Pos' \in Nat
  BY <1>1, <1>2 DEF Text, Pos, Content
<1>4. QED
  BY <1>1, <1>3 DEF AsBytes!Seek, AsBytes!Nothing, Nothing, Text, Pos

\* A file is opened when it is the caller's; while it is tried there is none.
LEMMA OpensSeen == ASSUME ReadInv, Open \/ OpenFails \/ TestDone PROVE AsBytes!Open
<1>0. Kinds /\ Calls /\ CursorAt /\ Positions /\ Reading
  BY InvParts
<1> DEFINE All == {Plainly[f] : f \in Files} \cup {Decoded[f] : f \in DOMAIN Decoded} \cup {<<>>}
<1>1. result' = Nothing
  <2>1. CASE Open \/ OpenFails
    BY <2>1 DEF Open, OpenFails, Opens
  <2>2. CASE TestDone
    BY <1>0, <2>2 DEF TestDone, Testing, Reading
  <2>3. QED
    BY <2>1, <2>2
<1>2. Text' \in All /\ Pos' = 0
  <2>1. CASE Open
    <3>1. PICK f \in Files :
            /\ file' = f /\ filepos' = 0
            /\ pc' = "test" \/ (pc' = pc /\ compressed_file' = FALSE)
      BY <2>1 DEF Open
    <3>2. CASE pc' = "test"
      <4>1. Testing'
        BY <3>2 DEF Testing
      <4>2. QED
        BY <4>1 DEF Text, Pos
    <3>3. CASE pc' = pc /\ compressed_file' = FALSE
      <4>1. pc' = "idle"
        BY <2>1, <3>3 DEF Open
      <4>2. ~Testing' /\ ~Zipped' /\ file' = f /\ f # Closed
        BY <3>1, <3>3, <4>1, NotClosed DEF Testing, Zipped
      <4>3. QED
        BY <3>1, <4>1, <4>2 DEF Text, Pos, Content
    <3>4. QED
      BY <3>1, <3>2, <3>3
  <2>2. CASE OpenFails
    <3>1. pc' = "idle" /\ filepos' = 0 /\ file' = Closed
      BY <2>2 DEF OpenFails
    <3>2. QED
      BY <3>1 DEF Text, Pos, Content, Testing
  <2>3. CASE TestDone
    <3>1. pc = "done" /\ call.test /\ pc' = "idle" /\ filepos' = 0 /\ file' = file
      BY <2>3 DEF TestDone
    <3>2. file \in Gzipped /\ file \in Files
      <4>1. ~InGunzip
        BY <3>1 DEF InGunzip, Inside
      <4>2. compressed_file
        BY <1>0, <3>1, <4>1 DEF Calls
      <4>3. QED
        BY <1>0, <4>1, <4>2, Zips DEF Positions
    <3>3. Content' \in All
      <4>1. DOMAIN Decoded = Gzipped
        BY DEF Decoded
      <4>2. QED
        BY <3>1, <3>2, <4>1 DEF Content
    <3>4. QED
      BY <3>1, <3>3 DEF Text, Pos, Testing
  <2>4. QED
    BY <2>1, <2>2, <2>3
<1>3. QED
  BY <1>1, <1>2 DEF AsBytes!Open, AsBytes!Nothing, Nothing, Text, Pos

\* For any sound files, lists and sectors, any window, buffer and chunk sizes, and
\* any failures of reads but those inside compressed data: grub_open, grub_seek and
\* grub_read are the operations of a file of bytes. The pieces that block_read_func
\* and gunzip_read work in, the window, and the file a caller was not given because
\* it did not decompress, do not show.
THEOREM Implementation == SoundStreams /\ "coded" \notin Failing => (Spec => ImplementsByteFile)
<1> SUFFICES ASSUME SoundStreams, "coded" \notin Failing PROVE Spec => ImplementsByteFile
  OBVIOUS
<1>1. Init => AsBytes!Init
  <2> SUFFICES ASSUME Init PROVE AsBytes!Init
    OBVIOUS
  <2>1. file = Closed /\ pc = "idle" /\ filepos = 0 /\ result = Nothing
    BY DEF Init
  <2>2. QED
    BY <2>1 DEF AsBytes!Init, AsBytes!Nothing, Nothing, Testing, Content
<1>2. ReadInv /\ [Next]_vars => [AsBytes!Next]_AsBytes!vars
  <2> SUFFICES ASSUME ReadInv, [Next]_vars PROVE [AsBytes!Next]_AsBytes!vars
    OBVIOUS
  <2>1. CASE BlockRead \/ BlockReturn \/ Gunzip \/ Chunk \/ Read \/ Test
    BY <2>1, BlocksUnseen, GunzipUnseen, ChunkUnseen, CallsUnseen, Unseen
  <2>2. CASE ReadDone
    BY <2>2, DoneSeen DEF AsBytes!Next
  <2>3. CASE Seek
    BY <2>3, SeekSeen DEF AsBytes!Next
  <2>4. CASE Open \/ OpenFails \/ TestDone
    BY <2>4, OpensSeen DEF AsBytes!Next
  <2>5. CASE UNCHANGED vars
    <3>1. UNCHANGED <<file, filepos, compressed_file, pc, call, io, result>>
      BY <2>5 DEF vars
    <3>2. (Zipped' <=> Zipped) /\ (Testing' <=> Testing)
      BY <3>1 DEF Zipped, Testing
    <3>3. UNCHANGED <<Text, Pos, result>>
      BY <3>1, <3>2 DEF Text, Pos, Content
    <3>4. QED
      BY <3>3, Unseen
  <2>6. QED
    BY <2>1, <2>2, <2>3, <2>4, <2>5 DEF Next, Work
<1>3. Spec => []ReadInv
  BY Decodings
<1>4. QED
  BY <1>1, <1>2, <1>3, PTL DEF Spec, ImplementsByteFile, AsBytes!Spec
=============================================================================
