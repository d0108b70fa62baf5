---------------------------- MODULE MemoryProofs ----------------------------
(***************************************************************************)
(* The two users of low memory, the track buffer and the heap.             *)
(*                                                                         *)
(* The track buffer is coherent for every drive, geometry, buffer size and *)
(* request length, provided the callers and the BIOS keep to SafeUse; and  *)
(* then, in the second part, it is invisible.                              *)
(*                                                                         *)
(* The heap, in the third part, is never shared, for every memory size,    *)
(* every table of descriptors and every sequence of grub_malloc and        *)
(* grub_free: callers' blocks are disjoint, the list covers the heap in    *)
(* order, and no two free blocks are neighbours.                           *)
(***************************************************************************)
EXTENDS TrackCache, Heap, SequenceTheorems, TLAPS

\* What the violation runs show to be needed: sector numbers fit buf_track,
\* rawwrite stays in the window its cache update covers, an error means the
\* last sector was not written, and geometry opens a command line.
SafeUse ==
  /\ \A d \in Drives : 2 * Total[d] <= Wrap
  /\ \A d \in Drives : \A g \in Geometries[d] : \A s \in WriteTargets[d] :
        g.lba => s % VT < g.sectors
  /\ LateErrors = FALSE
  /\ ChainedTune = FALSE

\* In the middle of a call the globals describe the call's drive.
Selected ==
  /\ pc # "idle" => call \in Calls
  /\ pc = "select" => cursor.sector = call.sector /\ cursor.byte_len = call.len
  /\ pc \in {"load", "use", "sector"} => buf_drive = call.drive
  /\ pc = "sector" => call.op = "rawwrite" /\ cursor.sector = call.sector
  /\ pc \in {"load", "use"} => /\ call.op \in {"read", "write"}
                               /\ cursor.byte_len <= call.len
  /\ buf_drive # None => buf_geom \in Geometries[buf_drive]

\* A step about to use the buffer has the sectors it counts on.
Loaded ==
  pc = "use" =>
    /\ cursor.byte_len > 0
    /\ cursor.num_sect \in 1..RestOfTrack
    /\ \A i \in 0..(cursor.num_sect - 1) :
         /\ cursor.sector + i < Total[call.drive]
         /\ buffer[Soff + i] = disk[call.drive][cursor.sector + i]

\* A buffered track starts at a track boundary.
Aligned == buf_track # None => buf_track % SectorsPerVtrack = 0

IInv == TypeOK /\ Selected /\ Loaded /\ Aligned /\ CacheCoherent

-----------------------------------------------------------------------------
(* Arithmetic *)

LEMMA ModRange ==
  ASSUME NEW x \in Nat, NEW n \in Nat \ {0}
  PROVE  x % n \in 0..(n - 1) /\ x % n <= x
<1>1. x % n <= x
  BY SMT
<1>2. x % n \in 0..(n - 1)
  BY SMT
<1>3. QED
  BY <1>1, <1>2

LEMMA DivMod ==
  ASSUME NEW x \in Nat, NEW n \in Nat \ {0}
  PROVE  x \div n \in Nat /\ x = n * (x \div n) + (x % n)
<1>1. x \div n \in Nat
  BY SMT
<1>2. x = n * (x \div n) + (x % n)
  BY SMT
<1>3. QED
  BY <1>1, <1>2

LEMMA ModUnique ==
  ASSUME NEW n \in Nat \ {0}, NEW q \in Nat, NEW r \in 0..(n - 1)
  PROVE  (n * q + r) % n = r
BY SMT

LEMMA ModDown ==
  ASSUME NEW x \in Nat, NEW n \in Nat \ {0}
  PROVE  (x - (x % n)) % n = 0
<1> DEFINE q == x \div n
           r == x % n
<1>1. q \in Nat /\ x = n * q + r
  BY DivMod
<1>2. r \in 0..(n - 1)
  BY ModRange
<1> HIDE DEF q, r
<1>3. x - r = n * q + 0
  BY <1>1, <1>2
<1>4. (n * q + 0) % n = 0
  BY <1>1, ModUnique
<1>5. QED
  BY <1>3, <1>4 DEF r

LEMMA ModAdd ==
  ASSUME NEW x \in Nat, NEW n \in Nat \ {0}, x % n = 0, NEW i \in 0..(n - 1)
  PROVE  (x + i) % n = i
BY SMT

LEMMA DivBelow ==
  ASSUME NEW a \in Nat, NEW k \in Nat, NEW n \in Nat \ {0}, a < k * n
  PROVE  a \div n \in 0..(k - 1)
BY SMT

LEMMA DivAtLeastOne ==
  ASSUME NEW a \in Nat, NEW n \in Nat \ {0}, a >= n
  PROVE  a \div n \in Nat /\ a \div n >= 1
BY SMT

LEMMA SpanPositive ==
  ASSUME NEW k \in Nat \ {0}, NEW n \in Nat \ {0}, NEW b \in 0..(n - 1)
  PROVE  k * n - b \in Nat \ {0}
BY SMT

-----------------------------------------------------------------------------
(* Facts about requests and about the geometry of a step *)

LEMMA CallFacts ==
  ASSUME NEW c \in Calls
  PROVE  /\ c.drive \in Drives
         /\ c.op \in {"read", "write", "rawwrite"}
         /\ c.sector \in Nat
         /\ c.offset \in 0..(SS - 1)
         /\ c.len \in 1..MaxLen
         /\ c.op # "read" => /\ c.data \in Seq(Bytes)
                             /\ Len(c.data) = c.len
         /\ c.op = "rawwrite" => /\ c.sector \in WriteTargets[c.drive]
                                 /\ c.len = SS
<1>1. CASE c \in ReadCalls
  BY <1>1, DriveAssumption, BufferAssumption DEF ReadCalls
<1>2. CASE c \in WriteCalls
  <2>1. PICK d \in Drives, w \in Data :
          c \in [op: {"write"}, drive: {d}, sector: 0..Total[d],
                 offset: 0..(SS - 1), len: {Len(w)}, data: {w}]
    BY <1>2 DEF WriteCalls
  <2>2. w \in Seq(Bytes) /\ Len(w) \in 1..MaxLen /\ Total[d] \in Nat
    BY DriveAssumption, BufferAssumption
  <2>3. QED
    BY <2>1, <2>2
<1>3. CASE c \in SectorCalls
  BY <1>3, DriveAssumption, BufferAssumption DEF SectorCalls
<1>4. QED
  BY <1>1, <1>2, <1>3 DEF Calls

LEMMA TrackFacts ==
  ASSUME TypeOK
  PROVE  /\ SectorsPerVtrack \in 1..BufSectors
         /\ Soff \in 0..(SectorsPerVtrack - 1)
         /\ Track \in Nat
         /\ Track + Soff = cursor.sector
         /\ RestOfTrack \in 1..BufSectors
         /\ RestOfTrack + Soff = SectorsPerVtrack
         /\ Track % SectorsPerVtrack = 0
<1>1. SectorsPerVtrack \in 1..BufSectors
  BY BufferAssumption DEF TypeOK, CacheTypeOK, SectorsPerVtrack, Geometry, MaxSpt
<1>2. cursor.sector \in Nat
  BY DEF TypeOK, CallTypeOK, Cursor
<1>a. SectorsPerVtrack \in Nat \ {0}
  BY <1>1, BufferAssumption
<1>3. Soff \in 0..(SectorsPerVtrack - 1) /\ Soff <= cursor.sector
  BY <1>a, <1>2, ModRange DEF Soff
<1>4. Track % SectorsPerVtrack = 0
  BY <1>a, <1>2, ModDown DEF Track, Soff
<1>5. QED
  BY <1>1, <1>2, <1>3, <1>4, BufferAssumption DEF Track, RestOfTrack

\* What one call of rawdisk_read leaves.
LEMMA RawdiskReadFacts ==
  ASSUME TypeOK, NEW buf \in [Slots -> BufSector], NEW d \in Drives,
         NEW s \in Nat, NEW n \in 1..BufSectors, NEW at \in Nat,
         at + n <= BufSectors, NEW r \in RawdiskRead(buf, d, s, n, at)
  PROVE  /\ r.buf \in [Slots -> BufSector]
         /\ r.ok \in BOOLEAN
<1> DEFINE marked == [buf EXCEPT ![at + n - 1] = [@ EXCEPT ![0] = Bad]]
           after(k) == [i \in Slots |-> IF i \in at..(at + k - 1)
                                          THEN disk[d][s + i - at]
                                          ELSE marked[i]]
<1>1. PICK k \in 0..n : /\ s + k <= Total[d]
                        /\ r = [ok |-> k = n /\ after(k)[at + n - 1][0] # Bad,
                                buf |-> after(k)]
  <2>1. PICK k \in {j \in 0..n : s + j <= Total[d]} :
          r = [ok |-> k = n /\ after(k)[at + n - 1][0] # Bad, buf |-> after(k)]
    BY Zenon DEF RawdiskRead
  <2>2. QED
    BY <2>1
<1>2. Total[d] \in Nat /\ disk[d] \in [Sectors(d) -> Sector]
  BY DriveAssumption DEF TypeOK, DriveTypeOK, Content
<1>3. marked \in [Slots -> BufSector]
  <2>1. buf[at + n - 1] \in BufSector
    BY BufferAssumption DEF Slots
  <2>2. [buf[at + n - 1] EXCEPT ![0] = Bad] \in BufSector
    BY <2>1, BufferAssumption DEF BufSector
  <2>3. QED
    BY <2>2
<1>4. \A i \in at..(at + k - 1) : s + i - at \in Sectors(d) /\ disk[d][s + i - at] \in BufSector
  <2> TAKE i \in at..(at + k - 1)
  <2>1. s + i - at \in Sectors(d)
    BY <1>1, <1>2 DEF Sectors
  <2>2. disk[d][s + i - at] \in Sector
    BY <1>2, <2>1
  <2>3. QED
    BY <2>1, <2>2 DEF Sector, BufSector
<1>5. after(k) \in [Slots -> BufSector]
  BY <1>3, <1>4
<1>6. QED
  BY <1>1, <1>5

\* What a rawdisk_read that succeeds has put in the buffer.
LEMMA RawdiskReadGood ==
  ASSUME TypeOK, NEW buf \in [Slots -> BufSector], NEW d \in Drives,
         NEW s \in Nat, NEW n \in 1..BufSectors, NEW at \in Nat,
         at + n <= BufSectors, NEW r \in RawdiskRead(buf, d, s, n, at), r.ok
  PROVE  s + n <= Total[d] /\ \A i \in 0..(n - 1) : r.buf[at + i] = disk[d][s + i]
<1> DEFINE marked == [buf EXCEPT ![at + n - 1] = [@ EXCEPT ![0] = Bad]]
           after(k) == [i \in Slots |-> IF i \in at..(at + k - 1)
                                          THEN disk[d][s + i - at]
                                          ELSE marked[i]]
<1>1. PICK k \in {j \in 0..n : s + j <= Total[d]} :
        r = [ok |-> k = n /\ after(k)[at + n - 1][0] # Bad, buf |-> after(k)]
  BY Zenon DEF RawdiskRead
<1>2. k = n /\ s + n <= Total[d] /\ r.buf = after(n)
  BY <1>1
<1>3. ASSUME NEW i \in 0..(n - 1)
      PROVE  after(n)[at + i] = disk[d][s + i]
  <2>1. at + i \in Slots /\ at + i \in at..(at + n - 1)
    BY BufferAssumption DEF Slots
  <2>2. after(n)[at + i] = disk[d][s + (at + i) - at]
    BY <2>1
  <2>3. s + (at + i) - at = s + i
    OBVIOUS
  <2>4. QED
    BY <2>2, <2>3
<1>4. QED
  BY <1>2, <1>3

\* The same, at the start of the buffer.
LEMMA RawdiskReadStart ==
  ASSUME TypeOK, NEW buf \in [Slots -> BufSector], NEW d \in Drives,
         NEW s \in Nat, NEW n \in 1..BufSectors,
         NEW r \in RawdiskRead(buf, d, s, n, 0), r.ok
  PROVE  s + n <= Total[d] /\ \A i \in 0..(n - 1) : r.buf[i] = disk[d][s + i]
<1> DEFINE z == 0
<1>1. z \in Nat /\ z + n <= BufSectors /\ r \in RawdiskRead(buf, d, s, n, z)
  BY BufferAssumption
<1>2. \A i \in 0..(n - 1) : z + i = i
  OBVIOUS
<1> HIDE DEF z
<1>3. s + n <= Total[d]
  BY <1>1, RawdiskReadGood
<1>4. \A i \in 0..(n - 1) : r.buf[z + i] = disk[d][s + i]
  BY <1>1, RawdiskReadGood
<1>5. QED
  BY <1>2, <1>3, <1>4

\* The n sectors of buf from slot `at` hold whole sectors, no mark.
Whole(buf, at, n) == \A i \in 0..(n - 1) : buf[at + i] \in Sector

\* Between `disk` and `new`, each of the n sectors of drive d from s is as
\* it was or as in buf, and nothing else has changed.
WroteWithin(new, buf, d, s, n, at) ==
  /\ DOMAIN new = Drives
  /\ \A e \in Drives : new[e] \in Content(e)
  /\ \A e \in Drives \ {d} : new[e] = disk[e]
  /\ \A x \in Sectors(d) : /\ x \notin s..(s + n - 1) => new[d][x] = disk[d][x]
                           /\ x \in s..(s + n - 1) =>
                                \/ new[d][x] = disk[d][x]
                                \/ new[d][x] = buf[at + x - s]

\* What one biosdisk write leaves.
LEMMA RawdiskWriteFacts ==
  ASSUME TypeOK, NEW buf, NEW d \in Drives, NEW s \in Nat,
         NEW n \in 1..BufSectors, NEW at \in Nat,
         Whole(buf, at, n), NEW w \in RawdiskWrite(buf, d, s, n, at)
  PROVE  w.ok \in BOOLEAN /\ WroteWithin(w.disk, buf, d, s, n, at)
<1> DEFINE new(k) == [x \in Sectors(d) |->
                        IF x \in s..(s + k - 1) THEN buf[at + x - s] ELSE disk[d][x]]
<1>1. PICK q \in [ok: BOOLEAN, count: 0..n] :
        /\ s + q.count <= Total[d]
        /\ q.ok => q.count = n
        /\ q.count = n => q.ok \/ LateErrors
        /\ w = [ok |-> q.ok, disk |-> [disk EXCEPT ![d] = new(q.count)]]
  BY Zenon DEF RawdiskWrite
<1> DEFINE k == q.count
<1>2. k \in 0..n /\ q.ok \in BOOLEAN
  BY <1>1
<1>3. w.ok = q.ok /\ w.disk = [disk EXCEPT ![d] = new(k)]
  BY <1>1
<1>4. Total[d] \in Nat /\ disk[d] \in [Sectors(d) -> Sector] /\ DOMAIN disk = Drives
  BY DriveAssumption DEF TypeOK, DriveTypeOK, Content
<1> HIDE DEF k
<1>5. w.disk[d] = new(k) /\ DOMAIN w.disk = Drives /\ \A e \in Drives \ {d} : w.disk[e] = disk[e]
  BY <1>3, <1>4
<1>6. \A x \in Sectors(d) : x \in s..(s + k - 1) => at + x - s \in at..(at + n - 1) /\ buf[at + x - s] \in Sector
  <2> TAKE x \in Sectors(d)
  <2> HAVE x \in s..(s + k - 1)
  <2>1. x - s \in 0..(n - 1)
    BY <1>2 DEF Sectors
  <2>2. buf[at + (x - s)] \in Sector
    BY <2>1 DEF Whole
  <2>3. at + (x - s) = at + x - s
    BY <2>1 DEF Sectors
  <2>4. QED
    BY <2>1, <2>2, <2>3
<1>7. new(k) \in Content(d)
  BY <1>4, <1>6 DEF Content
<1>8. \A e \in Drives : w.disk[e] \in Content(e)
  BY <1>5, <1>7 DEF TypeOK, DriveTypeOK
<1>9. \A x \in Sectors(d) : /\ x \notin s..(s + n - 1) => w.disk[d][x] = disk[d][x]
                            /\ x \in s..(s + n - 1) =>
                                 \/ w.disk[d][x] = disk[d][x]
                                 \/ w.disk[d][x] = buf[at + x - s]
  BY <1>2, <1>5 DEF Sectors
<1>10. w.ok \in BOOLEAN
  BY <1>2, <1>3
<1>11. QED
  BY <1>5, <1>8, <1>9, <1>10 DEF WroteWithin

\* A write that succeeds has put every sector on the disk.
LEMMA RawdiskWriteGood ==
  ASSUME TypeOK, NEW buf, NEW d \in Drives, NEW s \in Nat,
         NEW n \in 1..BufSectors, NEW at \in Nat,
         NEW w \in RawdiskWrite(buf, d, s, n, at), w.ok
  PROVE  s + n <= Total[d] /\ \A i \in 0..(n - 1) : w.disk[d][s + i] = buf[at + i]
<1> DEFINE new(k) == [x \in Sectors(d) |->
                        IF x \in s..(s + k - 1) THEN buf[at + x - s] ELSE disk[d][x]]
<1>1. PICK q \in [ok: BOOLEAN, count: 0..n] :
        /\ s + q.count <= Total[d]
        /\ q.ok => q.count = n
        /\ q.count = n => q.ok \/ LateErrors
        /\ w = [ok |-> q.ok, disk |-> [disk EXCEPT ![d] = new(q.count)]]
  BY Zenon DEF RawdiskWrite
<1>2. q.count = n /\ s + n <= Total[d] /\ w.disk = [disk EXCEPT ![d] = new(n)]
  BY <1>1
<1>3. w.disk[d] = new(n) /\ Total[d] \in Nat
  BY <1>2, DriveAssumption DEF TypeOK, DriveTypeOK
<1>4. ASSUME NEW i \in 0..(n - 1) PROVE w.disk[d][s + i] = buf[at + i]
  <2>1. s + i \in Sectors(d) /\ s + i \in s..(s + n - 1)
    BY <1>2, <1>3 DEF Sectors
  <2>2. at + (s + i) - s = at + i
    OBVIOUS
  <2>3. QED
    BY <2>1, <2>2, <1>3
<1>5. QED
  BY <1>2, <1>4

\* With honest errors, a one-sector write that fails has changed nothing.
LEMMA RawdiskWriteBad ==
  ASSUME TypeOK, SafeUse, NEW buf, NEW d \in Drives, NEW s \in Nat, NEW at \in Nat,
         NEW w \in RawdiskWrite(buf, d, s, 1, at), ~ w.ok
  PROVE  \A e \in Drives : w.disk[e] = disk[e]
<1> DEFINE new(k) == [x \in Sectors(d) |->
                        IF x \in s..(s + k - 1) THEN buf[at + x - s] ELSE disk[d][x]]
<1>1. PICK q \in [ok: BOOLEAN, count: 0..1] :
        /\ s + q.count <= Total[d]
        /\ q.ok => q.count = 1
        /\ q.count = 1 => q.ok \/ LateErrors
        /\ w = [ok |-> q.ok, disk |-> [disk EXCEPT ![d] = new(q.count)]]
  BY Zenon DEF RawdiskWrite
<1>2. q.count = 0
  <2>1. w.ok = q.ok
    BY <1>1
  <2>2. ~ q.ok /\ ~ LateErrors
    BY <2>1 DEF SafeUse
  <2>3. q.count # 1
    BY <1>1, <2>2
  <2>4. QED
    BY <2>3
<1>7. w.disk = [disk EXCEPT ![d] = new(0)]
  BY <1>1, <1>2
<1>3. \A x \in Sectors(d) : x \notin s..(s + 0 - 1)
  BY DEF Sectors
<1>4. disk[d] \in [Sectors(d) -> Sector] /\ DOMAIN disk = Drives
  BY DEF TypeOK, DriveTypeOK, Content
<1>5. new(0) = disk[d]
  BY <1>3, <1>4
<1>6. QED
  BY <1>7, <1>4, <1>5

-----------------------------------------------------------------------------
(* The invariant holds initially and every action preserves it *)

LEMMA InitIInv == Init => IInv
<1> SUFFICES ASSUME Init PROVE IInv
  OBVIOUS
<1>1. DriveTypeOK
  BY DriveAssumption DEF Init, DriveTypeOK
<1>2. CacheTypeOK
  BY BufferAssumption DEF Init, CacheTypeOK, BufSector, Geometry, MaxSpt, None
<1>3. CallTypeOK
  <2>1. cursor \in Cursor
    BY BufferAssumption DEF Init, AtRest, Cursor
  <2>2. out \in Seq(Bytes \cup {Bad})
    BY DEF Init
  <2>3. ok \in BOOLEAN /\ pc = "idle" /\ call = NoCall
    BY DEF Init
  <2>4. QED
    BY <2>1, <2>2, <2>3 DEF CallTypeOK
<1>4. Selected /\ Loaded /\ Aligned /\ CacheCoherent
  BY DEF Init, Selected, Loaded, Aligned, CacheCoherent, None
<1>5. QED
  BY <1>1, <1>2, <1>3, <1>4 DEF IInv, TypeOK

\* A step that leaves the disk, the globals and the buffer alone.
LEMMA CacheUnchanged ==
  ASSUME IInv, UNCHANGED <<disk, geom, cache>>
  PROVE  Aligned' /\ CacheCoherent' /\ DriveTypeOK' /\ CacheTypeOK'
<1>1. UNCHANGED <<disk, geom, buf_drive, buf_track, buf_geom, buffer>>
  BY DEF cache
<1>2. Aligned' /\ CacheCoherent'
  BY <1>1 DEF IInv, Aligned, CacheCoherent, SectorsPerVtrack
<1>3. DriveTypeOK' /\ CacheTypeOK'
  BY <1>1 DEF IInv, TypeOK, DriveTypeOK, CacheTypeOK
<1>4. QED
  BY <1>2, <1>3

\* A step that ends with no track remembered.
LEMMA NoTrack ==
  ASSUME buf_track' = None
  PROVE  Aligned' /\ CacheCoherent'
BY DEF Aligned, CacheCoherent

\* A call that returns without touching disk, globals or buffer.
LEMMA ReturnIInv ==
  ASSUME IInv, pc # "idle", NEW r \in BOOLEAN, Return(r),
         UNCHANGED <<disk, geom, cache, cursor>>
  PROVE  IInv'
<1>1. CallTypeOK'
  BY DEF IInv, TypeOK, CallTypeOK, Return
<1>2. Selected' /\ Loaded'
  BY DEF IInv, Return, Selected, Loaded, cache
<1>3. QED
  BY <1>1, <1>2, CacheUnchanged DEF IInv, TypeOK

LEMMA CallIInv ==
  ASSUME IInv, NEW c \in Calls, Call(c)
  PROVE  IInv'
<1>1. c.sector \in Nat /\ c.offset \in 0..(SS - 1) /\ c.len \in 1..MaxLen
  BY CallFacts
<1>2. cursor' \in Cursor
  BY <1>1, BufferAssumption DEF Call, Cursor
<1>3. CallTypeOK'
  <2>1. out' \in Seq(Bytes \cup {Bad})
    BY DEF Call
  <2>2. ok' \in BOOLEAN /\ pc' = "select" /\ call' \in Calls
    BY DEF Call
  <2>3. QED
    BY <1>2, <2>1, <2>2 DEF CallTypeOK
<1>4. Selected' /\ Loaded'
  BY <1>1 DEF IInv, Call, Selected, Loaded, cache
<1>5. QED
  BY <1>3, <1>4, CacheUnchanged DEF Call, IInv, TypeOK

LEMMA SelectDriveIInv ==
  ASSUME IInv, SelectDrive
  PROVE  IInv'
<1>1. call \in Calls
  BY DEF IInv, SelectDrive, Selected
<1>2. call.drive \in Drives /\ call.op \in {"read", "write", "rawwrite"}
  BY <1>1, CallFacts
<1>3. geom[call.drive] \in Geometries[call.drive] /\ geom[call.drive] \in Geometry
  BY <1>2, DriveAssumption DEF IInv, TypeOK, DriveTypeOK
<1>4. UNCHANGED <<disk, geom, buffer, call, cursor, out, ok>>
  BY DEF SelectDrive, request
<1>5. DriveTypeOK'
  BY <1>4 DEF IInv, TypeOK, DriveTypeOK
<1>6. CacheTypeOK' /\ buf_drive' = call.drive
  BY <1>2, <1>3, <1>4 DEF IInv, TypeOK, CacheTypeOK, SelectDrive
<1>7. CallTypeOK'
  BY <1>4 DEF IInv, TypeOK, CallTypeOK, SelectDrive
<1>8. Selected'
  <2>1. cursor.sector = call.sector /\ cursor.byte_len = call.len /\ call.len \in Nat
    BY <1>1, CallFacts DEF IInv, Selected, SelectDrive
  <2>2. buf_drive' # None => buf_geom' \in Geometries[buf_drive']
    BY <1>3, <1>6 DEF IInv, Selected, SelectDrive
  <2>3. pc' = IF call.op = "rawwrite" THEN "sector" ELSE "load"
    BY DEF SelectDrive
  <2>4. QED
    BY <1>1, <1>2, <1>4, <1>6, <2>1, <2>2, <2>3 DEF Selected
<1>9. Loaded'
  BY DEF Loaded, SelectDrive
<1>10. Aligned' /\ CacheCoherent'
  <2>1. CASE buf_drive = call.drive
    <3>1. UNCHANGED <<disk, geom, cache>>
      BY <1>4, <2>1 DEF SelectDrive, cache
    <3>2. QED
      BY <3>1, CacheUnchanged
  <2>2. CASE buf_drive # call.drive
    BY <2>2, NoTrack DEF SelectDrive
  <2>3. QED
    BY <2>1, <2>2
<1>11. QED
  BY <1>5, <1>6, <1>7, <1>8, <1>9, <1>10 DEF IInv, TypeOK

-----------------------------------------------------------------------------
(* Loading *)

LEMMA LoadingFacts ==
  ASSUME IInv, Loading
  PROVE  /\ call \in Calls
         /\ call.drive \in Drives
         /\ call.op \in {"read", "write"}
         /\ buf_drive = call.drive
         /\ buf_drive # None
         /\ cursor.byte_len > 0
         /\ pc = "load"
<1>1. pc = "load" /\ cursor.byte_len > 0
  BY DEF Loading
<1>2. call \in Calls /\ buf_drive = call.drive /\ call.op \in {"read", "write"}
  BY <1>1 DEF IInv, Selected
<1>3. call.drive \in Drives
  BY <1>2, CallFacts
<1>4. QED
  BY <1>1, <1>2, <1>3, DriveAssumption DEF None

LEMMA SlenPositive ==
  ASSUME IInv, Loading
  PROVE  Slen \in Nat /\ Slen >= 1
<1>1. cursor.byte_len \in Nat /\ cursor.byte_len > 0 /\ cursor.byte_offset \in Nat
  BY LoadingFacts DEF IInv, TypeOK, CallTypeOK, Cursor
<1>2. BufSectors * SS \in Nat /\ BufSectors * SS > 0
  BY BufferAssumption
<1>3. Size \in Nat /\ Size >= 1
  BY <1>1, <1>2 DEF Size, Min2
<1>4. QED
  BY <1>1, <1>3, BufferAssumption, DivAtLeastOne DEF Slen

\* A step that has n good sectors in the buffer and goes on to use them.
LEMMA UseFacts ==
  ASSUME IInv, Loading, NEW n \in 1..RestOfTrack, Use(n),
         UNCHANGED <<disk, geom, buf_drive, buf_geom>>,
         buf_track' \in Nat \cup {None}, buffer' \in [Slots -> BufSector],
         \A i \in 0..(n - 1) :
           /\ cursor.sector + i < Total[call.drive]
           /\ buffer'[Soff + i] = disk[call.drive][cursor.sector + i]
  PROVE  TypeOK' /\ Selected' /\ Loaded'
<1>1. TypeOK
  BY DEF IInv
<1>2. cursor \in Cursor
  BY <1>1 DEF TypeOK, CallTypeOK
<1>3. n \in 1..BufSectors
  BY <1>1, TrackFacts, BufferAssumption
<1>4. cursor' \in Cursor /\ cursor' = [cursor EXCEPT !.num_sect = n]
  BY <1>2, <1>3, BufferAssumption DEF Use, Cursor
<1>5. /\ cursor'.sector = cursor.sector /\ cursor'.byte_len = cursor.byte_len
      /\ cursor'.num_sect = n
  BY <1>2, <1>4 DEF Cursor
<1>6. UNCHANGED <<call, out, ok>> /\ pc' = "use"
  BY DEF Use
<1>7. CallTypeOK'
  BY <1>1, <1>4, <1>6 DEF TypeOK, CallTypeOK
<1>8. DriveTypeOK' /\ CacheTypeOK'
  BY <1>1 DEF TypeOK, DriveTypeOK, CacheTypeOK
<1>9. Selected'
  BY <1>5, <1>6, LoadingFacts DEF IInv, Selected
<1>10. Soff' = Soff /\ RestOfTrack' = RestOfTrack
  BY <1>5 DEF Soff, RestOfTrack, SectorsPerVtrack
<1>11. Loaded'
  BY <1>5, <1>6, <1>10, LoadingFacts DEF Loaded
<1>12. QED
  BY <1>7, <1>8, <1>9, <1>11 DEF TypeOK

\* A step that gives up with nothing cached.
LEMMA GiveUp ==
  ASSUME IInv, pc # "idle", Return(FALSE), cursor' \in Cursor,
         UNCHANGED <<geom, buf_drive, buf_geom>>, buf_track' = None,
         DriveTypeOK', buffer' \in [Slots -> BufSector]
  PROVE  IInv'
<1>1. CallTypeOK'
  BY DEF IInv, TypeOK, CallTypeOK, Return
<1>2. CacheTypeOK'
  BY DEF IInv, TypeOK, CacheTypeOK
<1>3. Selected' /\ Loaded'
  BY DEF IInv, Selected, Loaded, Return
<1>4. QED
  BY <1>1, <1>2, <1>3, NoTrack DEF IInv, TypeOK

LEMMA HitIInv ==
  ASSUME IInv, Hit
  PROVE  IInv'
<1>1. Loading /\ Track = buf_track /\ Use(RestOfTrack) /\ UNCHANGED <<disk, geom, cache>>
  BY DEF Hit
<1>2. TypeOK
  BY DEF IInv
<1>3. UNCHANGED <<buf_drive, buf_track, buf_geom, buffer>>
  BY <1>1 DEF cache
<1>4. RestOfTrack \in 1..RestOfTrack
  BY <1>2, TrackFacts, BufferAssumption
<1>5. ASSUME NEW i \in 0..(RestOfTrack - 1)
      PROVE  /\ cursor.sector + i < Total[call.drive]
             /\ buffer'[Soff + i] = disk[call.drive][cursor.sector + i]
  <2>1. Soff + i \in 0..(SectorsPerVtrack - 1) /\ buf_track + (Soff + i) = cursor.sector + i
    BY <1>1, <1>2, TrackFacts, BufferAssumption
  <2>2. buf_track # None /\ buf_drive # None /\ buf_drive = call.drive
    BY <1>1, <1>2, TrackFacts, LoadingFacts DEF None
  <2>3. QED
    BY <1>3, <2>1, <2>2 DEF IInv, CacheCoherent
<1>6. buf_track' \in Nat \cup {None} /\ buffer' \in [Slots -> BufSector]
  BY <1>2, <1>3 DEF TypeOK, CacheTypeOK
<1>7. TypeOK' /\ Selected' /\ Loaded'
  BY <1>1, <1>3, <1>4, <1>5, <1>6, UseFacts
<1>8. QED
  BY <1>1, <1>7, CacheUnchanged DEF IInv

LEMMA LoadRestIInv ==
  ASSUME IInv, LoadRest
  PROVE  IInv'
<1>1. PICK r \in RawdiskRead(buffer, call.drive, cursor.sector, RestOfTrack, Soff) :
        /\ buffer' = r.buf
        /\ IF r.ok THEN Use(RestOfTrack) ELSE Return(FALSE) /\ UNCHANGED cursor
  BY DEF LoadRest
<1>2. Loading /\ buf_track' = None /\ UNCHANGED <<disk, geom, buf_drive, buf_geom>>
  BY DEF LoadRest
<1>3. TypeOK /\ buffer \in [Slots -> BufSector] /\ cursor \in Cursor /\ DriveTypeOK
  BY DEF IInv, TypeOK, CacheTypeOK, CallTypeOK
<1>4. cursor.sector \in Nat /\ Soff \in Nat /\ Soff + RestOfTrack <= BufSectors /\ RestOfTrack \in 1..BufSectors
  BY <1>3, TrackFacts, BufferAssumption DEF Cursor
<1>5. /\ r.buf \in [Slots -> BufSector]
      /\ r.ok => /\ cursor.sector + RestOfTrack <= Total[call.drive]
                 /\ \A i \in 0..(RestOfTrack - 1) :
                      r.buf[Soff + i] = disk[call.drive][cursor.sector + i]
  <2>1. call.drive \in Drives
    BY <1>2, LoadingFacts
  <2>2. r \in RawdiskRead(buffer, call.drive, cursor.sector, RestOfTrack, Soff)
    BY <1>1
  <2>3. TypeOK /\ buffer \in [Slots -> BufSector]
    BY <1>3
  <2>4. r.buf \in [Slots -> BufSector]
    BY <1>4, <2>1, <2>2, <2>3, RawdiskReadFacts
  <2>5. QED
    BY <1>4, <2>1, <2>2, <2>3, <2>4, RawdiskReadGood
<1>6. CASE r.ok
  <2>1. Use(RestOfTrack) /\ RestOfTrack \in 1..RestOfTrack
    BY <1>1, <1>4, <1>6, BufferAssumption
  <2>2. Total[call.drive] \in Nat
    BY <1>2, LoadingFacts, DriveAssumption
  <2>3. \A i \in 0..(RestOfTrack - 1) :
          /\ cursor.sector + i < Total[call.drive]
          /\ buffer'[Soff + i] = disk[call.drive][cursor.sector + i]
    BY <1>1, <1>4, <1>5, <1>6, <2>2, BufferAssumption
  <2>4. TypeOK' /\ Selected' /\ Loaded'
    BY <1>1, <1>2, <1>5, <2>1, <2>3, UseFacts
  <2>5. QED
    BY <1>2, <2>4, NoTrack DEF IInv
<1>7. CASE ~ r.ok
  <2>1. Return(FALSE) /\ cursor' \in Cursor
    BY <1>1, <1>3, <1>7
  <2>2. DriveTypeOK'
    BY <1>2, <1>3 DEF DriveTypeOK
  <2>3. QED
    BY <1>1, <1>2, <1>5, <2>1, <2>2, GiveUp, LoadingFacts
<1>8. QED
  BY <1>6, <1>7

LEMMA LoadTrackIInv ==
  ASSUME SafeUse, IInv, LoadTrack
  PROVE  IInv'
<1>1. PICK r \in RawdiskRead(buffer, call.drive, Track, SectorsPerVtrack, 0) :
        r.ok /\ buffer' = r.buf
  BY DEF LoadTrack
<1>2. /\ Loading /\ buf_track' = Int32(Track) /\ Use(RestOfTrack)
      /\ UNCHANGED <<disk, geom, buf_drive, buf_geom>>
  BY DEF LoadTrack
<1>3. TypeOK /\ buffer \in [Slots -> BufSector] /\ DriveTypeOK
  BY DEF IInv, TypeOK, CacheTypeOK
<1>4. /\ SectorsPerVtrack \in 1..BufSectors /\ Track \in Nat /\ Soff \in Nat
      /\ 0 + SectorsPerVtrack <= BufSectors
      /\ RestOfTrack \in 1..RestOfTrack
      /\ RestOfTrack + Soff = SectorsPerVtrack
      /\ Track + Soff = cursor.sector
      /\ Track % SectorsPerVtrack = 0
  BY <1>3, TrackFacts, BufferAssumption
<1>5. call.drive \in Drives /\ buf_drive = call.drive /\ Total[call.drive] \in Nat
  BY <1>2, LoadingFacts, DriveAssumption
<1>6. /\ r.buf \in [Slots -> BufSector]
      /\ Track + SectorsPerVtrack <= Total[call.drive]
      /\ \A i \in 0..(SectorsPerVtrack - 1) : r.buf[i] = disk[call.drive][Track + i]
  <2> DEFINE n == SectorsPerVtrack
             t == Track
             d == call.drive
             z == 0
  <2>1. r \in RawdiskRead(buffer, d, t, n, z) /\ r.ok
    BY <1>1
  <2>2. d \in Drives /\ t \in Nat /\ n \in 1..BufSectors /\ z \in Nat /\ z + n <= BufSectors
    BY <1>4, <1>5
  <2>a. r \in RawdiskRead(buffer, d, t, n, 0)
    BY <1>1
  <2> HIDE DEF n, t, d, z
  <2>3. r.buf \in [Slots -> BufSector]
    BY <1>3, <2>1, <2>2, RawdiskReadFacts
  <2>4. t + n <= Total[d]
    BY <1>3, <2>1, <2>2, <2>a, RawdiskReadStart
  <2>5. \A i \in 0..(n - 1) : r.buf[i] = disk[d][t + i]
    BY <1>3, <2>1, <2>2, <2>a, RawdiskReadStart
  <2>6. QED
    BY <2>3, <2>4, <2>5 DEF n, t, d
<1>7. Int32(Track) = Track
  <2>1. 2 * Total[call.drive] <= Wrap
    BY <1>5 DEF SafeUse
  <2>2. Track < Wrap \div 2 /\ Track < Wrap
    <3> DEFINE t == Track
               T == Total[call.drive]
    <3>a. SectorsPerVtrack \in Nat \ {0} /\ Wrap \in Nat
      BY <1>4, BufferAssumption
    <3>b. t \in Nat /\ T \in Nat /\ 2 * T <= Wrap /\ t + SectorsPerVtrack <= T
      BY <1>4, <1>5, <1>6, <2>1
    <3>1. t \in Nat /\ T \in Nat /\ t < T /\ 2 * T <= Wrap /\ Wrap \in Nat
      BY ONLY <3>a, <3>b
    <3> HIDE DEF t, T
    <3>2. t < Wrap \div 2 /\ t < Wrap
      BY ONLY <3>1
    <3>3. QED
      BY <3>2 DEF t
  <2>3. Track % Wrap = Track
    BY <1>4, <2>2, BufferAssumption
  <2>4. QED
    BY <2>2, <2>3 DEF Int32
<1>8. \A i \in 0..(RestOfTrack - 1) :
        /\ cursor.sector + i < Total[call.drive]
        /\ buffer'[Soff + i] = disk[call.drive][cursor.sector + i]
  <2> TAKE i \in 0..(RestOfTrack - 1)
  <2>1. Soff + i \in 0..(SectorsPerVtrack - 1) /\ Track + (Soff + i) = cursor.sector + i
    BY <1>4, BufferAssumption
  <2>2. r.buf[Soff + i] = disk[call.drive][Track + (Soff + i)]
    BY <1>6, <2>1
  <2>3. cursor.sector + i < Total[call.drive]
    <3>1. Soff + i < SectorsPerVtrack /\ SectorsPerVtrack \in Nat
      BY <1>4, <2>1
    <3>2. QED
      BY <1>4, <1>5, <1>6, <2>1, <3>1
  <2>4. QED
    BY <1>1, <2>1, <2>2, <2>3
<1>9. TypeOK' /\ Selected' /\ Loaded'
  BY <1>1, <1>2, <1>4, <1>6, <1>7, <1>8, UseFacts
<1>10. SectorsPerVtrack' = SectorsPerVtrack
  BY <1>2 DEF SectorsPerVtrack
<1>11. Aligned'
  BY <1>2, <1>4, <1>7, <1>10 DEF Aligned
<1>12. CacheCoherent'
  <2>1. ASSUME NEW i \in 0..(SectorsPerVtrack - 1)
        PROVE  /\ Track + i < Total[call.drive]
               /\ buffer'[i] = disk[call.drive][Track + i]
    BY <1>1, <1>4, <1>5, <1>6
  <2>2. QED
    BY <1>2, <1>5, <1>7, <1>10, <2>1 DEF CacheCoherent
<1>13. QED
  BY <1>9, <1>11, <1>12 DEF IInv

LEMMA LoadRequiredIInv ==
  ASSUME IInv, LoadRequired
  PROVE  IInv'
<1>1. PICK r \in RawdiskRead(buffer, call.drive, Track, SectorsPerVtrack, 0) :
        IF Slen = SectorsPerVtrack
          THEN buffer' = r.buf /\ Return(FALSE) /\ UNCHANGED cursor
          ELSE \E q \in RawdiskRead(r.buf, call.drive, cursor.sector, Slen, Soff) :
                 /\ buffer' = q.buf
                 /\ IF q.ok THEN Use(Slen)
                            ELSE Return(FALSE) /\ UNCHANGED cursor
  BY DEF LoadRequired
<1>2. /\ Loading /\ Slen <= RestOfTrack /\ buf_track' = None
      /\ UNCHANGED <<disk, geom, buf_drive, buf_geom>>
  BY DEF LoadRequired
<1>3. TypeOK /\ buffer \in [Slots -> BufSector] /\ DriveTypeOK /\ cursor \in Cursor
  BY DEF IInv, TypeOK, CacheTypeOK, CallTypeOK
<1>4. /\ SectorsPerVtrack \in 1..BufSectors /\ Track \in Nat /\ Soff \in Nat
      /\ RestOfTrack \in 1..BufSectors
      /\ RestOfTrack + Soff = SectorsPerVtrack
      /\ cursor.sector \in Nat
  BY <1>3, TrackFacts, BufferAssumption DEF Cursor
<1>5. call.drive \in Drives /\ buf_drive = call.drive /\ Total[call.drive] \in Nat /\ pc # "idle"
  BY <1>2, LoadingFacts, DriveAssumption
<1>6. Slen \in 1..BufSectors /\ Slen \in 1..RestOfTrack /\ Soff + Slen <= BufSectors
  BY <1>2, <1>4, SlenPositive, BufferAssumption
<1>7. r.buf \in [Slots -> BufSector]
  <2> DEFINE n == SectorsPerVtrack
             t == Track
             z == 0
  <2>1. r \in RawdiskRead(buffer, call.drive, t, n, z)
    BY <1>1
  <2>2. t \in Nat /\ n \in 1..BufSectors /\ z \in Nat /\ z + n <= BufSectors
    BY <1>4, BufferAssumption
  <2> HIDE DEF n, t, z
  <2>3. QED
    BY <1>3, <1>5, <2>1, <2>2, RawdiskReadFacts
<1>8. DriveTypeOK'
  BY <1>2, <1>3 DEF DriveTypeOK
<1>9. CASE Slen = SectorsPerVtrack
  <2>1. buffer' = r.buf /\ Return(FALSE) /\ cursor' \in Cursor
    BY <1>1, <1>3, <1>9
  <2>2. QED
    BY <1>2, <1>5, <1>7, <1>8, <2>1, GiveUp
<1>10. CASE Slen # SectorsPerVtrack
  <2> DEFINE n == Slen
             o == Soff
             d == call.drive
             s == cursor.sector
             b == r.buf
  <2>1. PICK q \in RawdiskRead(r.buf, call.drive, cursor.sector, n, o) :
          /\ buffer' = q.buf
          /\ IF q.ok THEN Use(n)
                     ELSE Return(FALSE) /\ UNCHANGED cursor
    BY <1>1, <1>10
  <2>2. n \in 1..BufSectors /\ n \in 1..RestOfTrack /\ o \in Nat /\ o + n <= BufSectors
    BY <1>4, <1>6
  <2>a. q \in RawdiskRead(b, d, s, n, o)
    BY <2>1
  <2>b. b \in [Slots -> BufSector] /\ d \in Drives /\ s \in Nat
    BY <1>4, <1>5, <1>7
  <2>3. q.buf \in [Slots -> BufSector]
    <3> HIDE DEF n, o
    <3>1. QED
      BY <1>3, <1>4, <1>5, <1>7, <2>1, <2>2, RawdiskReadFacts
  <2>4. CASE q.ok
    <3>1. s + n <= Total[d]
      <4> HIDE DEF n, o, d, s, b
      <4>1. QED
        BY <1>3, <1>4, <1>5, <2>a, <2>b, <2>2, <2>4, RawdiskReadGood
    <3>2. \A i \in 0..(n - 1) : q.buf[o + i] = disk[d][s + i]
      <4> HIDE DEF n, o, d, s, b
      <4>1. /\ TypeOK /\ b \in [Slots -> BufSector] /\ d \in Drives /\ s \in Nat
            /\ n \in 1..BufSectors /\ o \in Nat /\ o + n <= BufSectors
            /\ q \in RawdiskRead(b, d, s, n, o) /\ q.ok
        BY <1>3, <2>a, <2>b, <2>2, <2>4
      <4>2. QED
        BY ONLY Zenon, <4>1, RawdiskReadGood
    <3> HIDE DEF n
    <3>3. \A i \in 0..(n - 1) :
            /\ cursor.sector + i < Total[call.drive]
            /\ buffer'[Soff + i] = disk[call.drive][cursor.sector + i]
      <4> TAKE i \in 0..(n - 1)
      <4>1. cursor.sector + i < Total[call.drive]
        BY <1>4, <1>5, <2>2, <3>1
      <4>2. buffer'[Soff + i] = disk[call.drive][cursor.sector + i]
        BY <2>1, <3>2
      <4>3. QED
        BY <4>1, <4>2
    <3>4. Use(n) /\ buf_track' \in Nat \cup {None} /\ buffer' \in [Slots -> BufSector]
      BY <1>2, <2>1, <2>3, <2>4
    <3>5. TypeOK' /\ Selected' /\ Loaded'
      BY <1>2, <2>2, <3>3, <3>4, UseFacts
    <3>6. QED
      BY <1>2, <3>5, NoTrack DEF IInv
  <2>5. CASE ~ q.ok
    <3>1. buffer' \in [Slots -> BufSector] /\ Return(FALSE) /\ cursor' \in Cursor
      BY <1>3, <2>1, <2>3, <2>5
    <3>2. QED
      BY <1>2, <1>5, <1>8, <3>1, GiveUp
  <2>6. QED
    BY <2>4, <2>5
<1>11. QED
  BY <1>9, <1>10

-----------------------------------------------------------------------------
(* Using what was loaded *)

LEMMA UsingFacts ==
  ASSUME IInv, pc = "use"
  PROVE  /\ TypeOK
         /\ call \in Calls
         /\ call.drive \in Drives
         /\ buf_drive = call.drive
         /\ call.op \in {"read", "write"}
         /\ cursor \in Cursor
         /\ cursor.sector \in Nat
         /\ cursor.byte_offset \in 0..(SS - 1)
         /\ cursor.byte_len \in Nat \ {0}
         /\ cursor.byte_len <= call.len
         /\ cursor.num_sect \in 1..RestOfTrack
         /\ cursor.num_sect \in Nat \ {0}
<1>1. TypeOK /\ cursor \in Cursor
  BY DEF IInv, TypeOK, CallTypeOK
<1>2. call \in Calls /\ buf_drive = call.drive /\ call.op \in {"read", "write"}
      /\ cursor.byte_len <= call.len
  BY DEF IInv, Selected
<1>3. cursor.num_sect \in 1..RestOfTrack /\ cursor.byte_len > 0
  BY DEF IInv, Loaded
<1>4. cursor.sector \in Nat /\ cursor.byte_offset \in 0..(SS - 1) /\ cursor.byte_len \in 0..MaxLen
  BY <1>1 DEF Cursor
<1>5. cursor.byte_len \in Nat \ {0} /\ cursor.num_sect \in Nat \ {0}
  BY <1>1, <1>3, <1>4, TrackFacts, BufferAssumption
<1>6. call.drive \in Drives
  BY <1>2, CallFacts
<1>7. QED
  BY <1>1, <1>2, <1>3, <1>4, <1>5, <1>6

\* A step serves at least one byte, and no more than is wanted or at hand.
LEMMA ChunkFacts ==
  ASSUME IInv, pc = "use"
  PROVE  /\ Chunk \in Nat \ {0}
         /\ Chunk <= cursor.byte_len
         /\ cursor.byte_offset + Chunk <= cursor.num_sect * SS
<1> DEFINE here == cursor.num_sect * SS
<1>1. here - cursor.byte_offset \in Nat \ {0}
  BY UsingFacts, BufferAssumption, SpanPositive
<1>2. here \in Nat
  BY UsingFacts, BufferAssumption
<1>3. BufSectors * SS \in Nat \ {0}
  BY BufferAssumption
<1>4. Size \in Nat \ {0} /\ Size <= cursor.byte_len
  BY UsingFacts, <1>3 DEF Size, Min2
<1>5. cursor.byte_offset \in Nat
  BY UsingFacts, BufferAssumption
<1>6. Chunk = Min2(Size, here - cursor.byte_offset)
  BY DEF Chunk
<1>7. cursor.byte_len \in Nat
  BY UsingFacts
<1> HIDE DEF here
<1>8. Chunk \in Nat \ {0} /\ Chunk <= cursor.byte_len /\ cursor.byte_offset + Chunk <= here
  BY <1>1, <1>2, <1>4, <1>5, <1>6, <1>7 DEF Min2
<1>9. QED
  BY <1>8 DEF here

\* Every byte of the chunk is a byte of a loaded sector.
LEMMA ChunkByte ==
  ASSUME IInv, pc = "use", NEW j \in 0..(Chunk - 1)
  PROVE  /\ (cursor.byte_offset + j) \div SS \in 0..(cursor.num_sect - 1)
         /\ (cursor.byte_offset + j) % SS \in 0..(SS - 1)
         /\ BufByte(buffer, j) =
              DiskByte(call.drive, cursor.sector, cursor.byte_offset, j)
         /\ BufByte(buffer, j) \in Bytes
<1> DEFINE p == cursor.byte_offset + j
           i == p \div SS
<1>1. p \in Nat /\ p < cursor.num_sect * SS
  BY UsingFacts, ChunkFacts, BufferAssumption
<1>2. cursor.num_sect \in Nat /\ SS \in Nat \ {0}
  BY UsingFacts, BufferAssumption
<1> HIDE DEF p
<1>3. i \in 0..(cursor.num_sect - 1)
  BY <1>1, <1>2, DivBelow
<1>4. p % SS \in 0..(SS - 1)
  BY <1>1, <1>2, ModRange
<1> HIDE DEF i
<1>5. /\ cursor.sector + i < Total[call.drive]
      /\ buffer[Soff + i] = disk[call.drive][cursor.sector + i]
  BY <1>3 DEF IInv, Loaded
<1>6. cursor.sector + i \in Sectors(call.drive)
  <2>1. cursor.sector \in Nat /\ call.drive \in Drives
    BY UsingFacts
  <2>2. Total[call.drive] \in Nat
    BY <2>1, DriveAssumption
  <2>3. i \in Nat
    BY <1>2, <1>3
  <2>4. QED
    BY <1>5, <2>1, <2>2, <2>3 DEF Sectors
<1>7. disk[call.drive][cursor.sector + i] \in Sector
  BY <1>6, UsingFacts DEF TypeOK, DriveTypeOK, Content
<1>8. disk[call.drive][cursor.sector + i][p % SS] \in Bytes
  BY <1>4, <1>7 DEF Sector
<1>9. /\ BufByte(buffer, j) = buffer[Soff + i][p % SS]
      /\ DiskByte(call.drive, cursor.sector, cursor.byte_offset, j)
           = disk[call.drive][cursor.sector + i][p % SS]
  BY DEF BufByte, DiskByte, p, i
<1>10. QED
  BY <1>3, <1>4, <1>5, <1>8, <1>9 DEF p, i

LEMMA AdvanceIInv ==
  ASSUME IInv, pc = "use", Advance, UNCHANGED <<geom, buf_drive, buf_geom>>,
         DriveTypeOK', CacheTypeOK', Aligned', CacheCoherent',
         out' \in Seq(Bytes \cup {Bad})
  PROVE  IInv'
<1>1. /\ pc' = "load" /\ call' = call /\ ok' = ok
      /\ cursor' = [sector |-> cursor.sector + cursor.num_sect, byte_offset |-> 0,
                    byte_len |-> cursor.byte_len - Chunk, num_sect |-> 0]
  BY DEF Advance
<1>2. cursor.byte_len \in 0..MaxLen
  BY UsingFacts DEF Cursor
<1>3. cursor.byte_len - Chunk \in 0..MaxLen /\ cursor.byte_len - Chunk <= call.len
  BY <1>2, UsingFacts, ChunkFacts, CallFacts, BufferAssumption
<1>4. cursor.sector + cursor.num_sect \in Nat
  BY UsingFacts
<1>5. cursor' \in Cursor
  BY <1>1, <1>3, <1>4, BufferAssumption DEF Cursor
<1>6. CallTypeOK'
  BY <1>1, <1>5 DEF IInv, TypeOK, CallTypeOK
<1>7. Selected'
  BY <1>1, <1>3, UsingFacts DEF IInv, Selected
<1>8. Loaded'
  BY <1>1 DEF Loaded
<1>9. QED
  BY <1>6, <1>7, <1>8 DEF IInv, TypeOK

LEMMA UseReadIInv ==
  ASSUME IInv, UseRead
  PROVE  IInv'
<1>1. pc = "use" /\ Advance /\ UNCHANGED <<disk, geom, cache>>
  BY DEF UseRead
<1>2. UNCHANGED <<geom, buf_drive, buf_geom>>
  BY <1>1 DEF cache
<1>3. out' \in Seq(Bytes \cup {Bad})
  <2> DEFINE new == [j \in 1..Chunk |-> BufByte(buffer, j - 1)]
  <2>1. Chunk \in Nat
    BY <1>1, ChunkFacts
  <2>2. \A j \in 1..Chunk : BufByte(buffer, j - 1) \in Bytes \cup {Bad}
    <3> TAKE j \in 1..Chunk
    <3>1. j - 1 \in 0..(Chunk - 1)
      BY <2>1
    <3>2. QED
      BY <1>1, <3>1, ChunkByte
  <2>3. new \in Seq(Bytes \cup {Bad})
    BY <2>1, <2>2
  <2>4. out \in Seq(Bytes \cup {Bad})
    BY DEF IInv, TypeOK, CallTypeOK
  <2>5. out' = out \o new
    BY DEF UseRead
  <2> HIDE DEF new
  <2>6. QED
    BY <2>3, <2>4, <2>5
<1>4. QED
  BY <1>1, <1>2, <1>3, CacheUnchanged, AdvanceIInv

LEMMA SkipWriteIInv ==
  ASSUME IInv, SkipWrite
  PROVE  IInv'
<1>1. pc = "use" /\ Advance /\ UNCHANGED <<disk, geom, cache>> /\ out' = out
  BY DEF SkipWrite
<1>2. UNCHANGED <<geom, buf_drive, buf_geom>>
  BY <1>1 DEF cache
<1>3. out' \in Seq(Bytes \cup {Bad})
  BY <1>1 DEF IInv, TypeOK, CallTypeOK
<1>4. QED
  BY <1>1, <1>2, <1>3, CacheUnchanged, AdvanceIInv

\* The patched buffer is well-formed, and its loaded sectors hold no mark.
LEMMA PatchedFacts ==
  ASSUME IInv, pc = "use", call.op = "write"
  PROVE  /\ Patched \in [Slots -> BufSector]
         /\ \A i \in 0..(cursor.num_sect - 1) : Patched[Soff + i] \in Sector
<1> DEFINE at(i, b) == (i - Soff) * SS + b - cursor.byte_offset
<1>1. call.data \in Seq(Bytes) /\ Len(call.data) = call.len /\ call.len \in Nat
  BY UsingFacts, CallFacts, BufferAssumption
<1>2. \A j \in 0..(Chunk - 1) : call.data[Done + j + 1] \in Bytes
  <2> TAKE j \in 0..(Chunk - 1)
  <2>1. Done + j + 1 \in 1..Len(call.data)
    BY <1>1, UsingFacts, ChunkFacts DEF Done
  <2> DEFINE x == Done + j + 1
  <2> HIDE DEF x
  <2>2. x \in 1..Len(call.data)
    BY <2>1 DEF x
  <2>3. call.data[x] \in Bytes
    BY <1>1, <2>2
  <2>4. QED
    BY <2>3 DEF x
<1>3. buffer \in [Slots -> BufSector]
  BY DEF IInv, TypeOK, CacheTypeOK
<1>4. \A i \in Slots, b \in 0..(SS - 1) :
        Patched[i][b] = IF at(i, b) \in 0..(Chunk - 1) THEN call.data[Done + at(i, b) + 1]
                                                      ELSE buffer[i][b]
  BY DEF Patched
<1>5. \A i \in Slots : Patched[i] = [b \in 0..(SS - 1) |-> Patched[i][b]]
  BY DEF Patched
<1> HIDE DEF at
<1>6. \A i \in Slots, b \in 0..(SS - 1) : Patched[i][b] \in Bytes \cup {Bad}
  BY <1>2, <1>3, <1>4 DEF BufSector
<1>7. Patched = [i \in Slots |-> Patched[i]]
  BY DEF Patched
<1>8. Patched \in [Slots -> BufSector]
  <2> DEFINE P == Patched
  <2>1. P = [i \in Slots |-> P[i]] /\ \A i \in Slots : P[i] \in BufSector
    BY <1>5, <1>6, <1>7 DEF BufSector
  <2> HIDE DEF P
  <2>2. P \in [Slots -> BufSector]
    BY <2>1
  <2>3. QED
    BY <2>2 DEF P
<1>9. ASSUME NEW i \in 0..(cursor.num_sect - 1)
      PROVE  Patched[Soff + i] \in Sector
  <2> DEFINE x == Soff + i
  <2>1. x \in Slots
    <3>1. cursor.num_sect \in 1..RestOfTrack /\ TypeOK
      BY UsingFacts
    <3>2. /\ RestOfTrack \in Nat /\ Soff \in Nat /\ SectorsPerVtrack <= BufSectors
          /\ RestOfTrack + Soff = SectorsPerVtrack /\ SectorsPerVtrack \in Nat
      BY <3>1, TrackFacts, BufferAssumption
    <3>3. QED
      BY <3>1, <3>2, BufferAssumption DEF Slots
  <2>2. buffer[x] \in Sector
    <3>1. /\ cursor.sector + i < Total[call.drive]
          /\ buffer[x] = disk[call.drive][cursor.sector + i]
      BY DEF IInv, Loaded
    <3>2. cursor.sector + i \in Sectors(call.drive)
      <4>1. cursor.sector \in Nat /\ call.drive \in Drives /\ cursor.num_sect \in Nat
        BY UsingFacts
      <4>2. Total[call.drive] \in Nat
        BY <4>1, DriveAssumption
      <4>3. i \in Nat
        BY <4>1
      <4>4. QED
        BY <3>1, <4>1, <4>2, <4>3 DEF Sectors
    <3>3. QED
      BY <3>1, <3>2, UsingFacts DEF TypeOK, DriveTypeOK, Content
  <2> HIDE DEF x
  <2>3. \A b \in 0..(SS - 1) : Patched[x][b] \in Bytes
    BY <1>2, <1>4, <2>1, <2>2 DEF Sector
  <2>4. Patched[x] \in Sector
    <3> DEFINE S == Patched[x]
    <3>1. S = [b \in 0..(SS - 1) |-> S[b]] /\ \A b \in 0..(SS - 1) : S[b] \in Bytes
      BY <1>5, <2>1, <2>3
    <3> HIDE DEF S
    <3>2. S \in Sector
      BY <3>1 DEF Sector
    <3>3. QED
      BY <3>2 DEF S
  <2>5. QED
    BY <2>4 DEF x
<1>10. QED
  BY <1>8, <1>9

LEMMA UseWriteIInv ==
  ASSUME IInv, UseWrite
  PROVE  IInv'
<1>1. PICK w \in RawdiskWrite(Patched, call.drive, cursor.sector, cursor.num_sect, Soff) :
        /\ disk' = w.disk
        /\ IF w.ok THEN Advance /\ UNCHANGED out
                   ELSE Return(FALSE) /\ UNCHANGED cursor
  BY DEF UseWrite
<1>2. /\ pc = "use" /\ call.op = "write" /\ buf_track' = None /\ buffer' = Patched
      /\ UNCHANGED <<geom, buf_drive, buf_geom>>
  BY DEF UseWrite
<1>3. TypeOK /\ cursor \in Cursor /\ out \in Seq(Bytes \cup {Bad})
  BY DEF IInv, TypeOK, CallTypeOK
<1>4. buffer' \in [Slots -> BufSector]
  BY <1>2, PatchedFacts
<1>5. DriveTypeOK'
  <2> DEFINE buf == Patched
             d == call.drive
             s == cursor.sector
             n == cursor.num_sect
             o == Soff
  <2>1. d \in Drives /\ s \in Nat
    BY <1>2, UsingFacts
  <2>2. n \in 1..RestOfTrack
    BY <1>2, UsingFacts
  <2>3. RestOfTrack \in 1..BufSectors /\ o \in Nat
    BY <1>3, TrackFacts, BufferAssumption
  <2>4. n \in 1..BufSectors
    BY <2>2, <2>3, BufferAssumption
  <2>5. Whole(buf, o, n)
    BY <1>2, PatchedFacts DEF Whole
  <2>6. w \in RawdiskWrite(buf, d, s, n, o)
    BY <1>1
  <2> HIDE DEF buf, d, s, n, o
  <2>7. WroteWithin(w.disk, buf, d, s, n, o)
    <3>1. TypeOK /\ o \in Nat
      BY <1>3, <2>3
    <3>2. QED
      BY ONLY Zenon, <3>1, <2>1, <2>4, <2>5, <2>6, RawdiskWriteFacts
  <2>8. QED
    BY <1>1, <1>2, <1>3, <2>7 DEF TypeOK, DriveTypeOK, WroteWithin
<1>6. CacheTypeOK' /\ Aligned' /\ CacheCoherent'
  BY <1>2, <1>3, <1>4, NoTrack DEF TypeOK, CacheTypeOK
<1>7. CASE w.ok
  <2>1. Advance /\ out' \in Seq(Bytes \cup {Bad})
    BY <1>1, <1>3, <1>7
  <2>2. QED
    BY <1>2, <1>5, <1>6, <2>1, AdvanceIInv
<1>8. CASE ~ w.ok
  <2>1. Return(FALSE) /\ cursor' \in Cursor
    BY <1>1, <1>3, <1>8
  <2>2. QED
    BY <1>2, <1>4, <1>5, <2>1, GiveUp
<1>9. QED
  BY <1>7, <1>8

-----------------------------------------------------------------------------
(* Steps that return, and rawwrite *)

LEMMA ReturningIInv ==
  ASSUME IInv, NoDisk \/ SectorTooBig \/ WontFit \/ Finish \/ SectorReadFails
                 \/ SectorUnchanged
  PROVE  IInv'
<1>1. /\ pc # "idle"
      /\ UNCHANGED <<disk, geom, cache, cursor>>
      /\ Return(FALSE) \/ Return(TRUE)
  BY DEF NoDisk, SectorTooBig, WontFit, Finish, SectorReadFails, SectorUnchanged, SectorRead
<1>2. QED
  BY <1>1, ReturnIInv

\* Under SafeUse, "Update the cache" covers every buffered sector rawwrite is
\* given: the window buf_geom.sectors is as good as the whole track.
LEMMA InWindow ==
  ASSUME SafeUse, IInv, pc = "sector", buf_track # None,
         NEW i \in 0..(SectorsPerVtrack - 1), cursor.sector = buf_track + i
  PROVE  i < buf_geom.sectors
<1>1. TypeOK /\ buf_track \in Nat /\ buf_geom \in Geometry
  BY DEF IInv, TypeOK, CacheTypeOK
<1>2. SectorsPerVtrack \in Nat \ {0} /\ i \in Nat
  BY <1>1, TrackFacts, BufferAssumption
<1>3. CASE buf_geom.lba
  <2>1. SectorsPerVtrack = VT
    BY <1>3 DEF SectorsPerVtrack
  <2>2. cursor.sector % VT = i
    <3>1. buf_track % VT = 0 /\ VT \in Nat \ {0} /\ i \in 0..(VT - 1)
      BY <1>2, <2>1 DEF IInv, Aligned
    <3>2. QED
      BY <1>1, <3>1, ModAdd
  <2>3. call \in Calls /\ call.op = "rawwrite" /\ buf_drive = call.drive
        /\ cursor.sector = call.sector
    BY DEF IInv, Selected
  <2>4. cursor.sector \in WriteTargets[call.drive] /\ call.drive \in Drives
    BY <2>3, CallFacts
  <2>5. buf_geom \in Geometries[call.drive]
    BY <2>3, <2>4, DriveAssumption DEF IInv, Selected, None
  <2>6. cursor.sector % VT < buf_geom.sectors
    BY <1>3, <2>4, <2>5 DEF SafeUse
  <2>7. QED
    BY <2>2, <2>6
<1>4. CASE ~ buf_geom.lba
  BY <1>1, <1>2, <1>4 DEF SectorsPerVtrack, Geometry, MaxSpt
<1>5. QED
  BY <1>3, <1>4

LEMMA SectorWriteIInv ==
  ASSUME SafeUse, IInv, SectorWrite
  PROVE  IInv'
<1> DEFINE scratch == [i \in {0} |-> NewSector]
           d == call.drive
           s == cursor.sector
<1>1. PICK w \in RawdiskWrite(scratch, d, s, 1, 0) :
        /\ disk' = w.disk
        /\ Return(w.ok)
        /\ buffer' = IF w.ok THEN WriteThrough ELSE buffer
  BY DEF SectorWrite
<1>2. pc = "sector" /\ UNCHANGED <<geom, buf_drive, buf_track, buf_geom, cursor>>
  BY DEF SectorWrite, SectorRead
<1>3. /\ call \in Calls /\ call.op = "rawwrite" /\ buf_drive = d /\ s = call.sector
      /\ TypeOK /\ cursor \in Cursor
  BY <1>2 DEF IInv, Selected, TypeOK, CallTypeOK
<1>4. d \in Drives /\ s \in Nat /\ call.data \in Seq(Bytes) /\ Len(call.data) = SS
  BY <1>3, CallFacts DEF Cursor
<1>5. Total[d] \in Nat /\ d # None
  BY <1>4, DriveAssumption DEF None
<1>6. NewSector \in Sector
  <2>1. \A i \in 0..(SS - 1) : call.data[i + 1] \in Bytes
    <3> TAKE i \in 0..(SS - 1)
    <3> DEFINE x == i + 1
    <3>1. x \in 1..Len(call.data)
      BY <1>4, BufferAssumption
    <3> HIDE DEF x
    <3>2. call.data[x] \in Bytes
      BY <1>4, <3>1
    <3>3. QED
      BY <3>2 DEF x
  <2>2. QED
    BY <2>1 DEF NewSector, Sector
<1>7. /\ w.ok \in BOOLEAN
      /\ DOMAIN w.disk = Drives
      /\ \A e \in Drives : w.disk[e] \in Content(e)
      /\ \A e \in Drives \ {d} : w.disk[e] = disk[e]
      /\ \A x \in Sectors(d) : x \notin s..(s + 1 - 1) => w.disk[d][x] = disk[d][x]
  <2> DEFINE n == 1
             o == 0
  <2>1. n \in 1..BufSectors /\ o \in Nat /\ Whole(scratch, o, n)
    BY <1>6, BufferAssumption DEF Whole
  <2>2. w \in RawdiskWrite(scratch, d, s, n, o)
    BY <1>1
  <2>3. TypeOK /\ d \in Drives /\ s \in Nat
    BY <1>3, <1>4
  <2> HIDE DEF scratch, d, s, n, o
  <2>4. w.ok \in BOOLEAN /\ WroteWithin(w.disk, scratch, d, s, n, o)
    BY ONLY Zenon, <2>1, <2>2, <2>3, RawdiskWriteFacts
  <2>5. QED
    BY <2>4 DEF n, WroteWithin
<1>8. ASSUME w.ok
      PROVE  s + 1 <= Total[d] /\ w.disk[d][s] = NewSector
  <2> DEFINE n == 1
             o == 0
  <2>1. n \in 1..BufSectors /\ o \in Nat
    BY BufferAssumption
  <2>2. w \in RawdiskWrite(scratch, d, s, n, o)
    BY <1>1
  <2>3. TypeOK /\ d \in Drives /\ s \in Nat
    BY <1>3, <1>4
  <2> HIDE DEF scratch, d, s, n, o
  <2>4. s + n <= Total[d] /\ \A i \in 0..(n - 1) : w.disk[d][s + i] = scratch[o + i]
    BY ONLY Zenon, <1>8, <2>1, <2>2, <2>3, RawdiskWriteGood
  <2>5. 0 \in 0..(n - 1) /\ s + 0 = s /\ o + 0 = 0
    BY <2>3 DEF n, o
  <2>6. w.disk[d][s + 0] = scratch[o + 0]
    BY <2>4, <2>5
  <2>7. w.disk[d][s] = scratch[0]
    BY <2>5, <2>6
  <2>8. QED
    BY <2>4, <2>7 DEF n, scratch
<1>9. DriveTypeOK'
  BY <1>1, <1>2, <1>3, <1>7 DEF TypeOK, DriveTypeOK
<1>10. CallTypeOK' /\ Selected' /\ Loaded'
  <2>1. pc' = "done" /\ ok' = w.ok /\ call' = call /\ out' = out
    BY <1>1 DEF Return
  <2>2. CallTypeOK'
    BY <1>2, <1>3, <1>7, <2>1 DEF TypeOK, CallTypeOK
  <2>3. Selected' /\ Loaded'
    BY <1>2, <1>3, <2>1 DEF IInv, Selected, Loaded
  <2>4. QED
    BY <2>2, <2>3
<1>11. Aligned' /\ SectorsPerVtrack' = SectorsPerVtrack
  BY <1>2 DEF IInv, Aligned, SectorsPerVtrack
<1>12. SectorsPerVtrack \in 1..BufSectors /\ buf_track \in Nat \cup {None}
       /\ buf_geom.sectors \in 1..BufSectors /\ buffer \in [Slots -> BufSector]
  BY <1>3, TrackFacts DEF TypeOK, CacheTypeOK, Geometry, MaxSpt
<1>13. CASE w.ok
  <2>1. buffer' = WriteThrough
    BY <1>1, <1>13
  <2>2. NewSector \in BufSector
    BY <1>6 DEF Sector, BufSector
  <2>3. buffer' \in [Slots -> BufSector]
    BY <1>12, <2>1, <2>2 DEF WriteThrough
  <2>4. ASSUME buf_track # None, NEW i \in 0..(SectorsPerVtrack - 1)
        PROVE  /\ buf_track + i < Total[d]
               /\ buffer'[i] = w.disk[d][buf_track + i]
    <3>1. /\ buf_track + i < Total[d]
          /\ buffer[i] = disk[d][buf_track + i]
      BY <1>3, <1>5, <2>4 DEF IInv, CacheCoherent
    <3>2. buf_track \in Nat /\ i \in Slots /\ i \in Nat
      BY <1>12, <2>4, BufferAssumption DEF Slots
    <3>3. CASE s = buf_track + i
      <4>1. i < buf_geom.sectors
        BY <1>2, <2>4, <3>3, InWindow
      <4>2. s >= buf_track /\ s - buf_track = i
        BY <3>2, <3>3
      <4>3. WriteThrough = [buffer EXCEPT ![i] = NewSector]
        BY <2>4, <4>1, <4>2 DEF WriteThrough
      <4>4. QED
        BY <1>8, <1>12, <1>13, <2>1, <3>1, <3>2, <3>3, <4>3
    <3>4. CASE s # buf_track + i
      <4>1. w.disk[d][buf_track + i] = disk[d][buf_track + i]
        <5>1. buf_track + i \in Sectors(d)
          BY <1>5, <3>1, <3>2 DEF Sectors
        <5>2. buf_track + i \notin s..(s + 1 - 1)
          BY <1>4, <3>2, <3>4
        <5>3. QED
          BY <1>7, <5>1, <5>2
      <4>2. s - buf_track # i
        BY <1>4, <3>2, <3>4
      <4>3. WriteThrough[i] = buffer[i]
        BY <1>12, <3>2, <4>2 DEF WriteThrough
      <4>4. QED
        BY <2>1, <3>1, <4>1, <4>3
    <3>5. QED
      BY <3>3, <3>4
  <2>5. CacheCoherent'
    BY <1>1, <1>2, <1>3, <1>11, <2>4 DEF CacheCoherent
  <2>6. CacheTypeOK'
    BY <1>2, <1>3, <2>3 DEF TypeOK, CacheTypeOK
  <2>7. QED
    BY <1>9, <1>10, <1>11, <2>5, <2>6 DEF IInv, TypeOK
<1>14. CASE ~ w.ok
  <2>1. buffer' = buffer
    BY <1>1, <1>14
  <2>2. \A e \in Drives : w.disk[e] = disk[e]
    <3> DEFINE o == 0
    <3>1. w \in RawdiskWrite(scratch, d, s, 1, o) /\ o \in Nat
      BY <1>1
    <3>2. TypeOK /\ d \in Drives /\ s \in Nat
      BY <1>3, <1>4
    <3> HIDE DEF scratch, d, s, o
    <3>3. QED
      BY ONLY Zenon, SafeUse, <1>14, <3>1, <3>2, RawdiskWriteBad
  <2>3. CacheCoherent'
    BY <1>1, <1>2, <1>3, <1>4, <1>11, <2>1, <2>2 DEF IInv, CacheCoherent
  <2>4. CacheTypeOK'
    BY <1>2, <1>3, <2>1 DEF TypeOK, CacheTypeOK
  <2>5. QED
    BY <1>9, <1>10, <1>11, <2>3, <2>4 DEF IInv, TypeOK
<1>15. QED
  BY <1>7, <1>13, <1>14

-----------------------------------------------------------------------------
(* Between calls *)

LEMMA ResumeIInv ==
  ASSUME IInv, Resume
  PROVE  IInv'
<1>1. /\ pc' = "idle" /\ call' = NoCall /\ cursor' = AtRest /\ out' = <<>> /\ ok' = FALSE
      /\ UNCHANGED <<disk, geom, cache>>
  BY DEF Resume
<1>2. cursor' \in Cursor
  BY <1>1, BufferAssumption DEF Cursor, AtRest
<1>3. out' \in Seq(Bytes \cup {Bad})
  BY <1>1
<1>4. CallTypeOK'
  BY <1>1, <1>2, <1>3 DEF CallTypeOK
<1>5. Selected' /\ Loaded'
  BY <1>1 DEF IInv, Selected, Loaded, cache
<1>6. QED
  BY <1>1, <1>4, <1>5, CacheUnchanged DEF IInv, TypeOK

\* What a command leaves alone when no call is in progress.
LEMMA IdleCall ==
  ASSUME IInv, pc = "idle", UNCHANGED <<pc, request>>,
         buf_drive' # None => buf_geom' \in Geometries[buf_drive']
  PROVE  CallTypeOK' /\ Selected' /\ Loaded'
<1>1. UNCHANGED <<pc, call, cursor, out, ok>>
  BY DEF request
<1>2. CallTypeOK'
  BY <1>1 DEF IInv, TypeOK, CallTypeOK
<1>3. Selected' /\ Loaded'
  BY <1>1 DEF IInv, Selected, Loaded
<1>4. QED
  BY <1>2, <1>3

\* The content, or the probed geometry, of one drive is replaced.
LEMMA DriveReplaced ==
  ASSUME IInv, NEW d \in Drives,
         disk' = disk \/ \E i \in Images[d] : disk' = [disk EXCEPT ![d] = i],
         geom' = geom \/ \E g \in Geometries[d] : geom' = [geom EXCEPT ![d] = g]
  PROVE  DriveTypeOK'
<1>1. DOMAIN disk = Drives /\ \A e \in Drives : disk[e] \in Content(e)
  BY DEF IInv, TypeOK, DriveTypeOK
<1>2. DOMAIN geom = Drives /\ \A e \in Drives : geom[e] \in Geometries[e]
  BY DEF IInv, TypeOK, DriveTypeOK
<1>3. DOMAIN disk' = Drives /\ \A e \in Drives : disk'[e] \in Content(e)
  BY <1>1, DriveAssumption
<1>4. DOMAIN geom' = Drives /\ \A e \in Drives : geom'[e] \in Geometries[e]
  BY <1>2
<1>5. QED
  BY <1>3, <1>4 DEF DriveTypeOK

LEMMA ExchangeDiskIInv ==
  ASSUME IInv, NEW d \in Drives, ExchangeDisk(d)
  PROVE  IInv'
<1>1. /\ pc = "idle" /\ buf_drive' = None
      /\ UNCHANGED <<geom, buf_track, buf_geom, buffer>> /\ UNCHANGED <<pc, request>>
      /\ \E i \in Images[d] : disk' = [disk EXCEPT ![d] = i]
  BY DEF ExchangeDisk
<1>2. DriveTypeOK'
  BY <1>1, DriveReplaced
<1>3. CacheTypeOK' /\ Aligned' /\ CacheCoherent'
  BY <1>1 DEF IInv, TypeOK, CacheTypeOK, Aligned, CacheCoherent, SectorsPerVtrack
<1>4. CallTypeOK' /\ Selected' /\ Loaded'
  BY <1>1, IdleCall
<1>5. QED
  BY <1>2, <1>3, <1>4 DEF IInv, TypeOK

LEMMA MapDriveIInv ==
  ASSUME IInv, NEW d \in Drives, MapDrive(d)
  PROVE  IInv'
<1>1. /\ pc = "idle" /\ buf_drive' = None /\ buf_track' = None
      /\ UNCHANGED <<buf_geom, buffer>> /\ UNCHANGED <<pc, request>>
      /\ \E i \in Images[d] : disk' = [disk EXCEPT ![d] = i]
      /\ \E g \in Geometries[d] : geom' = [geom EXCEPT ![d] = g]
  BY DEF MapDrive
<1>2. DriveTypeOK'
  BY <1>1, DriveReplaced
<1>3. CacheTypeOK' /\ Aligned' /\ CacheCoherent'
  BY <1>1, NoTrack DEF IInv, TypeOK, CacheTypeOK
<1>4. CallTypeOK' /\ Selected' /\ Loaded'
  BY <1>1, IdleCall
<1>5. QED
  BY <1>2, <1>3, <1>4 DEF IInv, TypeOK

LEMMA TuneGeometryIInv ==
  ASSUME SafeUse, IInv, NEW d \in Drives, TuneGeometry(d)
  PROVE  IInv'
<1>1. PICK g \in Geometries[d] : geom' = [geom EXCEPT ![d] = g] /\ buf_geom' = g
  BY DEF TuneGeometry
<1>2. /\ pc = "idle" /\ buf_drive' = d /\ buf_track' = None
      /\ UNCHANGED <<disk, buffer>> /\ UNCHANGED <<pc, request>>
  BY DEF TuneGeometry, SafeUse
<1>3. DriveTypeOK'
  BY <1>1, <1>2, DriveReplaced
<1>4. CacheTypeOK' /\ Aligned' /\ CacheCoherent'
  BY <1>1, <1>2, NoTrack, DriveAssumption DEF IInv, TypeOK, CacheTypeOK
<1>5. CallTypeOK' /\ Selected' /\ Loaded'
  BY <1>1, <1>2, IdleCall
<1>6. QED
  BY <1>3, <1>4, <1>5 DEF IInv, TypeOK

LEMMA ForgetTrackIInv ==
  ASSUME IInv, ForgetTrack
  PROVE  IInv'
<1>1. /\ pc = "idle" /\ buf_track' = None
      /\ UNCHANGED <<disk, geom, buf_drive, buf_geom, buffer>> /\ UNCHANGED <<pc, request>>
  BY DEF ForgetTrack
<1>2. DriveTypeOK' /\ CacheTypeOK' /\ Aligned' /\ CacheCoherent'
  BY <1>1, NoTrack DEF IInv, TypeOK, DriveTypeOK, CacheTypeOK
<1>3. CallTypeOK' /\ Selected' /\ Loaded'
  BY <1>1, IdleCall DEF IInv, Selected
<1>4. QED
  BY <1>2, <1>3 DEF IInv, TypeOK

-----------------------------------------------------------------------------
(* The theorems *)

LEMMA NextIInv ==
  ASSUME SafeUse, IInv, [Next]_vars
  PROVE  IInv'
<1>1. ASSUME NEW c \in Calls, Call(c) PROVE IInv'
  BY <1>1, CallIInv
<1>2. CASE SelectDrive
  BY <1>2, SelectDriveIInv
<1>3. CASE NoDisk
  BY <1>3, ReturningIInv
<1>4. CASE RawreadStep
  BY <1>4, ReturningIInv, HitIInv, LoadRestIInv, LoadTrackIInv, LoadRequiredIInv,
     UseReadIInv, SkipWriteIInv, UseWriteIInv DEF RawreadStep
<1>5. CASE RawwriteStep
  BY <1>5, ReturningIInv, SectorWriteIInv DEF RawwriteStep
<1>6. CASE Resume
  BY <1>6, ResumeIInv
<1>7. ASSUME NEW d \in Drives, Command(d) PROVE IInv'
  BY <1>7, ExchangeDiskIInv, MapDriveIInv, TuneGeometryIInv DEF Command
<1>8. CASE ForgetTrack
  BY <1>8, ForgetTrackIInv
<1>9. CASE UNCHANGED vars
  <2>1. UNCHANGED <<disk, geom, buf_drive, buf_track, buf_geom, buffer,
                    pc, call, cursor, out, ok>>
    BY <1>9 DEF vars
  <2>2. UNCHANGED <<disk, geom, cache>>
    BY <2>1 DEF cache
  <2>3. CallTypeOK' /\ Selected' /\ Loaded'
    BY <2>1 DEF IInv, TypeOK, CallTypeOK, Selected, Loaded, Soff, RestOfTrack,
                SectorsPerVtrack
  <2>4. QED
    BY <2>2, <2>3, CacheUnchanged DEF IInv, TypeOK
<1>10. QED
  BY <1>1, <1>2, <1>3, <1>4, <1>5, <1>6, <1>7, <1>8, <1>9 DEF Next, CallStep

LEMMA Inductive == ASSUME SafeUse PROVE Spec => []IInv
<1>1. IInv /\ [Next]_vars => IInv'
  BY NextIInv
<1>2. QED
  BY <1>1, InitIInv, PTL DEF Spec

\* Every variable has its type in every reachable state: rawread and rawwrite
\* (disk_io.c) never touch the buffer outside BUFFERLEN and never serve more
\* bytes than they were asked for, whatever the drives' geometries.
THEOREM Types == ASSUME SafeUse PROVE Spec => []TypeOK
<1>1. IInv => TypeOK
  BY DEF IInv
<1>2. QED
  BY <1>1, Inductive, PTL

\* The buffered track always equals the disk (the obligation shared by
\* rawread, rawwrite and every command that assigns buf_drive, buf_track or
\* buf_geom), for every drive, geometry, buffer size and request.
THEOREM Coherence == ASSUME SafeUse PROVE Spec => []CacheCoherent
<1>1. IInv => CacheCoherent
  BY DEF IInv
<1>2. QED
  BY <1>1, Inductive, PTL

-----------------------------------------------------------------------------
(***************************************************************************)
(* What one call does, under SafeUse: what rawread returns is what the     *)
(* drive holds, no call changes a byte outside its request, and the calls  *)
(* implement the plain drives of SectorStore, step by step.                *)
(***************************************************************************)

\* Byte j of the request, and whether its sector is on the drive.
Wanted(j) == DiskByte(call.drive, call.sector, call.offset, j)
OnDrive(j) == call.sector + ((call.offset + j) \div SS) < Total[call.drive]

\* The cursor stands just behind the bytes served.
Placed ==
  pc \in {"select", "load", "use"} /\ cursor.byte_len > 0 =>
    cursor.sector * SS + cursor.byte_offset = call.sector * SS + (call.offset + Done)

\* A read has moved a prefix of its bytes.
Moved ==
  /\ Len(out) + cursor.byte_len = call.len
  /\ \A j \in 0..(Len(out) - 1) : OnDrive(j) /\ out[j + 1] = Wanted(j)

Served == pc \in {"select", "load", "use"} /\ call.op = "read" => Moved

SInv == Served /\ ReadIsCurrent

-----------------------------------------------------------------------------
(* Arithmetic: one byte of a drive, counted from two places *)

LEMMA Cancel ==
  ASSUME NEW n \in Nat \ {0}, NEW x \in Nat, NEW y \in Nat, n * x = n * y
  PROVE  x = y
<1>1. CASE x < y
  <2>1. PICK k \in Nat \ {0} : y = x + k
    <3>1. y - x \in Nat \ {0} /\ y = x + (y - x)
      BY <1>1
    <3>2. QED
      BY <3>1
  <2>2. n * y = n * x + n * k
    BY <2>1
  <2>3. n * k > 0
    BY <2>1
  <2>4. QED
    BY <2>2, <2>3
<1>2. CASE y < x
  <2>1. PICK k \in Nat \ {0} : x = y + k
    <3>1. x - y \in Nat \ {0} /\ x = y + (x - y)
      BY <1>2
    <3>2. QED
      BY <3>1
  <2>2. n * x = n * y + n * k
    BY <2>1
  <2>3. n * k > 0
    BY <2>1
  <2>4. QED
    BY <2>2, <2>3
<1>3. QED
  BY <1>1, <1>2

\* Byte a from sector s is byte b from sector t.
Same(s, a, t, b) == s * SS + a = t * SS + b
Agree(s, a, t, b) == s + (a \div SS) = t + (b \div SS) /\ a % SS = b % SS

LEMMA SameAgree ==
  ASSUME NEW s \in Nat, NEW a \in Nat, NEW t \in Nat, NEW b \in Nat, Same(s, a, t, b)
  PROVE  Agree(s, a, t, b)
<1> DEFINE q == a \div SS  r == a % SS  u == b \div SS  v == b % SS
           x == s + q  y == t + u
<1>1. SS \in Nat \ {0}
  BY BufferAssumption
<1>2. q \in Nat /\ a = SS * q + r
  BY <1>1, DivMod
<1>3. u \in Nat /\ b = SS * u + v
  BY <1>1, DivMod
<1>4. r \in 0..(SS - 1) /\ v \in 0..(SS - 1)
  BY <1>1, ModRange
<1>5. s * SS + a = t * SS + b
  BY DEF Same
<1> HIDE DEF q, r, u, v
<1>6. SS * (s + q) = s * SS + SS * q /\ SS * (t + u) = t * SS + SS * u
  BY <1>1, <1>2, <1>3
<1>7. SS * (s + q) + r = SS * (t + u) + v
  <2>1. s * SS \in Nat /\ t * SS \in Nat /\ SS * q \in Nat /\ SS * u \in Nat
    BY <1>1, <1>2, <1>3
  <2>2. QED
    BY <1>1, <1>2, <1>3, <1>4, <1>5, <1>6, <2>1
<1>8. x \in Nat /\ y \in Nat
  BY <1>2, <1>3
<1>9. SS * x + r = SS * y + v
  BY <1>7
<1> HIDE DEF x, y
<1>10. (SS * x + r) % SS = r /\ (SS * y + v) % SS = v
  BY <1>1, <1>4, <1>8, ModUnique
<1>11. r = v
  BY <1>9, <1>10
<1>12. SS * x = SS * y
  <2>1. SS * x \in Nat /\ SS * y \in Nat
    BY <1>1, <1>8
  <2>2. QED
    BY <1>1, <1>4, <1>9, <1>11, <2>1
<1>13. x = y
  BY <1>1, <1>8, <1>12, Cancel
<1>14. QED
  BY <1>11, <1>13 DEF Agree, x, y, q, r, u, v

LEMMA MulMono ==
  ASSUME NEW n \in Nat, NEW x \in Nat, NEW y \in Nat, x <= y
  PROVE  x * n <= y * n
<1>1. PICK k \in Nat : y = x + k
  <2>1. y - x \in Nat /\ y = x + (y - x)
    OBVIOUS
  <2>2. QED
    BY <2>1
<1>2. y * n = x * n + k * n /\ k * n \in Nat /\ x * n \in Nat
  BY <1>1
<1>3. QED
  BY <1>2

-----------------------------------------------------------------------------
(* The cursor *)

\* A step that does not finish the request uses the loaded sectors up.
LEMMA ChunkToTheEnd ==
  ASSUME IInv, pc = "use", Chunk # cursor.byte_len
  PROVE  cursor.byte_offset + Chunk = cursor.num_sect * SS
<1> DEFINE here == cursor.num_sect * SS
           most == BufSectors * SS
<1>1. here - cursor.byte_offset \in Nat \ {0} /\ here \in Nat /\ most \in Nat \ {0}
  <2>1. here - cursor.byte_offset \in Nat \ {0}
    BY UsingFacts, BufferAssumption, SpanPositive
  <2>2. here \in Nat
    BY UsingFacts, BufferAssumption
  <2>3. most \in Nat \ {0}
    BY BufferAssumption
  <2>4. QED
    BY <2>1, <2>2, <2>3
<1>2. here <= most
  <2>1. cursor.num_sect \in Nat /\ cursor.num_sect <= BufSectors
    BY UsingFacts DEF Cursor
  <2>2. QED
    BY <2>1, BufferAssumption, MulMono
<1>3. Chunk = Min2(Size, here - cursor.byte_offset) /\ Size = Min2(cursor.byte_len, most)
  BY DEF Chunk, Size
<1>4. cursor.byte_offset \in Nat /\ cursor.byte_len \in Nat
  BY UsingFacts, BufferAssumption
<1> HIDE DEF here, most
<1>5. cursor.byte_offset + Chunk = here
  <2>1. CASE Size <= here - cursor.byte_offset
    <3>1. Chunk = Size /\ Size = most
      BY <1>3, <2>1 DEF Min2
    <3>2. QED
      BY <1>1, <1>2, <1>4, <2>1, <3>1
  <2>2. CASE ~ (Size <= here - cursor.byte_offset)
    <3>1. Chunk = here - cursor.byte_offset
      BY <1>3, <2>2 DEF Min2
    <3>2. QED
      BY <1>1, <1>4, <3>1
  <2>3. QED
    BY <2>1, <2>2
<1>6. QED
  BY <1>5 DEF here

LEMMA AdvancePlaced ==
  ASSUME IInv, Placed, pc = "use", Advance
  PROVE  Placed'
<1> SUFFICES ASSUME cursor'.byte_len > 0
             PROVE  cursor'.sector * SS + cursor'.byte_offset
                      = call'.sector * SS + (call'.offset + Done')
  BY DEF Placed
<1> DEFINE n == Chunk
           len == call.len
           left == cursor.byte_len
           o == cursor.byte_offset
           c == call.offset
           sp == cursor.sector * SS
           kp == cursor.num_sect * SS
           tp == call.sector * SS
<1>1. /\ call' = call
      /\ cursor' = [sector |-> cursor.sector + cursor.num_sect, byte_offset |-> 0,
                    byte_len |-> left - n, num_sect |-> 0]
  BY DEF Advance
<1>2. n \in Nat /\ left \in Nat \ {0} /\ call \in Calls
  BY ChunkFacts, UsingFacts
<1>3. Chunk # cursor.byte_len
  BY <1>1, <1>2
<1>4. o + n = kp
  BY <1>3, ChunkToTheEnd
<1>5. sp + o = tp + (c + (len - left))
  BY <1>2 DEF Placed, Done
<1>6. o \in Nat /\ c \in Nat /\ len \in Nat
  BY <1>2, UsingFacts, CallFacts, BufferAssumption
<1>7. sp \in Nat /\ kp \in Nat
  BY UsingFacts, BufferAssumption
<1>8. tp \in Nat
  BY <1>2, CallFacts, BufferAssumption
<1>9. (cursor.sector + cursor.num_sect) * SS = sp + kp
  BY UsingFacts, BufferAssumption
<1>10. cursor'.sector * SS + cursor'.byte_offset = (sp + kp) + 0
  BY <1>1, <1>9
<1>11. call'.sector * SS + (call'.offset + Done') = tp + (c + (len - (left - n)))
  BY <1>1 DEF Done
<1> HIDE DEF n, len, left, o, c, sp, kp, tp
<1>12. (sp + kp) + 0 = tp + (c + (len - (left - n)))
  BY <1>2, <1>4, <1>5, <1>6, <1>7, <1>8
<1>13. QED
  BY <1>10, <1>11, <1>12

LEMMA CallPlaced ==
  ASSUME NEW c \in Calls, Call(c)
  PROVE  Placed'
<1>1. c.offset \in Nat /\ c.len \in Nat
  BY CallFacts, BufferAssumption
<1>2. /\ call' = c
      /\ cursor'.sector = c.sector /\ cursor'.byte_offset = c.offset
      /\ cursor'.byte_len = c.len
  BY DEF Call
<1>3. Done' = 0
  BY <1>1, <1>2 DEF Done
<1>4. QED
  BY <1>1, <1>2, <1>3 DEF Placed

LEMMA NextPlaced ==
  ASSUME IInv, Placed, [Next]_vars
  PROVE  Placed'
<1>1. ASSUME NEW c \in Calls, Call(c) PROVE Placed'
  BY <1>1, CallPlaced
<1>2. CASE SelectDrive
  BY <1>2 DEF SelectDrive, request, Placed, Done
<1>3. ASSUME pc' \in {"done", "idle", "sector"} PROVE Placed'
  BY <1>3 DEF Placed
<1>4. CASE Hit \/ LoadRest \/ LoadTrack \/ LoadRequired
  <2>1. pc = "load"
    BY <1>4 DEF Hit, LoadRest, LoadTrack, LoadRequired, Loading
  <2>2. (\E n : Use(n)) \/ Return(FALSE)
    BY <1>4 DEF Hit, LoadRest, LoadTrack, LoadRequired
  <2>3. ASSUME NEW n, Use(n) PROVE Placed'
    <3>1. cursor \in Cursor
      BY DEF IInv, TypeOK, CallTypeOK
    <3>2. cursor' = [cursor EXCEPT !.num_sect = n] /\ call' = call
      BY <2>3 DEF Use
    <3>3. /\ cursor'.sector = cursor.sector /\ cursor'.byte_offset = cursor.byte_offset
          /\ cursor'.byte_len = cursor.byte_len
      BY <3>1, <3>2 DEF Cursor
    <3>4. QED
      BY <2>1, <3>2, <3>3 DEF Placed, Done
  <2>4. QED
    BY <1>3, <2>2, <2>3 DEF Return
<1>5. CASE UseRead \/ SkipWrite \/ UseWrite
  <2>1. pc = "use" /\ (Advance \/ pc' = "done")
    BY <1>5 DEF UseRead, SkipWrite, UseWrite, Return
  <2>2. QED
    BY <1>3, <2>1, AdvancePlaced
<1>6. CASE NoDisk \/ SectorTooBig \/ WontFit \/ Finish \/ RawwriteStep
  <2>1. pc' = "done"
    BY <1>6 DEF NoDisk, SectorTooBig, WontFit, Finish, RawwriteStep, SectorReadFails,
                SectorUnchanged, SectorWrite, Return
  <2>2. QED
    BY <1>3, <2>1
<1>7. CASE Resume
  BY <1>3, <1>7 DEF Resume
<1>8. ASSUME NEW d \in Drives, Command(d) PROVE Placed'
  BY <1>3, <1>8 DEF Command, ExchangeDisk, MapDrive, TuneGeometry
<1>9. CASE ForgetTrack
  BY <1>3, <1>9 DEF ForgetTrack
<1>10. CASE UNCHANGED vars
  BY <1>10 DEF vars, Placed, Done
<1>11. QED
  BY <1>1, <1>2, <1>4, <1>5, <1>6, <1>7, <1>8, <1>9, <1>10 DEF Next, CallStep, RawreadStep

LEMMA AlwaysPlaced == ASSUME SafeUse PROVE Spec => []Placed
<1>1. Init => Placed
  BY DEF Init, Placed
<1>2. IInv /\ Placed /\ [Next]_vars => Placed'
  BY NextPlaced
<1>3. QED
  BY <1>1, <1>2, Inductive, PTL DEF Spec

-----------------------------------------------------------------------------
(* The bytes moved *)

\* A step that moves no byte.
LEMMA MovedKept ==
  ASSUME Moved, UNCHANGED <<disk, call, out>>, cursor'.byte_len = cursor.byte_len
  PROVE  Moved'
BY DEF Moved, OnDrive, Wanted, DiskByte

\* A call that fails, or that was no read, owes nothing.
LEMMA OwesNothing ==
  ASSUME pc' = "done", call' = call, ok' = FALSE \/ call.op # "read"
  PROVE  SInv'
BY DEF SInv, Served, ReadIsCurrent

LEMMA CallSInv ==
  ASSUME NEW c \in Calls, Call(c)
  PROVE  SInv'
<1>1. c.sector \in Nat /\ c.offset \in 0..(SS - 1) /\ c.len \in 1..MaxLen
  BY CallFacts
<1>2. /\ pc' = "select" /\ call' = c /\ out' = <<>> /\ cursor'.byte_len = c.len
  BY DEF Call
<1>3. Len(out') = 0
  BY <1>2
<1>4. 0..(Len(out') - 1) = {}
  BY <1>3
<1>5. Len(out') + cursor'.byte_len = call'.len
  BY <1>1, <1>2, <1>3, BufferAssumption
<1>6. Moved'
  BY <1>4, <1>5 DEF Moved
<1>7. QED
  BY <1>2, <1>6 DEF SInv, Served, ReadIsCurrent

LEMMA SelectDriveSInv ==
  ASSUME SInv, SelectDrive
  PROVE  SInv'
<1>1. UNCHANGED <<disk, call, cursor, out>> /\ pc = "select" /\ pc' \in {"sector", "load"}
  BY DEF SelectDrive, request
<1>2. Served'
  BY <1>1, MovedKept DEF SInv, Served
<1>3. QED
  BY <1>1, <1>2 DEF SInv, ReadIsCurrent

\* Loading changes neither the disk nor the bytes moved, or fails.
LEMMA LoadSInv ==
  ASSUME IInv, SInv, Hit \/ LoadRest \/ LoadTrack \/ LoadRequired
  PROVE  SInv'
<1>1. pc = "load" /\ disk' = disk
  BY DEF Hit, LoadRest, LoadTrack, LoadRequired, Loading
<1>2. (\E n : Use(n)) \/ Return(FALSE)
  BY DEF Hit, LoadRest, LoadTrack, LoadRequired
<1>3. ASSUME NEW n, Use(n) PROVE SInv'
  <2>1. cursor \in Cursor
    BY DEF IInv, TypeOK, CallTypeOK
  <2>2. cursor' = [cursor EXCEPT !.num_sect = n] /\ pc' = "use" /\ UNCHANGED <<call, out>>
    BY <1>3 DEF Use
  <2>3. cursor'.byte_len = cursor.byte_len
    BY <2>1, <2>2 DEF Cursor
  <2>4. Served'
    BY <1>1, <2>2, <2>3, MovedKept DEF SInv, Served
  <2>5. QED
    BY <2>2, <2>4 DEF SInv, ReadIsCurrent
<1>4. CASE Return(FALSE)
  BY <1>4, OwesNothing DEF Return
<1>5. QED
  BY <1>2, <1>3, <1>4

\* Byte j of the step is the byte of the request that comes next.
LEMMA NextByte ==
  ASSUME IInv, Placed, pc = "use", call.op = "read", Moved, NEW j \in 0..(Chunk - 1)
  PROVE  OnDrive(Len(out) + j) /\ BufByte(buffer, j) = Wanted(Len(out) + j)
<1> DEFINE o == cursor.byte_offset
           c == call.offset
           l == Len(out)
           a == o + j
           b == c + (l + j)
           s == cursor.sector
           t == call.sector
<1>1. o \in Nat /\ cursor.byte_len > 0 /\ s \in Nat /\ call \in Calls
  BY UsingFacts, BufferAssumption
<1>2. t \in Nat /\ c \in Nat
  BY <1>1, CallFacts, BufferAssumption
<1>3. l \in Nat
  BY DEF IInv, TypeOK, CallTypeOK
<1>4. j \in Nat
  BY ChunkFacts
<1>5. s * SS + o = t * SS + (c + l)
  <2>1. call.len \in Nat /\ cursor.byte_len \in Nat /\ l + cursor.byte_len = call.len
    BY <1>1, UsingFacts, CallFacts, BufferAssumption DEF Moved
  <2>2. Done = call.len - cursor.byte_len
    BY DEF Done
  <2> HIDE DEF l
  <2>3. Done = l
    BY <1>3, <2>1, <2>2
  <2>4. QED
    BY <1>1, <2>3 DEF Placed
<1>6. /\ BufByte(buffer, j) = disk[call.drive][s + (a \div SS)][a % SS]
      /\ a \div SS \in 0..(cursor.num_sect - 1)
  BY ChunkByte DEF DiskByte
<1>7. s + (a \div SS) < Total[call.drive]
  BY <1>6 DEF IInv, Loaded
<1>8. Wanted(l + j) = disk[call.drive][t + (b \div SS)][b % SS]
  BY DEF Wanted, DiskByte
<1>9. OnDrive(l + j) <=> t + (b \div SS) < Total[call.drive]
  BY DEF OnDrive
<1> HIDE DEF o, c, s, t, l
<1>10. a \in Nat /\ b \in Nat
  BY <1>1, <1>2, <1>3, <1>4
<1>11. s * SS + a = t * SS + b
  <2> DEFINE sp == s * SS
             tp == t * SS
  <2>1. sp \in Nat /\ tp \in Nat
    BY <1>1, <1>2, BufferAssumption
  <2>2. sp + o = tp + (c + l)
    BY <1>5
  <2> HIDE DEF sp, tp
  <2>3. sp + a = tp + b
    BY <1>1, <1>2, <1>3, <1>4, <2>1, <2>2
  <2>4. QED
    BY <2>3 DEF sp, tp
<1> HIDE DEF a, b
<1>12. Same(s, a, t, b)
  BY <1>11 DEF Same
<1>13. s \in Nat /\ t \in Nat
  BY <1>1, <1>2
<1>14. Agree(s, a, t, b)
  BY ONLY <1>10, <1>12, <1>13, SameAgree, Zenon
<1>15. s + (a \div SS) = t + (b \div SS) /\ a % SS = b % SS
  BY <1>14 DEF Agree
<1>16. BufByte(buffer, j) = Wanted(l + j)
  BY <1>6, <1>8, <1>15
<1>17. OnDrive(l + j)
  BY <1>7, <1>9, <1>15
<1>18. QED
  BY <1>16, <1>17 DEF l

LEMMA UseReadSInv ==
  ASSUME IInv, Placed, SInv, UseRead
  PROVE  SInv'
<1> DEFINE new == [j \in 1..Chunk |-> BufByte(buffer, j - 1)]
           n == Chunk
           l == Len(out)
<1>1. /\ pc = "use" /\ call.op = "read" /\ disk' = disk /\ call' = call /\ pc' = "load"
      /\ cursor'.byte_len = cursor.byte_len - n
      /\ out' = out \o new
  BY DEF UseRead, Advance
<1>2. Moved
  BY <1>1 DEF SInv, Served
<1>3. n \in Nat \ {0} /\ n <= cursor.byte_len /\ cursor.byte_len \in Nat
  BY <1>1, ChunkFacts, UsingFacts
<1>4. out \in Seq(Bytes \cup {Bad}) /\ l \in Nat
  BY DEF IInv, TypeOK, CallTypeOK
<1>5. new \in Seq(Bytes \cup {Bad}) /\ Len(new) = n
  <2>1. \A j \in 1..n : BufByte(buffer, j - 1) \in Bytes \cup {Bad}
    <3> TAKE j \in 1..n
    <3>1. j - 1 \in 0..(Chunk - 1)
      BY <1>3
    <3>2. QED
      BY <1>1, <3>1, ChunkByte
  <2>2. QED
    BY <1>3, <2>1
<1>6. Len(out') = l + n
  <2>1. out' = out \o new
    BY <1>1
  <2> HIDE DEF new, n
  <2>2. Len(out \o new) = Len(out) + Len(new)
    BY <1>4, <1>5
  <2>3. QED
    BY <1>5, <2>1, <2>2
<1>7. call.len \in Nat /\ l + cursor.byte_len = call.len
  BY <1>1, <1>2, UsingFacts, CallFacts, BufferAssumption DEF Moved
<1>8. Len(out') + cursor'.byte_len = call'.len
  <2>1. cursor'.byte_len = cursor.byte_len - n /\ call'.len = call.len
    BY <1>1
  <2> HIDE DEF n, l
  <2>2. QED
    BY <1>3, <1>4, <1>6, <1>7, <2>1
<1>9. ASSUME NEW j \in 0..(Len(out') - 1)
       PROVE  OnDrive(j)' /\ out'[j + 1] = Wanted(j)'
  <2>1. OnDrive(j)' = OnDrive(j) /\ Wanted(j)' = Wanted(j)
    BY <1>1 DEF OnDrive, Wanted, DiskByte
  <2>2. j \in 0..(l + n - 1)
    <3>1. j \in 0..(Len(out') - 1)
      OBVIOUS
    <3> HIDE DEF l, n
    <3>2. QED
      BY <1>3, <1>4, <1>6, <3>1
  <2>3. CASE j < l
    <3>1. j \in 0..(l - 1) /\ j + 1 \in 1..l
      BY <1>3, <1>4, <2>2, <2>3
    <3>2. out'[j + 1] = out[j + 1]
      <4> HIDE DEF new
      <4>1. QED
        BY <1>1, <1>4, <1>5, <3>1
    <3>3. QED
      BY <1>2, <2>1, <3>1, <3>2 DEF Moved
  <2>4. CASE ~ (j < l)
    <3> DEFINE i == j - l
    <3>1. i \in 0..(n - 1) /\ j = l + i /\ j + 1 = l + (i + 1) /\ i + 1 \in 1..n
      BY <1>3, <1>4, <2>2, <2>4
    <3> HIDE DEF i
    <3>2. out'[j + 1] = new[i + 1]
      <4> HIDE DEF new, n
      <4>1. QED
        BY <1>1, <1>4, <1>5, <3>1
    <3>3. new[i + 1] = BufByte(buffer, i)
      <4>1. new[i + 1] = BufByte(buffer, (i + 1) - 1)
        BY <3>1
      <4>2. (i + 1) - 1 = i
        BY <3>1
      <4>3. QED
        BY <4>1, <4>2
    <3>4. OnDrive(l + i) /\ BufByte(buffer, i) = Wanted(l + i)
      BY <1>1, <1>2, <3>1, NextByte
    <3>5. QED
      BY <2>1, <3>1, <3>2, <3>3, <3>4
  <2>5. QED
    BY <2>3, <2>4
<1>10. Moved'
  BY <1>8, <1>9 DEF Moved
<1>11. QED
  BY <1>1, <1>10 DEF SInv, Served, ReadIsCurrent

LEMMA FinishSInv ==
  ASSUME IInv, SInv, Finish
  PROVE  SInv'
<1>1. /\ pc = "load" /\ cursor.byte_len = 0 /\ pc' = "done"
      /\ UNCHANGED <<disk, call, out>>
  BY DEF Finish, Return
<1>2. CASE call.op = "read"
  <2>1. Moved
    BY <1>1, <1>2 DEF SInv, Served
  <2>2. Len(out) \in Nat
    BY DEF IInv, TypeOK, CallTypeOK
  <2>3. Len(out) = call.len
    BY <1>1, <2>1, <2>2 DEF Moved
  <2>4. \A j \in 0..(call.len - 1) : OnDrive(j) /\ out[j + 1] = Wanted(j)
    BY <2>1, <2>3 DEF Moved
  <2>5. ReadIsCurrent'
    BY <1>1, <2>3, <2>4 DEF ReadIsCurrent, OnDrive, Wanted, DiskByte
  <2>6. QED
    BY <1>1, <2>5 DEF SInv, Served
<1>3. CASE call.op # "read"
  BY <1>1, <1>3 DEF SInv, Served, ReadIsCurrent
<1>4. QED
  BY <1>2, <1>3

\* The other steps of rawread fail or serve a write.
LEMMA OtherReadSInv ==
  ASSUME SInv, SectorTooBig \/ WontFit \/ NoDisk \/ SkipWrite \/ UseWrite
  PROVE  SInv'
<1>1. CASE SectorTooBig \/ WontFit \/ NoDisk
  BY <1>1, OwesNothing DEF SectorTooBig, WontFit, NoDisk, Return
<1>2. CASE SkipWrite \/ UseWrite
  <2>1. call.op = "write" /\ call' = call
    BY <1>2 DEF SkipWrite, UseWrite, Advance, Return
  <2>2. QED
    BY <2>1 DEF SInv, Served, ReadIsCurrent
<1>3. QED
  BY <1>1, <1>2

LEMMA RawwriteSInv ==
  ASSUME IInv, SInv, RawwriteStep
  PROVE  SInv'
<1>1. pc = "sector" /\ call' = call
  BY DEF RawwriteStep, SectorReadFails, SectorUnchanged, SectorWrite, SectorRead, Return
<1>2. call.op = "rawwrite"
  BY <1>1 DEF IInv, Selected
<1>3. QED
  BY <1>1, <1>2 DEF SInv, Served, ReadIsCurrent

\* Between calls nothing is owed.
LEMMA IdleSInv ==
  ASSUME pc' = "idle"
  PROVE  SInv'
BY DEF SInv, Served, ReadIsCurrent

LEMMA NextSInv ==
  ASSUME IInv, Placed, SInv, [Next]_vars
  PROVE  SInv'
<1>1. ASSUME NEW c \in Calls, Call(c) PROVE SInv'
  BY <1>1, CallSInv
<1>2. CASE SelectDrive
  BY <1>2, SelectDriveSInv
<1>3. CASE NoDisk
  BY <1>3, OtherReadSInv
<1>4. CASE RawreadStep
  BY <1>4, OtherReadSInv, LoadSInv, UseReadSInv, FinishSInv DEF RawreadStep
<1>5. CASE RawwriteStep
  BY <1>5, RawwriteSInv
<1>6. CASE Resume
  BY <1>6, IdleSInv DEF Resume
<1>7. ASSUME NEW d \in Drives, Command(d) PROVE SInv'
  BY <1>7, IdleSInv DEF Command, ExchangeDisk, MapDrive, TuneGeometry
<1>8. CASE ForgetTrack
  BY <1>8, IdleSInv DEF ForgetTrack
<1>9. CASE UNCHANGED vars
  BY <1>9 DEF vars, SInv, Served, Moved, OnDrive, Wanted, DiskByte, ReadIsCurrent
<1>10. QED
  BY <1>1, <1>2, <1>3, <1>4, <1>5, <1>6, <1>7, <1>8, <1>9 DEF Next, CallStep

LEMMA InitSInv == Init => SInv
BY DEF Init, SInv, Served, ReadIsCurrent

\* A rawread that returns 1 (disk_io.c) has moved exactly the bytes the drive
\* holds and has stayed on the drive, for every drive, geometry, buffer size,
\* request and pattern of BIOS failures.
THEOREM Reads == ASSUME SafeUse PROVE Spec => []ReadIsCurrent
<1>1. IInv /\ Placed /\ SInv /\ [Next]_vars => SInv'
  BY NextSInv
<1>2. SInv => ReadIsCurrent
  BY DEF SInv
<1>3. QED
  BY <1>1, <1>2, InitSInv, Inductive, AlwaysPlaced, PTL DEF Spec

-----------------------------------------------------------------------------
(* What a call may change on the drives *)

\* A byte that a step changes is one that the request names.
Touches ==
  \A d \in Drives : \A s \in Sectors(d), b \in 0..(SS - 1) :
    disk'[d][s][b] # disk[d][s][b] => d = call.drive /\ InRequest(s, b)

\* Byte b of sector x is this byte of the request, counted from 0.
Number(x, b) == (x - call.sector) * SS + b - call.offset

\* The step's part of the request begins Done bytes behind its start: byte b
\* of the i-th loaded sector is byte i * SS + b - byte_offset of the step.
LEMMA StepNumber ==
  ASSUME IInv, Placed, pc = "use", NEW i \in 0..(cursor.num_sect - 1), NEW b \in 0..(SS - 1),
         i * SS + b - cursor.byte_offset \in 0..(Chunk - 1)
  PROVE  /\ ((cursor.sector + i) - call.sector) * SS + b - call.offset
              = Done + (i * SS + b - cursor.byte_offset)
         /\ ((cursor.sector + i) - call.sector) * SS + b - call.offset \in 0..(call.len - 1)
<1> DEFINE s == cursor.sector
           t == call.sector
           o == cursor.byte_offset
           c == call.offset
           done == Done
           sp == s * SS
           tp == t * SS
           ip == i * SS
<1>1. s \in Nat /\ o \in Nat /\ call \in Calls /\ cursor.byte_len \in Nat \ {0} /\ i \in Nat
  BY UsingFacts, BufferAssumption
<1>2. t \in Nat /\ c \in Nat /\ call.len \in Nat
  BY <1>1, CallFacts, BufferAssumption
<1>3. done \in Nat /\ done + cursor.byte_len = call.len
  BY <1>1, <1>2, UsingFacts DEF Done
<1>4. sp + o = tp + (c + done)
  BY <1>1 DEF Placed
<1>5. sp \in Nat /\ tp \in Nat /\ ip \in Nat
  <2>1. sp \in Nat
    BY <1>1, BufferAssumption
  <2>2. tp \in Nat
    BY <1>2, BufferAssumption
  <2>3. ip \in Nat
    BY <1>1, BufferAssumption
  <2>4. QED
    BY <2>1, <2>2, <2>3
<1>6. ((s + i) - t) * SS = sp + ip - tp
  BY <1>1, <1>2, BufferAssumption
<1>7. b \in Nat
  BY BufferAssumption
<1>8. Chunk <= cursor.byte_len /\ Chunk \in Nat
  BY ChunkFacts
<1>9. ip + b - o \in 0..(Chunk - 1)
  OBVIOUS
<1> DEFINE p == ((s + i) - t) * SS
<1>10. p = sp + ip - tp
  BY <1>6
<1> HIDE DEF s, t, o, c, done, sp, tp, ip, p
<1>11. p + b - c = done + (ip + b - o)
  BY <1>1, <1>2, <1>3, <1>4, <1>5, <1>7, <1>10
<1>12. p + b - c \in 0..(call.len - 1)
  BY <1>1, <1>2, <1>3, <1>5, <1>7, <1>8, <1>9, <1>11
<1>13. ((cursor.sector + i) - call.sector) * SS + b - call.offset \in 0..(call.len - 1)
  <2>1. p = ((cursor.sector + i) - call.sector) * SS /\ c = call.offset
    BY DEF p, s, t, c
  <2>2. QED
    BY ONLY <1>12, <2>1, Zenon
<1>14. ((cursor.sector + i) - call.sector) * SS + b - call.offset
         = Done + (i * SS + b - cursor.byte_offset)
  BY <1>11, Zenon DEF p, s, t, o, c, done, ip
<1>15. QED
  BY <1>13, <1>14

LEMMA StepInRequest ==
  ASSUME IInv, Placed, pc = "use", NEW i \in 0..(cursor.num_sect - 1), NEW b \in 0..(SS - 1),
         i * SS + b - cursor.byte_offset \in 0..(Chunk - 1)
  PROVE  /\ ((cursor.sector + i) - call.sector) * SS + b - call.offset
              = Done + (i * SS + b - cursor.byte_offset)
         /\ InRequest(cursor.sector + i, b)
BY StepNumber DEF InRequest

\* A byte that a write changes gets its value from the request.
Places ==
  \A d \in Drives : \A s \in Sectors(d), b \in 0..(SS - 1) :
    disk'[d][s][b] # disk[d][s][b] =>
      /\ d = call.drive /\ InRequest(s, b)
      /\ disk'[d][s][b] = call.data[Number(s, b) + 1]

LEMMA UseWritePlaces ==
  ASSUME IInv, Placed, UseWrite
  PROVE  Places
<1>1. PICK w \in RawdiskWrite(Patched, call.drive, cursor.sector, cursor.num_sect, Soff) :
        disk' = w.disk
  BY DEF UseWrite
<1>2. pc = "use" /\ call.op = "write"
  BY DEF UseWrite
<1>3. TypeOK
  BY DEF IInv
<1>4. /\ \A e \in Drives \ {call.drive} : disk'[e] = disk[e]
      /\ \A x \in Sectors(call.drive) :
           /\ x \notin cursor.sector..(cursor.sector + cursor.num_sect - 1) =>
                disk'[call.drive][x] = disk[call.drive][x]
           /\ x \in cursor.sector..(cursor.sector + cursor.num_sect - 1) =>
                \/ disk'[call.drive][x] = disk[call.drive][x]
                \/ disk'[call.drive][x] = Patched[Soff + x - cursor.sector]
  <2> DEFINE buf == Patched
             d == call.drive
             s == cursor.sector
             n == cursor.num_sect
             o == Soff
  <2>1. d \in Drives /\ s \in Nat
    BY <1>2, UsingFacts
  <2>2. n \in 1..RestOfTrack
    BY <1>2, UsingFacts
  <2>3. RestOfTrack \in 1..BufSectors /\ o \in Nat
    BY <1>3, TrackFacts, BufferAssumption
  <2>4. n \in 1..BufSectors
    BY <2>2, <2>3, BufferAssumption
  <2>5. Whole(buf, o, n)
    BY <1>2, PatchedFacts DEF Whole
  <2>6. w \in RawdiskWrite(buf, d, s, n, o) /\ TypeOK /\ o \in Nat
    BY <1>1, <1>3, <2>3
  <2> HIDE DEF buf, d, s, n, o
  <2>7. WroteWithin(w.disk, buf, d, s, n, o)
    BY ONLY Zenon, <2>1, <2>4, <2>5, <2>6, RawdiskWriteFacts
  <2>8. QED
    BY <1>1, <2>7 DEF WroteWithin, buf, d, s, n, o
<1>5. SUFFICES ASSUME NEW d \in Drives, NEW x \in Sectors(d), NEW b \in 0..(SS - 1),
                      disk'[d][x][b] # disk[d][x][b]
               PROVE  /\ d = call.drive /\ InRequest(x, b)
                      /\ disk'[d][x][b] = call.data[Number(x, b) + 1]
  BY DEF Places
<1>6. d = call.drive
  BY <1>4, <1>5
<1>7. /\ x \in cursor.sector..(cursor.sector + cursor.num_sect - 1)
      /\ disk'[d][x] = Patched[Soff + x - cursor.sector]
  BY <1>4, <1>5, <1>6
<1> DEFINE i == x - cursor.sector
<1>8. /\ i \in 0..(cursor.num_sect - 1) /\ x = cursor.sector + i
      /\ Soff + x - cursor.sector = Soff + i /\ Soff + i \in Slots
  <2>1. cursor.sector \in Nat /\ cursor.num_sect \in 1..RestOfTrack
    BY <1>2, UsingFacts
  <2>2. /\ Soff \in Nat /\ RestOfTrack \in Nat /\ Soff + RestOfTrack <= BufSectors
    BY <1>3, TrackFacts, BufferAssumption
  <2>3. x \in Nat
    BY DEF Sectors
  <2>4. i \in 0..(cursor.num_sect - 1) /\ x = cursor.sector + i
    BY <1>7, <2>1, <2>3
  <2> HIDE DEF i
  <2>5. Soff + x - cursor.sector = Soff + i /\ Soff + i \in Slots
    BY <2>1, <2>2, <2>4, BufferAssumption DEF Slots
  <2>6. QED
    BY <2>4, <2>5
<1> HIDE DEF i
<1>9. buffer[Soff + i] = disk[d][x]
  BY <1>2, <1>6, <1>8 DEF IInv, Loaded
<1>10. Patched[Soff + i][b] # buffer[Soff + i][b]
  BY <1>5, <1>7, <1>8, <1>9
<1> DEFINE j == ((Soff + i) - Soff) * SS + b - cursor.byte_offset
<1>11. Patched[Soff + i][b] =
         IF j \in 0..(Chunk - 1) THEN call.data[Done + j + 1] ELSE buffer[Soff + i][b]
  BY <1>8 DEF Patched
<1>12. j \in 0..(Chunk - 1)
  BY <1>10, <1>11
<1>13. (Soff + i) - Soff = i
  BY <1>3, <1>8, TrackFacts, BufferAssumption
<1>14. i * SS + b - cursor.byte_offset \in 0..(Chunk - 1)
  BY <1>12, <1>13
<1>15. InRequest(x, b) /\ Number(x, b) = Done + (i * SS + b - cursor.byte_offset)
  BY <1>2, <1>8, <1>14, StepInRequest DEF Number
<1>16. disk'[d][x][b] = call.data[Done + j + 1]
  BY <1>7, <1>8, <1>11, <1>12
<1>17. j = i * SS + b - cursor.byte_offset
  BY <1>13
<1> HIDE DEF j
<1>18. disk'[d][x][b] = call.data[Number(x, b) + 1]
  BY <1>15, <1>16, <1>17
<1>19. QED
  BY <1>6, <1>15, <1>18

LEMMA UseWriteTouches ==
  ASSUME IInv, Placed, UseWrite
  PROVE  Touches
BY UseWritePlaces DEF Places, Touches

LEMMA RawwriteRequest ==
  ASSUME NEW c \in Calls, c.op = "rawwrite"
  PROVE  c.offset = 0 /\ c.len = SS
<1>1. c \in SectorCalls
  BY DEF Calls, ReadCalls, WriteCalls
<1>2. QED
  BY <1>1 DEF SectorCalls

LEMMA SectorWriteTouches ==
  ASSUME IInv, SectorWrite
  PROVE  Touches
<1>1. PICK w \in RawdiskWrite([i \in {0} |-> NewSector], call.drive, cursor.sector, 1, 0) :
        disk' = w.disk
  BY DEF SectorWrite
<1>2. /\ call \in Calls /\ call.op = "rawwrite" /\ cursor.sector = call.sector
      /\ cursor \in Cursor /\ DOMAIN disk = Drives
  BY DEF SectorWrite, SectorRead, IInv, Selected, TypeOK, CallTypeOK, DriveTypeOK
<1>3. call.offset = 0 /\ call.len = SS /\ call.sector \in Nat /\ call.drive \in Drives
  BY <1>2, RawwriteRequest, CallFacts
<1> DEFINE buf == [i \in {0} |-> NewSector]
           e == call.drive
           t == call.sector
           new(k) == [x \in Sectors(e) |->
                        IF x \in t..(t + k - 1) THEN buf[0 + x - t] ELSE disk[e][x]]
<1>a. w \in RawdiskWrite(buf, e, t, 1, 0)
  BY <1>1, <1>2
<1> HIDE DEF buf
<1>4. PICK k \in 0..1 : disk' = [disk EXCEPT ![e] = new(k)]
  <2>1. PICK q \in [ok: BOOLEAN, count: 0..1] :
          w = [ok |-> q.ok, disk |-> [disk EXCEPT ![e] = new(q.count)]]
    BY <1>a, Zenon DEF RawdiskWrite
  <2>2. disk' = [disk EXCEPT ![e] = new(q.count)] /\ q.count \in 0..1
    BY <1>1, <2>1
  <2>3. QED
    BY <2>2
<1>5. SUFFICES ASSUME NEW d \in Drives, NEW x \in Sectors(d), NEW b \in 0..(SS - 1),
                      disk'[d][x][b] # disk[d][x][b]
               PROVE  d = call.drive /\ InRequest(x, b)
  BY DEF Touches
<1>6. d = call.drive /\ x \in call.sector..(call.sector + k - 1)
  BY <1>2, <1>3, <1>4, <1>5
<1>7. x = call.sector
  BY <1>3, <1>6 DEF Sectors
<1>8. (x - call.sector) * SS = 0
  BY <1>3, <1>7, BufferAssumption
<1>9. InRequest(x, b)
  BY <1>3, <1>8, BufferAssumption DEF InRequest
<1>10. QED
  BY <1>6, <1>9

LEMMA NextTouches ==
  ASSUME IInv, Placed, [Next]_vars, pc # "idle"
  PROVE  Touches
<1>1. CASE UseWrite
  BY <1>1, UseWriteTouches
<1>2. CASE SectorWrite
  BY <1>2, SectorWriteTouches
<1>3. ASSUME disk' = disk PROVE Touches
  BY <1>3 DEF Touches
<1>4. CASE SelectDrive \/ NoDisk \/ Resume \/ UNCHANGED vars
  BY <1>3, <1>4 DEF SelectDrive, NoDisk, Resume, vars
<1>5. CASE RawreadStep /\ ~ UseWrite
  BY <1>3, <1>5 DEF RawreadStep, SectorTooBig, Hit, LoadRest, LoadTrack, LoadRequired,
                    UseRead, WontFit, SkipWrite, Finish
<1>6. CASE RawwriteStep /\ ~ SectorWrite
  BY <1>3, <1>6 DEF RawwriteStep, SectorReadFails, SectorUnchanged
<1>7. ASSUME NEW d \in Drives, Command(d) PROVE FALSE
  BY <1>7 DEF Command, ExchangeDisk, MapDrive, TuneGeometry
<1>8. ASSUME NEW c \in Calls, Call(c) PROVE FALSE
  BY <1>8 DEF Call
<1>9. ~ ForgetTrack
  BY DEF ForgetTrack
<1>10. QED
  BY <1>1, <1>2, <1>4, <1>5, <1>6, <1>7, <1>8, <1>9 DEF Next, CallStep

\* No call changes a byte outside its request (disk_io.c, rawread's write-back
\* of whole sectors and rawwrite), for every drive, geometry, buffer size and
\* pattern of BIOS failures, complete or half-way.
THEOREM Writes == ASSUME SafeUse PROVE Spec => OnlyRequestedBytesChange
<1>1. IInv /\ Placed /\ [Next]_vars =>
        [pc # "idle" =>
           \A d \in Drives : \A s \in Sectors(d), b \in 0..(SS - 1) :
              disk'[d][s][b] # disk[d][s][b] => d = call.drive /\ InRequest(s, b)]_vars
  BY NextTouches DEF Touches
<1>2. QED
  BY <1>1, Inductive, AlwaysPlaced, PTL DEF Spec, OnlyRequestedBytesChange

-----------------------------------------------------------------------------
(* The track buffer is invisible: the refinement of SectorStore *)

\* The first n bytes of a write are on the drive.
Stored(n) == \A j \in 0..(n - 1) : OnDrive(j) /\ Wanted(j) = call.data[j + 1]

\* A write has stored what lies behind the cursor.
Kept == pc \in {"select", "load", "use"} /\ call.op = "write" => Stored(Done)

\* No call answers before it ends.
Unanswered == pc \notin {"idle", "done"} => ok = FALSE

WInv == Kept /\ Unanswered

-----------------------------------------------------------------------------
(* The bytes of one step *)

\* Byte j of the step is byte Done + j of the request.
LEMMA StepByte ==
  ASSUME IInv, Placed, pc = "use", NEW j \in 0..(Chunk - 1)
  PROVE  /\ cursor.sector + ((cursor.byte_offset + j) \div SS)
              = call.sector + ((call.offset + (Done + j)) \div SS)
         /\ (cursor.byte_offset + j) % SS = (call.offset + (Done + j)) % SS
<1> DEFINE a == cursor.byte_offset + j
           b == call.offset + (Done + j)
           s == cursor.sector
           t == call.sector
           sp == s * SS
           tp == t * SS
           o == cursor.byte_offset
           c == call.offset
           done == Done
<1>1. /\ s \in Nat /\ o \in Nat /\ call \in Calls /\ cursor.byte_len \in Nat \ {0}
      /\ cursor.byte_len <= call.len
  BY UsingFacts, BufferAssumption
<1>2. t \in Nat /\ c \in Nat /\ call.len \in Nat
  BY <1>1, CallFacts, BufferAssumption
<1>3. done \in Nat /\ j \in Nat
  BY <1>1, <1>2, ChunkFacts DEF Done
<1>4. sp + o = tp + (c + done)
  BY <1>1 DEF Placed
<1>5. sp \in Nat
  BY <1>1, BufferAssumption
<1>6. tp \in Nat
  BY <1>2, BufferAssumption
<1>7. a = o + j /\ b = c + (done + j)
  OBVIOUS
<1> HIDE DEF a, b, s, t, o, c, done
<1>8. a \in Nat /\ b \in Nat
  BY <1>1, <1>2, <1>3, <1>7
<1>9. s * SS + a = t * SS + b
  <2> HIDE DEF sp, tp
  <2>1. sp + a = tp + b
    BY <1>1, <1>2, <1>3, <1>4, <1>5, <1>6, <1>7
  <2>2. QED
    BY <2>1 DEF sp, tp
<1>10. Same(s, a, t, b)
  BY <1>9 DEF Same
<1>11. s \in Nat /\ t \in Nat
  BY <1>1, <1>2
<1>12. Agree(s, a, t, b)
  BY ONLY <1>8, <1>10, <1>11, SameAgree, Zenon
<1>13. QED
  BY <1>12, Zenon DEF Agree, a, b, s, t

\* The place of byte j of the request has the number j.
LEMMA ByteNumber ==
  ASSUME NEW c \in Calls, c = call, NEW j \in 0..(c.len - 1)
  PROVE  /\ (c.offset + j) % SS \in 0..(SS - 1)
         /\ Number(c.sector + ((c.offset + j) \div SS), (c.offset + j) % SS) = j
<1> DEFINE p == c.offset + j
           q == p \div SS
           r == p % SS
           t == c.sector
           o == c.offset
           qp == q * SS
<1>1. t \in Nat /\ o \in Nat /\ c.len \in Nat
  BY CallFacts, BufferAssumption
<1>2. j \in Nat /\ SS \in Nat \ {0}
  BY <1>1, BufferAssumption
<1>3. p = o + j /\ p \in Nat
  BY <1>1, <1>2
<1> HIDE DEF p
<1>4. q \in Nat /\ p = SS * q + r
  BY <1>2, <1>3, DivMod
<1>5. r \in 0..(SS - 1)
  BY <1>2, <1>3, ModRange
<1> HIDE DEF q, r, t
<1>6. ((t + q) - t) * SS = qp /\ qp \in Nat /\ SS * q = qp
  BY <1>1, <1>2, <1>4
<1> DEFINE m == ((t + q) - t) * SS
<1> HIDE DEF qp, m, o
<1>7. m + r - o = j
  <2>1. m = qp
    BY <1>6 DEF m
  <2>2. QED
    BY <1>1, <1>2, <1>3, <1>4, <1>5, <1>6, <2>1
<1>8. Number(t + q, r) = j
  BY <1>7 DEF Number, m, t, o
<1>9. QED
  BY <1>5, <1>8, Zenon DEF p, q, r, t

\* A write keeps what the call has stored before.
LEMMA StoredKept ==
  ASSUME IInv, call \in Calls, NEW n \in Nat, n <= call.len, Stored(n), Places, call' = call
  PROVE  Stored(n)'
<1>1. SUFFICES ASSUME NEW j \in 0..(n - 1)
               PROVE  OnDrive(j)' /\ Wanted(j)' = call'.data[j + 1]
  BY DEF Stored
<1> DEFINE d == call.drive
           x == call.sector + ((call.offset + j) \div SS)
           b == (call.offset + j) % SS
<1>2. d \in Drives /\ call.sector \in Nat /\ call.offset \in Nat /\ call.len \in Nat
  BY CallFacts, BufferAssumption
<1>3. j \in 0..(call.len - 1) /\ j \in Nat
  BY <1>2
<1>4. b \in 0..(SS - 1) /\ Number(x, b) = j
  BY <1>3, ByteNumber
<1>5. x < Total[d] /\ disk[d][x][b] = call.data[j + 1]
  BY DEF Stored, OnDrive, Wanted, DiskByte
<1>6. x \in Nat
  <2> DEFINE p == call.offset + j
  <2>1. p \in Nat
    BY <1>2, <1>3
  <2> HIDE DEF p
  <2>2. p \div SS \in Nat
    BY <2>1, DivMod, BufferAssumption
  <2>3. QED
    BY <1>2, <2>2 DEF p
<1>7. Wanted(j)' = disk'[d][x][b] /\ OnDrive(j)' = (x < Total[d])
  BY DEF OnDrive, Wanted, DiskByte
<1> HIDE DEF d, x, b
<1>8. x \in Sectors(d)
  <2>1. Total[d] \in Nat
    BY <1>2, DriveAssumption
  <2>2. QED
    BY <1>5, <1>6, <2>1 DEF Sectors
<1>9. disk'[d][x][b] # disk[d][x][b] => disk'[d][x][b] = call.data[Number(x, b) + 1]
  BY <1>2, <1>4, <1>8 DEF Places
<1>10. disk'[d][x][b] = call.data[j + 1]
  BY <1>4, <1>5, <1>9
<1>11. QED
  BY <1>5, <1>7, <1>10

\* A step adds its bytes, the m behind the first n, to those stored.
LEMMA StoredMore ==
  ASSUME NEW n \in Nat, NEW m \in Nat, Stored(n)',
         \A j \in 0..(m - 1) : OnDrive(n + j)' /\ Wanted(n + j)' = call'.data[n + j + 1]
  PROVE  Stored(n + m)'
<1>1. SUFFICES ASSUME NEW j \in 0..(n + m - 1)
               PROVE  OnDrive(j)' /\ Wanted(j)' = call'.data[j + 1]
  BY DEF Stored
<1>2. CASE j < n
  BY <1>2 DEF Stored
<1>3. CASE ~ (j < n)
  <2> DEFINE i == j - n
  <2>1. i \in 0..(m - 1) /\ j = n + i
    BY <1>3
  <2> HIDE DEF i
  <2>2. OnDrive(n + i)' /\ Wanted(n + i)' = call'.data[n + i + 1]
    BY <2>1
  <2>3. QED
    BY <2>1, <2>2
<1>4. QED
  BY <1>2, <1>3

\* After a step the bytes behind the cursor are the old ones and the step's.
LEMMA DoneAfter ==
  ASSUME IInv, pc = "use", Advance
  PROVE  /\ Done \in Nat /\ Chunk \in Nat /\ Done + Chunk <= call.len
         /\ Done' = Done + Chunk /\ call' = call /\ pc' = "load"
<1>1. /\ call' = call /\ pc' = "load"
      /\ cursor' = [sector |-> cursor.sector + cursor.num_sect, byte_offset |-> 0,
                    byte_len |-> cursor.byte_len - Chunk, num_sect |-> 0]
  BY DEF Advance
<1>2. /\ call \in Calls /\ cursor.byte_len \in Nat /\ cursor.byte_len <= call.len
      /\ Chunk \in Nat /\ Chunk <= cursor.byte_len
  BY UsingFacts, ChunkFacts
<1>3. call.len \in Nat
  BY <1>2, CallFacts, BufferAssumption
<1>4. Done' = call.len - (cursor.byte_len - Chunk)
  BY <1>1 DEF Done
<1> DEFINE k == Chunk
           l == call.len
           y == cursor.byte_len
<1>5. l - y \in Nat /\ k \in Nat /\ (l - y) + k <= l /\ l - (y - k) = (l - y) + k
  <2>1. l \in Nat /\ y \in Nat /\ k \in Nat /\ y <= l /\ k <= y
    BY <1>2, <1>3
  <2> HIDE DEF k, l, y
  <2>2. QED
    BY <2>1
<1>6. QED
  BY <1>1, <1>4, <1>5 DEF Done

LEMMA SkipWriteKept ==
  ASSUME IInv, Placed, Kept, SkipWrite
  PROVE  Kept'
<1>1. /\ pc = "use" /\ call.op = "write" /\ Advance /\ UNCHANGED disk
      /\ \A j \in 0..(Chunk - 1) : BufByte(buffer, j) = call.data[Done + j + 1]
  BY DEF SkipWrite
<1>2. PICK n : n = Done
  OBVIOUS
<1>3. PICK m : m = Chunk
  OBVIOUS
<1>4. /\ n \in Nat /\ m \in Nat /\ Done' = n + m /\ call' = call
  BY <1>1, <1>2, <1>3, DoneAfter
<1>5. Stored(n)'
  BY <1>1, <1>2, <1>4 DEF Kept, Stored, OnDrive, Wanted, DiskByte
<1>6. ASSUME NEW j \in 0..(m - 1)
      PROVE  OnDrive(n + j)' /\ Wanted(n + j)' = call'.data[n + j + 1]
  <2> DEFINE x == cursor.sector + ((cursor.byte_offset + j) \div SS)
             b == (cursor.byte_offset + j) % SS
  <2>1. /\ x = call.sector + ((call.offset + (n + j)) \div SS)
        /\ b = (call.offset + (n + j)) % SS
    BY <1>1, <1>2, <1>3, StepByte
  <2>2. disk[call.drive][x][b] = call.data[n + j + 1]
    BY <1>1, <1>2, <1>3, ChunkByte DEF DiskByte
  <2>3. x < Total[call.drive]
    BY <1>1, <1>3, ChunkByte DEF IInv, Loaded
  <2> HIDE DEF x, b
  <2>4. QED
    BY <1>1, <1>4, <2>1, <2>2, <2>3 DEF OnDrive, Wanted, DiskByte
<1>7. Stored(n + m)'
  BY <1>4, <1>5, <1>6, StoredMore
<1>8. QED
  BY <1>4, <1>7 DEF Kept

\* Where the write of a step went well, byte j of the step is on the drive.
LEMMA WrittenByte ==
  ASSUME IInv, pc = "use", call.op = "write",
         NEW w \in RawdiskWrite(Patched, call.drive, cursor.sector, cursor.num_sect, Soff),
         w.ok, NEW j \in 0..(Chunk - 1)
  PROVE  /\ cursor.sector + ((cursor.byte_offset + j) \div SS) < Total[call.drive]
         /\ w.disk[call.drive][cursor.sector + ((cursor.byte_offset + j) \div SS)]
                  [(cursor.byte_offset + j) % SS] = call.data[Done + j + 1]
<1> DEFINE buf == Patched
           d == call.drive
           s == cursor.sector
           n == cursor.num_sect
           o == cursor.byte_offset
           at == Soff
           p == o + j
           i == p \div SS
           r == p % SS
<1>1. /\ TypeOK /\ d \in Drives /\ s \in Nat /\ n \in 1..RestOfTrack /\ o \in Nat
  BY UsingFacts, BufferAssumption
<1>2. /\ RestOfTrack \in 1..BufSectors /\ at \in Nat /\ BufSectors \in Nat
      /\ at + RestOfTrack <= BufSectors
  BY <1>1, TrackFacts, BufferAssumption
<1>3. n \in 1..BufSectors
  BY <1>1, <1>2
<1>4. i \in 0..(n - 1) /\ r \in 0..(SS - 1)
  BY ChunkByte
<1>5. j \in Nat
  BY ChunkFacts
<1>6. p \in Nat /\ p = o + j
  BY <1>1, <1>5
<1> HIDE DEF p
<1>7. p = SS * i + r /\ i \in Nat /\ SS \in Nat
  BY <1>6, DivMod, BufferAssumption
<1>8. s + i < Total[d]
  BY <1>4 DEF IInv, Loaded
<1>9. w.disk[d][s + i] = buf[at + i]
  <2>1. w \in RawdiskWrite(buf, d, s, n, at) /\ w.ok
    OBVIOUS
  <2> HIDE DEF buf, d, s, n, at, i
  <2>2. \A k \in 0..(n - 1) : w.disk[d][s + k] = buf[at + k]
    BY ONLY Zenon, <1>1, <1>2, <1>3, <2>1, RawdiskWriteGood
  <2>3. QED
    BY <1>4, <2>2
<1> DEFINE m == ((at + i) - at) * SS
           y == m + r - o
<1>10. at + i \in Slots
  <2> HIDE DEF at, i, n
  <2>1. QED
    BY <1>1, <1>2, <1>3, <1>4 DEF Slots
<1>11. buf[at + i][r] = IF y \in 0..(Chunk - 1) THEN call.data[Done + y + 1]
                                                ELSE buffer[at + i][r]
  BY <1>4, <1>10 DEF Patched
<1>12. y = j
  <2> HIDE DEF at, i, r, o
  <2>1. m = SS * i
    BY <1>2, <1>7
  <2> DEFINE q == SS * i
  <2>2. q \in Nat /\ r \in Nat /\ p = q + r /\ m = q
    BY <1>4, <1>7, <2>1
  <2> HIDE DEF m, q
  <2>3. QED
    BY <1>1, <1>5, <1>6, <2>2
<1> HIDE DEF y
<1>13. buf[at + i][r] = call.data[Done + j + 1]
  BY <1>11, <1>12
<1> HIDE DEF buf, d, s, n, o, at, i, r
<1>14. w.disk[d][s + i][r] = call.data[Done + j + 1]
  BY <1>9, <1>13
<1>15. QED
  BY <1>8, <1>14, Zenon DEF d, s, i, r, p, o

LEMMA UseWriteKept ==
  ASSUME IInv, Placed, Kept, UseWrite
  PROVE  Kept'
<1>1. PICK w \in RawdiskWrite(Patched, call.drive, cursor.sector, cursor.num_sect, Soff) :
        /\ disk' = w.disk
        /\ IF w.ok THEN Advance /\ UNCHANGED out ELSE Return(FALSE) /\ UNCHANGED cursor
  BY DEF UseWrite
<1>2. pc = "use" /\ call.op = "write"
  BY DEF UseWrite
<1>3. CASE ~ w.ok
  BY <1>1, <1>3 DEF Return, Kept
<1>4. CASE w.ok
  <2>1. PICK n : n = Done
    OBVIOUS
  <2>2. PICK m : m = Chunk
    OBVIOUS
  <2>3. /\ n \in Nat /\ m \in Nat /\ Done' = n + m /\ call' = call /\ n + m <= call.len
        /\ call \in Calls
    BY <1>1, <1>2, <1>4, <2>1, <2>2, DoneAfter, UsingFacts
  <2>4. n <= call.len
    BY <2>3, CallFacts, BufferAssumption
  <2>5. Stored(n)
    BY <1>2, <2>1 DEF Kept
  <2>6. Stored(n)'
    BY <2>3, <2>4, <2>5, UseWritePlaces, StoredKept
  <2>7. ASSUME NEW j \in 0..(m - 1)
        PROVE  OnDrive(n + j)' /\ Wanted(n + j)' = call'.data[n + j + 1]
    <3> DEFINE x == cursor.sector + ((cursor.byte_offset + j) \div SS)
               b == (cursor.byte_offset + j) % SS
    <3>1. /\ x = call.sector + ((call.offset + (n + j)) \div SS)
          /\ b = (call.offset + (n + j)) % SS
      BY <1>2, <2>1, <2>2, StepByte
    <3>2. x < Total[call.drive] /\ w.disk[call.drive][x][b] = call.data[n + j + 1]
      BY <1>1, <1>2, <1>4, <2>1, <2>2, WrittenByte
    <3> HIDE DEF x, b
    <3>3. QED
      BY <1>1, <2>3, <3>1, <3>2 DEF OnDrive, Wanted, DiskByte
  <2>8. Stored(n + m)'
    BY <2>3, <2>6, <2>7, StoredMore
  <2>9. QED
    BY <2>3, <2>8 DEF Kept
<1>5. QED
  BY <1>3, <1>4

-----------------------------------------------------------------------------
(* The invariant *)

LEMMA CallWInv ==
  ASSUME NEW c \in Calls, Call(c)
  PROVE  WInv'
<1>1. /\ call' = c /\ cursor' = [sector |-> c.sector, byte_offset |-> c.offset,
                                 byte_len |-> c.len, num_sect |-> 0]
      /\ ok' = FALSE
  BY DEF Call
<1>2. c.len \in Nat
  BY CallFacts, BufferAssumption
<1>3. Done' = 0
  <2>1. Done' = c.len - c.len
    BY <1>1 DEF Done
  <2>2. QED
    BY <1>2, <2>1
<1>4. Stored(0)'
  BY DEF Stored
<1>5. QED
  BY <1>1, <1>3, <1>4 DEF WInv, Kept, Unanswered

\* Loading moves no byte of a request.
LEMMA LoadWInv ==
  ASSUME IInv, WInv, SelectDrive \/ Hit \/ LoadRest \/ LoadTrack \/ LoadRequired
  PROVE  WInv'
<1>1. /\ pc \in {"select", "load"} /\ UNCHANGED <<disk, call>>
      /\ \/ pc' \in {"load", "sector", "use"} /\ ok' = ok
         \/ pc' = "done"
  BY DEF SelectDrive, Hit, LoadRest, LoadTrack, LoadRequired, Loading, Use, Return, request
<1>2. pc' # "done" => cursor'.byte_len = cursor.byte_len
  BY DEF SelectDrive, Hit, LoadRest, LoadTrack, LoadRequired, Loading, Use, Return, request,
         IInv, TypeOK, CallTypeOK, Cursor
<1>3. CASE pc' = "done"
  BY <1>3 DEF WInv, Kept, Unanswered
<1>4. CASE pc' # "done"
  <2>1. Done' = Done
    BY <1>1, <1>2, <1>4 DEF Done
  <2>2. Stored(Done)' <=> Stored(Done)
    BY <1>1, <2>1 DEF Stored, OnDrive, Wanted, DiskByte
  <2>3. QED
    BY <1>1, <1>4, <2>2 DEF WInv, Kept, Unanswered
<1>5. QED
  BY <1>3, <1>4

LEMMA UseWInv ==
  ASSUME IInv, Placed, WInv, UseRead \/ SkipWrite \/ UseWrite
  PROVE  WInv'
<1>1. Unanswered'
  BY DEF UseRead, SkipWrite, UseWrite, Advance, Return, WInv, Unanswered
<1>2. CASE UseRead
  BY <1>1, <1>2 DEF UseRead, Advance, WInv, Kept
<1>3. CASE SkipWrite \/ UseWrite
  BY <1>1, <1>3, SkipWriteKept, UseWriteKept DEF WInv
<1>4. QED
  BY <1>2, <1>3

\* A call that ends, and what happens between calls, owes nothing more.
LEMMA RestWInv ==
  ASSUME pc' \in {"idle", "done"}
  PROVE  WInv'
BY DEF WInv, Kept, Unanswered

LEMMA NextWInv ==
  ASSUME IInv, Placed, WInv, [Next]_vars
  PROVE  WInv'
<1>1. ASSUME NEW c \in Calls, Call(c) PROVE WInv'
  BY <1>1, CallWInv
<1>2. CASE SelectDrive \/ Hit \/ LoadRest \/ LoadTrack \/ LoadRequired
  BY <1>2, LoadWInv
<1>3. CASE UseRead \/ SkipWrite \/ UseWrite
  BY <1>3, UseWInv
<1>4. CASE NoDisk \/ SectorTooBig \/ WontFit \/ Finish \/ RawwriteStep
  BY <1>4, RestWInv DEF NoDisk, SectorTooBig, WontFit, Finish, RawwriteStep, SectorReadFails,
                        SectorUnchanged, SectorWrite, Return
<1>5. CASE Resume
  BY <1>5, RestWInv DEF Resume
<1>6. ASSUME NEW d \in Drives, Command(d) PROVE WInv'
  BY <1>6, RestWInv DEF Command, ExchangeDisk, MapDrive, TuneGeometry
<1>7. CASE ForgetTrack
  BY <1>7, RestWInv DEF ForgetTrack
<1>8. CASE UNCHANGED vars
  BY <1>8 DEF vars, WInv, Kept, Unanswered, Stored, Done, OnDrive, Wanted, DiskByte
<1>9. QED
  BY <1>1, <1>2, <1>3, <1>4, <1>5, <1>6, <1>7, <1>8 DEF Next, CallStep, RawreadStep

LEMMA InitWInv == Init => WInv
BY DEF Init, WInv, Kept, Unanswered

-----------------------------------------------------------------------------
(* Each step is one of the store's *)

\* A step that the callers cannot see.
Unseen == UNCHANGED <<disk, call, out, ok>> /\ pc \notin {"idle", "done"}
                                            /\ pc' \notin {"idle", "done"}

LEMMA UnseenStep ==
  ASSUME Unseen
  PROVE  UNCHANGED Store!svars
BY DEF Unseen, Store!svars

\* A call that fails without having written.
LEMMA FailStep ==
  ASSUME pc \notin {"idle", "done"}, Return(FALSE), UNCHANGED disk
  PROVE  Store!Fail
BY DEF Return, Store!Fail

LEMMA InitStore == Init => Store!StoreInit
BY DEF Init, Store!StoreInit

LEMMA CallStore ==
  ASSUME NEW c \in Calls, Call(c)
  PROVE  Store!Ask
BY DEF Call, Store!Ask

LEMMA ResumeStore ==
  ASSUME Resume
  PROVE  Store!Take
BY DEF Resume, Store!Take

LEMMA ReplaceStore ==
  ASSUME NEW d \in Drives, ExchangeDisk(d) \/ MapDrive(d)
  PROVE  Store!Replace(d)
BY DEF ExchangeDisk, MapDrive, request, Store!Replace

\* The bytes moved, or to be stored, as the store sees them.
LEMMA HoldsBytes ==
  ASSUME call \in Calls, NEW s, Len(s) \in Nat,
         \A j \in 0..(Len(s) - 1) : OnDrive(j) /\ s[j + 1] = Wanted(j)
  PROVE  Store!Holds(s)
<1>1. ASSUME NEW j \in 1..Len(s)
      PROVE  /\ call.sector + ((call.offset + j - 1) \div SS) < Total[call.drive]
             /\ disk[call.drive][call.sector + ((call.offset + j - 1) \div SS)]
                    [(call.offset + j - 1) % SS] = s[j]
  <2> DEFINE i == j - 1
             o == call.offset
  <2>1. o \in Nat
    BY CallFacts, BufferAssumption
  <2>2. i \in 0..(Len(s) - 1) /\ i + 1 = j
    OBVIOUS
  <2> HIDE DEF o
  <2>3. o + i = o + j - 1
    BY <2>1
  <2> HIDE DEF i
  <2>4. OnDrive(i) /\ s[i + 1] = Wanted(i)
    BY <2>2
  <2>5. call.offset + i = call.offset + j - 1
    BY <2>3 DEF o
  <2>6. QED
    BY <2>2, <2>4, <2>5 DEF OnDrive, Wanted, DiskByte
<1>2. QED
  BY <1>1 DEF Store!Holds

LEMMA UseReadStore ==
  ASSUME IInv, Placed, SInv, WInv, UseRead
  PROVE  Store!Move
<1>1. /\ pc = "use" /\ pc' = "load" /\ call.op = "read" /\ UNCHANGED <<disk, call, ok>>
      /\ cursor' = [sector |-> cursor.sector + cursor.num_sect, byte_offset |-> 0,
                    byte_len |-> cursor.byte_len - Chunk, num_sect |-> 0]
  BY DEF UseRead, Advance
<1>2. Moved /\ Moved'
  BY <1>1, UseReadSInv DEF SInv, Served
<1>3. Len(out) \in Nat /\ Len(out') \in Nat /\ call \in Calls
  BY <1>1, UseReadIInv, UsingFacts DEF IInv, TypeOK, CallTypeOK
<1>4. /\ cursor.byte_len \in Nat /\ Chunk \in Nat /\ Chunk <= cursor.byte_len
      /\ call.len \in Nat
  BY <1>1, <1>3, UsingFacts, ChunkFacts, CallFacts, BufferAssumption
<1>5. Len(out') \in Len(out)..call.len
  <2> DEFINE k == Chunk
             y == cursor.byte_len
             l == call.len
  <2>1. Len(out) + y = l /\ Len(out') + (y - k) = l
    BY <1>1, <1>2 DEF Moved
  <2>2. y \in Nat /\ k \in Nat /\ k <= y /\ l \in Nat
    BY <1>4
  <2> HIDE DEF k, y, l
  <2>3. Len(out') \in Len(out)..l
    BY <1>3, <2>1, <2>2
  <2>4. QED
    BY <2>3 DEF l
<1>6. \A j \in 0..(Len(out') - 1) : OnDrive(j) /\ out'[j + 1] = Wanted(j)
  BY <1>1, <1>2 DEF Moved, OnDrive, Wanted, DiskByte
<1>7. Store!Holds(out')
  BY <1>3, <1>6, HoldsBytes
<1>8. QED
  BY <1>1, <1>5, <1>7 DEF Store!Move

LEMMA FinishStore ==
  ASSUME IInv, SInv, WInv, Finish
  PROVE  Store!Succeed
<1>1. /\ pc = "load" /\ cursor.byte_len = 0 /\ pc' = "done" /\ ok' = TRUE
      /\ UNCHANGED <<disk, call, out>>
  BY DEF Finish, Return
<1>2. call \in Calls /\ call.op \in {"read", "write"}
  BY <1>1 DEF IInv, Selected
<1>3. call.len \in Nat /\ (call.op = "write" => Len(call.data) = call.len)
  BY <1>2, CallFacts, BufferAssumption
<1>4. ASSUME call.op = "read" PROVE Len(out) = call.len /\ Store!Holds(out)
  <2>1. Moved
    BY <1>1, <1>4 DEF SInv, Served
  <2>2. Len(out) \in Nat
    BY DEF IInv, TypeOK, CallTypeOK
  <2>3. Store!Holds(out)
    BY <1>2, <2>1, <2>2, HoldsBytes DEF Moved
  <2>4. QED
    BY <1>1, <2>1, <2>2, <2>3 DEF Moved
<1>5. ASSUME call.op = "write" PROVE Store!Holds(call.data)
  <2>1. Done = call.len
    <3>1. Done = call.len - 0
      BY <1>1 DEF Done
    <3>2. QED
      BY <1>3, <3>1
  <2>2. Stored(call.len)
    BY <1>1, <1>5, <2>1 DEF WInv, Kept
  <2>3. QED
    BY <1>2, <1>3, <1>5, <2>2, HoldsBytes DEF Stored
<1>6. QED
  BY <1>1, <1>2, <1>4, <1>5 DEF Store!Succeed

\* A write replaces what is on a drive, not the drives.
LEMMA WriteDomain ==
  ASSUME NEW buf, NEW d, NEW s, NEW n, NEW at, NEW w \in RawdiskWrite(buf, d, s, n, at)
  PROVE  DOMAIN w.disk = DOMAIN disk /\ w.ok \in BOOLEAN
<1> DEFINE new(k) == [x \in Sectors(d) |->
                        IF x \in s..(s + k - 1) THEN buf[at + x - s] ELSE disk[d][x]]
<1>1. PICK q \in [ok: BOOLEAN, count: 0..n] :
        w = [ok |-> q.ok, disk |-> [disk EXCEPT ![d] = new(q.count)]]
  BY Zenon DEF RawdiskWrite
<1> HIDE DEF new
<1>2. QED
  BY <1>1

LEMMA UseWriteStore ==
  ASSUME IInv, Placed, WInv, UseWrite
  PROVE  Store!Store \/ Store!Fail \/ Unseen
<1>1. /\ pc = "use" /\ call.op = "write" /\ ok = FALSE
      /\ UNCHANGED <<call, out>>
      /\ ok' = FALSE /\ pc' \in {"load", "done"}
      /\ DOMAIN disk' = DOMAIN disk
  <2>1. PICK w \in RawdiskWrite(Patched, call.drive, cursor.sector, cursor.num_sect, Soff) :
          disk' = w.disk
    BY DEF UseWrite
  <2>2. DOMAIN w.disk = DOMAIN disk
    BY WriteDomain
  <2>3. QED
    BY <2>1, <2>2 DEF UseWrite, Advance, Return, WInv, Unanswered
<1>2. CASE UNCHANGED disk
  BY <1>1, <1>2 DEF Store!Fail, Unseen
<1>3. CASE disk' # disk
  <2>1. Places
    BY UseWritePlaces
  <2>2. \A d \in Drives : \A s \in Store!SectorsOf(d), b \in Store!Offsets :
          \/ disk'[d][s][b] = disk[d][s][b]
          \/ /\ d = call.drive /\ Store!Wanted(s, b)
             /\ disk'[d][s][b] = call.data[Store!Position(s, b) + 1]
    BY <2>1 DEF Places, InRequest, Number, Sectors, Store!SectorsOf, Store!Offsets,
                Store!Wanted, Store!Position
  <2>3. QED
    BY <1>1, <1>3, <2>2 DEF Store!Store
<1>4. QED
  BY <1>2, <1>3

-----------------------------------------------------------------------------
(* rawwrite stores one whole sector *)

\* Its request names the bytes of its sector, in order.
LEMMA SectorNumber ==
  ASSUME call \in Calls, call.op = "rawwrite", NEW x \in Nat, NEW b \in 0..(SS - 1)
  PROVE  /\ Store!Wanted(x, b) <=> x = call.sector
         /\ x = call.sector => Store!Position(x, b) = b
<1> DEFINE t == call.sector
           m == (x - t) * SS
<1>1. t \in Nat /\ call.offset = 0 /\ call.len = SS
  BY CallFacts, RawwriteRequest
<1>2. Store!Position(x, b) = m + b - 0
  BY <1>1 DEF Store!Position
<1>3. Store!Wanted(x, b) <=> m + b - 0 \in 0..(SS - 1)
  BY <1>1, <1>2 DEF Store!Wanted
<1>4. CASE x = t
  <2>1. m = 0
    BY <1>1, <1>4, BufferAssumption
  <2> HIDE DEF m
  <2>2. m + b - 0 = b
    BY <2>1, BufferAssumption
  <2>3. QED
    BY <1>2, <1>3, <1>4, <2>2
<1>5. CASE x > t
  <2> DEFINE k == x - t
  <2>1. k \in Nat /\ 1 <= k /\ m = k * SS
    BY <1>1, <1>5
  <2> HIDE DEF k, m
  <2>2. SS \in Nat /\ 1 * SS <= k * SS /\ 1 * SS = SS
    BY <2>1, MulMono, BufferAssumption
  <2> DEFINE ks == k * SS
  <2>3. ks \in Nat /\ SS <= ks /\ m = ks
    BY <2>1, <2>2
  <2> HIDE DEF ks
  <2>4. m + b - 0 \notin 0..(SS - 1)
    BY <2>2, <2>3
  <2>5. QED
    BY <1>1, <1>3, <1>5, <2>4
<1>6. CASE x < t
  <2> DEFINE k == t - x
  <2>1. k \in Nat /\ 1 <= k /\ m = (0 - k) * SS
    BY <1>1, <1>6
  <2> HIDE DEF k, m
  <2>2. SS \in Nat /\ 1 * SS <= k * SS /\ 1 * SS = SS
    BY <2>1, MulMono, BufferAssumption
  <2>3. (0 - k) * SS = 0 - (k * SS)
    BY <2>1, <2>2
  <2> DEFINE ks == k * SS
  <2>4. ks \in Nat /\ SS <= ks /\ m = 0 - ks
    BY <2>1, <2>2, <2>3
  <2> HIDE DEF ks
  <2>5. m + b - 0 \notin 0..(SS - 1)
    BY <2>2, <2>4
  <2>6. QED
    BY <1>1, <1>3, <1>6, <2>5
<1>7. QED
  BY <1>1, <1>4, <1>5, <1>6

LEMMA SectorUnchangedStore ==
  ASSUME IInv, SectorUnchanged
  PROVE  Store!Succeed
<1>1. /\ pc = "sector" /\ pc' = "done" /\ ok' = TRUE /\ UNCHANGED <<disk, call, out>>
      /\ cursor.sector < Total[call.drive]
      /\ disk[call.drive][cursor.sector] = NewSector
  BY DEF SectorUnchanged, SectorRead, Return
<1>2. /\ call \in Calls /\ call.op = "rawwrite" /\ cursor.sector = call.sector
  BY <1>1 DEF IInv, Selected
<1>3. /\ call.offset = 0 /\ call.len = SS /\ call.sector \in Nat /\ Len(call.data) = SS
  BY <1>2, RawwriteRequest, CallFacts
<1>4. ASSUME NEW j \in 0..(SS - 1)
      PROVE  OnDrive(j) /\ call.data[j + 1] = Wanted(j)
  <2>1. (0 + j) \div SS = 0 /\ (0 + j) % SS = j
    BY BufferAssumption
  <2>2. call.sector + 0 = call.sector
    BY <1>3
  <2>3. NewSector[j] = call.data[j + 1]
    BY DEF NewSector
  <2>4. QED
    BY <1>1, <1>2, <1>3, <2>1, <2>2, <2>3 DEF OnDrive, Wanted, DiskByte
<1>5. Store!Holds(call.data)
  BY <1>2, <1>3, <1>4, HoldsBytes, BufferAssumption
<1>6. QED
  BY <1>1, <1>2, <1>5 DEF Store!Succeed

LEMMA SectorWriteStore ==
  ASSUME SafeUse, IInv, WInv, SectorWrite
  PROVE  Store!StoreAndSucceed \/ Store!Store \/ Store!Fail
<1> DEFINE buf == [i \in {0} |-> NewSector]
           e == call.drive
           t == call.sector
           new == [x \in Sectors(e) |->
                     IF x \in t..(t + 1 - 1) THEN buf[0 + x - t] ELSE disk[e][x]]
<1>1. /\ pc = "sector" /\ pc' = "done" /\ UNCHANGED <<call, out>>
      /\ cursor.sector < Total[call.drive]
  BY DEF SectorWrite, SectorRead, Return
<1>2. /\ call \in Calls /\ call.op = "rawwrite" /\ cursor.sector = t
      /\ TypeOK /\ DOMAIN disk = Drives
  BY <1>1 DEF IInv, Selected, TypeOK, DriveTypeOK
<1>3. call.offset = 0 /\ call.len = SS /\ t \in Nat /\ e \in Drives
  BY <1>2, RawwriteRequest, CallFacts
<1>4. PICK w \in RawdiskWrite(buf, e, t, 1, 0) : disk' = w.disk /\ ok' = w.ok
  BY <1>2 DEF SectorWrite, Return
<1> HIDE DEF buf
<1>5. DOMAIN disk' = DOMAIN disk /\ w.ok \in BOOLEAN
  BY <1>4, WriteDomain
<1>6. CASE w.ok
  <2>1. disk' = [disk EXCEPT ![e] = new]
    <3> DEFINE part(k) == [x \in Sectors(e) |->
                             IF x \in t..(t + k - 1) THEN buf[0 + x - t] ELSE disk[e][x]]
    <3>1. PICK q \in [ok: BOOLEAN, count: 0..1] :
            /\ q.ok => q.count = 1
            /\ w = [ok |-> q.ok, disk |-> [disk EXCEPT ![e] = part(q.count)]]
      BY Zenon DEF RawdiskWrite
    <3> HIDE DEF part
    <3>2. w.ok = q.ok /\ w.disk = [disk EXCEPT ![e] = part(q.count)]
      BY <3>1
    <3>3. q.count = 1
      BY <1>6, <3>1, <3>2
    <3>4. w.disk = [disk EXCEPT ![e] = part(1)]
      BY <3>2, <3>3
    <3>5. QED
      BY <1>4, <3>4 DEF part
  <2>2. ASSUME NEW d \in Drives, NEW x \in Store!SectorsOf(d), NEW b \in Store!Offsets
        PROVE  disk'[d][x][b] = IF d = e /\ Store!Wanted(x, b)
                                  THEN call.data[Store!Position(x, b) + 1]
                                  ELSE disk[d][x][b]
    <3>1. x \in Nat /\ b \in 0..(SS - 1) /\ x \in Sectors(d)
      BY DriveAssumption DEF Store!SectorsOf, Store!Offsets, Sectors
    <3>2. /\ Store!Wanted(x, b) <=> x = t
          /\ x = t => Store!Position(x, b) = b
      BY <1>2, <3>1, SectorNumber
    <3>3. CASE d # e
      BY <1>2, <2>1, <3>3
    <3>4. CASE d = e /\ x = t
      <4>1. x \in t..(t + 1 - 1) /\ 0 + x - t = 0
        BY <1>3, <3>4
      <4>2. disk'[d][x] = buf[0 + x - t]
        BY <1>2, <1>3, <2>1, <3>1, <3>4, <4>1
      <4>3. disk'[d][x] = NewSector
        BY <4>1, <4>2 DEF buf
      <4>4. NewSector[b] = call.data[b + 1]
        BY <3>1 DEF NewSector
      <4>5. QED
        BY <3>2, <3>4, <4>3, <4>4
    <3>5. CASE d = e /\ x # t
      <4>1. x \notin t..(t + 1 - 1)
        BY <1>3, <3>1, <3>5
      <4>2. disk'[d][x] = disk[d][x]
        BY <1>2, <1>3, <2>1, <3>1, <3>5, <4>1
      <4>3. QED
        BY <3>2, <3>5, <4>2
    <3>6. QED
      BY <3>3, <3>4, <3>5
  <2>3. call.sector + ((call.offset + call.len - 1) \div SS) < Total[call.drive]
    <3>1. (0 + SS - 1) \div SS = 0
      BY BufferAssumption
    <3>2. call.sector + 0 = call.sector
      BY <1>3
    <3>3. QED
      BY <1>1, <1>2, <1>3, <3>1, <3>2
  <2>4. Store!StoreAndSucceed
    <3>1. ok' = TRUE
      BY <1>4, <1>6
    <3>2. QED
      BY <1>1, <1>2, <2>2, <2>3, <3>1 DEF Store!StoreAndSucceed
  <2>5. QED
    BY <2>4
<1>7. CASE ~ w.ok
  <2>1. ok' = FALSE
    BY <1>4, <1>5, <1>7
  <2>2. \A d \in Drives : disk'[d] = disk[d]
    <3> HIDE DEF e, t
    <3>1. \A d \in Drives : w.disk[d] = disk[d]
      BY <1>2, <1>3, <1>7, RawdiskWriteBad
    <3>2. QED
      BY <1>4, <3>1
  <2>3. CASE UNCHANGED disk
    BY <1>1, <2>1, <2>3 DEF Store!Fail
  <2>4. CASE disk' # disk
    BY <1>1, <1>2, <1>5, <2>1, <2>2, <2>4 DEF Store!Store
  <2>5. QED
    BY <2>3, <2>4
<1>8. QED
  BY <1>6, <1>7

-----------------------------------------------------------------------------

LEMMA NextStore ==
  ASSUME SafeUse, IInv, Placed, SInv, WInv, [Next]_vars
  PROVE  [Store!StoreNext]_(Store!svars)
<1>1. ASSUME NEW c \in Calls, Call(c) PROVE Store!StoreNext
  BY <1>1, CallStore DEF Store!StoreNext
<1>2. ASSUME Unseen PROVE UNCHANGED Store!svars
  BY <1>2, UnseenStep
<1>3. ASSUME pc \notin {"idle", "done"}, Return(FALSE), UNCHANGED disk PROVE Store!StoreNext
  BY <1>3, FailStep DEF Store!StoreNext
<1>4. CASE NoDisk \/ SectorTooBig \/ WontFit \/ SectorReadFails
  BY <1>3, <1>4 DEF NoDisk, SectorTooBig, WontFit, SectorReadFails
<1>5. CASE SelectDrive
  BY <1>2, <1>5 DEF SelectDrive, Unseen, request
<1>6. CASE Hit \/ LoadRest \/ LoadTrack \/ LoadRequired
  <2>1. Unseen \/ (pc \notin {"idle", "done"} /\ Return(FALSE) /\ UNCHANGED disk)
    BY <1>6 DEF Hit, LoadRest, LoadTrack, LoadRequired, Loading, Use, Unseen
  <2>2. QED
    BY <1>2, <1>3, <2>1
<1>7. CASE UseRead
  BY <1>7, UseReadStore DEF Store!StoreNext
<1>8. CASE SkipWrite
  BY <1>2, <1>8 DEF SkipWrite, Advance, Unseen
<1>9. CASE UseWrite
  BY <1>2, <1>9, UseWriteStore DEF Store!StoreNext
<1>10. CASE Finish
  BY <1>10, FinishStore DEF Store!StoreNext
<1>11. CASE SectorUnchanged
  BY <1>11, SectorUnchangedStore DEF Store!StoreNext
<1>12. CASE SectorWrite
  BY <1>12, SectorWriteStore DEF Store!StoreNext
<1>13. CASE Resume
  BY <1>13, ResumeStore DEF Store!StoreNext
<1>14. ASSUME NEW d \in Drives, Command(d) PROVE [Store!StoreNext]_(Store!svars)
  <2>1. CASE ExchangeDisk(d) \/ MapDrive(d)
    BY <2>1, ReplaceStore DEF Store!StoreNext
  <2>2. CASE TuneGeometry(d)
    BY <2>2 DEF TuneGeometry, request, Store!svars
  <2>3. QED
    BY <1>14, <2>1, <2>2 DEF Command
<1>15. CASE ForgetTrack
  BY <1>15 DEF ForgetTrack, request, Store!svars
<1>16. CASE UNCHANGED vars
  BY <1>16 DEF vars, Store!svars
<1>17. QED
  BY <1>1, <1>4, <1>5, <1>6, <1>7, <1>8, <1>9, <1>10, <1>11, <1>12, <1>13, <1>14, <1>15,
     <1>16 DEF Next, CallStep, RawreadStep, RawwriteStep

\* rawread and rawwrite (disk_io.c) implement plain drives of sectors: for
\* every drive, geometry, request and pattern of BIOS failures, what callers
\* see of any sequence of calls, failures, half-done writes, exchanged disks
\* and remapped drives is what a loader without a track buffer would show.
THEOREM Refinement == ASSUME SafeUse PROVE Spec => ImplementsStore
<1>1. Spec => [](IInv /\ Placed)
  BY Inductive, AlwaysPlaced, PTL
<1>2. IInv /\ Placed /\ SInv /\ [Next]_vars => SInv'
  BY NextSInv
<1>3. IInv /\ Placed /\ WInv /\ [Next]_vars => WInv'
  BY NextWInv
<1>4. Spec => [](SInv /\ WInv)
  BY <1>1, <1>2, <1>3, InitSInv, InitWInv, PTL DEF Spec
<1>5. IInv /\ Placed /\ SInv /\ WInv /\ [Next]_vars => [Store!StoreNext]_(Store!svars)
  BY NextStore
<1>6. QED
  BY <1>1, <1>4, <1>5, InitStore, PTL DEF Spec, ImplementsStore, Store!StoreSpec

-----------------------------------------------------------------------------
(* The heap *)

Descriptors == [addr : Nat, used : BOOLEAN]

\* Descriptors are in the order of their addresses, not only neighbours: the
\* same address twice is an empty block in front of one in use.
InOrder(s) ==
  \A i, j \in DOMAIN s : i < j =>
    /\ s[i].addr <= s[j].addr
    /\ s[i].addr = s[j].addr => j = i + 1 /\ ~s[i].used /\ s[j].used
Covers(s) == s[1].addr = Start /\ \A i \in DOMAIN s : s[i].addr < End
List(s) == s \in Seq(Descriptors) /\ Len(s) >= 1 /\ InOrder(s) /\ Covers(s)

\* Two neighbours are not both free, save perhaps i and the block behind it.
MergedBut(s, i) == \A k \in DOMAIN s \ {i} : k < Len(s) => s[k].used \/ s[k + 1].used

\* A caller's bytes are in a block that is in use.
EndIn(s, i) == IF i = Len(s) THEN End ELSE s[i + 1].addr
InBlock(s, i, h) == s[i].used /\ s[i].addr = h.ptr /\ h.ptr + h.size <= EndIn(s, i)
HoldsBlock(s, h) == \E i \in DOMAIN s : InBlock(s, i, h)

\* No two callers have the same block.
OneOwner == \A g, h \in held : g.ptr = h.ptr => g = h

\* The inductive invariant.  HeldDisjoint follows from it and is not inductive:
\* that a block just given is nobody's rests on every caller's block being one
\* of the list, in use, and on the order of the whole list.
HeapInv ==
  /\ HeapTypeOK /\ List(blocks) /\ NoFreeNeighbours
  /\ \A h \in held : HoldsBlock(blocks, h)
  /\ OneOwner

-----------------------------------------------------------------------------
(* Sequences *)

LEMMA RemoveAtFacts ==
  ASSUME NEW S, NEW s \in Seq(S), NEW i \in 1..Len(s)
  PROVE  /\ RemoveAt(s, i) \in Seq(S)
         /\ Len(RemoveAt(s, i)) = Len(s) - 1
         /\ \A k \in 1..(Len(s) - 1) : RemoveAt(s, i)[k] = IF k < i THEN s[k] ELSE s[k + 1]
<1> DEFINE a == SubSeq(s, 1, i - 1)
           b == SubSeq(s, i + 1, Len(s))
<1>1. Len(s) \in Nat /\ i \in Nat /\ i >= 1 /\ i <= Len(s)
  BY LenProperties
<1>2. \A k \in 1..Len(s) : s[k] \in S
  BY ElementOfSeq
<1>3. a \in Seq(S) /\ Len(a) = i - 1 /\ \A k \in 1..(i - 1) : a[k] = s[k]
  <2>1. \A k \in 1..(i - 1) : s[k] \in S
    BY <1>1, <1>2
  <2>2. 1 \in 1..(Len(s) + 1) /\ i - 1 \in (1 - 1)..Len(s)
    BY <1>1
  <2>3. QED
    BY <1>1, <2>1, <2>2, SubSeqProperties
<1>4. b \in Seq(S) /\ Len(b) = Len(s) - i /\ \A k \in 1..(Len(s) - i) : b[k] = s[i + k]
  <2>1. i + 1 \in 1..(Len(s) + 1) /\ Len(s) \in ((i + 1) - 1)..Len(s)
    BY <1>1
  <2>2. QED
    BY <1>1, <2>1, SubSeqProperties
<1>0. RemoveAt(s, i) = a \o b
  BY DEF RemoveAt
<1> HIDE DEF a, b
<1>5. a \o b \in Seq(S) /\ Len(a \o b) = Len(s) - 1
  <2>1. (i - 1) + (Len(s) - i) = Len(s) - 1
    BY <1>1
  <2>2. a \o b \in Seq(S) /\ Len(a \o b) = Len(a) + Len(b)
    BY <1>3, <1>4, ConcatProperties
  <2>3. QED
    BY <1>3, <1>4, <2>1, <2>2
<1>6. ASSUME NEW k \in 1..(Len(s) - 1)
      PROVE  (a \o b)[k] = IF k < i THEN s[k] ELSE s[k + 1]
  <2>1. (a \o b)[k] = IF k <= Len(a) THEN a[k] ELSE b[k - Len(a)]
    <3>1. k \in 1..(Len(a) + Len(b))
      BY <1>1, <1>3, <1>4
    <3>2. QED
      BY <1>3, <1>4, <3>1, ConcatProperties
  <2>2. CASE k < i
    <3>1. k \in 1..(i - 1) /\ k <= Len(a)
      BY <1>1, <1>3, <2>2
    <3>2. QED
      BY <1>3, <2>1, <2>2, <3>1
  <2>3. CASE k >= i
    <3>1. (a \o b)[k] = b[k - (i - 1)]
      BY <1>1, <1>3, <2>1, <2>3
    <3>2. k - (i - 1) \in 1..(Len(s) - i)
      BY <1>1, <2>3
    <3>3. i + (k - (i - 1)) = k + 1
      BY <1>1
    <3>4. QED
      BY <1>1, <1>4, <2>3, <3>1, <3>2, <3>3
  <2>4. k < i \/ k >= i
    BY <1>1
  <2>5. QED
    BY <2>2, <2>3, <2>4
<1>7. QED
  BY <1>0, <1>5, <1>6

LEMMA InsertAtFacts ==
  ASSUME NEW S, NEW s \in Seq(S), NEW i \in 1..(Len(s) + 1), NEW e \in S
  PROVE  /\ InsertAt(s, i, e) \in Seq(S)
         /\ Len(InsertAt(s, i, e)) = Len(s) + 1
         /\ \A k \in 1..(Len(s) + 1) :
              InsertAt(s, i, e)[k] = IF k < i THEN s[k] ELSE IF k = i THEN e ELSE s[k - 1]
<1> DEFINE a == SubSeq(s, 1, i - 1)
           b == SubSeq(s, i, Len(s))
           c == a \o <<e>>
<1>1. Len(s) \in Nat /\ i \in Nat /\ i >= 1 /\ i <= Len(s) + 1
  BY LenProperties
<1>2. a \in Seq(S) /\ Len(a) = i - 1 /\ \A k \in 1..(i - 1) : a[k] = s[k]
  <2>1. 1 \in 1..(Len(s) + 1) /\ i - 1 \in (1 - 1)..Len(s)
    BY <1>1
  <2>2. QED
    BY <1>1, <2>1, SubSeqProperties
<1>3. b \in Seq(S) /\ Len(b) = Len(s) - i + 1
      /\ \A k \in 1..(Len(s) - i + 1) : b[k] = s[i + k - 1]
  <2>1. i \in 1..(Len(s) + 1) /\ Len(s) \in (i - 1)..Len(s)
    BY <1>1
  <2>2. QED
    BY <1>1, <2>1, SubSeqProperties
<1> DEFINE d == <<e>>
<1>4. d \in Seq(S) /\ Len(d) = 1 /\ d[1] = e
  OBVIOUS
<1>8. InsertAt(s, i, e) = c \o b
  BY DEF InsertAt
<1>0. c = a \o d
  OBVIOUS
<1> HIDE DEF a, b, c, d
<1>5. c \in Seq(S) /\ Len(c) = i /\ c[i] = e /\ \A k \in 1..(i - 1) : c[k] = s[k]
  <2>0. i - 1 + 1 = i /\ i - 1 \in Nat
    BY <1>1
  <2>a. /\ a \o d \in Seq(S) /\ Len(a \o d) = Len(a) + Len(d)
        /\ \A k \in 1..(Len(a) + Len(d)) :
             (a \o d)[k] = IF k <= Len(a) THEN a[k] ELSE d[k - Len(a)]
    BY <1>2, <1>4, ConcatProperties
  <2>1. c \in Seq(S) /\ Len(c) = i
    BY <1>0, <1>2, <1>4, <2>0, <2>a
  <2>2. \A k \in 1..i : c[k] = IF k <= i - 1 THEN a[k] ELSE d[k - (i - 1)]
    BY <1>0, <1>2, <1>4, <2>0, <2>a
  <2>3. c[i] = e
    <3>1. i \in 1..i /\ ~(i <= i - 1) /\ i - (i - 1) = 1
      BY <1>1
    <3>2. QED
      BY <1>4, <2>2, <3>1
  <2>4. ASSUME NEW k \in 1..(i - 1)
        PROVE  c[k] = s[k]
    <3>1. k \in 1..i /\ k <= i - 1
      BY <1>1
    <3>2. QED
      BY <1>2, <2>2, <3>1
  <2>5. QED
    BY <2>1, <2>3, <2>4
<1>6. c \o b \in Seq(S) /\ Len(c \o b) = Len(s) + 1
  BY <1>1, <1>3, <1>5, ConcatProperties
<1>7. ASSUME NEW k \in 1..(Len(s) + 1)
      PROVE  (c \o b)[k] = IF k < i THEN s[k] ELSE IF k = i THEN e ELSE s[k - 1]
  <2>1. (c \o b)[k] = IF k <= i THEN c[k] ELSE b[k - i]
    <3>1. k \in 1..(Len(c) + Len(b))
      BY <1>1, <1>3, <1>5
    <3>2. QED
      BY <1>3, <1>5, <3>1, ConcatProperties
  <2>2. CASE k <= i
    <3>1. k = i \/ k \in 1..(i - 1)
      BY <1>1, <2>2
    <3>2. QED
      BY <1>1, <1>5, <2>1, <2>2, <3>1
  <2>3. CASE k > i
    <3>1. (c \o b)[k] = b[k - i]
      BY <1>1, <2>1, <2>3
    <3>2. k - i \in 1..(Len(s) - i + 1) /\ i + (k - i) - 1 = k - 1
      BY <1>1, <2>3
    <3>3. QED
      BY <1>1, <1>3, <2>3, <3>1, <3>2
  <2>4. k <= i \/ k > i
    BY <1>1
  <2>5. QED
    BY <2>2, <2>3, <2>4
<1>9. QED
  BY <1>6, <1>7, <1>8

-----------------------------------------------------------------------------
(* Lists of descriptors *)

LEMMA Elements ==
  ASSUME NEW s, List(s)
  PROVE  /\ Len(s) \in Nat /\ DOMAIN s = 1..Len(s)
         /\ \A k \in DOMAIN s : s[k].addr \in Nat /\ s[k].used \in BOOLEAN
<1>1. s \in Seq(Descriptors) /\ Len(s) \in Nat /\ DOMAIN s = 1..Len(s)
  BY LenProperties DEF List
<1>2. \A k \in 1..Len(s) : s[k] \in Descriptors
  BY <1>1, ElementOfSeq
<1>3. QED
  BY <1>1, <1>2 DEF Descriptors

\* A free block that joins the free one before it leaves the list in order,
\* and every caller's bytes in their block.
LEMMA RemoveFree ==
  ASSUME NEW s, List(s), NEW i \in 2..Len(s), ~s[i].used, ~s[i - 1].used
  PROVE  /\ List(RemoveAt(s, i)) /\ Len(RemoveAt(s, i)) = Len(s) - 1
         /\ \A h : h.ptr \in Nat /\ h.size \in Nat /\ HoldsBlock(s, h) => HoldsBlock(RemoveAt(s, i), h)
<1> DEFINE r == RemoveAt(s, i)
<1>1. /\ s \in Seq(Descriptors) /\ InOrder(s) /\ Covers(s)
      /\ Len(s) \in Nat /\ Len(s) >= 2 /\ i \in 1..Len(s) /\ i >= 2
  BY LenProperties DEF List
<1>2. /\ r \in Seq(Descriptors) /\ Len(r) = Len(s) - 1
      /\ \A k \in 1..(Len(s) - 1) : r[k] = IF k < i THEN s[k] ELSE s[k + 1]
  BY <1>1, RemoveAtFacts
<1>3. DOMAIN s = 1..Len(s) /\ DOMAIN r = 1..(Len(s) - 1)
  BY <1>1, <1>2, LenProperties
<1> HIDE DEF r
<1>4. InOrder(r)
  <2> SUFFICES ASSUME NEW p \in DOMAIN r, NEW q \in DOMAIN r, p < q
               PROVE  /\ r[p].addr <= r[q].addr
                      /\ r[p].addr = r[q].addr => q = p + 1 /\ ~r[p].used /\ r[q].used
    BY DEF InOrder
  <2> DEFINE a == IF p < i THEN p ELSE p + 1
             b == IF q < i THEN q ELSE q + 1
  <2>1. a \in DOMAIN s /\ b \in DOMAIN s /\ a < b /\ (b = a + 1 => q = p + 1)
    BY <1>1, <1>3
  <2>2. r[p] = s[a] /\ r[q] = s[b]
    BY <1>2, <1>3
  <2> HIDE DEF a, b
  <2>3. QED
    BY <1>1, <2>1, <2>2 DEF InOrder
<1>5. Covers(r)
  <2>1. r[1] = s[1]
    BY <1>1, <1>2
  <2>2. ASSUME NEW k \in DOMAIN r
        PROVE  r[k].addr < End
    <3>1. k \in DOMAIN s /\ k + 1 \in DOMAIN s
      BY <1>1, <1>3
    <3>2. QED
      BY <1>1, <1>2, <1>3, <3>1 DEF Covers
  <2>3. QED
    BY <1>1, <2>1, <2>2 DEF Covers
<1>6. ASSUME NEW h, h.ptr \in Nat, h.size \in Nat, HoldsBlock(s, h)
      PROVE  HoldsBlock(r, h)
  <2>1. PICK q \in DOMAIN s : InBlock(s, q, h)
    BY <1>6 DEF HoldsBlock
  <2>2. q # i /\ q # i - 1
    BY <2>1 DEF InBlock
  <2> DEFINE p == IF q < i THEN q ELSE q - 1
  <2>3. p \in DOMAIN r /\ r[p] = s[q]
    BY <1>1, <1>2, <1>3, <2>2
  <2>4. EndIn(r, p) = EndIn(s, q)
    <3>1. CASE q = Len(s)
      BY <1>1, <1>2, <2>2, <3>1 DEF EndIn
    <3>2. CASE q # Len(s)
      <4>1. q < Len(s) /\ p < Len(s) - 1 /\ p + 1 \in 1..(Len(s) - 1)
        BY <1>1, <1>3, <2>2, <3>2
      <4>2. r[p + 1] = s[q + 1]
        BY <1>1, <1>2, <1>3, <2>2, <4>1
      <4>3. QED
        BY <1>1, <1>2, <4>1, <4>2 DEF EndIn
    <3>3. QED
      BY <3>1, <3>2
  <2> HIDE DEF p
  <2>5. QED
    BY <2>1, <2>3, <2>4 DEF HoldsBlock, InBlock
<1>7. QED
  BY <1>1, <1>2, <1>4, <1>5, <1>6 DEF r, List

\* The block behind block k joins it when it is free: then no two neighbours
\* are free.
JoinBehind(t, k) == IF k < Len(t) /\ ~t[k + 1].used THEN RemoveAt(t, k + 1) ELSE t

LEMMA JoinBehindFacts ==
  ASSUME NEW t, List(t), NEW k \in 1..Len(t), ~t[k].used, MergedBut(t, k)
  PROVE  LET u == JoinBehind(t, k)
         IN /\ List(u) /\ Len(u) <= Len(t) /\ MergedBut(u, 0)
            /\ \A h : h.ptr \in Nat /\ h.size \in Nat /\ HoldsBlock(t, h) => HoldsBlock(u, h)
<1>1. t \in Seq(Descriptors) /\ Len(t) \in Nat /\ DOMAIN t = 1..Len(t)
  BY LenProperties DEF List
<1>2. CASE k < Len(t) /\ ~t[k + 1].used
  <2> DEFINE u == RemoveAt(t, k + 1)
  <2>1. k + 1 \in 2..Len(t) /\ (k + 1) - 1 = k
    BY <1>1, <1>2
  <2>2. /\ List(u) /\ Len(u) = Len(t) - 1
        /\ \A h : h.ptr \in Nat /\ h.size \in Nat /\ HoldsBlock(t, h) => HoldsBlock(u, h)
    BY <1>2, <2>1, RemoveFree
  <2>3. \A p \in 1..(Len(t) - 1) : u[p] = IF p < k + 1 THEN t[p] ELSE t[p + 1]
    <3>1. k + 1 \in 1..Len(t)
      BY <2>1
    <3>2. QED
      BY <1>1, <3>1, RemoveAtFacts
  <2>4. DOMAIN u = 1..Len(u)
    BY <2>2, LenProperties DEF List
  <2> HIDE DEF u
  <2>5. ASSUME NEW p \in DOMAIN u, p < Len(u)
        PROVE  u[p].used \/ u[p + 1].used
    <3>1. p \in 1..(Len(t) - 1) /\ p + 1 \in 1..(Len(t) - 1)
      BY <1>1, <2>2, <2>4, <2>5
    <3>2. CASE p < k
      BY <1>1, <2>3, <3>1, <3>2 DEF MergedBut
    <3>3. CASE p = k
      <4>1. u[p + 1] = t[k + 2]
        BY <1>1, <2>3, <3>1, <3>3
      <4>2. k + 1 \in DOMAIN t \ {k} /\ k + 1 < Len(t) /\ (k + 1) + 1 = k + 2
        BY <1>1, <3>1, <3>3
      <4>3. QED
        BY <1>2, <4>1, <4>2 DEF MergedBut
    <3>4. CASE p > k
      <4>1. u[p] = t[p + 1] /\ u[p + 1] = t[(p + 1) + 1]
        BY <1>1, <2>3, <3>1, <3>4
      <4>2. p + 1 \in DOMAIN t \ {k} /\ p + 1 < Len(t)
        BY <1>1, <3>1, <3>4
      <4>3. QED
        BY <4>1, <4>2 DEF MergedBut
    <3>5. QED
      BY <1>1, <3>1, <3>2, <3>3, <3>4
  <2>6. Len(u) <= Len(t)
    BY <1>1, <2>2
  <2>7. QED
    BY <1>2, <2>2, <2>5, <2>6 DEF MergedBut, JoinBehind, u
<1>3. CASE ~(k < Len(t) /\ ~t[k + 1].used)
  BY <1>1, <1>3 DEF MergedBut, JoinBehind
<1>4. QED
  BY <1>2, <1>3

\* The rest of a block that has been split goes behind it.
LEMMA InsertRest ==
  ASSUME NEW s, List(s), NEW i \in DOMAIN s, NEW rest \in Descriptors,
         s[i].used, ~rest.used, s[i].addr < rest.addr, rest.addr < End,
         i < Len(s) => s[i + 1].used /\ rest.addr <= s[i + 1].addr,
         \A k \in DOMAIN s : k < Len(s) => s[k].used \/ s[k + 1].used
  PROVE  LET r == InsertAt(s, i + 1, rest)
         IN /\ List(r) /\ Len(r) = Len(s) + 1
            /\ \A k \in DOMAIN r : k < Len(r) => r[k].used \/ r[k + 1].used
            /\ \A h : (\E q \in DOMAIN s \ {i} : InBlock(s, q, h)) => HoldsBlock(r, h)
            /\ \A h : s[i].addr = h.ptr /\ h.ptr + h.size <= rest.addr => HoldsBlock(r, h)
<1> DEFINE r == InsertAt(s, i + 1, rest)
<1>1. /\ s \in Seq(Descriptors) /\ Len(s) >= 1 /\ InOrder(s) /\ Covers(s)
      /\ Len(s) \in Nat /\ DOMAIN s = 1..Len(s)
      /\ \A k \in DOMAIN s : s[k].addr \in Nat /\ s[k].used \in BOOLEAN
  BY Elements DEF List
<1>2. rest.addr \in Nat
  BY DEF Descriptors
<1>3. /\ r \in Seq(Descriptors) /\ Len(r) = Len(s) + 1
      /\ \A k \in 1..(Len(s) + 1) :
           r[k] = IF k < i + 1 THEN s[k] ELSE IF k = i + 1 THEN rest ELSE s[k - 1]
  <2>1. i + 1 \in 1..(Len(s) + 1)
    BY <1>1
  <2>2. s \in Seq(Descriptors)
    BY <1>1
  <2> DEFINE n == i + 1
  <2>3. n \in 1..(Len(s) + 1)
    BY <2>1
  <2> HIDE DEF n
  <2>4. /\ InsertAt(s, n, rest) \in Seq(Descriptors)
        /\ Len(InsertAt(s, n, rest)) = Len(s) + 1
        /\ \A k \in 1..(Len(s) + 1) :
             InsertAt(s, n, rest)[k] = IF k < n THEN s[k] ELSE IF k = n THEN rest ELSE s[k - 1]
    BY <2>2, <2>3, InsertAtFacts
  <2>5. QED
    BY <2>4 DEF n
<1>4. DOMAIN r = 1..(Len(s) + 1)
  BY <1>3, LenProperties
<1> HIDE DEF r
<1>5. /\ \A k \in 1..i : k \in DOMAIN s /\ k \in DOMAIN r /\ r[k] = s[k]
      /\ i + 1 \in DOMAIN r /\ r[i + 1] = rest
      /\ \A k \in (i + 1)..Len(s) : k \in DOMAIN s /\ k + 1 \in DOMAIN r /\ r[k + 1] = s[k]
  BY <1>1, <1>3, <1>4
<1>6. ASSUME NEW k \in DOMAIN r
      PROVE  k \in 1..i \/ k = i + 1 \/ \E q \in (i + 1)..Len(s) : k = q + 1
  <2>1. k > i + 1 => k - 1 \in (i + 1)..Len(s) /\ k = (k - 1) + 1
    BY <1>1, <1>4
  <2>2. k \in 1..i \/ k = i + 1 \/ k > i + 1
    BY <1>1, <1>4
  <2>3. QED
    BY <2>1, <2>2
<1>7. InOrder(r)
  <2> SUFFICES ASSUME NEW p \in DOMAIN r, NEW q \in DOMAIN r, p < q
               PROVE  /\ r[p].addr <= r[q].addr
                      /\ r[p].addr = r[q].addr => q = p + 1 /\ ~r[p].used /\ r[q].used
    BY DEF InOrder
  <2>0. i < Len(s) => i + 1 \in DOMAIN s /\ s[i].addr < s[i + 1].addr
    BY <1>1, <1>2
  <2>1. CASE q \in 1..i
    <3>1. p \in 1..i
      BY <1>1, <1>4, <2>1
    <3>2. QED
      BY <1>1, <1>5, <2>1, <3>1 DEF InOrder
  <2>2. CASE q = i + 1
    <3>1. p \in 1..i
      BY <1>1, <1>4, <2>2
    <3>2. s[p].addr <= s[i].addr
      BY <1>1, <1>5, <3>1 DEF InOrder
    <3>3. QED
      BY <1>1, <1>2, <1>5, <2>2, <3>1, <3>2
  <2>3. CASE \E k \in (i + 1)..Len(s) : q = k + 1
    <3>1. PICK k \in (i + 1)..Len(s) : q = k + 1
      BY <2>3
    <3>2. /\ i < Len(s) /\ i + 1 \in DOMAIN s /\ s[i].addr < s[i + 1].addr
          /\ s[i + 1].used /\ rest.addr <= s[i + 1].addr
      BY <1>1, <2>0, <3>1
    <3>3. r[q] = s[k] /\ k \in DOMAIN s
      BY <1>5, <3>1
    <3>4. s[i + 1].addr <= s[k].addr /\ (s[i + 1].addr = s[k].addr => k = i + 1)
      <4>1. CASE k = i + 1
        BY <1>1, <3>2, <4>1
      <4>2. CASE k # i + 1
        <5>1. i + 1 < k
          BY <1>1, <3>1, <4>2
        <5>2. QED
          BY <1>1, <3>2, <3>3, <5>1 DEF InOrder
      <4>3. QED
        BY <4>1, <4>2
    <3>5. CASE p \in 1..i
      <4>1. r[p] = s[p] /\ p \in DOMAIN s
        BY <1>5, <3>5
      <4>2. s[p].addr <= s[i].addr
        BY <1>1, <3>5, <4>1 DEF InOrder
      <4>3. r[p].addr < r[q].addr
        BY <1>1, <3>2, <3>3, <3>4, <4>1, <4>2
      <4>4. QED
        BY <1>1, <3>3, <4>1, <4>3
    <3>6. CASE p = i + 1
      <4>1. r[p] = rest
        BY <1>5, <3>6
      <4>2. r[p].addr = r[q].addr => k = i + 1
        BY <1>1, <1>2, <3>2, <3>3, <3>4, <4>1
      <4>3. QED
        BY <1>1, <1>2, <3>1, <3>2, <3>3, <3>4, <3>6, <4>1, <4>2
    <3>7. CASE \E j \in (i + 1)..Len(s) : p = j + 1
      <4>1. PICK j \in (i + 1)..Len(s) : p = j + 1
        BY <3>7
      <4>2. r[p] = s[j] /\ j \in DOMAIN s /\ j < k
        BY <1>1, <1>5, <3>1, <4>1
      <4>3. QED
        BY <1>1, <3>1, <3>3, <4>1, <4>2 DEF InOrder
    <3>8. QED
      BY <1>6, <3>5, <3>6, <3>7
  <2>4. QED
    BY <1>6, <2>1, <2>2, <2>3
<1>8. Covers(r)
  <2>1. 1 \in 1..i /\ 1 \in DOMAIN s
    BY <1>1
  <2>2. ASSUME NEW k \in DOMAIN r
        PROVE  r[k].addr < End
    <3>1. \A j \in DOMAIN s : s[j].addr < End
      BY <1>1 DEF Covers
    <3>2. CASE k \in 1..i
      BY <1>1, <1>5, <3>1, <3>2
    <3>3. CASE k = i + 1
      BY <1>5, <3>3
    <3>4. CASE \E j \in (i + 1)..Len(s) : k = j + 1
      BY <1>1, <1>5, <3>1, <3>4
    <3>5. QED
      BY <1>6, <3>2, <3>3, <3>4
  <2>3. QED
    BY <1>1, <1>5, <2>1, <2>2 DEF Covers
<1>9. ASSUME NEW k \in DOMAIN r, k < Len(r)
      PROVE  r[k].used \/ r[k + 1].used
  <2>1. CASE k \in 1..i
    <3>1. CASE k = i
      BY <1>5, <2>1, <3>1
    <3>2. CASE k # i
      <4>1. k + 1 \in 1..i /\ k < Len(s)
        BY <1>1, <2>1, <3>2
      <4>2. QED
        BY <1>5, <2>1, <4>1
    <3>3. QED
      BY <3>1, <3>2
  <2>2. CASE k = i + 1
    <3>1. i < Len(s) /\ i + 1 \in (i + 1)..Len(s)
      BY <1>1, <1>3, <1>9, <2>2
    <3>2. QED
      BY <1>5, <2>2, <3>1
  <2>3. CASE \E q \in (i + 1)..Len(s) : k = q + 1
    <3>1. PICK q \in (i + 1)..Len(s) : k = q + 1
      BY <2>3
    <3>2. q < Len(s) /\ q + 1 \in (i + 1)..Len(s)
      BY <1>1, <1>3, <1>9, <3>1
    <3>3. r[k] = s[q] /\ r[k + 1] = s[q + 1] /\ q \in DOMAIN s
      BY <1>5, <3>1, <3>2
    <3>4. QED
      BY <3>2, <3>3
  <2>4. QED
    BY <1>6, <2>1, <2>2, <2>3
<1>10. ASSUME NEW h, NEW q \in DOMAIN s \ {i}, InBlock(s, q, h)
       PROVE  HoldsBlock(r, h)
  <2>1. CASE q < i
    <3>1. q \in 1..i /\ q + 1 \in 1..i /\ q # Len(s) /\ q # Len(s) + 1
      BY <1>1, <2>1
    <3>2. EndIn(r, q) = EndIn(s, q) /\ r[q] = s[q] /\ q \in DOMAIN r
      BY <1>3, <1>5, <3>1 DEF EndIn
    <3>3. QED
      BY <1>10, <3>2 DEF HoldsBlock, InBlock
  <2>2. CASE q > i
    <3>1. q \in (i + 1)..Len(s)
      BY <1>1, <2>2
    <3>2. EndIn(r, q + 1) = EndIn(s, q)
      <4>1. CASE q = Len(s)
        BY <1>3, <4>1 DEF EndIn
      <4>2. CASE q # Len(s)
        <5>1. q + 1 \in (i + 1)..Len(s) /\ q + 1 # Len(s) + 1
          BY <1>1, <3>1, <4>2
        <5>2. QED
          BY <1>3, <1>5, <4>2, <5>1 DEF EndIn
      <4>3. QED
        BY <4>1, <4>2
    <3>3. r[q + 1] = s[q] /\ q + 1 \in DOMAIN r
      BY <1>5, <3>1
    <3>4. QED
      BY <1>10, <3>2, <3>3 DEF HoldsBlock, InBlock
  <2>3. QED
    BY <1>1, <2>1, <2>2
<1>11. ASSUME NEW h, s[i].addr = h.ptr, h.ptr + h.size <= rest.addr
       PROVE  HoldsBlock(r, h)
  <2>1. i \in 1..i /\ i # Len(s) + 1
    BY <1>1
  <2>2. EndIn(r, i) = rest.addr
    BY <1>3, <1>5, <2>1 DEF EndIn
  <2>3. QED
    BY <1>5, <1>11, <2>1, <2>2 DEF HoldsBlock, InBlock
<1>12. List(r) /\ Len(r) = Len(s) + 1
  BY <1>1, <1>3, <1>7, <1>8 DEF List
<1>13. QED
  BY <1>9, <1>10, <1>11, <1>12 DEF r

-----------------------------------------------------------------------------
(* The steps *)

\* The request is rounded up by at least 16 bytes.
LEMMA NeedIsEnough ==
  ASSUME NEW size \in Nat
  PROVE  Need(size) \in Nat /\ Need(size) >= size + 16
BY DEF Need, Grain

\* The block that grub_malloc picks is longer than empty, so no block in use
\* has its address; it ends behind the bytes asked for.
LEMMA FitsFacts ==
  ASSUME HeapInv, NEW size \in Sizes, NEW i \in DOMAIN blocks, Fits(i, Need(size))
  PROVE  /\ ~blocks[i].used
         /\ EndIn(blocks, i) >= blocks[i].addr + size + 15
         /\ \A k \in DOMAIN blocks : k # i => blocks[k].addr # blocks[i].addr \/ ~blocks[k].used
         /\ i < Len(blocks) => blocks[i + 1].used /\ blocks[i].addr < blocks[i + 1].addr
<1>1. List(blocks) /\ NoFreeNeighbours
  BY DEF HeapInv
<1>2. /\ Len(blocks) \in Nat /\ DOMAIN blocks = 1..Len(blocks)
      /\ \A k \in DOMAIN blocks : blocks[k].addr \in Nat /\ blocks[k].used \in BOOLEAN
  BY <1>1, Elements
<1>3. size \in Nat /\ End \in Nat
  BY HeapAssumption
<1>4. Need(size) \in Nat /\ Need(size) >= size + 16
  BY <1>3, NeedIsEnough
<1>5. ~blocks[i].used /\ AllocMem(i) >= Need(size)
  BY DEF Fits
<1>6. EndIn(blocks, i) \in Nat /\ EndIn(blocks, i) >= blocks[i].addr + size + 15
  <2>1. CASE i = Len(blocks)
    BY <1>2, <1>3, <1>4, <1>5, <2>1 DEF AllocMem, NextWord, EndIn
  <2>2. CASE i # Len(blocks)
    <3>1. i + 1 \in DOMAIN blocks /\ blocks[i + 1].addr \in Nat /\ blocks[i].addr \in Nat
      BY <1>2, <2>2
    <3>2. NextWord(i) \in Nat /\ NextWord(i) <= blocks[i + 1].addr + 1
      BY <2>2, <3>1 DEF NextWord
    <3>3. QED
      BY <1>3, <1>4, <1>5, <2>2, <3>1, <3>2 DEF AllocMem, EndIn
  <2>3. QED
    BY <2>1, <2>2
<1>7. ASSUME i < Len(blocks)
      PROVE  i + 1 \in DOMAIN blocks /\ blocks[i + 1].used /\ blocks[i].addr < blocks[i + 1].addr
  <2>1. i + 1 \in DOMAIN blocks /\ blocks[i + 1].addr \in Nat /\ blocks[i].addr \in Nat
    BY <1>2, <1>7
  <2>2. blocks[i + 1].used
    BY <1>1, <1>5, <1>7 DEF NoFreeNeighbours
  <2>3. EndIn(blocks, i) = blocks[i + 1].addr
    BY <1>2, <1>7 DEF EndIn
  <2>4. QED
    BY <1>3, <1>6, <2>1, <2>2, <2>3
<1>8. ASSUME NEW k \in DOMAIN blocks, k # i, blocks[k].addr = blocks[i].addr, blocks[k].used
      PROVE  FALSE
  <2>1. CASE k < i
    BY <1>1, <1>2, <1>5, <1>8, <2>1 DEF List, InOrder
  <2>2. CASE i < k
    <3>1. k = i + 1
      BY <1>1, <1>8, <2>2 DEF List, InOrder
    <3>2. QED
      BY <1>2, <1>7, <1>8, <3>1
  <2>3. QED
    BY <1>2, <1>8, <2>1, <2>2
<1>9. QED
  BY <1>5, <1>6, <1>7, <1>8

\* Marking the picked block as in use.
LEMMA MarkUsed ==
  ASSUME HeapInv, NEW size \in Sizes, NEW i \in DOMAIN blocks, Fits(i, Need(size))
  PROVE  LET s == [blocks EXCEPT ![i].used = TRUE]
             h == [ptr |-> blocks[i].addr, size |-> size]
         IN /\ List(s) /\ Len(s) = Len(blocks)
            /\ \A k \in DOMAIN s : k < Len(s) => s[k].used \/ s[k + 1].used
            /\ \A g \in held : \E q \in DOMAIN s \ {i} : InBlock(s, q, g)
            /\ s[i].used /\ InBlock(s, i, h)
            /\ \A g \in held : g.ptr # h.ptr
<1> DEFINE s == [blocks EXCEPT ![i].used = TRUE]
           h == [ptr |-> blocks[i].addr, size |-> size]
<1>1. List(blocks) /\ NoFreeNeighbours /\ \A g \in held : HoldsBlock(blocks, g)
  BY DEF HeapInv
<1>2. /\ Len(blocks) \in Nat /\ DOMAIN blocks = 1..Len(blocks)
      /\ blocks \in Seq(Descriptors)
      /\ \A k \in DOMAIN blocks : blocks[k] \in Descriptors
  BY <1>1, Elements, ElementOfSeq DEF List
<1>3. /\ ~blocks[i].used
      /\ EndIn(blocks, i) >= blocks[i].addr + size + 15
      /\ \A k \in DOMAIN blocks : k # i => blocks[k].addr # blocks[i].addr \/ ~blocks[k].used
      /\ i < Len(blocks) => blocks[i + 1].used /\ blocks[i].addr < blocks[i + 1].addr
  BY FitsFacts
<1>4. s \in Seq(Descriptors) /\ Len(s) = Len(blocks)
  <2>1. [blocks[i] EXCEPT !.used = TRUE] \in Descriptors
    BY <1>2 DEF Descriptors
  <2>2. s = [blocks EXCEPT ![i] = [blocks[i] EXCEPT !.used = TRUE]]
    OBVIOUS
  <2> HIDE DEF s
  <2>3. QED
    BY <1>2, <2>1, <2>2, ExceptSeq
<1>5. /\ DOMAIN s = DOMAIN blocks /\ s[i].used
      /\ \A k \in DOMAIN blocks : s[k].addr = blocks[k].addr
      /\ \A k \in DOMAIN blocks \ {i} : s[k].used = blocks[k].used
  BY <1>2 DEF Descriptors
<1> HIDE DEF s
<1>6. InOrder(s)
  <2> SUFFICES ASSUME NEW p \in DOMAIN s, NEW q \in DOMAIN s, p < q
               PROVE  /\ s[p].addr <= s[q].addr
                      /\ s[p].addr = s[q].addr => q = p + 1 /\ ~s[p].used /\ s[q].used
    BY DEF InOrder
  <2>1. /\ blocks[p].addr <= blocks[q].addr
        /\ blocks[p].addr = blocks[q].addr => q = p + 1 /\ ~blocks[p].used /\ blocks[q].used
    BY <1>1, <1>5 DEF List, InOrder
  <2>2. blocks[p].addr = blocks[q].addr => p # i /\ q # i
    BY <1>2, <1>3, <1>5, <2>1
  <2>3. QED
    BY <1>5, <2>1, <2>2
<1>7. Covers(s)
  <2>1. 1 \in DOMAIN blocks
    BY <1>1, <1>2 DEF List
  <2>2. QED
    BY <1>1, <1>5, <2>1 DEF List, Covers
<1>8. ASSUME NEW k \in DOMAIN s, k < Len(s)
      PROVE  s[k].used \/ s[k + 1].used
  <2>1. k \in DOMAIN blocks /\ k + 1 \in DOMAIN blocks
    BY <1>2, <1>4, <1>5, <1>8
  <2>2. blocks[k].used \/ blocks[k + 1].used
    BY <1>1, <1>4, <1>8, <2>1 DEF NoFreeNeighbours
  <2>3. QED
    BY <1>5, <2>1, <2>2
<1>9. \A k \in DOMAIN s : EndIn(s, k) = EndIn(blocks, k)
  <2> SUFFICES ASSUME NEW k \in DOMAIN s
               PROVE  EndIn(s, k) = EndIn(blocks, k)
    OBVIOUS
  <2>1. CASE k = Len(s)
    BY <1>4, <2>1 DEF EndIn
  <2>2. CASE k # Len(s)
    <3>1. k + 1 \in DOMAIN blocks
      BY <1>2, <1>4, <1>5, <2>2
    <3>2. QED
      BY <1>4, <1>5, <2>2, <3>1 DEF EndIn
  <2>3. QED
    BY <2>1, <2>2
<1>10. ASSUME NEW g \in held
       PROVE  /\ \E q \in DOMAIN s \ {i} : InBlock(s, q, g)
              /\ g.ptr # h.ptr
  <2>1. PICK q \in DOMAIN blocks : InBlock(blocks, q, g)
    BY <1>1 DEF HoldsBlock
  <2>2. q # i /\ blocks[q].used /\ blocks[q].addr = g.ptr
    BY <1>3, <2>1 DEF InBlock
  <2>3. g.ptr # h.ptr
    BY <1>3, <2>2
  <2>4. InBlock(s, q, g)
    BY <1>5, <1>9, <2>1, <2>2 DEF InBlock
  <2>5. QED
    BY <1>5, <2>2, <2>3, <2>4
<1>11. InBlock(s, i, h)
  <2>1. blocks[i].addr \in Nat /\ EndIn(blocks, i) \in Nat
    <3>1. i < Len(blocks) => i + 1 \in DOMAIN blocks
      BY <1>2
    <3>2. QED
      BY <1>1, <1>2, <3>1, Elements, HeapAssumption DEF EndIn
  <2>2. size \in Nat
    BY HeapAssumption
  <2>3. blocks[i].addr + size <= EndIn(blocks, i)
    BY <1>3, <2>1, <2>2
  <2>4. QED
    BY <1>5, <1>9, <2>3 DEF InBlock
<1>12. List(s)
  BY <1>1, <1>4, <1>6, <1>7 DEF List
<1>13. QED
  BY <1>4, <1>5, <1>8, <1>10, <1>11, <1>12 DEF s

LEMMA InitInv == HeapInit => HeapInv
<1> SUFFICES ASSUME HeapInit PROVE HeapInv
  OBVIOUS
<1>1. /\ Block(Start, FALSE) \in Descriptors
      /\ Block(Start, FALSE).addr = Start /\ ~Block(Start, FALSE).used
  BY HeapAssumption DEF Block, Descriptors
<1> DEFINE b == Block(Start, FALSE)
<1>2. blocks = <<b>> /\ held = {}
  BY DEF HeapInit
<1>3. b \in Descriptors /\ b.addr = Start
  BY <1>1
<1> HIDE DEF b
<1>4. /\ blocks \in Seq(Descriptors) /\ Len(blocks) = 1 /\ blocks[1] = b
      /\ \A k \in DOMAIN blocks : k = 1
  BY <1>2, <1>3
<1>5. InOrder(blocks)
  BY <1>4 DEF InOrder
<1>6. Covers(blocks) /\ NoFreeNeighbours
  BY <1>3, <1>4, HeapAssumption DEF Covers, NoFreeNeighbours
<1>7. HeapTypeOK
  BY <1>2, <1>4, HeapAssumption DEF HeapTypeOK, Descriptors
<1>8. QED
  BY <1>2, <1>4, <1>5, <1>6, <1>7 DEF HeapInv, List, OneOwner

\* What a step of grub_malloc that gives memory leaves of the invariant once
\* its list is in order.
LEMMA GiveInv ==
  ASSUME HeapInv, NEW size \in Sizes, NEW i \in DOMAIN blocks, Give(i, size),
         List(blocks'), Len(blocks') <= TableSize, NoFreeNeighbours',
         \A g \in held : HoldsBlock(blocks', g) /\ g.ptr # blocks[i].addr,
         HoldsBlock(blocks', [ptr |-> blocks[i].addr, size |-> size])
  PROVE  HeapInv'
<1> DEFINE h == [ptr |-> blocks[i].addr, size |-> size]
<1>1. held' = held \cup {h} /\ h.ptr = blocks[i].addr /\ h.size = size
  BY DEF Give
<1>2. HeapTypeOK /\ List(blocks) /\ OneOwner
  BY DEF HeapInv
<1>3. h.ptr \in Nat /\ h.size \in Sizes
  BY <1>1, <1>2, Elements
<1>4. HoldsBlock(blocks', h)
  OBVIOUS
<1>5. \A g \in held : g.ptr # h.ptr
  BY <1>1
<1> HIDE DEF h
<1>6. HeapTypeOK'
  BY <1>1, <1>2, <1>3, LenProperties DEF HeapTypeOK, List, Descriptors
<1>7. OneOwner'
  BY <1>1, <1>2, <1>5 DEF OneOwner
<1>8. \A g \in held' : HoldsBlock(blocks', g)
  BY <1>1, <1>4
<1>9. QED
  BY <1>6, <1>7, <1>8 DEF HeapInv

LEMMA TakeWholeInv ==
  ASSUME HeapInv, NEW size \in Sizes, TakeWhole(size)
  PROVE  HeapInv'
<1>1. PICK i \in DOMAIN blocks :
        /\ Fits(i, Need(size))
        /\ blocks' = [blocks EXCEPT ![i].used = TRUE]
        /\ Give(i, size)
  BY DEF TakeWhole
<1> DEFINE h == [ptr |-> blocks[i].addr, size |-> size]
<1>2. /\ List(blocks') /\ Len(blocks') = Len(blocks)
      /\ \A k \in DOMAIN blocks' : k < Len(blocks') => blocks'[k].used \/ blocks'[k + 1].used
      /\ \A g \in held : \E q \in DOMAIN blocks' \ {i} : InBlock(blocks', q, g)
      /\ InBlock(blocks', i, h)
      /\ \A g \in held : g.ptr # h.ptr
      /\ i \in DOMAIN blocks'
  BY <1>1, MarkUsed
<1>3. h.ptr = blocks[i].addr
  OBVIOUS
<1> HIDE DEF h
<1>4. NoFreeNeighbours'
  BY <1>2 DEF NoFreeNeighbours
<1>5. \A g \in held : HoldsBlock(blocks', g) /\ g.ptr # blocks[i].addr
  BY <1>2, <1>3 DEF HoldsBlock
<1>6. HoldsBlock(blocks', h)
  BY <1>2 DEF HoldsBlock
<1>7. Len(blocks') <= TableSize
  BY <1>2 DEF HeapInv, HeapTypeOK
<1>8. QED
  BY <1>1, <1>2, <1>4, <1>5, <1>6, <1>7, GiveInv DEF h

LEMMA SplitInv ==
  ASSUME HeapInv, NEW size \in Sizes, Split(size)
  PROVE  HeapInv'
<1>1. PICK i \in DOMAIN blocks :
        /\ Fits(i, Need(size)) /\ AllocMem(i) > Need(size) /\ Len(blocks) < TableSize
        /\ blocks' = InsertAt([blocks EXCEPT ![i].used = TRUE], i + 1,
                              Block(blocks[i].addr + Need(size), FALSE))
        /\ Give(i, size)
  BY DEF Split
<1> DEFINE h == [ptr |-> blocks[i].addr, size |-> size]
           s == [blocks EXCEPT ![i].used = TRUE]
           rest == Block(blocks[i].addr + Need(size), FALSE)
<1>2. /\ List(s) /\ Len(s) = Len(blocks)
      /\ \A k \in DOMAIN s : k < Len(s) => s[k].used \/ s[k + 1].used
      /\ \A g \in held : \E q \in DOMAIN s \ {i} : InBlock(s, q, g)
      /\ s[i].used
      /\ \A g \in held : g.ptr # h.ptr
  BY <1>1, MarkUsed
<1>3. h.ptr = blocks[i].addr /\ h.size = size
  OBVIOUS
<1>4. /\ DOMAIN s = DOMAIN blocks
      /\ \A k \in DOMAIN blocks : s[k].addr = blocks[k].addr
      /\ \A k \in DOMAIN blocks \ {i} : s[k].used = blocks[k].used
  <2>1. \A k \in DOMAIN blocks : blocks[k] \in Descriptors
    BY Elements, ElementOfSeq DEF HeapInv, List
  <2>2. QED
    BY <2>1 DEF Descriptors
<1>5. /\ Len(blocks) \in Nat /\ DOMAIN blocks = 1..Len(blocks)
      /\ \A k \in DOMAIN blocks : blocks[k].addr \in Nat /\ blocks[k].used \in BOOLEAN
  BY Elements DEF HeapInv
<1>6. size \in Nat /\ Need(size) \in Nat /\ Need(size) >= size + 16 /\ End \in Nat /\ TableSize \in Nat
  BY NeedIsEnough, HeapAssumption
<1>7. /\ rest \in Descriptors /\ ~rest.used /\ rest.addr = blocks[i].addr + Need(size)
  BY <1>5, <1>6 DEF Block, Descriptors
<1>8. blocks' = InsertAt(s, i + 1, rest)
  BY <1>1
<1> HIDE DEF h, s, rest
<1>9. s[i].addr < rest.addr /\ h.ptr + h.size <= rest.addr /\ s[i].addr = h.ptr
  BY <1>3, <1>4, <1>5, <1>6, <1>7
<1>10. i < Len(blocks) => /\ i + 1 \in DOMAIN blocks /\ blocks[i + 1].used
                          /\ rest.addr <= blocks[i + 1].addr
  <2> SUFFICES ASSUME i < Len(blocks)
               PROVE  /\ i + 1 \in DOMAIN blocks /\ blocks[i + 1].used
                      /\ rest.addr <= blocks[i + 1].addr
    OBVIOUS
  <2>1. i + 1 \in DOMAIN blocks /\ blocks[i + 1].used
    BY <1>1, <1>5, FitsFacts
  <2>2. AllocMem(i) <= blocks[i + 1].addr + 1 - blocks[i].addr
    BY <1>5, <2>1 DEF AllocMem, NextWord
  <2>3. AllocMem(i) \in Int
    BY <1>5, <1>6, <2>1 DEF AllocMem, NextWord
  <2>4. QED
    BY <1>1, <1>5, <1>6, <1>7, <2>1, <2>2, <2>3
<1>11. rest.addr < End
  <2>1. CASE i = Len(blocks)
    BY <1>1, <1>5, <1>6, <1>7, <2>1 DEF AllocMem, NextWord
  <2>2. CASE i # Len(blocks)
    <3>1. i < Len(blocks)
      BY <1>5, <2>2
    <3>2. blocks[i + 1].addr < End /\ i + 1 \in DOMAIN blocks
      BY <1>10, <3>1 DEF HeapInv, List, Covers
    <3>3. QED
      BY <1>5, <1>6, <1>7, <1>10, <3>1, <3>2
  <2>3. QED
    BY <2>1, <2>2
<1>12. i < Len(s) => s[i + 1].used /\ rest.addr <= s[i + 1].addr
  BY <1>2, <1>4, <1>5, <1>10
<1>13. /\ List(blocks') /\ Len(blocks') = Len(s) + 1
       /\ \A k \in DOMAIN blocks' : k < Len(blocks') => blocks'[k].used \/ blocks'[k + 1].used
       /\ \A g : (\E q \in DOMAIN s \ {i} : InBlock(s, q, g)) => HoldsBlock(blocks', g)
       /\ \A g : s[i].addr = g.ptr /\ g.ptr + g.size <= rest.addr => HoldsBlock(blocks', g)
  <2>1. i \in DOMAIN s
    BY <1>4
  <2>2. QED
    BY <1>2, <1>7, <1>8, <1>9, <1>11, <1>12, <2>1, InsertRest
<1>14. NoFreeNeighbours'
  BY <1>13 DEF NoFreeNeighbours
<1>15. \A g \in held : HoldsBlock(blocks', g) /\ g.ptr # blocks[i].addr
  BY <1>2, <1>3, <1>13
<1>16. HoldsBlock(blocks', h)
  BY <1>9, <1>13
<1>17. Len(blocks') <= TableSize
  <2>1. Len(blocks) < TableSize
    BY <1>1
  <2>2. Len(blocks') = Len(blocks) + 1
    BY <1>2, <1>13
  <2>3. QED
    BY <1>5, <1>6, <2>1, <2>2
<1>18. QED
  BY <1>1, <1>13, <1>14, <1>15, <1>16, <1>17, GiveInv DEF h

\* A released block that is in the list and in use: the list with it marked
\* free is in order, and still holds every other caller's bytes.
LEMMA MarkFree ==
  ASSUME HeapInv, NEW h \in held, NEW i \in Found(h.ptr), blocks[i].used
  PROVE  LET s == [blocks EXCEPT ![i].used = FALSE]
         IN /\ List(s) /\ Len(s) = Len(blocks) /\ ~s[i].used
            /\ \A k \in DOMAIN s : k < Len(s) /\ k # i /\ k + 1 # i => s[k].used \/ s[k + 1].used
            /\ \A g \in held \ {h} : HoldsBlock(s, g)
<1> DEFINE s == [blocks EXCEPT ![i].used = FALSE]
<1>1. List(blocks) /\ NoFreeNeighbours /\ OneOwner /\ \A g \in held : HoldsBlock(blocks, g)
  BY DEF HeapInv
<1>2. /\ Len(blocks) \in Nat /\ DOMAIN blocks = 1..Len(blocks)
      /\ blocks \in Seq(Descriptors)
      /\ \A k \in DOMAIN blocks : blocks[k] \in Descriptors
      /\ \A k \in DOMAIN blocks : blocks[k].addr \in Nat /\ blocks[k].used \in BOOLEAN
  BY <1>1, Elements, ElementOfSeq DEF List
<1>3. /\ i \in DOMAIN blocks /\ blocks[i].addr = h.ptr
      /\ \A j \in 1..(i - 1) : blocks[j].addr # h.ptr
  BY DEF Found
<1>4. s \in Seq(Descriptors) /\ Len(s) = Len(blocks)
  <2>1. [blocks[i] EXCEPT !.used = FALSE] \in Descriptors
    BY <1>2, <1>3 DEF Descriptors
  <2>2. s = [blocks EXCEPT ![i] = [blocks[i] EXCEPT !.used = FALSE]]
    OBVIOUS
  <2> HIDE DEF s
  <2>3. QED
    BY <1>2, <1>3, <2>1, <2>2, ExceptSeq
<1>5. /\ DOMAIN s = DOMAIN blocks /\ ~s[i].used
      /\ \A k \in DOMAIN blocks : s[k].addr = blocks[k].addr
      /\ \A k \in DOMAIN blocks \ {i} : s[k].used = blocks[k].used
  BY <1>2, <1>3 DEF Descriptors
<1> HIDE DEF s
<1>6. InOrder(s)
  <2> SUFFICES ASSUME NEW p \in DOMAIN s, NEW q \in DOMAIN s, p < q
               PROVE  /\ s[p].addr <= s[q].addr
                      /\ s[p].addr = s[q].addr => q = p + 1 /\ ~s[p].used /\ s[q].used
    BY DEF InOrder
  <2>1. /\ blocks[p].addr <= blocks[q].addr
        /\ blocks[p].addr = blocks[q].addr => q = p + 1 /\ ~blocks[p].used /\ blocks[q].used
    BY <1>1, <1>5 DEF List, InOrder
  <2>2. blocks[p].addr = blocks[q].addr => p # i
    BY <2>1
  <2>3. blocks[p].addr = blocks[q].addr => q # i
    <3> SUFFICES ASSUME blocks[p].addr = blocks[q].addr, q = i PROVE FALSE
      OBVIOUS
    <3>1. p \in 1..(i - 1)
      BY <1>2, <1>3, <1>5
    <3>2. QED
      BY <1>3, <3>1
  <2>4. QED
    BY <1>5, <2>1, <2>2, <2>3
<1>7. Covers(s)
  <2>1. 1 \in DOMAIN blocks
    BY <1>1, <1>2 DEF List
  <2>2. QED
    BY <1>1, <1>5, <2>1 DEF List, Covers
<1>8. ASSUME NEW k \in DOMAIN s, k < Len(s), k # i, k + 1 # i
      PROVE  s[k].used \/ s[k + 1].used
  <2>1. k \in DOMAIN blocks /\ k + 1 \in DOMAIN blocks
    BY <1>2, <1>4, <1>5, <1>8
  <2>2. blocks[k].used \/ blocks[k + 1].used
    BY <1>1, <1>4, <1>8, <2>1 DEF NoFreeNeighbours
  <2>3. QED
    BY <1>5, <1>8, <2>1, <2>2
<1>9. ASSUME NEW g \in held \ {h}
      PROVE  HoldsBlock(s, g)
  <2>1. PICK q \in DOMAIN blocks : InBlock(blocks, q, g)
    BY <1>1 DEF HoldsBlock
  <2>2. q # i
    BY <1>1, <1>3, <2>1 DEF InBlock, OneOwner
  <2>3. EndIn(s, q) = EndIn(blocks, q)
    <3>1. CASE q = Len(s)
      BY <1>4, <3>1 DEF EndIn
    <3>2. CASE q # Len(s)
      <4>1. q + 1 \in DOMAIN blocks
        BY <1>2, <1>4, <1>5, <3>2
      <4>2. QED
        BY <1>4, <1>5, <3>2, <4>1 DEF EndIn
    <3>3. QED
      BY <3>1, <3>2
  <2>4. QED
    BY <1>5, <2>1, <2>2, <2>3 DEF HoldsBlock, InBlock
<1>10. QED
  BY <1>1, <1>4, <1>5, <1>6, <1>7, <1>8, <1>9 DEF s, List

\* Joining a free block with its free neighbours.
LEMMA JoinedFacts ==
  ASSUME NEW s, List(s), NEW i \in DOMAIN s, ~s[i].used,
         \A k \in DOMAIN s : k < Len(s) /\ k # i /\ k + 1 # i => s[k].used \/ s[k + 1].used
  PROVE  LET u == Joined(s, i)
         IN /\ List(u) /\ Len(u) <= Len(s) /\ MergedBut(u, 0)
            /\ \A h : h.ptr \in Nat /\ h.size \in Nat /\ HoldsBlock(s, h) => HoldsBlock(u, h)
<1>1. /\ s \in Seq(Descriptors) /\ Len(s) \in Nat /\ DOMAIN s = 1..Len(s)
      /\ i \in 1..Len(s)
  BY Elements DEF List
<1>2. CASE i > 1 /\ ~s[i - 1].used
  <2> DEFINE t == RemoveAt(s, i)
  <2>1. /\ List(t) /\ Len(t) = Len(s) - 1
        /\ \A h : h.ptr \in Nat /\ h.size \in Nat /\ HoldsBlock(s, h) => HoldsBlock(t, h)
    <3>1. i \in 2..Len(s)
      BY <1>1, <1>2
    <3>2. QED
      BY <1>2, <3>1, RemoveFree
  <2>2. \A k \in 1..(Len(s) - 1) : t[k] = IF k < i THEN s[k] ELSE s[k + 1]
    BY <1>1, RemoveAtFacts
  <2>3. Joined(s, i) = JoinBehind(t, i - 1)
    BY <1>2 DEF Joined, JoinBehind
  <2>4. DOMAIN t = 1..(Len(s) - 1)
    BY <2>1, Elements
  <2> HIDE DEF t
  <2>5. i - 1 \in 1..Len(t) /\ ~t[i - 1].used
    BY <1>1, <1>2, <2>1, <2>2
  <2>6. MergedBut(t, i - 1)
    <3> SUFFICES ASSUME NEW k \in DOMAIN t \ {i - 1}, k < Len(t)
                 PROVE  t[k].used \/ t[k + 1].used
      BY DEF MergedBut
    <3>1. CASE k < i - 1
      <4>1. t[k] = s[k] /\ t[k + 1] = s[k + 1]
        BY <1>1, <2>1, <2>2, <2>4, <3>1
      <4>2. k \in DOMAIN s /\ k < Len(s) /\ k # i /\ k + 1 # i
        BY <1>1, <2>1, <2>4, <3>1
      <4>3. QED
        BY <4>1, <4>2
    <3>2. CASE k > i - 1
      <4>1. t[k] = s[k + 1] /\ t[k + 1] = s[(k + 1) + 1]
        BY <1>1, <2>1, <2>2, <2>4, <3>2
      <4>2. k + 1 \in DOMAIN s /\ k + 1 < Len(s) /\ k + 1 # i /\ (k + 1) + 1 # i
        BY <1>1, <2>1, <2>4, <3>2
      <4>3. QED
        BY <4>1, <4>2
    <3>3. k < i - 1 \/ k > i - 1
      BY <1>1, <2>4
    <3>4. QED
      BY <3>1, <3>2, <3>3
  <2>7. /\ List(JoinBehind(t, i - 1)) /\ Len(JoinBehind(t, i - 1)) <= Len(t)
        /\ MergedBut(JoinBehind(t, i - 1), 0)
        /\ \A h : h.ptr \in Nat /\ h.size \in Nat /\ HoldsBlock(t, h) => HoldsBlock(JoinBehind(t, i - 1), h)
    <3> DEFINE k == i - 1
    <3>1. k \in 1..Len(t) /\ ~t[k].used /\ MergedBut(t, k) /\ List(t)
      BY <2>1, <2>5, <2>6
    <3> HIDE DEF k
    <3>2. /\ List(JoinBehind(t, k)) /\ Len(JoinBehind(t, k)) <= Len(t)
          /\ MergedBut(JoinBehind(t, k), 0)
          /\ \A h : h.ptr \in Nat /\ h.size \in Nat /\ HoldsBlock(t, h) => HoldsBlock(JoinBehind(t, k), h)
      BY <3>1, JoinBehindFacts
    <3>3. QED
      BY <3>2 DEF k
  <2>8. Len(JoinBehind(t, i - 1)) <= Len(s)
    BY <1>1, <2>1, <2>7, Elements
  <2>9. QED
    BY <2>1, <2>3, <2>7, <2>8
<1>3. CASE ~(i > 1 /\ ~s[i - 1].used)
  <2>1. Joined(s, i) = JoinBehind(s, i)
    BY <1>3 DEF Joined, JoinBehind
  <2>2. MergedBut(s, i)
    <3> SUFFICES ASSUME NEW k \in DOMAIN s \ {i}, k < Len(s)
                 PROVE  s[k].used \/ s[k + 1].used
      BY DEF MergedBut
    <3>1. CASE k + 1 = i
      <4>1. i > 1 /\ i - 1 = k
        BY <1>1, <3>1
      <4>2. QED
        BY <1>3, <4>1
    <3>2. CASE k + 1 # i
      BY <3>2
    <3>3. QED
      BY <3>1, <3>2
  <2>3. QED
    BY <1>1, <2>1, <2>2, JoinBehindFacts
<1>4. QED
  BY <1>2, <1>3

LEMMA FreeInv ==
  ASSUME HeapInv, Free
  PROVE  HeapInv'
<1>1. PICK h \in held :
        /\ held' = held \ {h}
        /\ blocks' = IF Found(h.ptr) = {} THEN blocks
                     ELSE LET i == CHOOSE i \in Found(h.ptr) : TRUE
                          IN Joined([blocks EXCEPT ![i].used = FALSE], i)
  BY DEF Free
<1>2. HeapTypeOK /\ List(blocks) /\ NoFreeNeighbours /\ OneOwner /\ \A g \in held : HoldsBlock(blocks, g)
  BY DEF HeapInv
<1>3. \A g \in held : g.ptr \in Nat /\ g.size \in Nat
  BY <1>2, HeapAssumption DEF HeapTypeOK
<1>4. ASSUME List(blocks'), Len(blocks') <= Len(blocks), NoFreeNeighbours',
             \A g \in held' : HoldsBlock(blocks', g)
      PROVE  HeapInv'
  <2>1. HeapTypeOK'
    <3>1. Len(blocks') \in Nat /\ Len(blocks) \in Nat
      BY <1>2, <1>4, Elements
    <3>2. QED
      BY <1>1, <1>2, <1>4, <3>1, HeapAssumption DEF HeapTypeOK, List, Descriptors
  <2>2. OneOwner'
    BY <1>1, <1>2 DEF OneOwner
  <2>3. QED
    BY <1>4, <2>1, <2>2 DEF HeapInv
<1>5. CASE Found(h.ptr) = {}
  BY <1>1, <1>2, <1>4, <1>5, Elements DEF NoFreeNeighbours
<1>6. CASE Found(h.ptr) # {}
  <2> DEFINE i == CHOOSE i \in Found(h.ptr) : TRUE
             s == [blocks EXCEPT ![i].used = FALSE]
  <2>1. i \in Found(h.ptr)
    BY <1>6
  <2>2. blocks' = Joined(s, i)
    BY <1>1, <1>6
  <2> HIDE DEF i
  <2>3. i \in DOMAIN blocks
    BY <2>1 DEF Found
  <2>4. CASE blocks[i].used
    <3>1. /\ List(s) /\ Len(s) = Len(blocks) /\ ~s[i].used
          /\ \A k \in DOMAIN s : k < Len(s) /\ k # i /\ k + 1 # i => s[k].used \/ s[k + 1].used
          /\ \A g \in held \ {h} : HoldsBlock(s, g)
      BY <2>1, <2>4, MarkFree
    <3>2. i \in DOMAIN s
      BY <2>3
    <3> HIDE DEF s
    <3>3. /\ List(blocks') /\ Len(blocks') <= Len(s) /\ MergedBut(blocks', 0)
          /\ \A g : g.ptr \in Nat /\ g.size \in Nat /\ HoldsBlock(s, g) => HoldsBlock(blocks', g)
      BY <2>2, <3>1, <3>2, JoinedFacts
    <3>4. NoFreeNeighbours'
      <4>1. DOMAIN blocks' = 1..Len(blocks')
        BY <3>3, Elements
      <4>2. QED
        BY <3>3, <4>1 DEF NoFreeNeighbours, MergedBut
    <3>5. \A g \in held' : HoldsBlock(blocks', g)
      BY <1>1, <1>3, <3>1, <3>3
    <3>6. QED
      BY <1>4, <3>1, <3>3, <3>4, <3>5
  <2>5. CASE ~blocks[i].used
    <3>1. s = blocks
      <4>1. blocks \in Seq(Descriptors) /\ \A k \in DOMAIN blocks : blocks[k] \in Descriptors
        BY <1>2, Elements, ElementOfSeq DEF List
      <4>2. blocks[i].used = FALSE
        BY <2>3, <2>5, <4>1 DEF Descriptors
      <4>3. [blocks[i] EXCEPT !.used = FALSE] = blocks[i]
        BY <2>3, <4>1, <4>2 DEF Descriptors
      <4>4. s = [blocks EXCEPT ![i] = blocks[i]]
        BY <4>3
      <4>5. QED
        BY <2>3, <4>1, <4>4
    <3> HIDE DEF s
    <3>2. PICK q \in DOMAIN blocks : InBlock(blocks, q, h)
      BY <1>2 DEF HoldsBlock
    <3>3. /\ Len(blocks) \in Nat /\ DOMAIN blocks = 1..Len(blocks)
          /\ blocks[q].addr = h.ptr /\ blocks[q].used
          /\ blocks[i].addr = h.ptr /\ \A j \in 1..(i - 1) : blocks[j].addr # h.ptr
      BY <1>2, <2>1, <3>2, Elements DEF Found, InBlock
    <3>4. q = i + 1
      <4>1. q # i /\ ~(q \in 1..(i - 1))
        BY <2>5, <3>3
      <4>2. i < q
        BY <2>3, <3>3, <4>1
      <4>3. QED
        BY <1>2, <2>3, <3>3, <4>2 DEF List, InOrder
    <3>5. ~(i > 1 /\ ~blocks[i - 1].used)
      <4> SUFFICES ASSUME i > 1, ~blocks[i - 1].used PROVE FALSE
        OBVIOUS
      <4>1. i - 1 \in DOMAIN blocks /\ i - 1 < Len(blocks) /\ (i - 1) + 1 = i
        BY <2>3, <3>3
      <4>2. QED
        BY <1>2, <2>5, <4>1 DEF NoFreeNeighbours
    <3>6. Joined(blocks, i) = blocks
      BY <3>3, <3>4, <3>5 DEF Joined
    <3>7. blocks' = blocks
      BY <2>2, <3>1, <3>6
    <3>8. List(blocks') /\ Len(blocks') <= Len(blocks) /\ NoFreeNeighbours'
      BY <1>2, <3>3, <3>7 DEF NoFreeNeighbours
    <3>9. \A g \in held' : HoldsBlock(blocks', g)
      BY <1>1, <1>2, <3>7
    <3>10. QED
      BY <1>4, <3>8, <3>9
  <2>6. QED
    BY <2>4, <2>5
<1>7. QED
  BY <1>5, <1>6

LEMMA NextInv == HeapInv /\ [HeapNext]_heapvars => HeapInv'
<1> SUFFICES ASSUME HeapInv, [HeapNext]_heapvars PROVE HeapInv'
  OBVIOUS
<1>1. CASE UNCHANGED heapvars
  BY <1>1 DEF heapvars, HeapInv, HeapTypeOK, NoFreeNeighbours, OneOwner
<1>2. ASSUME NEW size \in Sizes, TakeWhole(size)
      PROVE  HeapInv'
  BY <1>2, TakeWholeInv
<1>3. ASSUME NEW size \in Sizes, Split(size)
      PROVE  HeapInv'
  BY <1>3, SplitInv
<1>4. ASSUME NEW size \in Sizes, MallocWontFit(size)
      PROVE  HeapInv'
  BY <1>1, <1>4 DEF MallocWontFit
<1>5. CASE Free
  BY <1>5, FreeInv
<1>6. QED
  BY <1>1, <1>2, <1>3, <1>4, <1>5 DEF HeapNext, Malloc

LEMMA Invariant == HeapSpec => []HeapInv
BY InitInv, NextInv, PTL DEF HeapSpec

-----------------------------------------------------------------------------
(* The properties *)

\* Every grub_malloc and grub_free leaves well-formed descriptors, at most as
\* many as the table has.
THEOREM HeapTypes == HeapSpec => []HeapTypeOK
<1>1. HeapInv => HeapTypeOK
  BY DEF HeapInv
<1>2. QED
  BY <1>1, Invariant, PTL

\* Merge free blocks: no two free blocks are ever neighbours.
THEOREM Merging == HeapSpec => []NoFreeNeighbours
<1>1. HeapInv => NoFreeNeighbours
  BY DEF HeapInv
<1>2. QED
  BY <1>1, Invariant, PTL

\* The list of grub_malloc and grub_free covers the heap in order.
THEOREM Covering == HeapSpec => []ListCovers
<1>1. HeapInv => ListCovers
  <2> SUFFICES ASSUME HeapInv PROVE ListCovers
    OBVIOUS
  <2>1. List(blocks)
    BY DEF HeapInv
  <2>2. Len(blocks) \in 1..Len(blocks) /\ DOMAIN blocks = 1..Len(blocks)
        /\ \A k \in DOMAIN blocks : blocks[k].addr \in Nat
    BY <2>1, Elements DEF List
  <2>3. ASSUME NEW i \in DOMAIN blocks, i < Len(blocks)
        PROVE  \/ blocks[i].addr < blocks[i + 1].addr
               \/ blocks[i].addr = blocks[i + 1].addr /\ ~blocks[i].used /\ blocks[i + 1].used
    <3>1. i + 1 \in DOMAIN blocks /\ i < i + 1
      BY <2>2, <2>3
    <3>2. QED
      BY <2>1, <2>2, <3>1 DEF List, InOrder
  <2>4. QED
    BY <2>1, <2>2, <2>3 DEF List, Covers, ListCovers
<1>2. QED
  BY <1>1, Invariant, PTL

\* grub_malloc never gives a byte to two callers, nor one outside the heap.
THEOREM Disjointness == HeapSpec => []HeldDisjoint
<1>1. HeapInv => HeldDisjoint
  <2> SUFFICES ASSUME HeapInv PROVE HeldDisjoint
    OBVIOUS
  <2>1. /\ List(blocks) /\ OneOwner /\ \A h \in held : HoldsBlock(blocks, h)
        /\ \A h \in held : h.ptr \in Nat /\ h.size \in Nat
    BY HeapAssumption DEF HeapInv, HeapTypeOK
  <2>2. /\ Len(blocks) \in Nat /\ DOMAIN blocks = 1..Len(blocks)
        /\ \A k \in DOMAIN blocks : blocks[k].addr \in Nat
        /\ Start \in Nat /\ End \in Nat
    BY <2>1, Elements, HeapAssumption
  <2>3. ASSUME NEW k \in DOMAIN blocks
        PROVE  /\ Start <= blocks[k].addr /\ EndIn(blocks, k) <= End
               /\ \A q \in DOMAIN blocks : k < q => EndIn(blocks, k) <= blocks[q].addr
    <3>1. 1 \in DOMAIN blocks /\ blocks[1].addr = Start
      BY <2>1, <2>2 DEF List, Covers
    <3>2. Start <= blocks[k].addr
      <4>1. CASE k = 1
        BY <2>2, <3>1, <4>1
      <4>2. CASE k # 1
        <5>1. 1 < k
          BY <2>2, <4>2
        <5>2. QED
          BY <2>1, <3>1, <5>1 DEF List, InOrder
      <4>3. QED
        BY <4>1, <4>2
    <3>3. EndIn(blocks, k) <= End
      <4>1. k # Len(blocks) => k + 1 \in DOMAIN blocks
        BY <2>2
      <4>2. QED
        BY <2>1, <2>2, <4>1 DEF List, Covers, EndIn
    <3>4. ASSUME NEW q \in DOMAIN blocks, k < q
          PROVE  EndIn(blocks, k) <= blocks[q].addr
      <4>1. k # Len(blocks) /\ k + 1 \in DOMAIN blocks /\ (k + 1 = q \/ k + 1 < q)
        BY <2>2, <3>4
      <4>2. blocks[k + 1].addr <= blocks[q].addr
        BY <2>1, <2>2, <4>1 DEF List, InOrder
      <4>3. QED
        BY <4>1, <4>2 DEF EndIn
    <3>5. QED
      BY <3>2, <3>3, <3>4
  <2>4. \A k \in DOMAIN blocks : EndIn(blocks, k) \in Nat
    <3>1. \A k \in DOMAIN blocks : k # Len(blocks) => k + 1 \in DOMAIN blocks
      BY <2>2
    <3>2. QED
      BY <2>2, <3>1 DEF EndIn
  <2>5. ASSUME NEW h \in held
        PROVE  BytesOf(h) \subseteq Start..(End - 1)
    <3>1. PICK k \in DOMAIN blocks : InBlock(blocks, k, h)
      BY <2>1 DEF HoldsBlock
    <3>2. Start <= h.ptr /\ h.ptr + h.size <= End /\ h.ptr \in Nat /\ h.size \in Nat
      BY <2>1, <2>2, <2>3, <2>4, <3>1 DEF InBlock
    <3>3. QED
      BY <2>2, <3>2 DEF BytesOf
  <2>6. ASSUME NEW g \in held, NEW h \in held, g # h
        PROVE  BytesOf(g) \cap BytesOf(h) = {}
    <3>1. PICK j \in DOMAIN blocks : InBlock(blocks, j, g)
      BY <2>1 DEF HoldsBlock
    <3>2. PICK k \in DOMAIN blocks : InBlock(blocks, k, h)
      BY <2>1 DEF HoldsBlock
    <3>3. j # k
      BY <2>1, <2>6, <3>1, <3>2 DEF InBlock, OneOwner
    <3>4. g.ptr \in Nat /\ g.size \in Nat /\ h.ptr \in Nat /\ h.size \in Nat
      BY <2>1
    <3>5. CASE j < k
      <4>1. g.ptr + g.size <= h.ptr
        BY <2>2, <2>3, <2>4, <3>1, <3>2, <3>4, <3>5 DEF InBlock
      <4>2. QED
        BY <3>4, <4>1 DEF BytesOf
    <3>6. CASE k < j
      <4>1. h.ptr + h.size <= g.ptr
        BY <2>2, <2>3, <2>4, <3>1, <3>2, <3>4, <3>6 DEF InBlock
      <4>2. QED
        BY <3>4, <4>1 DEF BytesOf
    <3>7. QED
      BY <2>2, <3>3, <3>5, <3>6
  <2>7. QED
    BY <2>5, <2>6 DEF HeldDisjoint
<1>2. QED
  BY <1>1, Invariant, PTL
=============================================================================
