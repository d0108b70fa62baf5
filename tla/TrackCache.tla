----------------------------- MODULE TrackCache -----------------------------
(***************************************************************************)
(* The track buffer of stage2: every sector the loader reads or writes     *)
(* goes through rawread (read, write) or rawwrite (one sector) in          *)
(* disk_io.c, and both share one 64 KB buffer described by three globals:  *)
(* buf_drive, buf_track and buf_geom.  The BIOS below (biosdisk, bios.c)   *)
(* may fail on any call after having transferred any prefix.               *)
(*                                                                         *)
(* A drive's content is a function from sectors to sectors of SS bytes.    *)
(* The loader is sequential: pc says where in the current call it is.      *)
(***************************************************************************)
EXTENDS Integers, Sequences

CONSTANTS
  Drives,        \* the BIOS drive numbers
  Total,         \* Total[d]: number of sectors of drive d
  Geometries,    \* Geometries[d]: what probing d may answer, [lba, sectors]
  WriteTargets,  \* WriteTargets[d]: the sectors callers give to rawwrite
  SS,            \* bytes per sector (512)
  BufSectors,    \* sectors in the buffer: BUFFERLEN / SS (128)
  VT,            \* sectors of a virtual track on an LBA drive (127)
  Wrap,          \* 2^32: buf_track is a 32-bit int, sectors are 64-bit
  Bytes,         \* values of a byte
  Images,        \* Images[d]: contents d may have at start or after a map
  Bad,           \* the "BAD?" pattern rawdisk_read leaves as a mark
  Data,          \* the byte sequences callers write
  LateErrors,    \* may the BIOS report an error for a write that was done?
  ChainedTune,   \* may geometry follow, in one command line, a command that
                 \* has used the drive (cat (fd0)+1 && geometry --tune (fd0))?
  MaxLen         \* longest request, in bytes

None == -1       \* buf_drive = -1, buf_track = -1

MaxSpt == BufSectors
Geometry == [lba: BOOLEAN, sectors: 1..MaxSpt]

ASSUME BufferAssumption ==
  /\ SS \in Nat \ {0}
  /\ BufSectors \in Nat \ {0}
  /\ VT \in 1..BufSectors
  /\ Wrap \in Nat \ {0}
  /\ MaxLen \in Nat \ {0}
  /\ LateErrors \in BOOLEAN
  /\ ChainedTune \in BOOLEAN
  /\ Data \subseteq Seq(Bytes)
  /\ \A w \in Data : Len(w) \in 1..MaxLen

Sector    == [0..(SS - 1) -> Bytes]
BufSector == [0..(SS - 1) -> Bytes \cup {Bad}]
Slots     == 0..(BufSectors - 1)
Sectors(d) == 0..(Total[d] - 1)
Content(d) == [Sectors(d) -> Sector]

ASSUME DriveAssumption ==
  /\ Drives \subseteq Nat
  /\ Total \in [Drives -> Nat \ {0}]
  /\ \A d \in Drives : /\ Geometries[d] \subseteq Geometry
                       /\ WriteTargets[d] \subseteq Nat
                       /\ Images[d] \subseteq Content(d)

VARIABLES
  disk,         \* disk[d][s]: content of sector s of drive d
  geom,         \* geom[d]: what get_diskinfo(d) answers (hd_geom, fd_geom)
  buf_drive,    \* the drive the buffer describes, or None
  buf_track,    \* first sector of the buffered track, or None
  buf_geom,     \* geometry of buf_drive
  buffer,       \* the 64 KB at BUFFERADDR, by sector
  pc,           \* "idle", or the point reached inside rawread / rawwrite
  call,         \* the request in progress, or the last one
  cursor,       \* rawread's sector, byte_offset, byte_len, num_sect
  out,          \* the bytes rawread has moved to the caller's buffer
  ok            \* the value returned: 1 success, 0 failure

vars == <<disk, geom, buf_drive, buf_track, buf_geom, buffer,
          pc, call, cursor, out, ok>>
cache == <<buf_drive, buf_track, buf_geom, buffer>>
request == <<call, cursor, out, ok>>

Min2(a, b) == IF a <= b THEN a ELSE b

\* Requests.  rawread: any drive, any start (one past the end included);
\* rawwrite writes whole sectors among the callers' targets.
ReadCalls ==
  UNION {[op: {"read"}, drive: {d}, sector: 0..Total[d],
          offset: 0..(SS - 1), len: 1..MaxLen, data: {<<>>}] : d \in Drives}
WriteCalls ==
  UNION {UNION {[op: {"write"}, drive: {d}, sector: 0..Total[d],
                 offset: 0..(SS - 1), len: {Len(w)}, data: {w}]
                : w \in Data} : d \in Drives}
SectorCalls ==
  UNION {[op: {"rawwrite"}, drive: {d}, sector: WriteTargets[d],
          offset: {0}, len: {SS}, data: {w \in Data : Len(w) = SS}] : d \in Drives}
Calls == ReadCalls \cup WriteCalls \cup SectorCalls

NoCall == [op |-> "none"]
AtRest == [sector |-> 0, byte_offset |-> 0, byte_len |-> 0, num_sect |-> 0]

-----------------------------------------------------------------------------
(* The BIOS transfer *)

\* The value an assignment `buf_track = track` leaves in a signed 32-bit int.
\* A negative one compares unequal to, and above, every sector number.
Int32(t) == LET w == t % Wrap IN IF w < Wrap \div 2 THEN w ELSE None

\* rawdisk_read of n sectors from s to buffer slot `at`: the last slot is
\* marked, the BIOS transfers k sectors, and the call succeeds when all came
\* and the mark is gone.  Nothing past the end of the drive can be read.
RawdiskRead(buf, d, s, n, at) ==
  LET marked == [buf EXCEPT ![at + n - 1] = [@ EXCEPT ![0] = Bad]]
      after(k) == [i \in Slots |-> IF i \in at..(at + k - 1)
                                     THEN disk[d][s + i - at]
                                     ELSE marked[i]]
  IN  {[ok |-> k = n /\ after(k)[at + n - 1][0] # Bad, buf |-> after(k)] :
        k \in {j \in 0..n : s + j <= Total[d]}}

\* biosdisk(BIOSDISK_WRITE): k of the n sectors reach the disk.
RawdiskWrite(buf, d, s, n, at) ==
  LET Partial(k) == [disk EXCEPT ![d] = [x \in Sectors(d) |->
                       IF x \in s..(s + k - 1) THEN buf[at + x - s] ELSE disk[d][x]]]
      Outcomes == {q \in [ok: BOOLEAN, count: 0..n] :
                     /\ s + q.count <= Total[d]
                     /\ q.ok => q.count = n
                     /\ q.count = n => q.ok \/ LateErrors}
  IN  {[ok |-> q.ok, disk |-> Partial(q.count)] : q \in Outcomes}

-----------------------------------------------------------------------------
(* The geometry of the current step of rawread *)

SectorsPerVtrack == IF buf_geom.lba THEN VT ELSE buf_geom.sectors
Soff  == cursor.sector % SectorsPerVtrack
Track == cursor.sector - Soff
RestOfTrack == SectorsPerVtrack - Soff

Size == Min2(cursor.byte_len, BufSectors * SS)
Slen == (cursor.byte_offset + Size + SS - 1) \div SS

\* Bytes of this step once num_sect sectors are at hand.
Chunk == Min2(Size, cursor.num_sect * SS - cursor.byte_offset)

\* Mutant: bufaddr without byte_offset.
BufByteNoOffset(buf, j) == buf[Soff + (j \div SS)][j % SS]

\* Byte j (from 0) of the step's part of the buffer.
BufByte(buf, j) ==
  LET p == cursor.byte_offset + j
  IN  buf[Soff + (p \div SS)][p % SS]

Done == call.len - cursor.byte_len     \* bytes already served

\* Mutant: bufaddr without byte_offset.
PatchedNoOffset ==
  [i \in Slots |-> [b \in 0..(SS - 1) |->
     LET j == (i - Soff) * SS + b
     IN  IF j \in 0..(Chunk - 1) THEN call.data[Done + j + 1]
                                 ELSE buffer[i][b]]]

\* The buffer after grub_memmove64(bufaddr, buf, size).
Patched ==
  [i \in Slots |-> [b \in 0..(SS - 1) |->
     LET j == (i - Soff) * SS + b - cursor.byte_offset
     IN  IF j \in 0..(Chunk - 1) THEN call.data[Done + j + 1]
                                 ELSE buffer[i][b]]]

-----------------------------------------------------------------------------
Init ==
  /\ disk \in [Drives -> UNION {Images[d] : d \in Drives}]
  /\ geom \in [Drives -> UNION {Geometries[d] : d \in Drives}]
  /\ \A d \in Drives : disk[d] \in Images[d] /\ geom[d] \in Geometries[d]
  /\ buf_drive = None
  /\ buf_track = None
  /\ buf_geom = [lba |-> FALSE, sectors |-> 1]
  /\ buffer \in {[s \in Slots |-> [i \in 0..(SS - 1) |-> b]] : b \in Bytes \cup {Bad}}
  /\ pc = "idle"
  /\ call = NoCall
  /\ cursor = AtRest
  /\ out = <<>>
  /\ ok = FALSE

Return(r) ==
  /\ pc' = "done"
  /\ ok' = r
  /\ UNCHANGED <<call, out>>

\* A command calls rawread or rawwrite.
Call(c) ==
  /\ pc = "idle"
  /\ pc' = "select"
  /\ call' = c
  /\ cursor' = [sector |-> c.sector, byte_offset |-> c.offset,
                byte_len |-> c.len, num_sect |-> 0]
  /\ out' = <<>>
  /\ ok' = FALSE
  /\ UNCHANGED <<disk, geom, cache>>

\* Mutant: the drive changes, the track stays.
SelectDriveKeepsTrack ==
  /\ pc = "select"
  /\ IF buf_drive # call.drive
       THEN buf_drive' = call.drive /\ buf_geom' = geom[call.drive]
       ELSE UNCHANGED <<buf_drive, buf_geom>>
  /\ pc' = IF call.op = "rawwrite" THEN "sector" ELSE "load"
  /\ UNCHANGED <<disk, geom, buf_track, buffer, request>>

\* "Reset geometry and invalidate track buffer if the disk is wrong."
SelectDrive ==
  /\ pc = "select"
  /\ IF buf_drive # call.drive
       THEN /\ buf_drive' = call.drive
            /\ buf_track' = None
            /\ buf_geom' = geom[call.drive]
       ELSE UNCHANGED <<buf_drive, buf_track, buf_geom>>
  /\ pc' = IF call.op = "rawwrite" THEN "sector" ELSE "load"
  /\ UNCHANGED <<disk, geom, buffer, request>>

\* get_diskinfo fails: ERR_NO_DISK, the globals are untouched.
NoDisk ==
  /\ pc = "select"
  /\ buf_drive # call.drive
  /\ Return(FALSE)
  /\ UNCHANGED <<disk, geom, cache, cursor>>

-----------------------------------------------------------------------------
(* rawread: one turn of `while (byte_len > 0)` is a load and a use *)

Use(n) == /\ pc' = "use"
          /\ cursor' = [cursor EXCEPT !.num_sect = n]
          /\ UNCHANGED <<call, out, ok>>

\* A CHS drive cannot address the sector.
SectorTooBig ==
  /\ pc = "load"
  /\ cursor.byte_len > 0
  /\ ~ buf_geom.lba /\ cursor.sector >= Wrap
  /\ Return(FALSE)
  /\ UNCHANGED <<disk, geom, cache, cursor>>

Loading ==
  /\ pc = "load"
  /\ cursor.byte_len > 0
  /\ buf_geom.lba \/ cursor.sector < Wrap

\* The track is the buffered one.
Hit ==
  /\ Loading
  /\ Track = buf_track
  /\ Use(RestOfTrack)
  /\ UNCHANGED <<disk, geom, cache>>

\* The request leaves the track: read its end only, and cache nothing.
LoadRest ==
  /\ Loading
  /\ Track # buf_track
  /\ Slen > RestOfTrack
  /\ \E r \in RawdiskRead(buffer, call.drive, cursor.sector, RestOfTrack, Soff) :
        /\ buffer' = r.buf
        /\ IF r.ok THEN Use(RestOfTrack)
                   ELSE Return(FALSE) /\ UNCHANGED cursor
  /\ buf_track' = None
  /\ UNCHANGED <<disk, geom, buf_drive, buf_geom>>

\* Read and cache the whole track.
LoadTrack ==
  /\ Loading
  /\ Track # buf_track
  /\ Slen <= RestOfTrack
  /\ \E r \in RawdiskRead(buffer, call.drive, Track, SectorsPerVtrack, 0) :
        /\ r.ok
        /\ buffer' = r.buf
  /\ buf_track' = Int32(Track)
  /\ Use(RestOfTrack)
  /\ UNCHANGED <<disk, geom, buf_drive, buf_geom>>

\* The track cannot be read.  Without a smaller read to try, ERR_READ; else
\* "on error try again to load only the required sectors".
LoadRequired ==
  /\ Loading
  /\ Track # buf_track
  /\ Slen <= RestOfTrack
  /\ \E r \in RawdiskRead(buffer, call.drive, Track, SectorsPerVtrack, 0) :
        /\ ~ r.ok
        /\ IF Slen = SectorsPerVtrack
             THEN buffer' = r.buf /\ Return(FALSE) /\ UNCHANGED cursor
             ELSE \E q \in RawdiskRead(r.buf, call.drive, cursor.sector, Slen, Soff) :
                    /\ buffer' = q.buf
                    /\ IF q.ok THEN Use(Slen)
                               ELSE Return(FALSE) /\ UNCHANGED cursor
  /\ buf_track' = None
  /\ UNCHANGED <<disk, geom, buf_drive, buf_geom>>

\* Mutant: byte_len loses whole sectors instead of the bytes used.
AdvanceWholeSectors ==
  /\ pc' = "load"
  /\ cursor' = [sector |-> cursor.sector + cursor.num_sect, byte_offset |-> 0,
                byte_len |-> cursor.byte_len - cursor.num_sect * SS, num_sect |-> 0]
  /\ UNCHANGED <<call, ok>>

\* byte_len -= size; sector += num_sect; byte_offset = 0.
Advance ==
  /\ pc' = "load"
  /\ cursor' = [sector |-> cursor.sector + cursor.num_sect, byte_offset |-> 0,
                byte_len |-> cursor.byte_len - Chunk, num_sect |-> 0]
  /\ UNCHANGED <<call, ok>>

UseRead ==
  /\ pc = "use"
  /\ call.op = "read"
  /\ out' = out \o [j \in 1..Chunk |-> BufByte(buffer, j - 1)]
  /\ Advance
  /\ UNCHANGED <<disk, geom, cache>>

\* grub_memmove64 refuses the caller's buffer: ERR_WONT_FIT.
WontFit ==
  /\ pc = "use"
  /\ call.op = "read"
  /\ Return(FALSE)
  /\ UNCHANGED <<disk, geom, cache, cursor>>

\* Mutant: `continue` where the code has `goto next`.
SkipWriteContinue ==
  /\ pc = "use"
  /\ call.op = "write"
  /\ \A j \in 0..(Chunk - 1) : BufByte(buffer, j) = call.data[Done + j + 1]
  /\ pc' = "load"
  /\ UNCHANGED <<disk, geom, cache, request>>

\* The disk already holds the data: no need to write.
SkipWrite ==
  /\ pc = "use"
  /\ call.op = "write"
  /\ \A j \in 0..(Chunk - 1) : BufByte(buffer, j) = call.data[Done + j + 1]
  /\ Advance
  /\ UNCHANGED <<disk, geom, cache, out>>

\* Invalidate the buffer, patch it and write num_sect sectors from it.
UseWrite ==
  /\ pc = "use"
  /\ call.op = "write"
  /\ \E j \in 0..(Chunk - 1) : BufByte(buffer, j) # call.data[Done + j + 1]
  /\ buf_track' = None
  /\ buffer' = Patched
  /\ \E w \in RawdiskWrite(Patched, call.drive, cursor.sector, cursor.num_sect, Soff) :
        /\ disk' = w.disk
        /\ IF w.ok THEN Advance /\ UNCHANGED out
                   ELSE Return(FALSE) /\ UNCHANGED cursor
  /\ UNCHANGED <<geom, buf_drive, buf_geom>>

Finish ==
  /\ pc = "load"
  /\ cursor.byte_len = 0
  /\ Return(TRUE)
  /\ UNCHANGED <<disk, geom, cache, cursor>>

-----------------------------------------------------------------------------
(* rawwrite: through a scratch sector, then into the cached track *)

\* The sector, as the caller's data.
NewSector == [i \in 0..(SS - 1) |-> call.data[i + 1]]

\* "Update the cache": only within buf_geom.sectors of the track's start.
WriteThrough ==
  IF buf_track # None /\ cursor.sector >= buf_track
                      /\ cursor.sector - buf_track < buf_geom.sectors
    THEN [buffer EXCEPT ![cursor.sector - buf_track] = NewSector]
    ELSE buffer

SectorRead ==
  /\ pc = "sector"
  /\ cursor.sector < Total[call.drive]
  /\ disk[call.drive][cursor.sector][0] # Bad

SectorReadFails ==
  /\ pc = "sector"
  /\ Return(FALSE)
  /\ UNCHANGED <<disk, geom, cache, cursor>>

SectorUnchanged ==
  /\ SectorRead
  /\ disk[call.drive][cursor.sector] = NewSector
  /\ Return(TRUE)
  /\ UNCHANGED <<disk, geom, cache, cursor>>

\* On ERR_WRITE the sector may have reached the disk; the buffer is not told.
SectorWrite ==
  /\ SectorRead
  /\ disk[call.drive][cursor.sector] # NewSector
  /\ \E w \in RawdiskWrite([i \in {0} |-> NewSector], call.drive, cursor.sector, 1, 0) :
        /\ disk' = w.disk
        /\ Return(w.ok)
        /\ buffer' = IF w.ok THEN WriteThrough ELSE buffer
  /\ UNCHANGED <<geom, buf_drive, buf_track, buf_geom, cursor>>

-----------------------------------------------------------------------------
(* Between calls *)

\* The command uses the result and goes on.
Resume == /\ pc = "done"
          /\ pc' = "idle"
          /\ call' = NoCall /\ cursor' = AtRest /\ out' = <<>> /\ ok' = FALSE
          /\ UNCHANGED <<disk, geom, cache>>

\* run_line starts a command: "the user may exchange removable disks".
ExchangeDisk(d) ==
  /\ pc = "idle"
  /\ disk' \in {[disk EXCEPT ![d] = i] : i \in Images[d]}
  /\ buf_drive' = None
  /\ UNCHANGED <<geom, buf_track, buf_geom, buffer, pc, request>>

\* map --hook and --unhook change what a drive number stands for.
MapDrive(d) ==
  /\ pc = "idle"
  /\ disk' \in {[disk EXCEPT ![d] = i] : i \in Images[d]}
  /\ geom' \in {[geom EXCEPT ![d] = g] : g \in Geometries[d]}
  /\ buf_drive' = None
  /\ buf_track' = None
  /\ UNCHANGED <<buf_geom, buffer, pc, request>>

\* Mutant: the new geometry is installed beside the old track.
TuneGeometryKeepsTrack(d) ==
  /\ pc = "idle"
  /\ buf_drive # d \/ ChainedTune
  /\ \E g \in Geometries[d] :
        /\ geom' = [geom EXCEPT ![d] = g]
        /\ buf_geom' = g
  /\ buf_drive' = d
  /\ UNCHANGED <<disk, buf_track, buffer, pc, request>>

\* geometry --tune or --bios probes the drive again and installs the answer.
\* The track is invalidated only with the drive, which the command line has
\* cleared unless an earlier command of the same line has selected it.
TuneGeometry(d) ==
  /\ pc = "idle"
  /\ buf_drive # d \/ ChainedTune
  /\ \E g \in Geometries[d] :
        /\ geom' = [geom EXCEPT ![d] = g]
        /\ buf_geom' = g
  /\ buf_drive' = d
  /\ buf_track' = IF buf_drive # d THEN None ELSE buf_track
  /\ UNCHANGED <<disk, buffer, pc, request>>

\* A command about to rewrite sectors forgets the track (gpt, partnew).
ForgetTrack ==
  /\ pc = "idle"
  /\ buf_track' = None
  /\ UNCHANGED <<disk, geom, buf_drive, buf_geom, buffer, pc, request>>

-----------------------------------------------------------------------------
RawreadStep ==
  \/ SectorTooBig \/ Hit \/ LoadRest \/ LoadTrack \/ LoadRequired
  \/ UseRead \/ WontFit \/ SkipWrite \/ UseWrite \/ Finish

RawwriteStep == SectorReadFails \/ SectorUnchanged \/ SectorWrite

CallStep == SelectDrive \/ NoDisk \/ RawreadStep \/ RawwriteStep \/ Resume

Command(d) == ExchangeDisk(d) \/ MapDrive(d) \/ TuneGeometry(d)

Next ==
  \/ \E c \in Calls : Call(c)
  \/ CallStep
  \/ \E d \in Drives : Command(d)
  \/ ForgetTrack

\* The loader runs its own code to the end of each call.
Spec == Init /\ [][Next]_vars /\ WF_vars(CallStep)

-----------------------------------------------------------------------------
(* Properties *)

Cursor == [sector: Nat, byte_offset: 0..(SS - 1), byte_len: 0..MaxLen,
           num_sect: 0..BufSectors]

DriveTypeOK ==
  /\ DOMAIN disk = Drives /\ \A d \in Drives : disk[d] \in Content(d)
  /\ DOMAIN geom = Drives /\ \A d \in Drives : geom[d] \in Geometries[d]
CacheTypeOK ==
  /\ buf_drive \in Drives \cup {None}
  /\ buf_track \in Nat \cup {None}
  /\ buf_geom \in Geometry
  /\ buffer \in [Slots -> BufSector]
CallTypeOK ==
  /\ pc \in {"idle", "select", "load", "use", "sector", "done"}
  /\ call \in Calls \cup {NoCall}
  /\ cursor \in Cursor
  /\ out \in Seq(Bytes \cup {Bad})
  /\ ok \in BOOLEAN

\* Every variable has its type; in particular no read or write of the buffer
\* leaves BUFFERLEN, and byte_len never passes below zero.
TypeOK == DriveTypeOK /\ CacheTypeOK /\ CallTypeOK

\* The byte at distance j from byte `off` of sector s.
DiskByte(d, s, off, j) == disk[d][s + ((off + j) \div SS)][(off + j) % SS]

\* The buffered track is what the disk holds: whatever rawread serves from
\* the buffer (or writes back from it, since a write rewrites the rest of
\* the track) is current.  rawread, rawwrite's "Update the cache" and every
\* command that assigns buf_drive or buf_track share this obligation.
CacheCoherent ==
  buf_drive # None /\ buf_track # None =>
    \A i \in 0..(SectorsPerVtrack - 1) :
      /\ buf_track + i < Total[buf_drive]
      /\ buffer[i] = disk[buf_drive][buf_track + i]

\* "Read bytes from DRIVE to BUF": a rawread that returns 1 has moved exactly
\* the bytes the drive holds, over any number of tracks, hits and retries; in
\* particular it has not gone past the drive's end.
ReadIsCurrent ==
  pc = "done" /\ ok /\ call.op = "read" =>
    /\ Len(out) = call.len
    /\ \A j \in 0..(call.len - 1) :
         /\ call.sector + ((call.offset + j) \div SS) < Total[call.drive]
         /\ out[j + 1] = DiskByte(call.drive, call.sector, call.offset, j)

\* Sector x, byte b of the call's drive lies in the request.
InRequest(x, b) ==
  (x - call.sector) * SS + b - call.offset \in 0..(call.len - 1)

\* No call changes a byte outside its request, although rawread writes whole
\* sectors to the end of the track and may fail half way.
OnlyRequestedBytesChange ==
  [][pc # "idle" =>
       \A d \in Drives : \A s \in Sectors(d), b \in 0..(SS - 1) :
          disk'[d][s][b] # disk[d][s][b] => d = call.drive /\ InRequest(s, b)]_vars

\* Every call returns: each turn of rawread's loop consumes bytes.
CallsReturn == pc = "select" ~> pc = "done"

-----------------------------------------------------------------------------
(* Refinement: the buffer is invisible *)

Store == INSTANCE SectorStore WITH
  store <- disk,
  phase <- CASE pc \in {"idle", "done"} -> pc [] OTHER -> "busy",
  req <- call, reply <- out, success <- ok

\* TrackCache implements the plain sector store of its callers: the buffer,
\* its invalidations and the retries are never observable.
ImplementsStore == Store!StoreSpec

=============================================================================
