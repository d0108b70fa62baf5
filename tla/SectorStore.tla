----------------------------- MODULE SectorStore -----------------------------
(***************************************************************************)
(* What disk_io.c promises the rest of the loader: drives of sectors, read *)
(* and written by byte ranges.  No buffer, tracks or geometry: a read      *)
(* returns the bytes the drive holds, a write stores its bytes, and a call *)
(* that fails may have stored some of its own bytes but touches no others. *)
(***************************************************************************)
EXTENDS Integers, Sequences

CONSTANTS Drives, Total, SS, Bytes, Images

VARIABLES store,   \* store[d][s][b]
          phase,   \* "idle", "busy" or "done"
          req,     \* the request in progress
          reply,   \* bytes a read has returned
          success  \* the value returned

svars == <<store, phase, req, reply, success>>

Offsets == 0..(SS - 1)
SectorsOf(d) == 0..(Total[d] - 1)

\* Position of byte b of sector s in the request, counted from 0.
Position(s, b) == (s - req.sector) * SS + b - req.offset

Wanted(s, b) == Position(s, b) \in 0..(req.len - 1)

\* The drive holds the given bytes, from the start of the request on.
Holds(bytes) ==
  \A j \in 1..Len(bytes) :
    LET p == req.offset + j - 1
        s == req.sector + (p \div SS)
    IN  s < Total[req.drive] /\ store[req.drive][s][p % SS] = bytes[j]

StoreInit ==
  /\ \A d \in Drives : store[d] \in Images[d]
  /\ phase = "idle"
  /\ reply = <<>>
  /\ success = FALSE

\* A command asks; `req` takes the value of its request.
Ask == /\ phase = "idle"
       /\ phase' = "busy"
       /\ reply' = <<>>
       /\ success' = FALSE
       /\ UNCHANGED store

\* Some of the bytes of a write reach the drive.
Store ==
  /\ phase = "busy"
  /\ req.op # "read"
  /\ store' # store
  /\ DOMAIN store' = DOMAIN store
  /\ \A d \in Drives : \A s \in SectorsOf(d), b \in Offsets :
       \/ store'[d][s][b] = store[d][s][b]
       \/ /\ d = req.drive /\ Wanted(s, b)
          /\ store'[d][s][b] = req.data[Position(s, b) + 1]
  /\ phase' \in {"busy", "done"}
  /\ success' = FALSE
  /\ UNCHANGED <<req, reply>>

\* The last bytes of a write reach the drive, and the call returns 1.
StoreAndSucceed ==
  /\ phase = "busy"
  /\ req.op # "read"
  /\ \A d \in Drives : \A s \in SectorsOf(d), b \in Offsets :
       store'[d][s][b] = IF d = req.drive /\ Wanted(s, b)
                           THEN req.data[Position(s, b) + 1]
                           ELSE store[d][s][b]
  /\ req.sector + ((req.offset + req.len - 1) \div SS) < Total[req.drive]
  /\ phase' = "done"
  /\ success' = TRUE
  /\ UNCHANGED <<req, reply>>

\* A read makes progress; the bytes it has moved so far are the drive's.
Move ==
  /\ phase = "busy"
  /\ req.op = "read"
  /\ Len(reply') \in Len(reply)..req.len
  /\ Holds(reply')
  /\ UNCHANGED <<store, phase, req, success>>

Succeed ==
  /\ phase = "busy"
  /\ req.op = "read" => Len(reply) = req.len /\ Holds(reply)
  /\ req.op # "read" => Holds(req.data)
  /\ phase' = "done"
  /\ success' = TRUE
  /\ UNCHANGED <<store, req, reply>>

Fail ==
  /\ phase = "busy"
  /\ phase' = "done"
  /\ success' = FALSE
  /\ UNCHANGED <<store, req, reply>>

Take == /\ phase = "done"
        /\ phase' = "idle"
        /\ UNCHANGED store

\* Between calls a drive number may come to stand for another disk.
Replace(d) ==
  /\ phase = "idle"
  /\ store' \in {[store EXCEPT ![d] = i] : i \in Images[d]}
  /\ UNCHANGED <<phase, req, reply, success>>

StoreNext ==
  \/ Ask \/ Store \/ StoreAndSucceed \/ Move \/ Succeed \/ Fail \/ Take
  \/ \E d \in Drives : Replace(d)

StoreSpec == StoreInit /\ [][StoreNext]_svars
=============================================================================
