---------------------------- MODULE UsbTransfer ----------------------------
(***************************************************************************)
(* Reads and writes of a USB drive by USB2DRI: Read_write_usb and the      *)
(* command, data and status stages of SCSI_Command below it, against a     *)
(* bulk-only storage device that may be slow, fail a command, lose a       *)
(* handshake or miss a control request at any packet.                      *)
(*                                                                         *)
(* A packet carries a command block, a sector or a status; One_transfer is *)
(* counted in sectors.  The device is external: it follows the bulk-only   *)
(* protocol as the driver relies on it.                                    *)
(***************************************************************************)
EXTENDS Naturals

CONSTANTS
  Sectors,        \* the number of sectors of the device
  MaxCount,       \* bound: sectors of one request
  One_transfer,   \* sectors a bulk transfer moves at most
  Requests,       \* bound: the requests made, <<first sector, count>>
  Payloads,       \* bound: what a write may carry
  MaxFaults       \* bound: faults during one call

ASSUME TransferAssumption ==
  /\ Sectors \in Nat \ {0} /\ MaxCount \in Nat \ {0} /\ MaxFaults \in Nat
  /\ One_transfer \in Nat \ {0}
  /\ Requests \subseteq (0..(Sectors - 1)) \X (0..MaxCount)
  /\ Payloads \subseteq [0..(MaxCount - 1) -> {"a", "b"}]

Pipes == {"in", "out"}
Contents == {"a", "b"}
Filler == "?"                  \* what the caller's buffer held before a read
Status == "csw"                \* a status that arrived where a sector was due

NoRequest == [dir |-> "in", lba |-> 0, n |-> 0]
NoTransfer == [pid |-> "in", what |-> "csw", want |-> 0, got |-> 0, tog |-> 0,
               state |-> "none"]

VARIABLES
  pc,       \* where Read_write_usb and SCSI_Command are
  req,      \* the request: direction, first sector, count (_eax, _bx, _cl)
  mem,      \* the caller's buffer, by sector
  tries,    \* Read_write_repeat_Number
  sent,     \* sectors the data stage counts as moved (TOffset, TSize)
  htog,     \* bit 7 of InProperty and OutProperty: the toggle of each pipe
  csw,      \* csw_qq, which no command clears
  xfer,     \* the bulk transfer at work
  result,   \* what the last call returned
  dev,      \* the device
  disk,     \* its sectors
  faults,   \* faults since the call began
  settled,  \* was the device in step with the driver when the call began?
  masked    \* may the IN pipe have been out of step, or a read ended early, in it?

host == <<req, mem, tries, sent, htog, csw, result, settled>>
vars == <<pc, host, xfer, dev, disk, faults, masked>>

--------------------------------------------------------------------------------
\* A bulk transfer of n packets.  Con_mon is not used: Bulk_transfer fills the qTD
\* with the toggle saved for the pipe.
Bulk_transfer(pid, what, n) ==
  [pid |-> pid, what |-> what, want |-> n, got |-> 0, tog |-> htog[pid], state |-> "active"]

\* The bytes of the data stage that one transfer takes: Single_size.
Single_size == IF One_transfer <= req.n - sent THEN One_transfer ELSE req.n - sent

\* A toggle is saved only when the transfer succeeded.
ToggleSaved == [htog EXCEPT ![xfer.pid] = xfer.tog]

Ended(state) == xfer.state = state

\* An int13 read or write.  Its count may be zero and its last sector past the
\* end of the device: only the first one is compared with the capacity.
InCapacity(lba) == lba <= Sectors - 1
Read_write_usb(dir, lba, n, data) ==
  /\ pc = "idle"
  /\ InCapacity(lba)
  /\ req' = [dir |-> dir, lba |-> lba, n |-> n]
  /\ mem' = [i \in 0..(MaxCount - 1) |-> IF dir = "in" THEN Filler ELSE data[i]]
  /\ tries' = 3 /\ result' = "none" /\ faults' = 0
  /\ settled' = (dev.phase = "command" /\ dev.tog = htog /\ dev.halt = {})
  /\ masked' = (dev.tog["in"] # htog["in"])
  /\ pc' = "retry"
  /\ UNCHANGED <<sent, htog, csw, xfer, dev, disk>>

\* Mutant: a retry goes on where the attempt before it stopped.
SendCommandKeepsOffset ==
  /\ pc = "retry"
  /\ sent' = IF tries = 3 THEN 0 ELSE sent
  /\ xfer' = Bulk_transfer("out", "cbw", 1)
  /\ pc' = "command"
  /\ UNCHANGED <<req, mem, tries, htog, csw, result, settled, dev, disk, faults, masked>>

\* Label 5 and the head of SCSI_Command: registers restored, the block sent.
SendCommand ==
  /\ pc = "retry"
  /\ sent' = 0
  /\ xfer' = Bulk_transfer("out", "cbw", 1)
  /\ pc' = "command"
  /\ UNCHANGED <<req, mem, tries, htog, csw, result, settled, dev, disk, faults, masked>>

CommandDone ==
  /\ pc = "command"
  /\ \/ Ended("ok") /\ htog' = ToggleSaved /\ pc' = "data"
     \/ Ended("failed") /\ pc' = "reset" /\ UNCHANGED htog
  /\ xfer' = NoTransfer
  /\ UNCHANGED <<req, mem, tries, sent, csw, result, settled, dev, disk, faults, masked>>

NextChunk ==
  /\ pc = "data" /\ Ended("none") /\ sent < req.n
  /\ xfer' = Bulk_transfer(req.dir, "data", Single_size)
  /\ UNCHANGED <<pc, host, dev, disk, faults, masked>>

\* The offset advances by what was asked for, whatever arrived.
ChunkDone ==
  /\ pc = "data" /\ Ended("ok")
  /\ htog' = ToggleSaved
  /\ sent' = sent + xfer.want
  /\ xfer' = NoTransfer
  /\ UNCHANGED <<pc, req, mem, tries, csw, result, settled, dev, disk, faults, masked>>

\* Everything was moved, or a transfer failed: the status is asked for either way.
AskStatus ==
  /\ pc = "data"
  /\ Ended("failed") \/ (Ended("none") /\ sent = req.n)
  /\ xfer' = Bulk_transfer("in", "csw", 1)
  /\ pc' = "status"
  /\ UNCHANGED <<host, dev, disk, faults, masked>>

\* Mutant: the status byte of csw_qq is not looked at.
AfterStatusUnread == IF csw = "none" THEN "reset" ELSE "return"

\* What the bytes in csw_qq mean: signature and tag are the same for every command.
AfterStatus == CASE csw = "good"   -> "return"
                 [] csw = "failed" -> "again"
                 [] OTHER          -> "reset"

StatusDone ==
  /\ pc \in {"status", "status2"} /\ Ended("ok")
  /\ htog' = ToggleSaved
  /\ xfer' = NoTransfer
  /\ pc' = IF AfterStatus = "return" THEN "idle" ELSE AfterStatus
  /\ result' = IF AfterStatus = "return" THEN "ok" ELSE result
  /\ UNCHANGED <<req, mem, tries, sent, csw, settled, dev, disk, faults, masked>>

\* The first failure of the status stage clears the IN pipe, the second resets.
StatusFails ==
  /\ pc \in {"status", "status2"} /\ Ended("failed")
  /\ pc' = IF pc = "status" THEN "clear" ELSE "reset"
  /\ xfer' = NoTransfer
  /\ UNCHANGED <<host, dev, disk, faults, masked>>

\* The device clears the halt of a pipe and its toggle; one that waits for a
\* reset stays halted.
ClearEndpoint(pipe) ==
  [dev EXCEPT !.halt = IF dev.phase = "invalid" THEN @ ELSE @ \ {pipe},
              !.tog[pipe] = 0]

BulkReset == [dev EXCEPT !.phase = "command", !.left = 0, !.next = 0]

\* A control request reaches the device or, as a fault, does not; nobody looks
\* at its status.
Control_transfer(d) ==
  \/ dev' = d /\ UNCHANGED <<faults, masked>>
  \/ /\ faults < MaxFaults
     /\ faults' = faults + 1 /\ masked' = TRUE
     /\ UNCHANGED dev

ClearIn ==
  /\ pc = "clear"
  /\ Control_transfer(ClearEndpoint("in"))
  /\ htog' = [htog EXCEPT !["in"] = 0]
  /\ xfer' = [NoTransfer EXCEPT !.want = 1, !.state = "active"]
  /\ pc' = "status2"
  /\ UNCHANGED <<req, mem, tries, sent, csw, result, settled, disk>>

\* Mutant: the toggles are not reset with the pipes.
ResetOutKeepsToggles ==
  /\ pc = "resetOut"
  /\ Control_transfer(ClearEndpoint("out"))
  /\ pc' = "again"
  /\ UNCHANGED <<host, xfer, disk>>

\* Reset_Recovery: a bulk-only reset, then both pipes cleared.
ResetDevice ==
  /\ pc = "reset"
  /\ Control_transfer(BulkReset)
  /\ pc' = "resetIn"
  /\ UNCHANGED <<host, xfer, disk>>
ResetIn ==
  /\ pc = "resetIn"
  /\ Control_transfer(ClearEndpoint("in"))
  /\ pc' = "resetOut"
  /\ UNCHANGED <<host, xfer, disk>>
ResetOut ==
  /\ pc = "resetOut"
  /\ Control_transfer(ClearEndpoint("out"))
  /\ htog' = [p \in Pipes |-> 0]
  /\ pc' = "again"
  /\ UNCHANGED <<req, mem, tries, sent, csw, result, settled, xfer, disk>>

\* Mutant: the attempts are never used up.
TryAgainForever ==
  /\ pc = "again"
  /\ tries' = tries
  /\ pc' = "retry"
  /\ UNCHANGED <<req, mem, sent, htog, csw, result, settled, xfer, dev, disk, faults, masked>>
\* A failed command is repeated while tries last.
TryAgain ==
  /\ pc = "again"
  /\ tries' = tries - 1
  /\ pc' = IF tries = 1 THEN "idle" ELSE "retry"
  /\ result' = IF tries = 1 THEN "error" ELSE result
  /\ UNCHANGED <<req, mem, sent, htog, csw, settled, xfer, dev, disk, faults, masked>>

--------------------------------------------------------------------------------
(* The device and the wire: one packet at a time. *)
Active(pid) == xfer.state = "active" /\ xfer.pid = pid

\* A command the device cannot execute ends with a failed status, its data pipe
\* halted; a write may also be drained first.
Refused(d, dir) == [d EXCEPT !.phase = "status", !.status = "failed", !.left = 0, !.next = 0,
                             !.halt = IF req.n = 0 THEN @ ELSE @ \cup {dir}]

Accepted(d) ==
  CASE req.n = 0 -> [d EXCEPT !.phase = "status", !.status = "good", !.left = 0]
    [] req.lba + req.n > Sectors -> Refused(d, req.dir)
    [] OTHER -> [d EXCEPT !.phase = req.dir, !.status = "good",
                          !.next = req.lba, !.left = req.n]

\* The last sector of the data stage leaves the status to be fetched.
Moved(d) == [d EXCEPT !.left = @ - 1,
                      !.next = IF d.left = 1 THEN 0 ELSE @ + 1,
                      !.phase = IF d.left = 1 THEN "status" ELSE @]

Flipped(d, pipe) == [d EXCEPT !.tog[pipe] = 1 - @]

\* What the device does with an OUT packet of the expected toggle: a command where
\* one is due, a sector where one is due; a command in place of a sector ends the
\* data stage, a sector in place of a command is no valid command.
Takes(d) ==
  CASE d.phase = "command" /\ xfer.what = "cbw" -> Accepted(d)
    [] d.phase = "command" /\ xfer.what # "cbw" ->
         [d EXCEPT !.phase = "invalid", !.halt = Pipes]
    [] d.phase = "out" /\ xfer.what = "data" -> Moved(d)
    [] OTHER -> [d EXCEPT !.phase = "status", !.status = "failed", !.left = 0, !.next = 0]

Stored == dev.phase = "out" /\ xfer.what = "data"
StoredAt == [disk EXCEPT ![dev.next] = mem[sent + xfer.got]]

\* Phases in which the device accepts an OUT packet or answers an IN token.
Accepts(pid) == IF pid = "out" THEN dev.phase \in {"command", "out"}
                ELSE dev.phase \in {"in", "status"}

\* One more packet has gone through.
Progress == [xfer EXCEPT !.got = @ + 1, !.tog = 1 - @,
                         !.state = IF xfer.got + 1 = xfer.want THEN "ok" ELSE @]
Fail == [xfer EXCEPT !.state = "failed"]
EndShort == [xfer EXCEPT !.tog = 1 - @, !.state = "ok"]

\* A packet with the wrong toggle is acknowledged and dropped.
PacketOut ==
  /\ Active("out") /\ "out" \notin dev.halt /\ Accepts("out")
  /\ IF xfer.tog = dev.tog["out"]
     THEN /\ dev' = Flipped(Takes(dev), "out")
          /\ disk' = IF Stored THEN StoredAt ELSE disk
     ELSE UNCHANGED <<dev, disk>>
  /\ xfer' = Progress
  /\ UNCHANGED <<pc, host, faults, masked>>

\* A sector, or a status in its place, arrives in the caller's buffer; a sector
\* where 13 bytes of status are due overruns the transfer.
SectorIn ==
  /\ Active("in") /\ "in" \notin dev.halt /\ dev.phase = "in"
  /\ IF xfer.what = "csw"
     THEN xfer' = Fail /\ UNCHANGED <<mem, dev>>
     ELSE /\ dev' = Flipped(Moved(dev), "in")
          /\ IF xfer.tog = dev.tog["in"]
             THEN /\ mem' = [mem EXCEPT ![sent + xfer.got] = disk[dev.next]]
                  /\ xfer' = Progress
             ELSE UNCHANGED <<mem, xfer>>
  /\ UNCHANGED <<pc, req, tries, sent, htog, csw, result, settled, disk, faults, masked>>

StatusIn ==
  /\ Active("in") /\ "in" \notin dev.halt /\ dev.phase = "status"
  /\ dev' = Flipped([dev EXCEPT !.phase = "command"], "in")
  /\ IF xfer.tog # dev.tog["in"] THEN UNCHANGED <<mem, csw, xfer>>
     ELSE /\ xfer' = EndShort
          /\ IF xfer.what = "csw" THEN csw' = dev.status /\ UNCHANGED mem
             ELSE mem' = [mem EXCEPT ![sent + xfer.got] = Status] /\ UNCHANGED csw
  /\ UNCHANGED <<pc, req, tries, sent, htog, result, settled, disk, faults, masked>>

\* The pipe is halted, or the device has no use for the pipe: a stall, or no
\* answer until the driver's 100 ms are over.
Unanswered ==
  /\ xfer.state = "active"
  /\ xfer.pid \in dev.halt \/ ~Accepts(xfer.pid)
  /\ xfer' = Fail
  /\ UNCHANGED <<pc, host, dev, disk, faults, masked>>

Fault == faults < MaxFaults /\ faults' = faults + 1 /\ xfer.state = "active"

\* Fault: the device is too slow, or the packet never arrives intact.
Slow ==
  /\ Fault
  /\ xfer.pid \notin dev.halt /\ Accepts(xfer.pid)
  /\ xfer' = Fail
  /\ UNCHANGED <<pc, host, dev, disk, masked>>

\* Fault: the device took the packet and its handshakes were lost.
LostHandshake ==
  /\ Fault
  /\ Active("out") /\ "out" \notin dev.halt /\ Accepts("out")
  /\ xfer.tog = dev.tog["out"]
  /\ dev' = Flipped(Takes(dev), "out")
  /\ disk' = IF Stored THEN StoredAt ELSE disk
  /\ xfer' = Fail
  /\ UNCHANGED <<pc, host, masked>>

\* Fault: the command fails at this sector; the device halts the data pipe.
MediumError ==
  /\ Fault
  /\ dev.phase = xfer.pid
  /\ dev' = Refused(dev, xfer.pid)
  /\ UNCHANGED <<pc, host, xfer, disk, masked>>

\* Fault: the command fails after its data has been moved.
LateError ==
  /\ Fault
  /\ dev.phase = "status" /\ dev.status = "good"
  /\ dev' = [dev EXCEPT !.status = "failed"]
  /\ UNCHANGED <<pc, host, xfer, disk, masked>>

\* Fault: a read fails and the device ends its data with an empty packet, which
\* completes whatever transfer is waiting for it.
EmptyPacket ==
  /\ Fault
  /\ Active("in") /\ dev.phase = "in" /\ "in" \notin dev.halt
  /\ dev' = Flipped([dev EXCEPT !.phase = "status", !.status = "failed", !.left = 0, !.next = 0], "in")
  /\ xfer' = IF xfer.tog = dev.tog["in"] THEN EndShort ELSE xfer
  /\ masked' = TRUE
  /\ UNCHANGED <<pc, host, disk>>

--------------------------------------------------------------------------------
Init ==
  /\ pc = "idle" /\ req = NoRequest /\ tries = 0 /\ sent = 0 /\ faults = 0
  /\ mem = [i \in 0..(MaxCount - 1) |-> Filler]
  /\ htog = [p \in Pipes |-> 0]
  /\ csw = "none" /\ result = "none" /\ settled = TRUE /\ masked = FALSE
  /\ xfer = NoTransfer
  /\ dev = [phase |-> "command", next |-> 0, left |-> 0, status |-> "good",
            halt |-> {}, tog |-> [p \in Pipes |-> 0]]
  /\ disk = [s \in 0..(Sectors - 1) |-> "a"]

Call == \E dir \in Pipes, r \in Requests, data \in Payloads :
          Read_write_usb(dir, r[1], r[2], data)

Driver == SendCommand \/ CommandDone \/ NextChunk \/ ChunkDone \/ AskStatus \/ StatusDone
          \/ StatusFails \/ ClearIn \/ ResetDevice \/ ResetIn \/ ResetOut \/ TryAgain
Wire == PacketOut \/ SectorIn \/ StatusIn \/ Unanswered
Faults == Slow \/ LostHandshake \/ MediumError \/ LateError \/ EmptyPacket

Next == Call \/ Driver \/ Wire \/ Faults

\* The driver runs, and a transfer that is not answered times out; no call has to
\* come and no fault has to happen.
Spec == Init /\ [][Next]_vars /\ WF_vars(Driver) /\ WF_vars(Wire)

--------------------------------------------------------------------------------
TypeOK ==
  /\ pc \in {"idle", "retry", "command", "data", "status", "clear", "status2", "reset",
             "resetIn", "resetOut", "again"}
  /\ req \in [dir : Pipes, lba : 0..(Sectors - 1), n : 0..MaxCount]
  /\ mem \in [0..(MaxCount - 1) -> Contents \cup {Filler, Status}]
  /\ tries \in 0..3 /\ sent \in 0..MaxCount
  /\ htog \in [Pipes -> {0, 1}]
  /\ csw \in {"none", "good", "failed"} /\ result \in {"none", "ok", "error"}
  /\ xfer \in [pid : Pipes, what : {"cbw", "data", "csw"}, want : 0..MaxCount,
               got : 0..MaxCount, tog : {0, 1}, state : {"none", "active", "ok", "failed"}]
  /\ dev \in [phase : {"command", "in", "out", "status", "invalid"}, next : 0..Sectors,
              left : 0..MaxCount, status : {"good", "failed"}, halt : SUBSET Pipes,
              tog : [Pipes -> {0, 1}]]
  /\ disk \in [0..(Sectors - 1) -> Contents]
  /\ faults \in 0..MaxFaults /\ settled \in BOOLEAN /\ masked \in BOOLEAN

InRange == req.lba + req.n <= Sectors

Real == /\ InRange
        /\ \A i \in 0..(req.n - 1) : mem[i] = disk[req.lba + i]

\* A call that returns success has moved every sector of the request: a read's buffer
\* holds the device's sectors and a write's sectors are on the device, although every
\* command carries the same tag and the status left in csw_qq by the last one is never
\* cleared (SCSI_Command).  A read is excepted when the toggle of the IN pipe was out of
\* step, a clearing request was lost or the device ended the data early.  A third fault
\* in one call is more than it bears: see OnlyRequestedSectors.
SuccessIsReal == (result = "ok" /\ (req.dir = "out" \/ ~masked)) => Real

\* The same without the exception: a successful read has the device's sectors.
ReadsAreReal == result = "ok" => Real

\* A call of Read_write_usb in range fails only if something failed: from a device in
\* step with the driver it takes two faults to use up the three attempts, and out of
\* step (a halted pipe, a toggle the reset did not reach) at least one.
FaultsNeeded ==
  (result = "error" /\ InRange) => faults >= IF settled THEN 2 ELSE 1

\* While at most two things fail in a call, and however often the write is repeated, no
\* sector outside the request changes and a sector inside gets nothing but its own new
\* content.  (Three can leave the device in its data phase with the OUT toggle one
\* ahead: the next command is dropped as a repeated packet, its data is stored.)
OnlyRequestedSectors ==
  [][\A s \in DOMAIN disk : disk'[s] # disk[s] =>
       /\ req.dir = "out" /\ s \in req.lba..(req.lba + req.n - 1)
       /\ disk'[s] = mem[s - req.lba]]_vars

\* Every call returns.
CallsReturn == pc # "idle" ~> pc = "idle"
=============================================================================
