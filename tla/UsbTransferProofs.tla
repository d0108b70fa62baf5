------------------------- MODULE UsbTransferProofs -------------------------
(***************************************************************************)
(* What the calls of Read_write_usb keep for every device, every request   *)
(* and every number of faults: the driver and the device stay well formed, *)
(* and a call in range fails only after the faults FaultsNeeded counts.    *)
(***************************************************************************)
EXTENDS UsbTransfer, TLAPS

XferType == [pid : Pipes, what : {"cbw", "data", "csw"}, want : 0..MaxCount,
             got : 0..MaxCount, tog : {0, 1}, state : {"none", "active", "ok", "failed"}]
DevType == [phase : {"command", "in", "out", "status", "invalid"}, next : 0..Sectors,
            left : 0..MaxCount, status : {"good", "failed"}, halt : SUBSET Pipes,
            tog : [Pipes -> {0, 1}]]

\* The transfer at work is the one its stage calls for.
XferOK ==
  /\ pc \notin {"command", "data", "status", "status2"} => xfer = NoTransfer
  /\ pc = "command" => xfer.pid = "out" /\ xfer.what = "cbw" /\ xfer.want = 1 /\ xfer.state # "none"
  /\ pc = "data" => \/ xfer = NoTransfer
                    \/ /\ xfer.pid = req.dir /\ xfer.what = "data" /\ xfer.state # "none"
                       /\ xfer.want >= 1 /\ sent + xfer.want <= req.n
  /\ pc \in {"status", "status2"} =>
       xfer.pid = "in" /\ xfer.what = "csw" /\ xfer.want = 1 /\ xfer.state # "none"
  /\ xfer.state = "active" => xfer.got < xfer.want
  /\ xfer.state = "ok" /\ xfer.pid = "out" => xfer.got = xfer.want
  /\ pc = "command" => sent = 0
  /\ pc = "data" => sent <= req.n

\* A device that is moving sectors has some left, and has not failed.
DevOK ==
  dev.phase \in {"in", "out"} =>
    dev.left >= 1 /\ dev.next + dev.left <= Sectors /\ dev.status = "good"

\* What a write carries is not disturbed.
CarriedOK == req.dir = "out" => mem \in [0..(MaxCount - 1) -> Contents]

\* A call at work has an attempt left and has returned nothing yet.
CallOK == pc # "idle" => tries >= 1 /\ result = "none"

WellFormed == TypeOK /\ XferOK /\ DevOK /\ CarriedOK

-----------------------------------------------------------------------------
(* Attempts *)

InStep == dev.phase = "command" /\ dev.tog = htog /\ dev.halt = {}

\* An attempt that began with the device out of step, and in which nothing has
\* failed: if it fails it leaves the device in step.
Off ==
  /\ pc = "command" /\ xfer.state = "ok" /\ dev.phase = "status" /\ dev.status = "failed" =>
       "out" \notin dev.halt /\ dev.tog["out"] = xfer.tog
  /\ pc \in {"data", "status", "status2", "clear"} /\ dev.phase = "status" /\ dev.status = "failed" =>
       /\ "out" \notin dev.halt /\ dev.tog["out"] = htog["out"]
       /\ ~(xfer.pid = "out" /\ xfer.state = "ok")
  /\ pc \in {"status", "status2"} /\ xfer.state = "ok" /\ csw = "failed" =>
       /\ dev.phase = "command" /\ dev.halt = {}
       /\ dev.tog["out"] = htog["out"] /\ dev.tog["in"] = xfer.tog
  /\ pc \in {"resetIn", "resetOut"} => dev.phase = "command"
  /\ pc = "resetOut" => dev.halt \subseteq {"out"} /\ dev.tog["in"] = 0
  /\ pc = "again" => InStep

\* An attempt that began with the device in step, and in which nothing has
\* failed: it cannot fail.
Tog(p) == IF xfer.state # "none" /\ xfer.pid = p THEN xfer.tog ELSE htog[p]
Fine ==
  /\ pc \in {"retry", "command", "data", "status"}
  /\ dev.halt = {}
  /\ \A p \in Pipes : dev.tog[p] = Tog(p)
  /\ pc = "retry" => dev.phase = "command"
  /\ xfer.state # "failed"
  /\ pc = "command" /\ xfer.state = "active" => dev.phase = "command"
  /\ (pc = "command" /\ xfer.state = "ok") \/ pc = "data" =>
       LET moved == IF pc = "command" THEN 0 ELSE sent + xfer.got
       IN /\ dev.status = "good"
          /\ IF moved = req.n THEN dev.phase = "status"
             ELSE dev.phase = req.dir /\ dev.left = req.n - moved
  /\ pc = "data" /\ xfer.state = "ok" => xfer.got = xfer.want
  /\ pc = "status" /\ xfer.state = "active" => dev.phase = "status" /\ dev.status = "good"
  /\ pc = "status" /\ xfer.state = "ok" => csw = "good"

\* The attempts a call has left are worth the faults it has not had.
Budget ==
  (InRange /\ pc # "idle") =>
    \/ faults >= IF settled THEN 2 ELSE 1
    \/ settled /\ faults = 1 /\ (tries = 3 \/ (tries = 2 /\ Off) \/ Fine)
    \/ settled /\ faults = 0 /\ tries = 3 /\ Fine
    \/ ~settled /\ faults = 0 /\ ((tries = 3 /\ Off) \/ Fine)

IInv == WellFormed /\ CallOK /\ FaultsNeeded /\ Budget

-----------------------------------------------------------------------------
(* The operators on transfers and on the device *)

LEMMA Constants ==
  /\ Sectors \in Nat /\ Sectors >= 1 /\ MaxCount \in Nat /\ MaxCount >= 1 /\ MaxFaults \in Nat
  /\ One_transfer \in Nat /\ One_transfer >= 1
  /\ \A r \in Requests : r[1] \in 0..(Sectors - 1) /\ r[2] \in 0..MaxCount
  /\ \A d \in Payloads : d \in [0..(MaxCount - 1) -> Contents]
BY TransferAssumption DEF Contents

LEMMA Parts ==
  ASSUME WellFormed
  PROVE  /\ xfer \in XferType /\ dev \in DevType
         /\ htog \in [Pipes -> {0, 1}] /\ sent \in 0..MaxCount
         /\ req \in [dir : Pipes, lba : 0..(Sectors - 1), n : 0..MaxCount]
BY DEF WellFormed, TypeOK, XferType, DevType

LEMMA FlippedFacts ==
  ASSUME NEW d \in DevType, NEW p \in Pipes
  PROVE  LET f == Flipped(d, p)
         IN /\ f \in DevType
            /\ f.phase = d.phase /\ f.next = d.next /\ f.left = d.left
            /\ f.status = d.status /\ f.halt = d.halt
            /\ f.tog[p] = 1 - d.tog[p] /\ \A q \in Pipes \ {p} : f.tog[q] = d.tog[q]
<1>1. d.tog \in [Pipes -> {0, 1}]
  BY DEF DevType
<1> DEFINE g == [d.tog EXCEPT ![p] = 1 - d.tog[p]]
<1>2. g \in [Pipes -> {0, 1}] /\ g[p] = 1 - d.tog[p] /\ \A q \in Pipes \ {p} : g[q] = d.tog[q]
  BY <1>1
<1>3. Flipped(d, p) = [d EXCEPT !.tog = g]
  BY DEF Flipped
<1> HIDE DEF g
<1>4. QED
  BY <1>2, <1>3 DEF DevType

LEMMA ClearedFacts ==
  ASSUME NEW p \in Pipes, dev \in DevType
  PROVE  LET c == ClearEndpoint(p)
         IN /\ c \in DevType
            /\ c.phase = dev.phase /\ c.next = dev.next /\ c.left = dev.left /\ c.status = dev.status
            /\ c.halt \subseteq dev.halt /\ (dev.phase # "invalid" => c.halt = dev.halt \ {p})
            /\ c.tog[p] = 0 /\ \A q \in Pipes \ {p} : c.tog[q] = dev.tog[q]
<1>1. dev.tog \in [Pipes -> {0, 1}] /\ dev.halt \subseteq Pipes
  BY DEF DevType
<1> DEFINE g == [dev.tog EXCEPT ![p] = 0]
           h == IF dev.phase = "invalid" THEN dev.halt ELSE dev.halt \ {p}
<1>2. g \in [Pipes -> {0, 1}] /\ g[p] = 0 /\ \A q \in Pipes \ {p} : g[q] = dev.tog[q]
  BY <1>1
<1>3. h \subseteq Pipes /\ h \subseteq dev.halt /\ (dev.phase # "invalid" => h = dev.halt \ {p})
  BY <1>1
<1>4. ClearEndpoint(p) = [dev EXCEPT !.halt = h, !.tog = g]
  BY DEF ClearEndpoint
<1> HIDE DEF g, h
<1>5. QED
  BY <1>2, <1>3, <1>4 DEF DevType

LEMMA MovedFacts ==
  ASSUME NEW d \in DevType, d.left >= 1, d.next + d.left <= Sectors
  PROVE  LET m == Moved(d)
         IN /\ m \in DevType
            /\ m.left = d.left - 1 /\ m.status = d.status /\ m.halt = d.halt /\ m.tog = d.tog
            /\ IF d.left = 1 THEN m.phase = "status" /\ m.next = 0
               ELSE m.phase = d.phase /\ m.next = d.next + 1
<1> DEFINE l == d.left - 1
           n == IF d.left = 1 THEN 0 ELSE d.next + 1
           ph == IF d.left = 1 THEN "status" ELSE d.phase
<1>1. /\ d.left \in 0..MaxCount /\ d.next \in 0..Sectors
      /\ d.phase \in {"command", "in", "out", "status", "invalid"}
  BY DEF DevType
<1>2. /\ l \in 0..MaxCount /\ n \in 0..Sectors
      /\ ph \in {"command", "in", "out", "status", "invalid"}
  BY <1>1, Constants
<1>3. Moved(d) = [d EXCEPT !.left = l, !.next = n, !.phase = ph]
  BY DEF Moved
<1>4. /\ l = d.left - 1
      /\ IF d.left = 1 THEN ph = "status" /\ n = 0 ELSE ph = d.phase /\ n = d.next + 1
  OBVIOUS
<1> HIDE DEF l, n, ph
<1> DEFINE m == [d EXCEPT !.left = l, !.next = n, !.phase = ph]
<1>5. m \in DevType /\ m.left = l /\ m.status = d.status /\ m.halt = d.halt /\ m.tog = d.tog
      /\ m.phase = ph /\ m.next = n
  BY <1>2 DEF DevType
<1> HIDE DEF m
<1>6. Moved(d) = m
  BY <1>3 DEF m
<1>7. QED
  BY <1>4, <1>5, <1>6

\* The data stage ends: a command refused, or one that failed.
LEMMA EndedFacts ==
  ASSUME NEW d \in DevType
  PROVE  LET r == [d EXCEPT !.phase = "status", !.status = "failed", !.left = 0, !.next = 0]
         IN /\ r \in DevType /\ r.phase = "status" /\ r.status = "failed"
            /\ r.halt = d.halt /\ r.tog = d.tog
<1>1. 0 \in 0..Sectors /\ 0 \in 0..MaxCount
  BY Constants
<1>2. QED
  BY <1>1 DEF DevType

LEMMA RefusedFacts ==
  ASSUME NEW d \in DevType, NEW p \in Pipes
  PROVE  LET r == Refused(d, p)
         IN r \in DevType /\ r.phase = "status" /\ r.tog = d.tog
<1> DEFINE e == [d EXCEPT !.phase = "status", !.status = "failed", !.left = 0, !.next = 0]
           h == IF req.n = 0 THEN d.halt ELSE d.halt \cup {p}
<1>1. e \in DevType /\ e.phase = "status" /\ e.tog = d.tog
  BY EndedFacts
<1>2. h \in SUBSET Pipes
  BY DEF DevType
<1>3. Refused(d, p) = [e EXCEPT !.halt = h]
  BY DEF Refused
<1> HIDE DEF e, h
<1>4. QED
  BY <1>1, <1>2, <1>3 DEF DevType

LEMMA AcceptedFacts ==
  ASSUME WellFormed, NEW d \in DevType
  PROVE  LET a == Accepted(d)
         IN /\ a \in DevType /\ a.tog = d.tog
            /\ a.phase \in {"in", "out"} =>
                 a.left >= 1 /\ a.next + a.left <= Sectors /\ a.status = "good"
            /\ InRange => /\ a.halt = d.halt /\ a.status = "good"
                          /\ IF req.n = 0 THEN a.phase = "status"
                             ELSE a.phase = req.dir /\ a.left = req.n
<1>1. req.dir \in Pipes /\ req.lba \in 0..(Sectors - 1) /\ req.n \in 0..MaxCount
  BY Parts
<1>2. CASE req.n = 0
  <2> DEFINE a == [d EXCEPT !.phase = "status", !.status = "good", !.left = 0]
  <2>0. ~(req.lba + req.n > Sectors)
    BY <1>1, <1>2, Constants
  <2>1. Accepted(d) = a
    BY <1>2, <2>0 DEF Accepted
  <2>2. 0 \in 0..MaxCount
    BY Constants
  <2>3. a \in DevType /\ a.phase = "status" /\ a.status = "good" /\ a.tog = d.tog /\ a.halt = d.halt
    BY <2>2 DEF DevType
  <2> HIDE DEF a
  <2>4. QED
    BY <1>2, <2>1, <2>3
<1>3. CASE req.n # 0 /\ req.lba + req.n > Sectors
  BY <1>1, <1>3, Constants, RefusedFacts DEF Accepted, InRange, Pipes
<1>4. CASE req.n # 0 /\ ~(req.lba + req.n > Sectors)
  <2> DEFINE a == [d EXCEPT !.phase = req.dir, !.status = "good", !.next = req.lba, !.left = req.n]
  <2>1. Accepted(d) = a
    BY <1>4 DEF Accepted
  <2>0. /\ req.dir \in {"command", "in", "out", "status", "invalid"}
        /\ req.lba \in 0..Sectors /\ req.n \in 0..MaxCount
    BY <1>1, Constants DEF Pipes
  <2>2. a \in DevType /\ a.phase = req.dir /\ a.status = "good" /\ a.next = req.lba
        /\ a.left = req.n /\ a.tog = d.tog /\ a.halt = d.halt
    BY <2>0 DEF DevType
  <2> HIDE DEF a
  <2>3. QED
    BY <1>1, <1>4, <2>1, <2>2, Constants
<1>5. QED
  BY <1>2, <1>3, <1>4

\* What an OUT packet of the expected toggle does to the device.
LEMMA TakesFacts ==
  ASSUME WellFormed, dev.phase \in {"command", "out"}, xfer.pid = "out", xfer.state = "active"
  PROVE  LET t == Takes(dev)
         IN /\ t \in DevType /\ t.tog = dev.tog
            /\ t.phase \in {"in", "out"} =>
                 t.left >= 1 /\ t.next + t.left <= Sectors /\ t.status = "good"
            /\ dev.phase = "command" /\ pc = "command" /\ InRange =>
                 /\ t.halt = dev.halt /\ t.status = "good"
                 /\ IF req.n = 0 THEN t.phase = "status"
                    ELSE t.phase = req.dir /\ t.left = req.n
            /\ dev.phase = "out" /\ pc = "command" => t.halt = dev.halt
            /\ dev.phase = "command" /\ pc = "data" => t.phase = "invalid"
            /\ dev.phase = "out" /\ pc = "data" =>
                 /\ t.halt = dev.halt /\ t.status = "good" /\ t.left = dev.left - 1
                 /\ t.phase = IF dev.left = 1 THEN "status" ELSE "out"
<1>1. dev \in DevType /\ pc \in {"command", "data"}
      /\ (pc = "command" => xfer.what = "cbw") /\ (pc = "data" => xfer.what = "data")
  BY Parts DEF WellFormed, XferOK, TypeOK, NoTransfer
<1>2. CASE dev.phase = "command" /\ pc = "command"
  <2>1. Takes(dev) = Accepted(dev)
    BY <1>1, <1>2 DEF Takes
  <2>2. QED
    BY <1>1, <1>2, <2>1, AcceptedFacts
<1>3. CASE dev.phase = "command" /\ pc = "data"
  <2> DEFINE t == [dev EXCEPT !.phase = "invalid", !.halt = Pipes]
  <2>1. Takes(dev) = t
    BY <1>1, <1>3 DEF Takes
  <2>2. t \in DevType /\ t.tog = dev.tog /\ t.phase = "invalid"
    BY <1>1 DEF DevType
  <2> HIDE DEF t
  <2>3. QED
    BY <1>3, <2>1, <2>2
<1>4. CASE dev.phase = "out" /\ pc = "command"
  <2> DEFINE t == [dev EXCEPT !.phase = "status", !.status = "failed", !.left = 0, !.next = 0]
  <2>1. Takes(dev) = t
    BY <1>1, <1>4 DEF Takes
  <2>2. t \in DevType /\ t.tog = dev.tog /\ t.phase = "status" /\ t.halt = dev.halt
    BY <1>1, EndedFacts
  <2> HIDE DEF t
  <2>3. QED
    BY <1>4, <2>1, <2>2
<1>5. CASE dev.phase = "out" /\ pc = "data"
  <2>1. Takes(dev) = Moved(dev)
    BY <1>1, <1>5 DEF Takes
  <2>2. dev.left >= 1 /\ dev.next + dev.left <= Sectors /\ dev.status = "good"
        /\ dev.left \in 0..MaxCount /\ dev.next \in 0..Sectors
    BY <1>1, <1>5 DEF WellFormed, DevOK, DevType
  <2>3. QED
    BY <1>1, <1>5, <2>1, <2>2, Constants, MovedFacts
<1>6. QED
  BY <1>1, <1>2, <1>3, <1>4, <1>5

\* One more packet of the transfer, and its end.
LEMMA ProgressFacts ==
  ASSUME WellFormed, xfer.state = "active"
  PROVE  /\ Progress \in XferType /\ Progress.pid = xfer.pid /\ Progress.what = xfer.what
         /\ Progress.want = xfer.want /\ Progress.got = xfer.got + 1 /\ Progress.tog = 1 - xfer.tog
         /\ Progress.state = IF xfer.got + 1 = xfer.want THEN "ok" ELSE "active"
<1>1. xfer \in XferType /\ xfer.got < xfer.want
  BY Parts DEF WellFormed, XferOK
<1> DEFINE g == xfer.got + 1
           o == 1 - xfer.tog
           s == IF xfer.got + 1 = xfer.want THEN "ok" ELSE xfer.state
<1>2. g \in 0..MaxCount /\ o \in {0, 1} /\ s \in {"none", "active", "ok", "failed"}
  BY <1>1, Constants DEF XferType
<1>3. Progress = [xfer EXCEPT !.got = g, !.tog = o, !.state = s]
  BY DEF Progress
<1>4. g = xfer.got + 1 /\ o = 1 - xfer.tog /\ s = IF xfer.got + 1 = xfer.want THEN "ok" ELSE "active"
  OBVIOUS
<1> HIDE DEF g, o, s
<1> DEFINE x == [xfer EXCEPT !.got = g, !.tog = o, !.state = s]
<1>5. x \in XferType /\ x.pid = xfer.pid /\ x.what = xfer.what /\ x.want = xfer.want
      /\ x.got = g /\ x.tog = o /\ x.state = s
  BY <1>1, <1>2 DEF XferType
<1> HIDE DEF x
<1>6. Progress = x
  BY <1>3 DEF x
<1>7. QED
  BY <1>4, <1>5, <1>6

LEMMA EndFacts ==
  ASSUME WellFormed
  PROVE  /\ Fail \in XferType /\ Fail.pid = xfer.pid /\ Fail.what = xfer.what
         /\ Fail.want = xfer.want /\ Fail.state = "failed"
         /\ EndShort \in XferType /\ EndShort.pid = xfer.pid /\ EndShort.what = xfer.what
         /\ EndShort.want = xfer.want /\ EndShort.tog = 1 - xfer.tog /\ EndShort.state = "ok"
<1>1. xfer \in XferType
  BY Parts
<1>2. /\ Fail \in XferType /\ Fail.pid = xfer.pid /\ Fail.what = xfer.what
      /\ Fail.want = xfer.want /\ Fail.state = "failed"
  BY <1>1 DEF Fail, XferType
<1> DEFINE o == 1 - xfer.tog
           x == [xfer EXCEPT !.tog = o, !.state = "ok"]
<1>3. o \in {0, 1} /\ o = 1 - xfer.tog
  BY <1>1 DEF XferType
<1>4. EndShort = x
  BY DEF EndShort
<1> HIDE DEF o
<1>5. /\ x \in XferType /\ x.pid = xfer.pid /\ x.what = xfer.what /\ x.want = xfer.want
      /\ x.tog = o /\ x.state = "ok"
  BY <1>1, <1>3 DEF XferType
<1> HIDE DEF x
<1>6. QED
  BY <1>2, <1>3, <1>4, <1>5

LEMMA NoTransferFacts == NoTransfer \in XferType /\ NoTransfer.state = "none" /\ NoTransfer.got = 0
BY Constants DEF NoTransfer, XferType, Pipes

LEMMA BulkTransferFacts ==
  ASSUME WellFormed, NEW p \in Pipes, NEW w \in {"cbw", "data", "csw"}, NEW n \in 0..MaxCount
  PROVE  LET b == Bulk_transfer(p, w, n)
         IN /\ b \in XferType /\ b.pid = p /\ b.what = w /\ b.want = n /\ b.got = 0
            /\ b.tog = htog[p] /\ b.state = "active"
<1>1. htog[p] \in {0, 1} /\ 0 \in 0..MaxCount
  BY Constants, Parts
<1>2. QED
  BY <1>1 DEF Bulk_transfer, XferType

LEMMA SavedFacts ==
  ASSUME WellFormed
  PROVE  /\ ToggleSaved \in [Pipes -> {0, 1}] /\ ToggleSaved[xfer.pid] = xfer.tog
         /\ \A p \in Pipes : p # xfer.pid => ToggleSaved[p] = htog[p]
BY Parts DEF ToggleSaved, XferType

-----------------------------------------------------------------------------
(* Types and stages *)

\* The rest of what TypeOK says, by variable.
LEMMA Types ==
  ASSUME WellFormed
  PROVE  /\ pc \in {"idle", "retry", "command", "data", "status", "clear", "status2", "reset",
                    "resetIn", "resetOut", "again"}
         /\ req.dir \in Pipes /\ req.lba \in 0..(Sectors - 1) /\ req.n \in 0..MaxCount
         /\ mem \in [0..(MaxCount - 1) -> Contents \cup {Filler, Status}]
         /\ tries \in 0..3 /\ csw \in {"none", "good", "failed"}
         /\ result \in {"none", "ok", "error"}
         /\ disk \in [0..(Sectors - 1) -> Contents]
         /\ faults \in 0..MaxFaults /\ settled \in BOOLEAN /\ masked \in BOOLEAN
         /\ xfer.pid \in Pipes /\ xfer.want \in 0..MaxCount /\ xfer.got \in 0..MaxCount
         /\ xfer.tog \in {0, 1} /\ xfer.state \in {"none", "active", "ok", "failed"}
BY DEF WellFormed, TypeOK

LEMMA SendCommandWell == ASSUME WellFormed, SendCommand PROVE WellFormed'
<1>1. /\ xfer' \in XferType /\ xfer'.pid = "out" /\ xfer'.what = "cbw" /\ xfer'.want = 1
      /\ xfer'.got = 0 /\ xfer'.state = "active"
  <2>1. 1 \in 0..MaxCount /\ "out" \in Pipes
    BY Constants DEF Pipes
  <2>2. QED
    BY <2>1, BulkTransferFacts DEF SendCommand
<1>2. pc' = "command" /\ sent' = 0
  BY DEF SendCommand
<1>3. TypeOK'
  BY <1>1, <1>2, Constants DEF SendCommand, WellFormed, TypeOK, XferType
<1>4. XferOK'
  BY <1>1, <1>2 DEF XferOK
<1>5. DevOK' /\ CarriedOK'
  BY DEF SendCommand, WellFormed, DevOK, CarriedOK
<1>6. QED
  BY <1>3, <1>4, <1>5 DEF WellFormed

LEMMA CommandDoneWell == ASSUME WellFormed, CommandDone PROVE WellFormed'
<1>1. xfer' = NoTransfer /\ pc' \in {"data", "reset"} /\ sent' = sent /\ sent = 0
      /\ htog' \in [Pipes -> {0, 1}]
  BY SavedFacts, Parts DEF CommandDone, Ended, WellFormed, XferOK
<1>2. xfer' \in XferType
  BY <1>1, NoTransferFacts
<1>3. TypeOK'
  BY <1>1, <1>2 DEF CommandDone, WellFormed, TypeOK, XferType
<1>4. XferOK'
  BY <1>1, NoTransferFacts, Types DEF CommandDone, XferOK
<1>5. DevOK' /\ CarriedOK'
  BY DEF CommandDone, WellFormed, DevOK, CarriedOK
<1>6. QED
  BY <1>3, <1>4, <1>5 DEF WellFormed

LEMMA NextChunkWell == ASSUME WellFormed, NextChunk PROVE WellFormed'
<1>1. sent \in Nat /\ sent < req.n /\ req.n \in 0..MaxCount /\ req.dir \in Pipes
  BY Parts, Types DEF NextChunk
<1>2. Single_size \in 1..MaxCount /\ sent + Single_size <= req.n
  BY <1>1, Constants DEF Single_size
<1>3. /\ xfer' \in XferType /\ xfer'.pid = req.dir /\ xfer'.what = "data"
      /\ xfer'.want = Single_size /\ xfer'.got = 0 /\ xfer'.state = "active"
  <2>1. Single_size \in 0..MaxCount
    BY <1>2, Constants
  <2>2. QED
    BY <1>1, <2>1, BulkTransferFacts DEF NextChunk
<1>4. pc = "data" /\ pc' = "data" /\ sent' = sent /\ req' = req
  BY DEF NextChunk, host
<1>5. TypeOK'
  BY <1>3 DEF NextChunk, host, WellFormed, TypeOK, XferType
<1>6. XferOK'
  BY <1>1, <1>2, <1>3, <1>4, Constants DEF XferOK
<1>7. DevOK' /\ CarriedOK'
  BY DEF NextChunk, host, WellFormed, DevOK, CarriedOK
<1>8. QED
  BY <1>5, <1>6, <1>7 DEF WellFormed

LEMMA ChunkDoneWell == ASSUME WellFormed, ChunkDone PROVE WellFormed'
<1>1. pc = "data" /\ pc' = "data" /\ xfer' = NoTransfer /\ sent' = sent + xfer.want /\ req' = req
      /\ xfer.state = "ok"
  BY DEF ChunkDone, Ended
<1>2. sent + xfer.want <= req.n /\ sent \in 0..MaxCount /\ xfer.want \in 0..MaxCount /\ req.n \in 0..MaxCount
  BY <1>1, Parts, Types DEF WellFormed, XferOK, NoTransfer
<1>3. xfer' \in XferType /\ sent' \in 0..MaxCount /\ htog' \in [Pipes -> {0, 1}] /\ sent' <= req.n
  BY <1>1, <1>2, NoTransferFacts, SavedFacts, Constants DEF ChunkDone
<1>4. TypeOK'
  BY <1>3 DEF ChunkDone, WellFormed, TypeOK, XferType
<1>5. XferOK'
  BY <1>1, <1>3, NoTransferFacts DEF XferOK
<1>6. DevOK' /\ CarriedOK'
  BY DEF ChunkDone, WellFormed, DevOK, CarriedOK
<1>7. QED
  BY <1>4, <1>5, <1>6 DEF WellFormed

LEMMA AskStatusWell == ASSUME WellFormed, AskStatus PROVE WellFormed'
<1>1. /\ xfer' \in XferType /\ xfer'.pid = "in" /\ xfer'.what = "csw" /\ xfer'.want = 1
      /\ xfer'.got = 0 /\ xfer'.state = "active"
  <2>1. 1 \in 0..MaxCount /\ "in" \in Pipes
    BY Constants DEF Pipes
  <2>2. QED
    BY <2>1, BulkTransferFacts DEF AskStatus
<1>2. pc' = "status"
  BY DEF AskStatus
<1>3. TypeOK'
  BY <1>1, <1>2 DEF AskStatus, host, WellFormed, TypeOK, XferType
<1>4. XferOK'
  BY <1>1, <1>2 DEF XferOK
<1>5. DevOK' /\ CarriedOK'
  BY DEF AskStatus, host, WellFormed, DevOK, CarriedOK
<1>6. QED
  BY <1>3, <1>4, <1>5 DEF WellFormed

LEMMA StatusDoneWell == ASSUME WellFormed, StatusDone PROVE WellFormed'
<1>1. AfterStatus \in {"return", "again", "reset"}
  BY DEF AfterStatus
<1>2. xfer' = NoTransfer /\ pc' \in {"idle", "again", "reset"} /\ htog' \in [Pipes -> {0, 1}]
      /\ result' \in {"none", "ok", "error"}
  BY <1>1, SavedFacts, Types DEF StatusDone
<1>3. xfer' \in XferType
  BY <1>2, NoTransferFacts
<1>4. TypeOK'
  BY <1>2, <1>3 DEF StatusDone, WellFormed, TypeOK, XferType
<1>5. XferOK'
  BY <1>2, NoTransferFacts DEF XferOK
<1>6. DevOK' /\ CarriedOK'
  BY DEF StatusDone, WellFormed, DevOK, CarriedOK
<1>7. QED
  BY <1>4, <1>5, <1>6 DEF WellFormed

LEMMA StatusFailsWell == ASSUME WellFormed, StatusFails PROVE WellFormed'
<1>1. xfer' = NoTransfer /\ pc' \in {"clear", "reset"} /\ xfer' \in XferType
  BY NoTransferFacts DEF StatusFails
<1>2. TypeOK'
  BY <1>1 DEF StatusFails, host, WellFormed, TypeOK, XferType
<1>3. XferOK'
  BY <1>1, NoTransferFacts DEF XferOK
<1>4. DevOK' /\ CarriedOK'
  BY DEF StatusFails, host, WellFormed, DevOK, CarriedOK
<1>5. QED
  BY <1>2, <1>3, <1>4 DEF WellFormed


LEMMA TryAgainWell == ASSUME WellFormed, CallOK, TryAgain PROVE WellFormed'
<1>1. pc' \in {"idle", "retry"} /\ xfer' = NoTransfer /\ xfer' = xfer
      /\ result' \in {"none", "ok", "error"}
  BY Types DEF TryAgain, WellFormed, XferOK
<1>2. tries \in 1..3 => tries' \in 0..3
  BY DEF TryAgain
<1>3. tries >= 1
  BY DEF TryAgain, CallOK
<1>4. TypeOK'
  BY <1>1, <1>2, <1>3 DEF TryAgain, WellFormed, TypeOK, XferType
<1>5. XferOK'
  BY <1>1, NoTransferFacts DEF XferOK
<1>6. DevOK' /\ CarriedOK'
  BY DEF TryAgain, WellFormed, DevOK, CarriedOK
<1>7. QED
  BY <1>4, <1>5, <1>6 DEF WellFormed

\* A control request: the device has done it, or it was lost.
LEMMA ControlFacts ==
  ASSUME WellFormed, NEW d \in DevType, Control_transfer(d)
  PROVE  /\ dev' \in DevType /\ faults' \in 0..MaxFaults /\ masked' \in BOOLEAN
         /\ dev' = d \/ dev' = dev
         /\ (faults' = faults /\ dev' = d) \/ faults' = faults + 1
<1>1. dev \in DevType /\ faults \in 0..MaxFaults /\ masked \in BOOLEAN /\ MaxFaults \in Nat
  BY Parts, Types, Constants
<1>2. CASE dev' = d /\ UNCHANGED <<faults, masked>>
  BY <1>1, <1>2
<1>3. CASE faults < MaxFaults /\ faults' = faults + 1 /\ masked' = TRUE /\ UNCHANGED dev
  BY <1>1, <1>3
<1>4. QED
  BY <1>2, <1>3 DEF Control_transfer

LEMMA ResetFacts ==
  ASSUME WellFormed
  PROVE  /\ BulkReset \in DevType /\ BulkReset.phase = "command"
         /\ BulkReset.halt = dev.halt /\ BulkReset.tog = dev.tog
<1>1. 0 \in 0..Sectors /\ 0 \in 0..MaxCount /\ dev \in DevType
  BY Constants, Parts
<1>2. QED
  BY <1>1 DEF BulkReset, DevType

LEMMA ClearInWell == ASSUME WellFormed, ClearIn PROVE WellFormed'
<1>1. /\ ClearEndpoint("in") \in DevType /\ ClearEndpoint("in").phase = dev.phase
      /\ ClearEndpoint("in").left = dev.left /\ ClearEndpoint("in").next = dev.next
      /\ ClearEndpoint("in").status = dev.status
  BY Parts, ClearedFacts DEF Pipes
<1>2. dev' \in DevType /\ faults' \in 0..MaxFaults /\ masked' \in BOOLEAN
      /\ (dev' = ClearEndpoint("in") \/ dev' = dev)
  BY <1>1, ControlFacts DEF ClearIn
<1>3. /\ xfer' \in XferType /\ xfer'.pid = "in" /\ xfer'.what = "csw" /\ xfer'.want = 1
      /\ xfer'.got = 0 /\ xfer'.state = "active"
  <2>1. 1 \in 0..MaxCount /\ NoTransfer \in XferType
    BY Constants, NoTransferFacts
  <2>2. xfer' = [NoTransfer EXCEPT !.want = 1, !.state = "active"]
    BY DEF ClearIn
  <2>3. NoTransfer.pid = "in" /\ NoTransfer.what = "csw" /\ NoTransfer.got = 0
    BY DEF NoTransfer
  <2>4. QED
    BY <2>1, <2>2, <2>3 DEF XferType
<1>4. htog' \in [Pipes -> {0, 1}] /\ pc' = "status2"
  BY Parts DEF ClearIn
<1>5. TypeOK'
  BY <1>2, <1>3, <1>4 DEF ClearIn, WellFormed, TypeOK, XferType, DevType
<1>6. XferOK'
  BY <1>3, <1>4 DEF XferOK
<1>7. DevOK' /\ CarriedOK'
  BY <1>1, <1>2 DEF ClearIn, WellFormed, DevOK, CarriedOK
<1>8. QED
  BY <1>5, <1>6, <1>7 DEF WellFormed

LEMMA ResetDeviceWell == ASSUME WellFormed, ResetDevice PROVE WellFormed'
<1>1. dev' \in DevType /\ faults' \in 0..MaxFaults /\ masked' \in BOOLEAN
      /\ (dev'.phase = "command" \/ dev' = dev)
  BY ResetFacts, ControlFacts DEF ResetDevice
<1>2. xfer' = NoTransfer /\ xfer' = xfer /\ pc' = "resetIn"
  BY DEF ResetDevice, WellFormed, XferOK
<1>3. TypeOK'
  BY <1>1, <1>2 DEF ResetDevice, host, WellFormed, TypeOK, DevType
<1>4. XferOK'
  BY <1>2, NoTransferFacts DEF XferOK
<1>5. DevOK' /\ CarriedOK'
  BY <1>1 DEF ResetDevice, host, WellFormed, DevOK, CarriedOK
<1>6. QED
  BY <1>3, <1>4, <1>5 DEF WellFormed

LEMMA ResetInWell == ASSUME WellFormed, ResetIn PROVE WellFormed'
<1>1. /\ ClearEndpoint("in") \in DevType /\ ClearEndpoint("in").phase = dev.phase
      /\ ClearEndpoint("in").left = dev.left /\ ClearEndpoint("in").next = dev.next
      /\ ClearEndpoint("in").status = dev.status
  BY Parts, ClearedFacts DEF Pipes
<1>2. dev' \in DevType /\ faults' \in 0..MaxFaults /\ masked' \in BOOLEAN
      /\ (dev' = ClearEndpoint("in") \/ dev' = dev)
  BY <1>1, ControlFacts DEF ResetIn
<1>3. xfer' = NoTransfer /\ xfer' = xfer /\ pc' = "resetOut"
  BY DEF ResetIn, WellFormed, XferOK
<1>4. TypeOK'
  BY <1>2, <1>3 DEF ResetIn, host, WellFormed, TypeOK, DevType
<1>5. XferOK'
  BY <1>3, NoTransferFacts DEF XferOK
<1>6. DevOK' /\ CarriedOK'
  BY <1>1, <1>2 DEF ResetIn, host, WellFormed, DevOK, CarriedOK
<1>7. QED
  BY <1>4, <1>5, <1>6 DEF WellFormed

LEMMA ResetOutWell == ASSUME WellFormed, ResetOut PROVE WellFormed'
<1>1. /\ ClearEndpoint("out") \in DevType /\ ClearEndpoint("out").phase = dev.phase
      /\ ClearEndpoint("out").left = dev.left /\ ClearEndpoint("out").next = dev.next
      /\ ClearEndpoint("out").status = dev.status
  BY Parts, ClearedFacts DEF Pipes
<1>2. dev' \in DevType /\ faults' \in 0..MaxFaults /\ masked' \in BOOLEAN
      /\ (dev' = ClearEndpoint("out") \/ dev' = dev)
  BY <1>1, ControlFacts DEF ResetOut
<1>3. xfer' = NoTransfer /\ xfer' = xfer /\ pc' = "again" /\ htog' \in [Pipes -> {0, 1}]
  BY DEF ResetOut, WellFormed, XferOK
<1>4. TypeOK'
  BY <1>2, <1>3 DEF ResetOut, WellFormed, TypeOK, DevType
<1>5. XferOK'
  BY <1>3, NoTransferFacts DEF XferOK
<1>6. DevOK' /\ CarriedOK'
  BY <1>1, <1>2 DEF ResetOut, WellFormed, DevOK, CarriedOK
<1>7. QED
  BY <1>4, <1>5, <1>6 DEF WellFormed

LEMMA CallWell ==
  ASSUME WellFormed, NEW dir \in Pipes, NEW r \in Requests, NEW data \in Payloads,
         Read_write_usb(dir, r[1], r[2], data)
  PROVE  WellFormed'
<1>1. r[1] \in 0..(Sectors - 1) /\ r[2] \in 0..MaxCount /\ data \in [0..(MaxCount - 1) -> Contents]
  BY Constants
<1>2. /\ req' = [dir |-> dir, lba |-> r[1], n |-> r[2]] /\ pc' = "retry"
      /\ mem' = [i \in 0..(MaxCount - 1) |-> IF dir = "in" THEN Filler ELSE data[i]]
      /\ xfer' = NoTransfer /\ xfer' = xfer /\ tries' = 3 /\ faults' = 0 /\ result' = "none"
  BY DEF Read_write_usb, WellFormed, XferOK
<1>3. req' \in [dir : Pipes, lba : 0..(Sectors - 1), n : 0..MaxCount]
  BY <1>1, <1>2
<1>4. mem' \in [0..(MaxCount - 1) -> Contents \cup {Filler, Status}]
      /\ (dir = "out" => mem' \in [0..(MaxCount - 1) -> Contents])
  BY <1>1, <1>2 DEF Pipes
<1>5. TypeOK'
  <2>1. settled' \in BOOLEAN /\ masked' \in BOOLEAN
    BY DEF Read_write_usb
  <2>2. 0 \in 0..MaxFaults
    BY Constants
  <2>3. QED
    BY <1>2, <1>3, <1>4, <2>1, <2>2 DEF Read_write_usb, WellFormed, TypeOK
<1>6. XferOK'
  BY <1>2, NoTransferFacts DEF XferOK
<1>7. DevOK' /\ CarriedOK'
  BY <1>2, <1>4 DEF Read_write_usb, WellFormed, DevOK, CarriedOK
<1>8. QED
  BY <1>5, <1>6, <1>7 DEF WellFormed

\* A packet accepted from the OUT pipe, with its acknowledgement or without.
LEMMA TakenFacts ==
  ASSUME WellFormed, Active("out"), Accepts("out"),
         dev' = Flipped(Takes(dev), "out"), disk' = IF Stored THEN StoredAt ELSE disk
  PROVE  /\ dev' \in DevType
         /\ dev'.phase \in {"in", "out"} =>
              dev'.left >= 1 /\ dev'.next + dev'.left <= Sectors /\ dev'.status = "good"
         /\ disk' \in [0..(Sectors - 1) -> Contents]
<1>1. xfer.state = "active" /\ xfer.pid = "out" /\ dev.phase \in {"command", "out"}
  BY DEF Active, Accepts
<1>2. /\ Takes(dev) \in DevType
      /\ Takes(dev).phase \in {"in", "out"} =>
           /\ Takes(dev).left >= 1 /\ Takes(dev).next + Takes(dev).left <= Sectors
           /\ Takes(dev).status = "good"
  BY <1>1, TakesFacts
<1>3. /\ dev' \in DevType
      /\ dev'.phase = Takes(dev).phase /\ dev'.next = Takes(dev).next
      /\ dev'.left = Takes(dev).left /\ dev'.status = Takes(dev).status
  <2>1. "out" \in Pipes
    BY DEF Pipes
  <2>2. QED
    BY <1>2, <2>1, FlippedFacts
<1>4. disk \in [0..(Sectors - 1) -> Contents]
  BY Types
<1>5. Stored => StoredAt \in [0..(Sectors - 1) -> Contents]
  <2> SUFFICES ASSUME Stored PROVE StoredAt \in [0..(Sectors - 1) -> Contents]
    OBVIOUS
  <2>1. pc = "data" /\ req.dir = "out" /\ sent + xfer.want <= req.n /\ xfer.got < xfer.want
    BY <1>1, Types DEF Stored, WellFormed, TypeOK, XferOK, NoTransfer
  <2>2. sent + xfer.got \in 0..(MaxCount - 1)
    BY <2>1, Parts, Types, Constants
  <2>3. mem[sent + xfer.got] \in Contents
    BY <2>1, <2>2 DEF WellFormed, CarriedOK
  <2>4. QED
    BY <1>4, <2>3 DEF StoredAt
<1>6. QED
  BY <1>2, <1>3, <1>4, <1>5

LEMMA PacketOutWell == ASSUME WellFormed, PacketOut PROVE WellFormed'
<1>1. Active("out") /\ Accepts("out") /\ xfer.state = "active" /\ xfer.pid = "out"
  BY DEF PacketOut, Active
<1>2. /\ dev' \in DevType /\ disk' \in [0..(Sectors - 1) -> Contents]
      /\ dev'.phase \in {"in", "out"} =>
           dev'.left >= 1 /\ dev'.next + dev'.left <= Sectors /\ dev'.status = "good"
  <2>1. CASE xfer.tog = dev.tog["out"]
    BY <1>1, <2>1, TakenFacts DEF PacketOut
  <2>2. CASE xfer.tog # dev.tog["out"]
    BY <2>2, Parts, Types DEF PacketOut, WellFormed, DevOK
  <2>3. QED
    BY <2>1, <2>2
<1>3. /\ xfer' \in XferType /\ xfer'.pid = xfer.pid /\ xfer'.what = xfer.what
      /\ xfer'.want = xfer.want /\ xfer'.got = xfer.got + 1
      /\ xfer'.state = IF xfer.got + 1 = xfer.want THEN "ok" ELSE "active"
  BY <1>1, ProgressFacts DEF PacketOut
<1>4. TypeOK'
  BY <1>2, <1>3 DEF PacketOut, host, WellFormed, TypeOK, DevType, XferType
<1>5. XferOK'
  <2>1. pc' = pc /\ sent' = sent /\ req' = req
    BY DEF PacketOut, host
  <2>2. xfer.got < xfer.want
    BY <1>1 DEF WellFormed, XferOK
  <2>3. xfer'.state = "active" => xfer'.got < xfer'.want
    BY <1>3, <2>2, Types
  <2>4. pc \in {"command", "data", "status", "status2"}
    BY <1>1, NoTransferFacts DEF WellFormed, XferOK
  <2>5. pc = "data" => xfer # NoTransfer
    BY <1>1, NoTransferFacts
  <2>6. QED
    BY <1>1, <1>3, <2>1, <2>3, <2>4, <2>5 DEF WellFormed, XferOK
<1>6. DevOK' /\ CarriedOK'
  BY <1>2 DEF PacketOut, host, WellFormed, DevOK, CarriedOK
<1>7. QED
  BY <1>4, <1>5, <1>6 DEF WellFormed

LEMMA SectorInWell == ASSUME WellFormed, SectorIn PROVE WellFormed'
<1>1. xfer.state = "active" /\ xfer.pid = "in" /\ dev.phase = "in"
      /\ pc \in {"data", "status", "status2"}
  BY Types, NoTransferFacts DEF SectorIn, Active, WellFormed, XferOK
<1>2. /\ Moved(dev) \in DevType
      /\ Moved(dev).left = dev.left - 1 /\ Moved(dev).status = dev.status
      /\ IF dev.left = 1 THEN Moved(dev).phase = "status"
         ELSE Moved(dev).phase = dev.phase /\ Moved(dev).next = dev.next + 1
  BY <1>1, Parts, MovedFacts DEF WellFormed, DevOK
<1>3. /\ dev' \in DevType
      /\ dev'.phase \in {"in", "out"} =>
           dev'.left >= 1 /\ dev'.next + dev'.left <= Sectors /\ dev'.status = "good"
  <2>1. dev.left \in 1..MaxCount /\ dev.next \in 0..Sectors /\ dev.next + dev.left <= Sectors
        /\ dev.status = "good" /\ dev \in DevType
    BY <1>1, Parts, Constants DEF WellFormed, DevOK, DevType
  <2>2. CASE xfer.what = "csw"
    BY <2>1, <2>2 DEF SectorIn
  <2>3. CASE xfer.what # "csw"
    <3>1. dev' = Flipped(Moved(dev), "in") /\ "in" \in Pipes
      BY <2>3 DEF SectorIn, Pipes
    <3>2. /\ dev' \in DevType /\ dev'.phase = Moved(dev).phase /\ dev'.next = Moved(dev).next
          /\ dev'.left = Moved(dev).left /\ dev'.status = Moved(dev).status
      BY <1>2, <3>1, FlippedFacts
    <3>3. QED
      BY <1>2, <2>1, <3>2, Constants
  <2>4. QED
    BY <2>2, <2>3
<1>4. /\ xfer' \in XferType /\ xfer'.pid = xfer.pid /\ xfer'.what = xfer.what
      /\ xfer'.want = xfer.want
      /\ \/ xfer'.state = "failed" \/ xfer' = xfer
         \/ /\ xfer'.got = xfer.got + 1
            /\ xfer'.state = IF xfer.got + 1 = xfer.want THEN "ok" ELSE "active"
  BY <1>1, Parts, EndFacts, ProgressFacts DEF SectorIn
<1>5. mem' \in [0..(MaxCount - 1) -> Contents \cup {Filler, Status}]
  <2>1. dev.next \in 0..(Sectors - 1)
    BY <1>1, Parts, Constants DEF WellFormed, DevOK, DevType
  <2>2. disk[dev.next] \in Contents
    BY <2>1, Types
  <2>3. QED
    BY <2>2, Types DEF SectorIn
<1>6. pc' = pc /\ sent' = sent /\ req' = req
  BY DEF SectorIn
<1>7. TypeOK'
  BY <1>3, <1>4, <1>5 DEF SectorIn, WellFormed, TypeOK, DevType, XferType
<1>8. XferOK'
  <2>1. xfer.got < xfer.want
    BY <1>1 DEF WellFormed, XferOK
  <2>2. xfer'.state = "active" => xfer'.got < xfer'.want
    BY <1>4, <2>1, Types
  <2>3. pc = "data" => xfer # NoTransfer
    BY <1>1, NoTransferFacts
  <2>4. xfer'.state # "none"
    BY <1>1, <1>4
  <2>5. QED
    BY <1>1, <1>4, <1>6, <2>2, <2>3, <2>4 DEF WellFormed, XferOK
<1>9. DevOK' /\ CarriedOK'
  <2>1. DevOK'
    BY <1>3 DEF DevOK
  <2>2. CarriedOK'
    <3>1. CASE pc = "data"
      BY <1>1, <1>6, <3>1, NoTransferFacts DEF WellFormed, XferOK, CarriedOK
    <3>2. CASE pc # "data"
      BY <1>1, <1>6, <3>2 DEF SectorIn, WellFormed, XferOK, CarriedOK
    <3>3. QED
      BY <3>1, <3>2
  <2>3. QED
    BY <2>1, <2>2
<1>10. QED
  BY <1>7, <1>8, <1>9 DEF WellFormed

\* A transfer that ends, well or not, is still the one its stage calls for.
LEMMA EndWell ==
  ASSUME WellFormed, xfer.state = "active",
         \/ xfer' = Fail \/ xfer' = xfer \/ (xfer' = EndShort /\ xfer.pid = "in"),
         pc' = pc, sent' = sent, req' = req
  PROVE  XferOK' /\ xfer' \in XferType
<1>1. pc \in {"command", "data", "status", "status2"} /\ (pc = "data" => xfer # NoTransfer)
  BY Types, NoTransferFacts DEF WellFormed, XferOK
<1>2. /\ xfer' \in XferType /\ xfer'.pid = xfer.pid /\ xfer'.what = xfer.what
      /\ xfer'.want = xfer.want
      /\ \/ xfer'.state = "failed" \/ xfer' = xfer \/ (xfer'.state = "ok" /\ xfer.pid = "in")
  BY Parts, EndFacts
<1>3. QED
  BY <1>1, <1>2 DEF WellFormed, XferOK

LEMMA StatusInWell == ASSUME WellFormed, StatusIn PROVE WellFormed'
<1>1. xfer.state = "active" /\ xfer.pid = "in"
  BY DEF StatusIn, Active
<1>2. dev' \in DevType /\ dev'.phase = "command"
  <2> DEFINE d == [dev EXCEPT !.phase = "command"]
  <2>1. d \in DevType /\ d.phase = "command" /\ "in" \in Pipes
    BY Parts DEF DevType, Pipes
  <2>2. dev' = Flipped(d, "in")
    BY DEF StatusIn
  <2> HIDE DEF d
  <2>3. QED
    BY <2>1, <2>2, FlippedFacts
<1>3. XferOK' /\ xfer' \in XferType
  <2>1. xfer' = xfer \/ xfer' = EndShort
    BY DEF StatusIn
  <2>2. pc' = pc /\ sent' = sent /\ req' = req
    BY DEF StatusIn
  <2>3. QED
    BY <1>1, <2>1, <2>2, EndWell
<1>4. /\ mem' \in [0..(MaxCount - 1) -> Contents \cup {Filler, Status}]
      /\ csw' \in {"none", "good", "failed"}
  BY Types, Parts DEF StatusIn, DevType
<1>5. TypeOK'
  BY <1>2, <1>3, <1>4 DEF StatusIn, WellFormed, TypeOK, DevType, XferType
<1>6. CarriedOK'
  <2>1. CASE xfer.what = "csw"
    BY <2>1 DEF StatusIn, WellFormed, CarriedOK
  <2>2. CASE xfer.what # "csw"
    <3>1. pc = "data" /\ req.dir = "in"
      BY <1>1, <2>2, Types, NoTransferFacts DEF WellFormed, XferOK
    <3>2. QED
      BY <3>1 DEF StatusIn, CarriedOK
  <2>3. QED
    BY <2>1, <2>2
<1>7. DevOK'
  BY <1>2 DEF DevOK
<1>8. QED
  BY <1>3, <1>5, <1>6, <1>7 DEF WellFormed

LEMMA UnansweredWell == ASSUME WellFormed, Unanswered \/ Slow PROVE WellFormed'
<1>1. /\ xfer.state = "active" /\ xfer' = Fail /\ faults' \in 0..MaxFaults
      /\ UNCHANGED <<pc, host, dev, disk, masked>>
  BY Types, Constants DEF Unanswered, Slow, Fault
<1>2. XferOK' /\ xfer' \in XferType
  BY <1>1, EndWell DEF host
<1>3. TypeOK'
  BY <1>1, <1>2 DEF host, WellFormed, TypeOK, XferType
<1>4. DevOK' /\ CarriedOK'
  BY <1>1 DEF host, WellFormed, DevOK, CarriedOK
<1>5. QED
  BY <1>2, <1>3, <1>4 DEF WellFormed

LEMMA LostHandshakeWell == ASSUME WellFormed, LostHandshake PROVE WellFormed'
<1>1. /\ xfer.state = "active" /\ xfer' = Fail /\ faults' \in 0..MaxFaults
      /\ UNCHANGED <<pc, host, masked>>
  BY Types, Constants DEF LostHandshake, Fault
<1>2. XferOK' /\ xfer' \in XferType
  BY <1>1, EndWell DEF host
<1>3. /\ dev' \in DevType /\ disk' \in [0..(Sectors - 1) -> Contents]
      /\ dev'.phase \in {"in", "out"} =>
           dev'.left >= 1 /\ dev'.next + dev'.left <= Sectors /\ dev'.status = "good"
  BY TakenFacts DEF LostHandshake
<1>4. TypeOK'
  BY <1>1, <1>2, <1>3 DEF host, WellFormed, TypeOK, XferType, DevType
<1>5. DevOK' /\ CarriedOK'
  BY <1>1, <1>3 DEF host, WellFormed, DevOK, CarriedOK
<1>6. QED
  BY <1>2, <1>4, <1>5 DEF WellFormed

LEMMA MediumErrorWell == ASSUME WellFormed, MediumError PROVE WellFormed'
<1>1. /\ xfer.state = "active" /\ xfer' = xfer /\ faults' \in 0..MaxFaults
      /\ UNCHANGED <<pc, host, disk, masked>>
  BY Types, Constants DEF MediumError, Fault
<1>2. XferOK' /\ xfer' \in XferType
  BY <1>1, EndWell DEF host
<1>3. dev' \in DevType /\ dev'.phase = "status"
  BY Parts, Types, RefusedFacts DEF MediumError
<1>4. TypeOK'
  BY <1>1, <1>2, <1>3 DEF host, WellFormed, TypeOK, XferType, DevType
<1>5. DevOK' /\ CarriedOK'
  BY <1>1, <1>3 DEF host, WellFormed, DevOK, CarriedOK
<1>6. QED
  BY <1>2, <1>4, <1>5 DEF WellFormed

LEMMA LateErrorWell == ASSUME WellFormed, LateError PROVE WellFormed'
<1>1. /\ xfer.state = "active" /\ xfer' = xfer /\ faults' \in 0..MaxFaults
      /\ UNCHANGED <<pc, host, disk, masked>>
  BY Types, Constants DEF LateError, Fault
<1>2. XferOK' /\ xfer' \in XferType
  BY <1>1, EndWell DEF host
<1>3. dev' \in DevType /\ dev'.phase = "status"
  BY Parts DEF LateError, DevType
<1>4. TypeOK'
  BY <1>1, <1>2, <1>3 DEF host, WellFormed, TypeOK, XferType, DevType
<1>5. DevOK' /\ CarriedOK'
  BY <1>1, <1>3 DEF host, WellFormed, DevOK, CarriedOK
<1>6. QED
  BY <1>2, <1>4, <1>5 DEF WellFormed

LEMMA EmptyPacketWell == ASSUME WellFormed, EmptyPacket PROVE WellFormed'
<1>1. /\ xfer.state = "active" /\ xfer.pid = "in" /\ (xfer' = xfer \/ xfer' = EndShort)
      /\ faults' \in 0..MaxFaults /\ masked' \in BOOLEAN
      /\ UNCHANGED <<pc, host, disk>>
  BY Types, Constants DEF EmptyPacket, Fault, Active
<1>2. XferOK' /\ xfer' \in XferType
  BY <1>1, EndWell DEF host
<1>3. dev' \in DevType /\ dev'.phase = "status"
  <2> DEFINE d == [dev EXCEPT !.phase = "status", !.status = "failed", !.left = 0, !.next = 0]
  <2>1. d \in DevType /\ d.phase = "status" /\ "in" \in Pipes
    BY Parts, EndedFacts DEF Pipes
  <2>2. dev' = Flipped(d, "in")
    BY DEF EmptyPacket
  <2> HIDE DEF d
  <2>3. QED
    BY <2>1, <2>2, FlippedFacts
<1>4. TypeOK'
  BY <1>1, <1>2, <1>3 DEF host, WellFormed, TypeOK, XferType, DevType
<1>5. DevOK' /\ CarriedOK'
  BY <1>1, <1>3 DEF host, WellFormed, DevOK, CarriedOK
<1>6. QED
  BY <1>2, <1>4, <1>5 DEF WellFormed

LEMMA NextWell == WellFormed /\ CallOK /\ [Next]_vars => WellFormed' /\ CallOK'
<1> SUFFICES ASSUME WellFormed, CallOK, [Next]_vars PROVE WellFormed' /\ CallOK'
  OBVIOUS
<1>1. CASE UNCHANGED vars
  BY <1>1 DEF vars, host, WellFormed, TypeOK, XferOK, DevOK, CarriedOK, CallOK
<1>2. ASSUME NEW dir \in Pipes, NEW r \in Requests, NEW data \in Payloads,
             Read_write_usb(dir, r[1], r[2], data)
      PROVE  WellFormed' /\ CallOK'
  BY <1>2, CallWell DEF Read_write_usb, CallOK
<1>3. CASE SendCommand
  BY <1>3, SendCommandWell DEF SendCommand, CallOK
<1>4. CASE CommandDone
  BY <1>4, CommandDoneWell DEF CommandDone, CallOK
<1>5. CASE NextChunk
  BY <1>5, NextChunkWell DEF NextChunk, host, CallOK
<1>6. CASE ChunkDone
  BY <1>6, ChunkDoneWell DEF ChunkDone, CallOK
<1>7. CASE AskStatus
  BY <1>7, AskStatusWell DEF AskStatus, host, CallOK
<1>8. CASE StatusDone
  BY <1>8, StatusDoneWell DEF StatusDone, AfterStatus, CallOK
<1>9. CASE StatusFails
  BY <1>9, StatusFailsWell DEF StatusFails, host, CallOK
<1>10. CASE ClearIn
  BY <1>10, ClearInWell DEF ClearIn, CallOK
<1>11. CASE ResetDevice
  BY <1>11, ResetDeviceWell DEF ResetDevice, host, CallOK
<1>12. CASE ResetIn
  BY <1>12, ResetInWell DEF ResetIn, host, CallOK
<1>13. CASE ResetOut
  BY <1>13, ResetOutWell DEF ResetOut, CallOK
<1>14. CASE TryAgain
  BY <1>14, TryAgainWell, Types DEF TryAgain, CallOK
<1>15. CASE PacketOut
  BY <1>15, PacketOutWell DEF PacketOut, host, CallOK
<1>16. CASE SectorIn
  BY <1>16, SectorInWell DEF SectorIn, CallOK
<1>17. CASE StatusIn
  BY <1>17, StatusInWell DEF StatusIn, CallOK
<1>18. CASE Unanswered
  BY <1>18, UnansweredWell DEF Unanswered, host, CallOK
<1>19. CASE Slow
  BY <1>19, UnansweredWell DEF Slow, host, CallOK
<1>20. CASE LostHandshake
  BY <1>20, LostHandshakeWell DEF LostHandshake, host, CallOK
<1>21. CASE MediumError
  BY <1>21, MediumErrorWell DEF MediumError, host, CallOK
<1>22. CASE LateError
  BY <1>22, LateErrorWell DEF LateError, host, CallOK
<1>23. CASE EmptyPacket
  BY <1>23, EmptyPacketWell DEF EmptyPacket, host, CallOK
<1>24. QED
  BY <1>1, <1>2, <1>3, <1>4, <1>5, <1>6, <1>7, <1>8, <1>9, <1>10, <1>11, <1>12, <1>13, <1>14,
     <1>15, <1>16, <1>17, <1>18, <1>19, <1>20, <1>21, <1>22, <1>23
  DEF Next, Call, Driver, Wire, Faults

-----------------------------------------------------------------------------
(* An attempt in which nothing fails *)

LEMMA OffDriver ==
  ASSUME WellFormed, Off,
         SendCommand \/ CommandDone \/ NextChunk \/ ChunkDone \/ AskStatus \/ StatusDone \/ StatusFails
  PROVE  Off' \/ pc' = "idle"
<1>0. htog \in [Pipes -> {0, 1}] /\ dev.tog \in [Pipes -> {0, 1}] /\ dev.halt \subseteq Pipes
  BY Parts DEF DevType
<1>1. CASE SendCommand
  <2>1. xfer'.state = "active" /\ pc' = "command"
    BY <1>1, Constants, BulkTransferFacts DEF SendCommand, Pipes
  <2>2. QED
    BY <2>1 DEF Off
<1>2. CASE CommandDone
  <2>1. CASE xfer.state = "failed"
    BY <1>2, <2>1 DEF CommandDone, Ended, Off
  <2>2. CASE xfer.state = "ok"
    <3>1. pc = "command" /\ pc' = "data" /\ xfer' = NoTransfer /\ htog' = ToggleSaved /\ dev' = dev
          /\ xfer.pid = "out"
      BY <1>2, <2>2 DEF CommandDone, Ended, WellFormed, XferOK
    <3>2. htog'["out"] = xfer.tog
      BY <3>1, SavedFacts
    <3>3. QED
      BY <2>2, <3>1, <3>2, NoTransferFacts DEF Off
  <2>3. QED
    BY <1>2, <2>1, <2>2 DEF CommandDone, Ended
<1>3. CASE NextChunk
  <2>1. pc = "data" /\ pc' = "data" /\ xfer'.state = "active" /\ dev' = dev /\ htog' = htog
    <3>1. Bulk_transfer(req.dir, "data", Single_size).state = "active"
      BY DEF Bulk_transfer
    <3>2. QED
      BY <1>3, <3>1 DEF NextChunk, host
  <2>2. QED
    BY <2>1 DEF Off
<1>4. CASE ChunkDone
  <2>1. /\ pc = "data" /\ pc' = "data" /\ xfer' = NoTransfer /\ dev' = dev /\ htog' = ToggleSaved
        /\ xfer.state = "ok"
    BY <1>4 DEF ChunkDone, Ended
  <2>2. xfer.pid # "out" => htog'["out"] = htog["out"]
    BY <2>1, SavedFacts DEF Pipes
  <2>3. QED
    BY <2>1, <2>2, NoTransferFacts DEF Off
<1>5. CASE AskStatus
  <2>1. /\ pc = "data" /\ pc' = "status" /\ dev' = dev /\ htog' = htog
        /\ xfer'.state = "active" /\ xfer'.pid = "in"
    <3>1. Bulk_transfer("in", "csw", 1).state = "active" /\ Bulk_transfer("in", "csw", 1).pid = "in"
      BY DEF Bulk_transfer
    <3>2. QED
      BY <1>5, <3>1 DEF AskStatus, host
  <2>2. QED
    BY <2>1 DEF Off
<1>6. CASE StatusDone
  <2>1. /\ pc \in {"status", "status2"} /\ xfer.state = "ok" /\ xfer.pid = "in"
        /\ dev' = dev /\ htog' = ToggleSaved /\ csw' = csw
        /\ pc' = IF AfterStatus = "return" THEN "idle" ELSE AfterStatus
    BY <1>6 DEF StatusDone, Ended, WellFormed, XferOK
  <2>2. CASE csw = "failed"
    <3>1. AfterStatus = "again" /\ pc' = "again"
      BY <2>1, <2>2 DEF AfterStatus
    <3>2. htog' \in [Pipes -> {0, 1}] /\ htog'["in"] = xfer.tog /\ htog'["out"] = htog["out"]
      BY <2>1, SavedFacts DEF Pipes
    <3>3. dev.phase = "command" /\ dev.halt = {} /\ dev.tog["out"] = htog["out"] /\ dev.tog["in"] = xfer.tog
      BY <2>1, <2>2 DEF Off
    <3>4. dev.tog = htog'
      BY <1>0, <3>2, <3>3 DEF Pipes
    <3>5. QED
      BY <2>1, <3>1, <3>3, <3>4 DEF Off, InStep
  <2>3. CASE csw = "good"
    BY <2>1, <2>3 DEF AfterStatus
  <2>4. CASE csw # "failed" /\ csw # "good"
    BY <2>1, <2>4 DEF AfterStatus, Off
  <2>5. QED
    BY <2>2, <2>3, <2>4
<1>7. CASE StatusFails
  <2>1. pc \in {"status", "status2"} /\ pc' \in {"clear", "reset"} /\ xfer' = NoTransfer
        /\ dev' = dev /\ htog' = htog
    BY <1>7 DEF StatusFails, host
  <2>2. QED
    BY <2>1, NoTransferFacts DEF Off
<1>8. QED
  BY <1>1, <1>2, <1>3, <1>4, <1>5, <1>6, <1>7

LEMMA OffRecovery ==
  ASSUME WellFormed, Off, ClearIn \/ ResetDevice \/ ResetIn \/ ResetOut, faults' = faults
  PROVE  Off'
<1>0. faults \in Nat /\ htog \in [Pipes -> {0, 1}] /\ dev.tog \in [Pipes -> {0, 1}] /\ dev.halt \subseteq Pipes
  BY Parts, Types, Constants DEF DevType
<1>1. \A p \in Pipes :
        /\ ClearEndpoint(p) \in DevType /\ ClearEndpoint(p).phase = dev.phase
        /\ ClearEndpoint(p).status = dev.status
        /\ ClearEndpoint(p).halt \subseteq dev.halt
        /\ dev.phase # "invalid" => ClearEndpoint(p).halt = dev.halt \ {p}
        /\ ClearEndpoint(p).tog[p] = 0
        /\ \A q \in Pipes \ {p} : ClearEndpoint(p).tog[q] = dev.tog[q]
  BY Parts, ClearedFacts
<1>2. CASE ClearIn
  <2>1. dev' = ClearEndpoint("in") /\ pc = "clear" /\ pc' = "status2"
        /\ xfer'.state = "active" /\ xfer'.pid = "in" /\ htog'["out"] = htog["out"]
    <3>1. dev' = ClearEndpoint("in")
      BY <1>0, <1>1, <1>2, ControlFacts DEF ClearIn, Pipes
    <3>2. [NoTransfer EXCEPT !.want = 1, !.state = "active"].state = "active"
          /\ [NoTransfer EXCEPT !.want = 1, !.state = "active"].pid = "in"
      BY DEF NoTransfer
    <3>3. QED
      BY <1>0, <1>2, <3>1, <3>2 DEF ClearIn, Pipes
  <2>2. dev'.phase = dev.phase /\ dev'.status = dev.status /\ dev'.halt \subseteq dev.halt
        /\ dev'.tog["out"] = dev.tog["out"]
    BY <1>1, <2>1 DEF Pipes
  <2>3. QED
    BY <2>1, <2>2 DEF Off
<1>3. CASE ResetDevice
  <2>1. dev'.phase = "command" /\ pc' = "resetIn"
    BY <1>0, <1>3, ResetFacts, ControlFacts DEF ResetDevice
  <2>2. QED
    BY <2>1 DEF Off
<1>4. CASE ResetIn
  <2>1. dev' = ClearEndpoint("in") /\ pc = "resetIn" /\ pc' = "resetOut"
    BY <1>0, <1>1, <1>4, ControlFacts DEF ResetIn, Pipes
  <2>2. dev'.phase = "command" /\ dev'.halt \subseteq {"out"} /\ dev'.tog["in"] = 0
    BY <1>0, <1>1, <2>1 DEF Off, Pipes
  <2>3. QED
    BY <2>1, <2>2 DEF Off
<1>5. CASE ResetOut
  <2>1. dev' = ClearEndpoint("out") /\ pc = "resetOut" /\ pc' = "again"
        /\ htog' = [p \in Pipes |-> 0]
    BY <1>0, <1>1, <1>5, ControlFacts DEF ResetOut, Pipes
  <2>2. dev'.phase = "command" /\ dev'.halt = {} /\ dev'.tog["in"] = 0 /\ dev'.tog["out"] = 0
    BY <1>0, <1>1, <2>1 DEF Off, Pipes
  <2>3. dev'.tog \in [Pipes -> {0, 1}]
    BY <1>1, <2>1 DEF Pipes, DevType
  <2>4. dev'.tog = htog'
    BY <2>1, <2>2, <2>3 DEF Pipes
  <2>5. QED
    BY <2>1, <2>2, <2>4 DEF Off, InStep
<1>6. QED
  BY <1>2, <1>3, <1>4, <1>5

LEMMA OffWire ==
  ASSUME WellFormed, InRange, Off, PacketOut \/ SectorIn \/ StatusIn \/ Unanswered
  PROVE  Off'
<1>0. /\ dev \in DevType /\ htog \in [Pipes -> {0, 1}] /\ dev.tog \in [Pipes -> {0, 1}]
      /\ dev.halt \subseteq Pipes /\ xfer.tog \in {0, 1}
  BY Parts, Types DEF DevType
<1>1. CASE PacketOut
  <2>1. /\ xfer.state = "active" /\ xfer.pid = "out" /\ pc \in {"command", "data"}
        /\ "out" \notin dev.halt /\ dev.phase \in {"command", "out"}
        /\ pc' = pc /\ htog' = htog /\ csw' = csw /\ xfer' = Progress
    BY <1>1, NoTransferFacts, Types DEF PacketOut, Active, Accepts, host, WellFormed, XferOK
  <2>2. CASE xfer.tog = dev.tog["out"]
    <3>1. dev' = Flipped(Takes(dev), "out") /\ "out" \in Pipes
      BY <1>1, <2>2 DEF PacketOut, Pipes
    <3>2. Takes(dev) \in DevType /\ Takes(dev).tog = dev.tog
      BY <2>1, TakesFacts
    <3>3. dev'.phase = Takes(dev).phase /\ dev'.status = Takes(dev).status
          /\ dev'.halt = Takes(dev).halt /\ dev'.tog["out"] = 1 - dev.tog["out"]
      BY <3>1, <3>2, FlippedFacts
    <3>4. CASE pc = "command"
      <4>1. dev'.halt = dev.halt
        BY <2>1, <3>3, <3>4, TakesFacts
      <4>2. xfer'.tog = 1 - xfer.tog
        BY <2>1, ProgressFacts
      <4>3. QED
        BY <2>1, <2>2, <3>3, <3>4, <4>1, <4>2 DEF Off
    <3>5. CASE pc = "data"
      <4>1. dev'.phase = "status" => dev'.status = "good"
        BY <2>1, <3>3, <3>5, TakesFacts
      <4>2. QED
        BY <2>1, <3>5, <4>1 DEF Off
    <3>6. QED
      BY <2>1, <3>4, <3>5
  <2>3. CASE xfer.tog # dev.tog["out"]
    <3>1. dev' = dev
      BY <1>1, <2>3 DEF PacketOut
    <3>2. QED
      BY <2>1, <3>1 DEF Off
  <2>4. QED
    BY <2>2, <2>3
<1>2. CASE SectorIn
  <2>1. /\ xfer.state = "active" /\ xfer.pid = "in" /\ pc \in {"data", "status", "status2"}
        /\ dev.phase = "in" /\ pc' = pc /\ htog' = htog /\ csw' = csw
    BY <1>2, NoTransferFacts, Types DEF SectorIn, Active, WellFormed, XferOK
  <2>2. CASE xfer.what = "csw"
    <3>1. dev' = dev /\ xfer'.state = "failed"
      BY <1>2, <2>2, EndFacts DEF SectorIn
    <3>2. QED
      BY <2>1, <3>1 DEF Off
  <2>3. CASE xfer.what # "csw"
    <3>1. pc = "data"
      BY <2>1, <2>3 DEF WellFormed, XferOK
    <3>2. dev.left >= 1 /\ dev.next + dev.left <= Sectors /\ dev.status = "good"
      BY <2>1 DEF WellFormed, DevOK
    <3>3. Moved(dev) \in DevType /\ Moved(dev).status = "good"
      BY <1>0, <3>2, MovedFacts
    <3>4. dev' = Flipped(Moved(dev), "in") /\ "in" \in Pipes
      BY <1>2, <2>3 DEF SectorIn, Pipes
    <3>5. dev'.status = "good"
      BY <3>3, <3>4, FlippedFacts
    <3>6. QED
      BY <2>1, <3>1, <3>5 DEF Off
  <2>4. QED
    BY <2>2, <2>3
<1>3. CASE StatusIn
  <2>1. /\ xfer.state = "active" /\ xfer.pid = "in" /\ pc \in {"data", "status", "status2"}
        /\ "in" \notin dev.halt /\ dev.phase = "status" /\ pc' = pc /\ htog' = htog
    BY <1>3, NoTransferFacts, Types DEF StatusIn, Active, WellFormed, XferOK
  <2> DEFINE d == [dev EXCEPT !.phase = "command"]
  <2>2. d \in DevType /\ d.phase = "command" /\ d.halt = dev.halt /\ d.tog = dev.tog
    BY <1>0 DEF DevType
  <2>3. dev' = Flipped(d, "in") /\ "in" \in Pipes
    BY <1>3 DEF StatusIn, Pipes
  <2> HIDE DEF d
  <2>4. /\ dev'.phase = "command" /\ dev'.halt = dev.halt
        /\ dev'.tog["in"] = 1 - dev.tog["in"] /\ dev'.tog["out"] = dev.tog["out"]
    BY <2>2, <2>3, FlippedFacts DEF Pipes
  <2>5. CASE pc = "data"
    BY <2>1, <2>4, <2>5 DEF Off
  <2>6. CASE pc \in {"status", "status2"} /\ xfer.tog # dev.tog["in"]
    <3>1. xfer' = xfer
      BY <1>3, <2>6 DEF StatusIn
    <3>2. QED
      BY <2>1, <2>4, <2>6, <3>1 DEF Off
  <2>7. CASE pc \in {"status", "status2"} /\ xfer.tog = dev.tog["in"]
    <3>1. csw' = dev.status /\ xfer' = EndShort
      BY <1>3, <2>7 DEF StatusIn, WellFormed, XferOK
    <3>2. xfer'.tog = 1 - xfer.tog
      BY <3>1, EndFacts
    <3>3. csw' = "failed" => dev.halt = {} /\ dev.tog["out"] = htog["out"]
      <4>1. csw' = "failed" => "out" \notin dev.halt /\ dev.tog["out"] = htog["out"]
        BY <2>1, <2>7, <3>1 DEF Off
      <4>2. QED
        BY <1>0, <2>1, <4>1 DEF Pipes
    <3>4. QED
      BY <2>1, <2>4, <2>7, <3>2, <3>3 DEF Off
  <2>8. QED
    BY <2>1, <2>5, <2>6, <2>7
<1>4. CASE Unanswered
  <2>1. /\ xfer.state = "active" /\ xfer' = Fail /\ pc' = pc /\ dev' = dev /\ htog' = htog /\ csw' = csw
        /\ pc \in {"command", "data", "status", "status2"}
    BY <1>4, NoTransferFacts, Types DEF Unanswered, host, WellFormed, XferOK
  <2>2. xfer'.state = "failed"
    BY <2>1, EndFacts
  <2>3. QED
    BY <2>1, <2>2 DEF Off
<1>5. QED
  BY <1>1, <1>2, <1>3, <1>4

\* What Fine says of the toggle of each pipe.
LEMMA FineTogs ==
  ASSUME Fine
  PROVE  /\ dev.tog["in"] = Tog("in") /\ dev.tog["out"] = Tog("out")
BY DEF Fine, Pipes

LEMMA FineDriver ==
  ASSUME WellFormed, Fine,
         SendCommand \/ CommandDone \/ NextChunk \/ ChunkDone \/ AskStatus \/ StatusDone \/ StatusFails
  PROVE  Fine' \/ pc' = "idle"
<1>0. /\ htog \in [Pipes -> {0, 1}] /\ dev.tog \in [Pipes -> {0, 1}] /\ xfer.state # "failed"
      /\ dev.halt = {} /\ \A p \in Pipes : dev.tog[p] = Tog(p)
      /\ sent \in 0..MaxCount /\ req.n \in 0..MaxCount /\ MaxCount \in Nat
  BY Parts, Types, Constants DEF DevType, Fine
<1>1. CASE SendCommand
  <2>1. /\ pc = "retry" /\ pc' = "command" /\ dev' = dev /\ htog' = htog
        /\ xfer'.pid = "out" /\ xfer'.tog = htog["out"] /\ xfer'.state = "active" /\ xfer'.got = 0
    BY <1>1, Constants, BulkTransferFacts DEF SendCommand, Pipes
  <2>2. xfer = NoTransfer
    BY <2>1 DEF WellFormed, XferOK
  <2>3. \A p \in Pipes : dev'.tog[p] = Tog(p)'
    BY <1>0, <2>1, <2>2, NoTransferFacts DEF Tog
  <2>4. QED
    BY <1>0, <2>1, <2>3 DEF Fine
<1>2. CASE CommandDone
  <2>1. pc = "command" /\ pc' = "data" /\ xfer' = NoTransfer /\ htog' = ToggleSaved /\ dev' = dev
        /\ xfer.pid = "out" /\ xfer.state = "ok" /\ sent = 0 /\ sent' = 0 /\ req' = req
    BY <1>0, <1>2 DEF CommandDone, Ended, WellFormed, XferOK
  <2>2. \A p \in Pipes : dev'.tog[p] = Tog(p)'
    BY <1>0, <2>1, SavedFacts, NoTransferFacts DEF Tog
  <2>3. sent' + xfer'.got = 0
    BY <2>1, NoTransferFacts
  <2>4. QED
    BY <1>0, <2>1, <2>2, <2>3, NoTransferFacts DEF Fine
<1>3. CASE NextChunk
  <2>1. /\ pc = "data" /\ pc' = "data" /\ dev' = dev /\ htog' = htog /\ sent' = sent /\ req' = req
        /\ xfer.state = "none" /\ xfer = NoTransfer
        /\ xfer'.pid = req.dir /\ xfer'.tog = htog[req.dir] /\ xfer'.state = "active" /\ xfer'.got = 0
    BY <1>3 DEF NextChunk, Bulk_transfer, Ended, host, WellFormed, XferOK
  <2>2. \A p \in Pipes : dev'.tog[p] = Tog(p)'
    BY <1>0, <2>1 DEF Tog
  <2>3. xfer.got = 0
    BY <2>1, NoTransferFacts
  <2>4. QED
    BY <1>0, <2>1, <2>2, <2>3 DEF Fine
<1>4. CASE ChunkDone
  <2>1. /\ pc = "data" /\ pc' = "data" /\ xfer' = NoTransfer /\ dev' = dev /\ htog' = ToggleSaved
        /\ xfer.state = "ok" /\ sent' = sent + xfer.want /\ req' = req
    BY <1>4 DEF ChunkDone, Ended
  <2>2. \A p \in Pipes : dev'.tog[p] = Tog(p)'
    BY <1>0, <2>1, SavedFacts, NoTransferFacts DEF Tog
  <2>3. xfer.got = xfer.want /\ xfer.want \in Nat
    BY <2>1, Types, Constants DEF Fine
  <2>4. sent' + xfer'.got = sent + xfer.got
    BY <1>0, <2>1, <2>3, NoTransferFacts
  <2>5. QED
    BY <1>0, <2>1, <2>2, <2>4, NoTransferFacts DEF Fine
<1>5. CASE AskStatus
  <2>1. /\ pc = "data" /\ pc' = "status" /\ dev' = dev /\ htog' = htog
        /\ xfer.state = "none" /\ xfer = NoTransfer /\ sent = req.n
        /\ xfer'.state = "active" /\ xfer'.pid = "in" /\ xfer'.tog = htog["in"]
    BY <1>0, <1>5 DEF AskStatus, Bulk_transfer, Ended, host, WellFormed, XferOK
  <2>2. \A p \in Pipes : dev'.tog[p] = Tog(p)'
    BY <1>0, <2>1 DEF Tog
  <2>3. sent + xfer.got = req.n
    BY <1>0, <2>1, NoTransferFacts
  <2>4. dev.phase = "status" /\ dev.status = "good"
    BY <2>1, <2>3 DEF Fine
  <2>5. QED
    BY <1>0, <2>1, <2>2, <2>4 DEF Fine
<1>6. CASE StatusDone
  <2>1. pc \in {"status", "status2"} /\ xfer.state = "ok"
    BY <1>6 DEF StatusDone, Ended
  <2>2. csw = "good"
    BY <2>1 DEF Fine
  <2>3. QED
    BY <1>6, <2>2 DEF StatusDone, AfterStatus
<1>7. CASE StatusFails
  BY <1>0, <1>7 DEF StatusFails, Ended
<1>8. QED
  BY <1>1, <1>2, <1>3, <1>4, <1>5, <1>6, <1>7

LEMMA FineWire ==
  ASSUME WellFormed, InRange, Fine, PacketOut \/ SectorIn \/ StatusIn \/ Unanswered
  PROVE  Fine'
<1>0. /\ dev \in DevType /\ htog \in [Pipes -> {0, 1}] /\ xfer.state # "failed"
      /\ dev.halt = {} /\ dev.tog["in"] = Tog("in") /\ dev.tog["out"] = Tog("out")
      /\ sent \in Nat /\ req.n \in Nat /\ xfer.got \in Nat /\ xfer.want \in Nat
      /\ dev.left \in Nat /\ req.dir \in Pipes
  BY Parts, Types, Constants, FineTogs DEF DevType, Fine
\* A transfer of the data stage has sectors left to move, and so has the device.
<1>1. ASSUME xfer.state = "active", pc = "data"
      PROVE  /\ xfer.pid = req.dir /\ dev.phase = req.dir /\ dev.status = "good"
             /\ dev.left = req.n - (sent + xfer.got) /\ sent + xfer.got + 1 <= req.n
  <2>1. xfer.pid = req.dir /\ sent + xfer.want <= req.n /\ xfer.got < xfer.want
    BY <1>1, NoTransferFacts DEF WellFormed, XferOK
  <2>2. sent + xfer.got # req.n /\ sent + xfer.got + 1 <= req.n
    BY <1>0, <2>1
  <2>3. QED
    BY <1>1, <2>1, <2>2 DEF Fine
<1>2. CASE PacketOut
  <2>1. /\ xfer.state = "active" /\ xfer.pid = "out" /\ pc \in {"command", "data"}
        /\ dev.phase \in {"command", "out"} /\ xfer.tog = dev.tog["out"]
        /\ pc' = pc /\ htog' = htog /\ sent' = sent /\ req' = req /\ xfer' = Progress
        /\ dev' = Flipped(Takes(dev), "out") /\ "out" \in Pipes
    <3>1. xfer.state = "active" /\ xfer.pid = "out"
      BY <1>2 DEF PacketOut, Active
    <3>2. xfer.tog = dev.tog["out"]
      BY <1>0, <3>1 DEF Tog
    <3>3. pc \in {"command", "data"}
      BY <3>1, NoTransferFacts, Types DEF WellFormed, XferOK
    <3>4. QED
      BY <1>2, <3>1, <3>2, <3>3 DEF PacketOut, Accepts, host, Pipes
  <2>2. Takes(dev) \in DevType /\ Takes(dev).tog = dev.tog
    BY <2>1, TakesFacts
  <2>3. /\ dev'.phase = Takes(dev).phase /\ dev'.status = Takes(dev).status
        /\ dev'.halt = Takes(dev).halt /\ dev'.left = Takes(dev).left
        /\ dev'.tog["out"] = 1 - dev.tog["out"] /\ dev'.tog["in"] = dev.tog["in"]
    BY <2>1, <2>2, FlippedFacts DEF Pipes
  <2>4. /\ xfer'.pid = "out" /\ xfer'.tog = 1 - xfer.tog /\ xfer'.got = xfer.got + 1
        /\ xfer'.want = xfer.want
        /\ xfer'.state = IF xfer.got + 1 = xfer.want THEN "ok" ELSE "active"
    BY <2>1, ProgressFacts
  <2>5. dev'.tog["in"] = Tog("in")' /\ dev'.tog["out"] = Tog("out")'
    BY <1>0, <2>1, <2>3, <2>4 DEF Tog
  <2>6. \A p \in Pipes : dev'.tog[p] = Tog(p)'
    BY <2>5 DEF Pipes
  <2>7. CASE pc = "command"
    <3>1. dev.phase = "command"
      BY <2>1, <2>7 DEF Fine
    <3>2. /\ dev'.halt = {} /\ dev'.status = "good"
          /\ IF req.n = 0 THEN dev'.phase = "status"
             ELSE dev'.phase = req.dir /\ dev'.left = req.n - 0
      BY <1>0, <2>1, <2>3, <2>7, <3>1, TakesFacts
    <3>3. xfer'.state = "ok"
      <4>1. xfer.want = 1 /\ xfer.got < xfer.want
        BY <2>1, <2>7 DEF WellFormed, XferOK
      <4>2. QED
        BY <1>0, <2>4, <4>1
    <3>4. QED
      BY <2>1, <2>6, <2>7, <3>2, <3>3 DEF Fine
  <2>8. CASE pc = "data"
    <3>1. /\ dev.phase = "out" /\ req.dir = "out" /\ dev.left = req.n - (sent + xfer.got)
          /\ sent + xfer.got + 1 <= req.n
      BY <1>1, <2>1, <2>8
    <3>2. /\ dev'.halt = {} /\ dev'.status = "good" /\ dev'.left = dev.left - 1
          /\ dev'.phase = IF dev.left = 1 THEN "status" ELSE "out"
      BY <1>0, <2>1, <2>3, <2>8, <3>1, TakesFacts
    <3>3. sent' + xfer'.got = sent + xfer.got + 1
      BY <1>0, <2>1, <2>4
    <3>4. IF sent' + xfer'.got = req.n THEN dev'.phase = "status"
          ELSE dev'.phase = req.dir /\ dev'.left = req.n - (sent' + xfer'.got)
      BY <1>0, <3>1, <3>2, <3>3
    <3>5. xfer'.state = "ok" => xfer'.got = xfer'.want
      BY <2>4
    <3>6. QED
      BY <2>1, <2>4, <2>6, <2>8, <3>2, <3>4, <3>5 DEF Fine
  <2>9. QED
    BY <2>1, <2>7, <2>8
<1>3. CASE SectorIn
  <2>1. xfer.state = "active" /\ xfer.pid = "in" /\ dev.phase = "in" /\ pc = "data"
    <3>1. xfer.state = "active" /\ xfer.pid = "in" /\ dev.phase = "in"
      BY <1>3 DEF SectorIn, Active
    <3>2. pc # "command" /\ pc # "retry"
      BY <3>1, NoTransferFacts DEF WellFormed, XferOK
    <3>3. QED
      BY <3>1, <3>2 DEF Fine
  <2>2. /\ req.dir = "in" /\ xfer.what = "data" /\ xfer.tog = dev.tog["in"]
        /\ dev.left = req.n - (sent + xfer.got) /\ sent + xfer.got + 1 <= req.n /\ dev.status = "good"
    BY <1>0, <1>1, <2>1, NoTransferFacts DEF WellFormed, XferOK, Tog
  <2>3. /\ pc' = pc /\ htog' = htog /\ sent' = sent /\ req' = req /\ xfer' = Progress
        /\ dev' = Flipped(Moved(dev), "in") /\ "in" \in Pipes
    BY <1>3, <2>2 DEF SectorIn, Pipes
  <2>4. /\ Moved(dev) \in DevType /\ Moved(dev).left = dev.left - 1
        /\ Moved(dev).status = dev.status /\ Moved(dev).halt = dev.halt /\ Moved(dev).tog = dev.tog
        /\ Moved(dev).phase = IF dev.left = 1 THEN "status" ELSE "in"
    BY <1>0, <2>1, MovedFacts DEF WellFormed, DevOK
  <2>5. /\ dev'.phase = Moved(dev).phase /\ dev'.status = Moved(dev).status
        /\ dev'.halt = Moved(dev).halt /\ dev'.left = Moved(dev).left
        /\ dev'.tog["in"] = 1 - dev.tog["in"] /\ dev'.tog["out"] = dev.tog["out"]
    BY <2>3, <2>4, FlippedFacts DEF Pipes
  <2>6. /\ xfer'.pid = "in" /\ xfer'.tog = 1 - xfer.tog /\ xfer'.got = xfer.got + 1
        /\ xfer'.want = xfer.want
        /\ xfer'.state = IF xfer.got + 1 = xfer.want THEN "ok" ELSE "active"
    BY <2>1, <2>3, ProgressFacts
  <2>7. dev'.tog["in"] = Tog("in")' /\ dev'.tog["out"] = Tog("out")'
    BY <1>0, <2>1, <2>2, <2>3, <2>5, <2>6 DEF Tog
  <2>8. \A p \in Pipes : dev'.tog[p] = Tog(p)'
    BY <2>7 DEF Pipes
  <2>9. sent' + xfer'.got = sent + xfer.got + 1
    BY <1>0, <2>3, <2>6
  <2>10. IF sent' + xfer'.got = req.n THEN dev'.phase = "status"
         ELSE dev'.phase = req.dir /\ dev'.left = req.n - (sent' + xfer'.got)
    BY <1>0, <2>2, <2>4, <2>5, <2>9
  <2>11. QED
    BY <1>0, <2>1, <2>2, <2>3, <2>4, <2>5, <2>6, <2>8, <2>10 DEF Fine
<1>4. CASE StatusIn
  <2>1. xfer.state = "active" /\ xfer.pid = "in" /\ dev.phase = "status" /\ pc = "status"
    <3>1. xfer.state = "active" /\ xfer.pid = "in" /\ dev.phase = "status"
      BY <1>4 DEF StatusIn, Active
    <3>2. pc # "command" /\ pc # "retry"
      BY <3>1, NoTransferFacts DEF WellFormed, XferOK
    <3>3. pc # "data"
      BY <1>0, <1>1, <3>1 DEF Pipes
    <3>4. QED
      BY <3>1, <3>2, <3>3 DEF Fine
  <2>2. xfer.what = "csw" /\ dev.status = "good" /\ xfer.tog = dev.tog["in"]
    BY <1>0, <2>1 DEF WellFormed, XferOK, Fine, Tog
  <2> DEFINE d == [dev EXCEPT !.phase = "command"]
  <2>3. d \in DevType /\ d.halt = dev.halt /\ d.tog = dev.tog
    BY <1>0 DEF DevType
  <2>4. /\ dev' = Flipped(d, "in") /\ "in" \in Pipes
        /\ pc' = pc /\ htog' = htog /\ xfer' = EndShort /\ csw' = dev.status
    BY <1>4, <2>2 DEF StatusIn, Pipes
  <2> HIDE DEF d
  <2>5. /\ dev'.halt = {} /\ dev'.tog["in"] = 1 - dev.tog["in"] /\ dev'.tog["out"] = dev.tog["out"]
    BY <1>0, <2>3, <2>4, FlippedFacts DEF Pipes
  <2>6. xfer'.pid = "in" /\ xfer'.tog = 1 - xfer.tog /\ xfer'.state = "ok"
    BY <2>1, <2>4, EndFacts
  <2>7. dev'.tog["in"] = Tog("in")' /\ dev'.tog["out"] = Tog("out")'
    BY <1>0, <2>1, <2>2, <2>4, <2>5, <2>6 DEF Tog
  <2>8. \A p \in Pipes : dev'.tog[p] = Tog(p)'
    BY <2>7 DEF Pipes
  <2>9. QED
    BY <2>1, <2>2, <2>4, <2>5, <2>6, <2>8 DEF Fine
<1>5. CASE Unanswered
  <2>1. xfer.state = "active" /\ ~Accepts(xfer.pid)
    BY <1>0, <1>5 DEF Unanswered
  <2>2. pc \in {"command", "data", "status"}
    BY <2>1, NoTransferFacts DEF WellFormed, XferOK, Fine
  <2>3. Accepts(xfer.pid)
    <3>1. CASE pc = "command"
      BY <2>1, <3>1 DEF Accepts, WellFormed, XferOK, Fine
    <3>2. CASE pc = "data"
      BY <1>0, <1>1, <2>1, <3>2 DEF Accepts, Pipes
    <3>3. CASE pc = "status"
      BY <2>1, <3>3 DEF Accepts, WellFormed, XferOK, Fine
    <3>4. QED
      BY <2>2, <3>1, <3>2, <3>3
  <2>4. QED
    BY <2>1, <2>3
<1>6. QED
  BY <1>2, <1>3, <1>4, <1>5

-----------------------------------------------------------------------------
(* Faults and attempts *)

\* The steps within an attempt.
Inner ==
  \/ SendCommand \/ CommandDone \/ NextChunk \/ ChunkDone \/ AskStatus \/ StatusDone \/ StatusFails
  \/ ClearIn \/ ResetDevice \/ ResetIn \/ ResetOut \/ Wire \/ Faults

LEMMA ControlCounts ==
  ASSUME NEW d, Control_transfer(d) PROVE faults' = faults \/ faults' = faults + 1
BY DEF Control_transfer

LEMMA InnerFacts ==
  ASSUME WellFormed, Inner
  PROVE  /\ req' = req /\ tries' = tries /\ settled' = settled
         /\ faults' = faults \/ faults' = faults + 1
         /\ result' = result \/ result' = "ok"
         /\ Faults => faults' = faults + 1
<1>1. CASE SendCommand \/ CommandDone \/ NextChunk \/ ChunkDone \/ AskStatus \/ StatusDone \/ StatusFails
  <2>1. ~Faults \/ faults' = faults + 1
    BY DEF Faults, Slow, LostHandshake, MediumError, LateError, EmptyPacket, Fault
  <2>2. QED
    BY <1>1, <2>1 DEF SendCommand, CommandDone, NextChunk, ChunkDone, AskStatus, StatusDone, StatusFails, host
<1>2. CASE ClearIn \/ ResetDevice \/ ResetIn \/ ResetOut
  <2>1. ~Faults \/ faults' = faults + 1
    BY DEF Faults, Slow, LostHandshake, MediumError, LateError, EmptyPacket, Fault
  <2>2. QED
    BY <1>2, <2>1, ControlCounts DEF ClearIn, ResetDevice, ResetIn, ResetOut, host
<1>3. CASE Wire
  <2>1. ~Faults \/ faults' = faults + 1
    BY DEF Faults, Slow, LostHandshake, MediumError, LateError, EmptyPacket, Fault
  <2>2. QED
    BY <1>3, <2>1 DEF Wire, PacketOut, SectorIn, StatusIn, Unanswered, host
<1>4. CASE Faults
  BY <1>4 DEF Faults, Slow, LostHandshake, MediumError, LateError, EmptyPacket, Fault, host
<1>5. QED
  BY <1>1, <1>2, <1>3, <1>4 DEF Inner

LEMMA Attempt ==
  ASSUME WellFormed, InRange, Inner, faults' = faults
  PROVE  /\ Off => Off' \/ pc' = "idle"
         /\ Fine => Fine' \/ pc' = "idle"
<1>1. ~Faults
  BY InnerFacts, Types, Constants
<1>2. ASSUME Off
      PROVE  Off' \/ pc' = "idle"
  BY <1>1, <1>2, OffDriver, OffRecovery, OffWire DEF Inner, Wire
<1>3. ASSUME Fine
      PROVE  Fine' \/ pc' = "idle"
  <2>1. ~(ClearIn \/ ResetDevice \/ ResetIn \/ ResetOut)
    BY <1>3 DEF Fine, ClearIn, ResetDevice, ResetIn, ResetOut
  <2>2. QED
    BY <1>1, <1>3, <2>1, FineDriver, FineWire DEF Inner, Wire
<1>4. QED
  BY <1>2, <1>3

LEMMA InStepFine ==
  ASSUME pc' = "retry", xfer' = NoTransfer, InStep'
  PROVE  Fine'
<1>1. \A p \in Pipes : dev'.tog[p] = Tog(p)'
  BY NoTransferFacts DEF InStep, Tog
<1>2. QED
  BY <1>1, NoTransferFacts DEF Fine, InStep

LEMMA InitInv == Init => IInv
<1> SUFFICES ASSUME Init PROVE IInv
  OBVIOUS
<1>1. /\ pc = "idle" /\ req = NoRequest /\ tries = 0 /\ sent = 0 /\ faults = 0
      /\ csw = "none" /\ result = "none" /\ settled = TRUE /\ masked = FALSE
      /\ xfer = NoTransfer
  BY DEF Init
<1>2. req \in [dir : Pipes, lba : 0..(Sectors - 1), n : 0..MaxCount] /\ req.dir = "in"
  BY <1>1, Constants DEF NoRequest, Pipes
<1>3. /\ mem \in [0..(MaxCount - 1) -> Contents \cup {Filler, Status}]
      /\ htog \in [Pipes -> {0, 1}] /\ disk \in [0..(Sectors - 1) -> Contents]
  BY DEF Init, Contents
<1>4. dev \in DevType /\ dev.phase = "command"
  <2>1. [p \in Pipes |-> 0] \in [Pipes -> {0, 1}] /\ 0 \in 0..Sectors /\ 0 \in 0..MaxCount
        /\ {} \in SUBSET Pipes
    BY Constants
  <2> DEFINE t == [p \in Pipes |-> 0]
             h == {}
  <2>2. dev = [phase |-> "command", next |-> 0, left |-> 0, status |-> "good", halt |-> h, tog |-> t]
    BY DEF Init
  <2>3. t \in [Pipes -> {0, 1}] /\ h \in SUBSET Pipes
    BY <2>1
  <2> HIDE DEF t, h
  <2>4. QED
    BY <2>1, <2>2, <2>3 DEF DevType
<1>5. TypeOK
  <2>0. settled \in BOOLEAN /\ masked \in BOOLEAN
    BY <1>1
  <2>1. tries \in 0..3 /\ sent \in 0..MaxCount /\ faults \in 0..MaxFaults
    <3>1. 0 \in 0..3 /\ 0 \in 0..MaxCount /\ 0 \in 0..MaxFaults
      BY Constants
    <3>2. QED
      BY <1>1, <3>1
  <2>2. xfer \in XferType
    BY <1>1, NoTransferFacts
  <2>3. QED
    BY <1>1, <1>2, <1>3, <1>4, <2>0, <2>1, <2>2 DEF TypeOK, DevType, XferType
<1>6. XferOK /\ DevOK /\ CarriedOK
  BY <1>1, <1>2, <1>4, NoTransferFacts DEF XferOK, DevOK, CarriedOK
<1>7. CallOK /\ FaultsNeeded /\ Budget
  BY <1>1 DEF CallOK, FaultsNeeded, Budget
<1>8. QED
  BY <1>5, <1>6, <1>7 DEF IInv, WellFormed

LEMMA CallBudget ==
  ASSUME IInv, NEW dir \in Pipes, NEW r \in Requests, NEW data \in Payloads,
         Read_write_usb(dir, r[1], r[2], data)
  PROVE  FaultsNeeded' /\ Budget'
<1>1. /\ pc = "idle" /\ pc' = "retry" /\ tries' = 3 /\ result' = "none" /\ faults' = 0
      /\ settled' = (dev.phase = "command" /\ dev.tog = htog /\ dev.halt = {})
      /\ dev' = dev /\ htog' = htog /\ xfer' = xfer
  BY DEF Read_write_usb
<1>2. xfer' = NoTransfer
  BY <1>1 DEF IInv, WellFormed, XferOK
<1>3. settled' => Fine'
  BY <1>1, <1>2, InStepFine DEF InStep
<1>4. Off'
  BY <1>1 DEF Off
<1>5. QED
  BY <1>1, <1>3, <1>4 DEF FaultsNeeded, Budget

LEMMA TryAgainBudget ==
  ASSUME IInv, TryAgain
  PROVE  FaultsNeeded' /\ Budget'
<1>1. /\ pc = "again" /\ tries' = tries - 1 /\ pc' = (IF tries = 1 THEN "idle" ELSE "retry")
      /\ result' = (IF tries = 1 THEN "error" ELSE result)
      /\ req' = req /\ faults' = faults /\ settled' = settled /\ xfer' = xfer /\ dev' = dev /\ htog' = htog
  BY DEF TryAgain
<1>2. xfer' = NoTransfer /\ result = "none" /\ tries \in 1..3 /\ faults \in Nat
  BY <1>1, Types, Constants DEF IInv, WellFormed, XferOK, CallOK
<1>3. InRange' <=> InRange
  BY <1>1 DEF InRange
<1>4. ~Fine
  BY <1>1 DEF Fine
<1>5. Off => InStep'
  BY <1>1 DEF Off, InStep
<1>6. ASSUME tries # 1
      PROVE  Off' /\ (Off => Fine')
  BY <1>1, <1>2, <1>5, <1>6, InStepFine DEF Off
<1>7. InRange =>
        \/ faults >= IF settled THEN 2 ELSE 1
        \/ settled /\ faults = 1 /\ (tries = 3 \/ (tries = 2 /\ Off))
        \/ ~settled /\ faults = 0 /\ tries = 3 /\ Off
  BY <1>1, <1>4 DEF IInv, Budget
<1>8. FaultsNeeded'
  BY <1>1, <1>2, <1>3, <1>7 DEF FaultsNeeded
<1>9. Budget'
  BY <1>1, <1>2, <1>3, <1>6, <1>7 DEF Budget
<1>10. QED
  BY <1>8, <1>9

LEMMA InnerBudget ==
  ASSUME IInv, Inner, pc # "idle"
  PROVE  FaultsNeeded' /\ Budget'
<1>1. WellFormed /\ CallOK /\ Budget
  BY DEF IInv
<1>2. /\ req' = req /\ tries' = tries /\ settled' = settled
      /\ faults' = faults \/ faults' = faults + 1
      /\ result' = "none" \/ result' = "ok"
      /\ faults \in Nat
  BY <1>1, InnerFacts, Types, Constants DEF CallOK
<1>3. FaultsNeeded'
  BY <1>2 DEF FaultsNeeded
<1>4. Budget'
  <2> SUFFICES ASSUME InRange, pc' # "idle"
               PROVE  \/ faults' >= IF settled THEN 2 ELSE 1
                      \/ settled /\ faults' = 1 /\ (tries = 3 \/ (tries = 2 /\ Off') \/ Fine')
                      \/ settled /\ faults' = 0 /\ tries = 3 /\ Fine'
                      \/ ~settled /\ faults' = 0 /\ ((tries = 3 /\ Off') \/ Fine')
    BY <1>2 DEF Budget, InRange
  <2>1. \/ faults >= IF settled THEN 2 ELSE 1
        \/ settled /\ faults = 1 /\ (tries = 3 \/ (tries = 2 /\ Off) \/ Fine)
        \/ settled /\ faults = 0 /\ tries = 3 /\ Fine
        \/ ~settled /\ faults = 0 /\ ((tries = 3 /\ Off) \/ Fine)
    BY <1>1 DEF Budget
  <2>2. CASE faults' = faults
    <3>1. (Off => Off') /\ (Fine => Fine')
      BY <1>1, <2>2, Attempt
    <3>2. QED
      BY <2>1, <2>2, <3>1
  <2>3. CASE faults' = faults + 1
    BY <1>2, <2>1, <2>3
  <2>4. QED
    BY <1>2, <2>2, <2>3
<1>5. QED
  BY <1>3, <1>4

LEMMA NextInv == IInv /\ [Next]_vars => IInv'
<1> SUFFICES ASSUME IInv, [Next]_vars PROVE IInv'
  OBVIOUS
<1>1. WellFormed' /\ CallOK'
  BY NextWell DEF IInv
<1>2. FaultsNeeded' /\ Budget'
  <2>1. CASE UNCHANGED vars
    BY <2>1 DEF vars, host, IInv, FaultsNeeded, Budget, InRange, Off, Fine, InStep, Tog
  <2>2. CASE Call
    BY <2>2, CallBudget DEF Call
  <2>3. CASE TryAgain
    BY <2>3, TryAgainBudget
  <2>4. CASE Inner
    <3>1. pc # "idle"
      <4>1. WellFormed /\ (pc = "idle" => xfer.state = "none")
        BY NoTransferFacts DEF IInv, WellFormed, XferOK
      <4>2. CASE Wire \/ Faults
        BY <4>1, <4>2 DEF Wire, Faults, PacketOut, SectorIn, StatusIn, Unanswered, Active, Slow,
                          LostHandshake, MediumError, LateError, EmptyPacket, Fault
      <4>3. CASE ~(Wire \/ Faults)
        BY <2>4, <4>3 DEF Inner, SendCommand, CommandDone, NextChunk, ChunkDone, AskStatus,
                          StatusDone, StatusFails, ClearIn, ResetDevice, ResetIn, ResetOut
      <4>4. QED
        BY <4>2, <4>3
    <3>2. QED
      BY <2>4, <3>1, InnerBudget
  <2>5. QED
    BY <2>1, <2>2, <2>3, <2>4 DEF Next, Driver, Inner
<1>3. QED
  BY <1>1, <1>2 DEF IInv

LEMMA Invariant == Spec => []IInv
BY InitInv, NextInv, PTL DEF Spec

-----------------------------------------------------------------------------
(* The properties *)

\* The driver and the device stay well formed: no sector is moved past the end
\* of the request or of the device.
THEOREM Typing == Spec => []TypeOK
<1>1. IInv => TypeOK
  BY DEF IInv, WellFormed
<1>2. QED
  BY <1>1, Invariant, PTL

\* Read_write_usb fails a request in range only after two faults, or after one
\* when the device was out of step with the driver: its attempts and the reset
\* between them are enough for any single fault.
THEOREM Recovery == Spec => []FaultsNeeded
<1>1. IInv => FaultsNeeded
  BY DEF IInv
<1>2. QED
  BY <1>1, Invariant, PTL

-----------------------------------------------------------------------------
(***************************************************************************)
(* What the calls of Read_write_usb do to the data, for every device and   *)
(* every sequence of requests, while at most two things fail in a call:    *)
(* success means that the sectors are there, and no other sector changes.  *)
(*                                                                         *)
(* Three faults are too many: a data packet whose handshake is lost, and   *)
(* then the bulk reset and the clearing of the OUT pipe, leave the device  *)
(* waiting for the sectors of the old command with its toggle one ahead;   *)
(* it drops the next command as a repeated packet and takes its data.      *)
(***************************************************************************)

\* The device has acknowledged the command of this attempt.
After == pc \in {"data", "status", "clear", "status2"} \/ (pc = "command" /\ xfer.state = "ok")
\* Its data stage goes on.
Moving == pc = "data" /\ xfer.state # "failed"

\* The first k sectors of the request are the same in the buffer and on the device.
Done(k) == InRange /\ \A i \in 0..(k - 1) : mem[i] = disk[req.lba + i]

\* A device that moves sectors is at the one the driver is at.
InPlace(pipe) ==
  /\ req.dir = pipe
  /\ dev.left <= req.n /\ dev.next + dev.left = req.lba + req.n
  /\ Done(req.n - dev.left)
  /\ Moving => /\ dev.left = req.n - (sent + xfer.got) /\ dev.tog[pipe] = Tog(pipe)
               /\ xfer.state = "ok" => xfer.got = xfer.want
  /\ pc = "command" => dev.left = req.n /\ dev.tog[pipe] = Tog(pipe)

Counts == req.dir = "out" \/ ~masked

Placed ==
  /\ (After /\ dev.phase = "out") => InPlace("out")
  /\ (After /\ dev.phase = "in") => req.dir = "in" /\ (~masked => InPlace("in"))
  /\ (After /\ dev.phase = "status" /\ dev.status = "good" /\ Counts) => Done(req.n)
  /\ (pc \in {"status", "status2"} /\ xfer.state = "ok") =>
       /\ dev.phase \in {"command", "status"}
       /\ (csw = "good" /\ Counts) => Done(req.n)

\* A device that waits for the sectors of a write does so in its data stage, or
\* something has failed and the recovery of the attempt is at work, or both the
\* reset and the attempts are over and its toggle is the driver's.
OutStep ==
  dev.phase = "out" =>
    /\ "out" \notin dev.halt
    /\ (pc \in {"idle", "retry", "again"} \/ (pc = "command" /\ xfer.state = "active")) =>
         dev.tog["out"] = Tog("out")
    /\ (\/ pc \in {"status", "clear", "status2", "reset"}
        \/ pc \in {"command", "data"} /\ xfer.state = "failed") => faults >= 1
    /\ pc \in {"resetIn", "resetOut"} => faults >= 2

\* The toggle of the IN pipe while no clearing of it can have been missed.
InStepUnmasked ==
  ~masked =>
    /\ pc \in {"retry", "command", "again"} => dev.tog["in"] = htog["in"]
    /\ (pc \in {"status", "status2"} /\ xfer.state = "ok") => dev.tog["in"] = xfer.tog
    /\ pc = "resetOut" => dev.tog["in"] = 0

DataInv ==
  /\ WellFormed /\ CallOK /\ SuccessIsReal
  /\ Placed /\ OutStep /\ InStepUnmasked

-----------------------------------------------------------------------------
(* The steps of the driver *)

\* Where the sectors are does not depend on the stage.
LEMMA DoneSame ==
  ASSUME UNCHANGED <<req, mem, disk>>
  PROVE  \A k : Done(k)' <=> Done(k)
BY DEF Done, InRange

LEMMA Quiet ==
  ASSUME DataInv
  PROVE  /\ WellFormed /\ Placed /\ OutStep /\ InStepUnmasked
         /\ dev \in DevType /\ xfer \in XferType /\ req.n \in Nat /\ req.lba \in Nat /\ sent \in Nat
         /\ dev.left \in Nat /\ dev.next \in Nat /\ xfer.got \in Nat /\ xfer.want \in Nat
         /\ faults \in Nat /\ NoTransfer.state = "none" /\ NoTransfer.got = 0
         /\ pc \notin {"command", "data", "status", "status2"} => xfer = NoTransfer
BY Parts, Types, Constants, NoTransferFacts DEF DataInv, WellFormed, XferOK, DevType

LEMMA SendCommandData ==
  ASSUME DataInv, SendCommand PROVE Placed' /\ OutStep' /\ InStepUnmasked'
<1>1. /\ xfer'.state = "active" /\ xfer'.pid = "out" /\ xfer'.tog = htog["out"]
      /\ pc' = "command" /\ pc = "retry" /\ xfer.state = "none"
      /\ UNCHANGED <<req, mem, disk, dev, htog, masked, faults>>
  <2>1. 1 \in 0..MaxCount /\ "out" \in Pipes
    BY Constants DEF Pipes
  <2>2. QED
    BY <2>1, Quiet, BulkTransferFacts DEF SendCommand
<1>2. Placed'
  BY <1>1 DEF Placed, After
<1>3. OutStep'
  BY <1>1, Quiet DEF OutStep, Tog
<1>4. InStepUnmasked'
  BY <1>1, Quiet DEF InStepUnmasked
<1>5. QED
  BY <1>2, <1>3, <1>4

LEMMA CommandDoneData ==
  ASSUME DataInv, CommandDone PROVE Placed' /\ OutStep' /\ InStepUnmasked'
<1>1. /\ pc = "command" /\ xfer' = NoTransfer /\ sent' = 0 /\ sent = 0 /\ xfer.pid = "out"
      /\ UNCHANGED <<req, mem, disk, dev, masked, faults>>
      /\ \A k : Done(k)' <=> Done(k)
  BY Quiet, DoneSame DEF CommandDone, WellFormed, XferOK
<1>2. CASE xfer.state = "ok"
  <2>1. pc' = "data" /\ htog' = ToggleSaved
    BY <1>2 DEF CommandDone, Ended
  <2>2. htog'["out"] = xfer.tog /\ htog'["in"] = htog["in"]
    BY <1>1, <2>1, Quiet, SavedFacts DEF Pipes
  <2>3. Tog("in")' = Tog("in") /\ Tog("out")' = Tog("out")
    BY <1>1, <1>2, <2>2, Quiet DEF Tog
  <2>4. ASSUME NEW p \in Pipes, InPlace(p) PROVE InPlace(p)'
    <3>1. Tog(p)' = Tog(p)
      BY <2>3 DEF Pipes
    <3>2. dev.left = req.n /\ dev.tog[p] = Tog(p)
      BY <1>1, <2>4 DEF InPlace
    <3>3. Done(req.n - dev.left)' <=> Done(req.n - dev.left)
      BY <1>1 DEF Done, InRange
    <3>4. dev'.left = req'.n - (sent' + xfer'.got)
      BY <1>1, <3>2, Quiet
    <3>5. QED
      BY <1>1, <2>1, <2>4, <3>1, <3>2, <3>3, <3>4, Quiet DEF InPlace, Moving
  <2>5. Placed'
    <3>1. After
      BY <1>1, <1>2 DEF After
    <3>2. Done(req.n)' <=> Done(req.n)
      BY <1>1 DEF Done, InRange
    <3>3. Counts' <=> Counts
      BY <1>1 DEF Counts
    <3>4. QED
      BY <1>1, <2>1, <2>4, <3>1, <3>2, <3>3, Quiet DEF Placed, Pipes
  <2>6. OutStep'
    BY <1>1, <2>1, Quiet DEF OutStep
  <2>7. InStepUnmasked'
    BY <2>1 DEF InStepUnmasked
  <2>8. QED
    BY <2>5, <2>6, <2>7
<1>3. CASE xfer.state # "ok"
  <2>1. pc' = "reset" /\ xfer.state = "failed"
    BY <1>3 DEF CommandDone, Ended
  <2>2. Placed'
    BY <2>1 DEF Placed, After
  <2>3. OutStep' /\ InStepUnmasked'
    BY <1>1, <2>1, Quiet DEF OutStep, InStepUnmasked
  <2>4. QED
    BY <2>2, <2>3
<1>4. QED
  BY <1>2, <1>3

\* A step of the attempt that leaves the sectors where they are.
LEMMA PlacedKept ==
  ASSUME DataInv, UNCHANGED <<req, mem, disk>>, After, pc' # "command",
         dev'.phase = dev.phase, dev'.left = dev.left, dev'.next = dev.next, dev'.status = dev.status,
         masked => masked', ~(pc' \in {"status", "status2"} /\ xfer'.state = "ok"),
         \A p \in Pipes : (InPlace(p) /\ Moving') =>
           /\ dev.left = req.n - (sent' + xfer'.got) /\ dev'.tog[p] = Tog(p)'
           /\ xfer'.state = "ok" => xfer'.got = xfer'.want
  PROVE  Placed'
<1>1. ASSUME NEW p \in Pipes, InPlace(p) PROVE InPlace(p)'
  <2>1. Done(req.n - dev.left)' <=> Done(req.n - dev.left)
    BY DEF Done, InRange
  <2>2. Moving' => /\ dev.left = req.n - (sent' + xfer'.got) /\ dev'.tog[p] = Tog(p)'
                   /\ xfer'.state = "ok" => xfer'.got = xfer'.want
    BY <1>1
  <2>3. QED
    BY <1>1, <2>1, <2>2 DEF InPlace
<1>2. Done(req.n)' <=> Done(req.n)
  BY DEF Done, InRange
<1>3. Counts' => Counts
  BY DEF Counts
<1>4. QED
  BY <1>1, <1>2, <1>3, Quiet DEF Placed, Pipes

LEMMA NextChunkData ==
  ASSUME DataInv, NextChunk PROVE Placed' /\ OutStep' /\ InStepUnmasked'
<1>1. /\ pc = "data" /\ pc' = "data" /\ xfer = NoTransfer /\ sent < req.n
      /\ UNCHANGED <<req, mem, disk, dev, masked, faults, htog, sent>>
  BY Quiet, NoTransferFacts DEF NextChunk, Ended, host, WellFormed, XferOK
<1>2. /\ xfer'.state = "active" /\ xfer'.pid = req.dir /\ xfer'.tog = htog[req.dir] /\ xfer'.got = 0
  <2>1. Single_size \in 0..MaxCount /\ req.dir \in Pipes
    BY <1>1, Types, Quiet, Constants DEF Single_size
  <2>2. QED
    BY <2>1, Quiet, BulkTransferFacts DEF NextChunk
<1>3. After /\ Moving /\ pc' # "command" /\ ~(pc' \in {"status", "status2"})
  BY <1>1, Quiet DEF After, Moving
<1>4. ASSUME NEW p \in Pipes, InPlace(p)
      PROVE  /\ dev.left = req.n - (sent' + xfer'.got) /\ dev'.tog[p] = Tog(p)'
             /\ xfer'.state # "ok"
  BY <1>1, <1>2, <1>3, <1>4, Quiet DEF InPlace, Tog
<1>5. Placed'
  BY <1>1, <1>3, <1>4, PlacedKept
<1>6. QED
  BY <1>1, <1>2, <1>5, Quiet DEF OutStep, InStepUnmasked

LEMMA ChunkDoneData ==
  ASSUME DataInv, ChunkDone PROVE Placed' /\ OutStep' /\ InStepUnmasked'
<1>1. /\ pc = "data" /\ pc' = "data" /\ xfer' = NoTransfer /\ xfer.state = "ok"
      /\ htog' = ToggleSaved /\ sent' = sent + xfer.want
      /\ UNCHANGED <<req, mem, disk, dev, masked, faults>>
  BY DEF ChunkDone, Ended
<1>2. htog'[xfer.pid] = xfer.tog /\ \A p \in Pipes : p # xfer.pid => htog'[p] = htog[p]
  BY <1>1, Quiet, SavedFacts
<1>3. After /\ Moving /\ pc' # "command" /\ ~(pc' \in {"status", "status2"})
  BY <1>1, Quiet DEF After, Moving
<1>4. ASSUME NEW p \in Pipes, InPlace(p)
      PROVE  /\ dev.left = req.n - (sent' + xfer'.got) /\ dev'.tog[p] = Tog(p)'
             /\ xfer'.state # "ok"
  <2>1. xfer.got = xfer.want /\ dev.left = req.n - (sent + xfer.got) /\ dev.tog[p] = Tog(p)
    BY <1>1, <1>3, <1>4 DEF InPlace
  <2>2. Tog(p)' = htog'[p] /\ Tog(p) = htog'[p]
    BY <1>1, <1>2, Quiet DEF Tog
  <2>3. QED
    BY <1>1, <2>1, <2>2, Quiet
<1>5. Placed'
  BY <1>1, <1>3, <1>4, PlacedKept
<1>6. QED
  BY <1>1, <1>5, Quiet DEF OutStep, InStepUnmasked

LEMMA AskStatusData ==
  ASSUME DataInv, AskStatus PROVE Placed' /\ OutStep' /\ InStepUnmasked'
<1>1. /\ pc = "data" /\ pc' = "status"
      /\ UNCHANGED <<req, mem, disk, dev, masked, faults, htog, sent>>
  BY DEF AskStatus, host
<1>2. xfer'.state = "active"
  <2>1. 1 \in 0..MaxCount /\ "in" \in Pipes
    BY Constants DEF Pipes
  <2>2. QED
    BY <2>1, Quiet, BulkTransferFacts DEF AskStatus
<1>3. After /\ ~Moving' /\ pc' # "command"
  BY <1>1 DEF After, Moving
<1>4. Placed'
  BY <1>1, <1>2, <1>3, PlacedKept
<1>5. dev.phase = "out" => xfer.state = "failed"
  <2> SUFFICES ASSUME dev.phase = "out", xfer.state # "failed" PROVE FALSE
    OBVIOUS
  <2>1. xfer = NoTransfer /\ sent = req.n
    BY <1>1, Quiet, NoTransferFacts DEF AskStatus, Ended, WellFormed, XferOK
  <2>2. InPlace("out") /\ Moving
    BY <1>1, <1>3, Quiet DEF Placed, Moving
  <2>3. dev.left = req.n - (sent + xfer.got)
    BY <2>2 DEF InPlace
  <2>4. dev.left >= 1
    BY Quiet DEF WellFormed, DevOK
  <2>5. QED
    BY <2>1, <2>3, <2>4, Quiet
<1>6. OutStep'
  BY <1>1, <1>5, Quiet DEF OutStep
<1>7. InStepUnmasked'
  BY <1>1, <1>2 DEF InStepUnmasked
<1>8. QED
  BY <1>4, <1>6, <1>7

LEMMA StatusDoneData ==
  ASSUME DataInv, StatusDone PROVE Placed' /\ OutStep' /\ InStepUnmasked'
<1>1. /\ pc \in {"status", "status2"} /\ pc' \in {"idle", "again", "reset"} /\ xfer.state = "ok"
      /\ xfer' = NoTransfer /\ htog' = ToggleSaved /\ xfer.pid = "in"
      /\ UNCHANGED <<req, mem, disk, dev, masked, faults>>
  BY Quiet DEF StatusDone, Ended, AfterStatus, WellFormed, XferOK
<1>2. htog'["in"] = xfer.tog
  BY <1>1, Quiet, SavedFacts
<1>3. dev.phase \in {"command", "status"}
  BY <1>1, Quiet DEF Placed
<1>4. Placed'
  BY <1>1 DEF Placed, After
<1>5. QED
  BY <1>1, <1>2, <1>3, <1>4, Quiet DEF OutStep, InStepUnmasked

LEMMA StatusFailsData ==
  ASSUME DataInv, StatusFails PROVE Placed' /\ OutStep' /\ InStepUnmasked'
<1>1. /\ pc \in {"status", "status2"} /\ pc' \in {"clear", "reset"}
      /\ xfer' = NoTransfer
      /\ UNCHANGED <<req, mem, disk, dev, masked, faults>>
  BY DEF StatusFails, host
<1>2. After /\ ~Moving'
  BY <1>1 DEF After, Moving
<1>3. Placed'
  BY <1>1, <1>2, PlacedKept
<1>4. QED
  BY <1>1, <1>3, Quiet DEF OutStep, InStepUnmasked

LEMMA TryAgainData ==
  ASSUME DataInv, TryAgain PROVE Placed' /\ OutStep' /\ InStepUnmasked'
<1>1. /\ pc = "again" /\ pc' \in {"idle", "retry"} /\ xfer = NoTransfer
      /\ UNCHANGED <<req, mem, disk, dev, masked, faults, htog, xfer>>
  BY Quiet DEF TryAgain
<1>2. Placed'
  BY <1>1 DEF Placed, After
<1>3. QED
  BY <1>1, <1>2, Quiet DEF OutStep, InStepUnmasked, Tog

-----------------------------------------------------------------------------
(* The recovery *)

LEMMA ClearInData ==
  ASSUME DataInv, ClearIn PROVE Placed' /\ OutStep' /\ InStepUnmasked'
<1> DEFINE c == ClearEndpoint("in")
<1>1. /\ c \in DevType /\ c.phase = dev.phase /\ c.next = dev.next /\ c.left = dev.left
      /\ c.status = dev.status /\ c.halt \subseteq dev.halt
      /\ c.tog["out"] = dev.tog["out"]
  BY Quiet, ClearedFacts DEF Pipes
<1>2. Control_transfer(c)
  BY DEF ClearIn
<1> HIDE DEF c
<1>3. /\ (dev' = c \/ dev' = dev) /\ faults' >= faults /\ (masked => masked')
  BY <1>2, Quiet DEF Control_transfer
<1>4. /\ pc = "clear" /\ pc' = "status2" /\ xfer'.state = "active"
      /\ UNCHANGED <<req, mem, disk, sent>>
  BY NoTransferFacts DEF ClearIn, NoTransfer
<1>5. /\ dev'.phase = dev.phase /\ dev'.next = dev.next /\ dev'.left = dev.left
      /\ dev'.status = dev.status /\ dev'.halt \subseteq dev.halt
  BY <1>1, <1>3
<1>6. After /\ ~Moving'
  BY <1>4 DEF After, Moving
<1>7. Placed'
  BY <1>3, <1>4, <1>5, <1>6, PlacedKept
<1>8. dev.phase = "out" => faults >= 1
  BY <1>4, Quiet DEF OutStep
<1>9. faults' \in Nat
  BY <1>2, Quiet DEF Control_transfer
<1>10. OutStep'
  BY <1>3, <1>4, <1>5, <1>8, <1>9, Quiet DEF OutStep
<1>11. InStepUnmasked'
  BY <1>4 DEF InStepUnmasked
<1>12. QED
  BY <1>7, <1>10, <1>11

LEMMA ResetDeviceData ==
  ASSUME DataInv, ResetDevice PROVE Placed' /\ OutStep' /\ InStepUnmasked'
<1>1. pc = "reset" /\ pc' = "resetIn" /\ Control_transfer(BulkReset)
  BY DEF ResetDevice
<1>2. dev'.phase = "command" \/ (dev' = dev /\ faults' = faults + 1)
  BY <1>1, Quiet, ResetFacts DEF Control_transfer
<1>3. Placed'
  BY <1>1 DEF Placed, After
<1>4. OutStep'
  BY <1>1, <1>2, Quiet DEF OutStep
<1>5. QED
  BY <1>1, <1>3, <1>4 DEF InStepUnmasked

LEMMA ResetInData ==
  ASSUME DataInv, ResetIn PROVE Placed' /\ OutStep' /\ InStepUnmasked'
<1> DEFINE c == ClearEndpoint("in")
<1>1. c.phase = dev.phase /\ c.halt \subseteq dev.halt /\ c.tog["in"] = 0
  BY Quiet, ClearedFacts DEF Pipes
<1>2. Control_transfer(c)
  BY DEF ResetIn
<1> HIDE DEF c
<1>3. (dev' = c \/ (dev' = dev /\ masked')) /\ faults' \in Nat /\ faults' >= faults
  BY <1>2, Quiet DEF Control_transfer
<1>4. pc = "resetIn" /\ pc' = "resetOut"
  BY DEF ResetIn
<1>5. Placed'
  BY <1>4 DEF Placed, After
<1>6. dev'.phase = dev.phase /\ dev'.halt \subseteq dev.halt
  BY <1>1, <1>3
<1>7. dev.phase = "out" => faults >= 2 /\ "out" \notin dev.halt
  BY <1>4, Quiet DEF OutStep
<1>8. OutStep'
  BY <1>3, <1>4, <1>6, <1>7, Quiet DEF OutStep
<1>9. InStepUnmasked'
  BY <1>1, <1>3, <1>4 DEF InStepUnmasked
<1>10. QED
  BY <1>5, <1>8, <1>9

\* Here the bound on the faults is needed: a device still waiting for sectors has
\* used them up, and the clearing of its OUT pipe is not lost.
LEMMA ResetOutData ==
  ASSUME MaxFaults <= 2, DataInv, ResetOut PROVE Placed' /\ OutStep' /\ InStepUnmasked'
<1> DEFINE c == ClearEndpoint("out")
<1>1. /\ c.phase = dev.phase /\ c.halt \subseteq dev.halt /\ c.tog["out"] = 0
      /\ c.tog["in"] = dev.tog["in"]
  BY Quiet, ClearedFacts DEF Pipes
<1>2. Control_transfer(c)
  BY DEF ResetOut
<1> HIDE DEF c
<1>3. /\ dev' = c \/ (dev' = dev /\ masked' /\ faults < MaxFaults)
      /\ masked => masked'
  BY <1>2 DEF Control_transfer
<1>4. /\ pc = "resetOut" /\ pc' = "again" /\ xfer = NoTransfer /\ xfer' = xfer
      /\ htog' = [p \in Pipes |-> 0]
  BY Quiet DEF ResetOut
<1>5. htog'["in"] = 0 /\ htog'["out"] = 0
  BY <1>4 DEF Pipes
<1>6. Placed'
  BY <1>4 DEF Placed, After
<1>7. dev.phase = "out" => dev' = c
  BY <1>3, <1>4, Quiet, Constants DEF OutStep
<1>8. OutStep'
  BY <1>1, <1>3, <1>4, <1>5, <1>7, Quiet DEF OutStep, Tog
<1>9. InStepUnmasked'
  BY <1>1, <1>3, <1>4, <1>5, Quiet DEF InStepUnmasked
<1>10. QED
  BY <1>6, <1>8, <1>9

LEMMA CallData ==
  ASSUME DataInv, NEW dir \in Pipes, NEW r \in Requests, NEW data \in Payloads,
         Read_write_usb(dir, r[1], r[2], data)
  PROVE  Placed' /\ OutStep' /\ InStepUnmasked'
<1>1. /\ pc = "idle" /\ pc' = "retry" /\ masked' = (dev.tog["in"] # htog["in"])
      /\ UNCHANGED <<xfer, dev, htog>> /\ xfer = NoTransfer
  BY Quiet DEF Read_write_usb
<1>2. Placed'
  BY <1>1 DEF Placed, After
<1>3. QED
  BY <1>1, <1>2, Quiet DEF OutStep, InStepUnmasked, Tog

-----------------------------------------------------------------------------
(* The packets *)

\* Where an accepted command puts the device.
LEMMA AcceptedWhere ==
  ASSUME WellFormed, NEW d \in DevType
  PROVE  LET a == Accepted(d)
         IN /\ a.phase \in {"in", "out"} =>
                 /\ InRange /\ a.phase = req.dir /\ a.next = req.lba /\ a.left = req.n
                 /\ a.halt = d.halt
            /\ (a.phase = "status" /\ a.status = "good") => InRange /\ req.n = 0
<1>1. req.dir \in Pipes /\ req.lba \in 0..(Sectors - 1) /\ req.n \in 0..MaxCount
  BY Types
<1>2. CASE req.n = 0
  <2>1. InRange
    BY <1>1, <1>2, Constants DEF InRange
  <2>2. Accepted(d).phase = "status"
    BY <1>2, <2>1, AcceptedFacts
  <2>3. QED
    BY <1>2, <2>1, <2>2
<1>3. CASE req.n # 0 /\ req.lba + req.n > Sectors
  <2> DEFINE e == [d EXCEPT !.phase = "status", !.status = "failed", !.left = 0, !.next = 0]
             h == IF req.n = 0 THEN d.halt ELSE d.halt \cup {req.dir}
  <2>1. e \in DevType /\ e.phase = "status" /\ e.status = "failed"
    BY EndedFacts
  <2>2. Accepted(d) = [e EXCEPT !.halt = h]
    BY <1>3 DEF Accepted, Refused
  <2> HIDE DEF e, h
  <2>3. Accepted(d).phase = "status" /\ Accepted(d).status = "failed"
    BY <2>1, <2>2 DEF DevType
  <2>4. QED
    BY <2>3
<1>4. CASE req.n # 0 /\ ~(req.lba + req.n > Sectors)
  <2>1. InRange
    BY <1>1, <1>4, Constants DEF InRange
  <2>2. Accepted(d) = [d EXCEPT !.phase = req.dir, !.status = "good", !.next = req.lba, !.left = req.n]
    BY <1>4 DEF Accepted
  <2>3. Accepted(d).next = req.lba /\ Accepted(d).left = req.n
    BY <2>2 DEF DevType
  <2>4. QED
    BY <1>1, <1>4, <2>1, <2>3, AcceptedFacts DEF Pipes
<1>5. QED
  BY <1>2, <1>3, <1>4

LEMMA DoneMore ==
  ASSUME NEW k \in Nat, Done(k), req' = req, mem'[k] = disk'[req.lba + k],
         \A i \in 0..(k - 1) : mem'[i] = mem[i] /\ disk'[req.lba + i] = disk[req.lba + i]
  PROVE  Done(k + 1)'
<1>1. \A i \in 0..((k + 1) - 1) : i = k \/ i \in 0..(k - 1)
  OBVIOUS
<1>2. QED
  BY <1>1 DEF Done, InRange

\* A command the device takes, whether its handshake arrives or not.
LEMMA CommandTaken ==
  ASSUME DataInv, pc = "command", xfer.state = "active", dev.phase \in {"command", "out"},
         "out" \notin dev.halt,
         dev' = Flipped(Takes(dev), "out"), disk' = IF Stored THEN StoredAt ELSE disk
  PROVE  /\ disk' = disk
         /\ dev'.phase \in {"in", "out"} =>
              /\ InRange /\ dev'.phase = req.dir /\ dev'.next = req.lba /\ dev'.left = req.n
              /\ "out" \notin dev'.halt
         /\ (dev'.phase = "status" /\ dev'.status = "good") => InRange /\ req.n = 0
         /\ dev'.tog["out"] = 1 - dev.tog["out"] /\ dev'.tog["in"] = dev.tog["in"]
<1>1. xfer.pid = "out" /\ xfer.what = "cbw"
  BY Quiet DEF WellFormed, XferOK
<1>2. Takes(dev) \in DevType /\ Takes(dev).tog = dev.tog
  BY <1>1, Quiet, TakesFacts
<1>3. /\ dev'.phase = Takes(dev).phase /\ dev'.next = Takes(dev).next /\ dev'.left = Takes(dev).left
      /\ dev'.status = Takes(dev).status /\ dev'.halt = Takes(dev).halt
      /\ dev'.tog["out"] = 1 - dev.tog["out"] /\ dev'.tog["in"] = dev.tog["in"]
  <2> DEFINE t == Takes(dev)
  <2> HIDE DEF t
  <2>1. t \in DevType /\ t.tog = dev.tog /\ dev' = Flipped(t, "out") /\ "out" \in Pipes
        /\ "in" \in Pipes \ {"out"}
    BY <1>2 DEF t, Pipes
  <2>2. /\ dev'.phase = t.phase /\ dev'.next = t.next /\ dev'.left = t.left
        /\ dev'.status = t.status /\ dev'.halt = t.halt
        /\ dev'.tog["out"] = 1 - t.tog["out"] /\ \A q \in Pipes \ {"out"} : dev'.tog[q] = t.tog[q]
    BY <2>1, FlippedFacts
  <2>3. QED
    BY <2>1, <2>2 DEF t
<1>4. disk' = disk
  BY <1>1 DEF Stored
<1>5. CASE dev.phase = "command"
  <2>1. Takes(dev) = Accepted(dev)
    BY <1>1, <1>5 DEF Takes
  <2>2. QED
    BY <1>3, <1>4, <2>1, Quiet, AcceptedWhere
<1>6. CASE dev.phase = "out"
  <2>1. Takes(dev) = [dev EXCEPT !.phase = "status", !.status = "failed", !.left = 0, !.next = 0]
    BY <1>1, <1>6 DEF Takes
  <2>2. Takes(dev).phase = "status" /\ Takes(dev).status = "failed"
    BY <2>1, Quiet, EndedFacts
  <2>3. QED
    BY <1>3, <1>4, <2>2
<1>7. QED
  BY <1>5, <1>6

\* A sector the device takes: it is stored where the driver sends it.
LEMMA SectorTaken ==
  ASSUME DataInv, pc = "data", Active("out"), dev.phase = "out", UNCHANGED <<req, mem>>,
         dev' = Flipped(Takes(dev), "out"), disk' = IF Stored THEN StoredAt ELSE disk,
         NEW k, k = sent + xfer.got
  PROVE  /\ req.dir = "out" /\ InRange /\ k \in Nat /\ k < req.n
         /\ disk' = [disk EXCEPT ![req.lba + k] = mem[k]]
         /\ dev'.left = req.n - (k + 1) /\ Done(k + 1)' /\ dev'.halt = dev.halt
         /\ xfer.tog = dev.tog["out"] /\ dev'.tog["out"] = 1 - dev.tog["out"]
         /\ \/ dev'.phase = "out" /\ dev'.next + dev'.left = req.lba + req.n
            \/ dev'.phase = "status" /\ dev'.left = 0
<1>0. /\ dev.left \in Nat /\ dev.next \in Nat /\ req.lba \in Nat /\ sent \in Nat /\ xfer.got \in Nat
      /\ req.n \in 0..MaxCount /\ MaxCount \in Nat /\ Sectors \in Nat /\ k = sent + xfer.got
  BY Quiet, Types, Constants
<1>1. xfer.pid = "out" /\ xfer.what = "data" /\ xfer.state = "active" /\ req.dir = "out"
  BY Quiet DEF Active, WellFormed, XferOK, NoTransfer
<1>2. InPlace("out") /\ Moving
  BY <1>1, Quiet DEF Placed, After, Moving
<1>3. /\ dev.left = req.n - k /\ dev.tog["out"] = xfer.tog /\ Done(req.n - dev.left)
      /\ dev.next + dev.left = req.lba + req.n
  BY <1>1, <1>2 DEF InPlace, Tog
<1>4. dev.left >= 1 /\ dev.next + dev.left <= Sectors
  BY Quiet DEF WellFormed, DevOK
<1>5. /\ k \in Nat /\ k < req.n /\ dev.next = req.lba + k /\ req.n - dev.left = k
      /\ req.lba + k \in 0..(Sectors - 1) /\ k \in 0..(MaxCount - 1)
  BY <1>0, <1>3, <1>4
<1>6. InRange /\ Done(k)
  BY <1>3, <1>5 DEF Done
<1>7. disk' = [disk EXCEPT ![req.lba + k] = mem[k]]
  BY <1>1, <1>5 DEF Stored, StoredAt
<1>8. Done(k + 1)'
  <2>1. disk'[req.lba + k] = mem[k]
    BY <1>5, <1>7, Quiet, Types
  <2>2. \A i \in 0..(k - 1) : req.lba + i # req.lba + k
    BY <1>5, Quiet
  <2>3. \A i \in 0..(k - 1) : req.lba + i \in 0..(Sectors - 1)
    BY <1>0, <1>5
  <2>4. \A i \in 0..(k - 1) : disk'[req.lba + i] = disk[req.lba + i]
    BY <1>7, <2>2, <2>3, Quiet, Types
  <2>5. QED
    BY <1>5, <1>6, <2>1, <2>4, DoneMore
<1>9. /\ dev'.left = dev.left - 1 /\ dev'.halt = dev.halt /\ dev'.tog["out"] = 1 - dev.tog["out"]
      /\ IF dev.left = 1 THEN dev'.phase = "status" /\ dev'.next = 0
         ELSE dev'.phase = dev.phase /\ dev'.next = dev.next + 1
  <2> DEFINE m == Moved(dev)
  <2>1. /\ m \in DevType /\ m.left = dev.left - 1 /\ m.halt = dev.halt /\ m.tog = dev.tog
        /\ IF dev.left = 1 THEN m.phase = "status" /\ m.next = 0
           ELSE m.phase = dev.phase /\ m.next = dev.next + 1
    BY <1>4, Quiet, MovedFacts
  <2>2. Takes(dev) = m
    BY <1>1 DEF Takes
  <2> HIDE DEF m
  <2>3. dev' = Flipped(m, "out") /\ "out" \in Pipes
    BY <2>2 DEF Pipes
  <2>4. /\ dev'.phase = m.phase /\ dev'.next = m.next /\ dev'.left = m.left
        /\ dev'.halt = m.halt /\ dev'.tog["out"] = 1 - m.tog["out"]
    BY <2>1, <2>3, FlippedFacts
  <2>5. QED
    BY <2>1, <2>4
<1>10. dev'.left = req.n - (k + 1)
  BY <1>3, <1>5, <1>9, Quiet
<1>11. \/ dev'.phase = "out" /\ dev'.next + dev'.left = req.lba + req.n
       \/ dev'.phase = "status" /\ dev'.left = 0
  BY <1>3, <1>9, Quiet
<1>12. QED
  BY <1>1, <1>3, <1>5, <1>6, <1>7, <1>8, <1>9, <1>10, <1>11

LEMMA PacketOutData ==
  ASSUME DataInv, PacketOut PROVE Placed' /\ OutStep' /\ InStepUnmasked'
<1>1. /\ xfer.pid = "out" /\ xfer.state = "active" /\ "out" \notin dev.halt
      /\ dev.phase \in {"command", "out"} /\ Accepts("out")
      /\ UNCHANGED <<pc, req, mem, sent, htog, csw, faults, masked>>
  BY DEF PacketOut, Active, Accepts, host
<1>2. /\ xfer'.pid = "out" /\ xfer'.want = xfer.want /\ xfer'.got = xfer.got + 1
      /\ xfer'.tog = 1 - xfer.tog
      /\ xfer'.state = IF xfer.got + 1 = xfer.want THEN "ok" ELSE "active"
  BY <1>1, Quiet, ProgressFacts DEF PacketOut
<1>3. pc \in {"command", "data"}
  BY <1>1, Quiet, NoTransferFacts DEF WellFormed, XferOK
<1>4. CASE pc = "command"
  <2>1. xfer'.state = "ok"
    <3>1. xfer.got < xfer.want /\ xfer.want = 1
      BY <1>1, <1>4, Quiet DEF WellFormed, XferOK
    <3>2. xfer.got + 1 = xfer.want
      BY <3>1, Quiet
    <3>3. QED
      BY <1>2, <3>2
  <2>2. CASE xfer.tog = dev.tog["out"]
    <3>1. /\ disk' = disk
          /\ dev'.phase \in {"in", "out"} =>
               /\ InRange /\ dev'.phase = req.dir /\ dev'.next = req.lba /\ dev'.left = req.n
               /\ "out" \notin dev'.halt
          /\ (dev'.phase = "status" /\ dev'.status = "good") => InRange /\ req.n = 0
          /\ dev'.tog["out"] = 1 - dev.tog["out"] /\ dev'.tog["in"] = dev.tog["in"]
      BY <1>1, <1>4, <2>2, CommandTaken DEF PacketOut
    <3>2. Tog("out")' = 1 - xfer.tog /\ Tog("in")' = htog["in"]
      BY <1>1, <1>2, <2>1 DEF Tog
    <3>3. ASSUME NEW p \in {"in", "out"}, dev'.phase = p, p = "in" => ~masked PROVE InPlace(p)'
      <4>1. req.dir = p /\ dev'.next = req.lba /\ dev'.left = req.n /\ InRange
        BY <3>1, <3>3
      <4>2. dev'.tog[p] = Tog(p)'
        BY <1>4, <2>2, <3>1, <3>2, <3>3, Quiet DEF InStepUnmasked
      <4>3. dev'.next + dev'.left = req'.lba + req'.n /\ dev'.left <= req'.n /\ req'.n - dev'.left = 0
        BY <1>1, <4>1, Quiet
      <4>4. Done(req.n - dev.left)'
        BY <1>1, <4>1, <4>3 DEF Done, InRange
      <4>5. QED
        BY <1>1, <1>4, <4>1, <4>2, <4>3, <4>4 DEF InPlace, Moving
    <3>4. (dev'.phase = "status" /\ dev'.status = "good") => Done(req.n)'
      BY <1>1, <3>1 DEF Done, InRange
    <3>5. Placed'
      BY <1>1, <1>4, <3>1, <3>3, <3>4 DEF Placed
    <3>6. OutStep'
      BY <1>1, <1>4, <2>1, <3>1 DEF OutStep
    <3>7. InStepUnmasked'
      BY <1>1, <1>4, <3>1, Quiet DEF InStepUnmasked
    <3>8. QED
      BY <3>5, <3>6, <3>7
  <2>3. CASE xfer.tog # dev.tog["out"]
    <3>1. dev.phase = "command"
      BY <1>1, <1>4, <2>3, Quiet DEF OutStep, Tog
    <3>2. dev' = dev
      BY <2>3 DEF PacketOut
    <3>3. QED
      BY <1>1, <1>4, <3>1, <3>2, Quiet DEF Placed, OutStep, InStepUnmasked
  <2>4. QED
    BY <2>2, <2>3
<1>5. CASE pc = "data" /\ dev.phase = "out"
  <2>1. /\ InPlace("out") /\ Moving
    BY <1>1, <1>5, Quiet DEF Placed, After, Moving
  <2>2. xfer.tog = dev.tog["out"]
    BY <1>1, <2>1 DEF InPlace, Tog
  <2> DEFINE k == sent + xfer.got
  <2>3. \A i : i = k =>
          /\ req.dir = "out" /\ i \in Nat /\ i < req.n
          /\ dev'.left = req.n - (i + 1) /\ Done(i + 1)' /\ dev'.halt = dev.halt
          /\ dev'.tog["out"] = 1 - dev.tog["out"]
          /\ \/ dev'.phase = "out" /\ dev'.next + dev'.left = req.lba + req.n
             \/ dev'.phase = "status" /\ dev'.left = 0
    BY <1>1, <1>5, <2>2, SectorTaken DEF PacketOut, Active
  <2>4. PICK i : i = k
    OBVIOUS
  <2>5. dev'.left \in Nat /\ req'.n - dev'.left = i + 1 /\ i + 1 = sent' + xfer'.got /\ req' = req
        /\ req.n \in Nat /\ i \in Nat /\ i < req.n
    <3>1. sent' = sent /\ xfer'.got = xfer.got + 1 /\ sent \in Nat /\ xfer.got \in Nat /\ req' = req
          /\ req.n \in Nat
      BY <1>1, <1>2, Quiet
    <3>2. i \in Nat /\ i < req.n /\ dev'.left = req.n - (i + 1)
      BY <2>3, <2>4
    <3>3. sent' + xfer'.got = i + 1
      BY <2>4, <3>1
    <3>4. QED
      BY <3>1, <3>2, <3>3
  <2>6. Done(req.n - dev.left)'
    BY <2>3, <2>4, <2>5 DEF Done
  <2>7. CASE dev'.phase = "out"
    <3>1. dev'.left <= req'.n /\ dev'.next + dev'.left = req'.lba + req'.n
      BY <2>3, <2>4, <2>5, <2>7
    <3>2. dev'.left = req'.n - (sent' + xfer'.got)
      BY <2>5
    <3>3. dev'.tog["out"] = Tog("out")'
      BY <1>2, <2>2, <2>3, <2>4 DEF Tog
    <3>4. xfer'.state = "ok" => xfer'.got = xfer'.want
      BY <1>2
    <3>5. InPlace("out")'
      BY <1>1, <1>5, <2>3, <2>4, <2>5, <2>6, <3>1, <3>2, <3>3, <3>4 DEF InPlace
    <3>6. Placed'
      BY <1>1, <1>5, <2>7, <3>5 DEF Placed
    <3>7. OutStep' /\ InStepUnmasked'
      BY <1>1, <1>2, <1>5, <2>3, <2>4 DEF OutStep, InStepUnmasked
    <3>8. QED
      BY <3>6, <3>7
  <2>8. CASE dev'.phase = "status" /\ dev'.left = 0
    <3>1. Done(req.n)'
      BY <2>5, <2>6, <2>8 DEF Done
    <3>2. QED
      BY <1>1, <1>5, <2>8, <3>1 DEF Placed, OutStep, InStepUnmasked
  <2>9. QED
    BY <2>3, <2>4, <2>7, <2>8
<1>6. CASE pc = "data" /\ dev.phase = "command"
  <2>1. dev'.phase \in {"invalid", "command"}
    <3>1. CASE xfer.tog = dev.tog["out"]
      <4> DEFINE t == Takes(dev)
      <4>1. t \in DevType /\ t.phase = "invalid"
        BY <1>1, <1>6, Quiet, TakesFacts
      <4>2. dev' = Flipped(t, "out") /\ "out" \in Pipes
        BY <3>1 DEF PacketOut, Pipes
      <4> HIDE DEF t
      <4>3. QED
        BY <4>1, <4>2, FlippedFacts
    <3>2. CASE xfer.tog # dev.tog["out"]
      BY <1>6, <3>2 DEF PacketOut
    <3>3. QED
      BY <3>1, <3>2
  <2>2. QED
    BY <1>1, <1>6, <2>1 DEF Placed, OutStep, InStepUnmasked
<1>7. QED
  BY <1>1, <1>3, <1>4, <1>5, <1>6

LEMMA LostHandshakeData ==
  ASSUME DataInv, LostHandshake PROVE Placed' /\ OutStep' /\ InStepUnmasked'
<1>1. /\ xfer.pid = "out" /\ xfer.state = "active" /\ "out" \notin dev.halt
      /\ dev.phase \in {"command", "out"} /\ Accepts("out") /\ Active("out")
      /\ xfer.tog = dev.tog["out"] /\ xfer' = Fail /\ faults' = faults + 1
      /\ dev' = Flipped(Takes(dev), "out") /\ disk' = IF Stored THEN StoredAt ELSE disk
      /\ UNCHANGED <<pc, req, mem, sent, htog, csw, masked>>
  BY DEF LostHandshake, Active, Accepts, host, Fault
<1>2. xfer'.state = "failed" /\ faults' >= 1
  BY <1>1, Quiet, EndFacts
<1>3. pc \in {"command", "data"}
  BY <1>1, Quiet, NoTransferFacts DEF WellFormed, XferOK
<1>4. CASE pc = "command"
  <2>1. /\ dev'.phase = "out" => "out" \notin dev'.halt
        /\ dev'.tog["in"] = dev.tog["in"]
    BY <1>1, <1>4, CommandTaken
  <2>2. Placed'
    BY <1>1, <1>2, <1>4 DEF Placed, After
  <2>3. QED
    BY <1>1, <1>2, <1>4, <2>1, <2>2, Quiet DEF OutStep, InStepUnmasked
<1>5. CASE pc = "data" /\ dev.phase = "out"
  <2> DEFINE k == sent + xfer.got
  <2>1. \A i : i = k =>
          /\ req.dir = "out" /\ i \in Nat /\ i < req.n
          /\ dev'.left = req.n - (i + 1) /\ Done(i + 1)' /\ dev'.halt = dev.halt
          /\ \/ dev'.phase = "out" /\ dev'.next + dev'.left = req.lba + req.n
             \/ dev'.phase = "status" /\ dev'.left = 0
    BY <1>1, <1>5, SectorTaken
  <2>2. PICK i : i = k
    OBVIOUS
  <2>3. dev'.left \in Nat /\ req'.n - dev'.left = i + 1 /\ req' = req /\ req.n \in Nat /\ i \in Nat /\ i < req.n
    BY <1>1, <2>1, <2>2, Quiet
  <2>4. Done(req.n - dev.left)'
    BY <2>1, <2>2, <2>3 DEF Done
  <2>5. CASE dev'.phase = "out"
    <3>1. dev'.left <= req'.n /\ dev'.next + dev'.left = req'.lba + req'.n
      BY <2>1, <2>2, <2>3, <2>5
    <3>2. InPlace("out")'
      BY <1>1, <1>2, <1>5, <2>1, <2>2, <2>4, <3>1 DEF InPlace, Moving
    <3>3. QED
      BY <1>1, <1>2, <1>5, <2>1, <2>2, <2>5, <3>2 DEF Placed, OutStep, InStepUnmasked
  <2>6. CASE dev'.phase = "status" /\ dev'.left = 0
    <3>1. Done(req.n)'
      BY <2>3, <2>4, <2>6 DEF Done
    <3>2. QED
      BY <1>1, <1>5, <2>6, <3>1 DEF Placed, OutStep, InStepUnmasked
  <2>7. QED
    BY <2>1, <2>2, <2>5, <2>6
<1>6. CASE pc = "data" /\ dev.phase = "command"
  <2> DEFINE t == Takes(dev)
  <2>1. t \in DevType /\ t.phase = "invalid"
    BY <1>1, <1>6, Quiet, TakesFacts
  <2>2. dev' = Flipped(t, "out") /\ "out" \in Pipes
    BY <1>1 DEF Pipes
  <2> HIDE DEF t
  <2>3. dev'.phase = "invalid"
    BY <2>1, <2>2, FlippedFacts
  <2>4. QED
    BY <1>1, <1>6, <2>3 DEF Placed, OutStep, InStepUnmasked
<1>7. QED
  BY <1>1, <1>3, <1>4, <1>5, <1>6

LEMMA SectorInData ==
  ASSUME DataInv, SectorIn PROVE Placed' /\ OutStep' /\ InStepUnmasked'
<1>1. /\ xfer.pid = "in" /\ xfer.state = "active" /\ dev.phase = "in" /\ pc \in {"data", "status", "status2"}
      /\ UNCHANGED <<pc, req, sent, htog, csw, disk, faults, masked>>
  BY Quiet, NoTransferFacts DEF SectorIn, Active, WellFormed, XferOK
<1>2. req.dir = "in" /\ (~masked => InPlace("in"))
  BY <1>1, Quiet DEF Placed, After
<1>3. CASE xfer.what = "csw"
  <2>1. xfer' = Fail /\ mem' = mem /\ dev' = dev
    BY <1>3 DEF SectorIn
  <2>2. xfer'.state = "failed"
    BY <2>1, Quiet, EndFacts
  <2>3. After /\ ~Moving'
    BY <1>1, <2>2 DEF After, Moving
  <2>4. Placed'
    BY <1>1, <2>1, <2>2, <2>3, PlacedKept
  <2>5. QED
    BY <1>1, <2>1, <2>2, <2>4 DEF OutStep, InStepUnmasked
<1>4. CASE xfer.what # "csw"
  <2>0. pc = "data"
    BY <1>1, <1>4, Quiet DEF WellFormed, XferOK
  <2>1. dev' = Flipped(Moved(dev), "in")
    BY <1>4 DEF SectorIn
  <2>2. dev.left >= 1 /\ dev.next + dev.left <= Sectors
    BY <1>1, Quiet DEF WellFormed, DevOK
  <2>3. /\ dev'.left = dev.left - 1
        /\ IF dev.left = 1 THEN dev'.phase = "status" /\ dev'.next = 0
           ELSE dev'.phase = dev.phase /\ dev'.next = dev.next + 1
        /\ dev'.tog["in"] = 1 - dev.tog["in"]
    <3> DEFINE m == Moved(dev)
    <3>1. /\ m \in DevType /\ m.left = dev.left - 1 /\ m.tog = dev.tog
          /\ IF dev.left = 1 THEN m.phase = "status" /\ m.next = 0
             ELSE m.phase = dev.phase /\ m.next = dev.next + 1
      BY <2>2, Quiet, MovedFacts
    <3>2. dev' = Flipped(m, "in") /\ "in" \in Pipes
      BY <2>1 DEF Pipes
    <3> HIDE DEF m
    <3>3. /\ dev'.phase = m.phase /\ dev'.next = m.next /\ dev'.left = m.left
          /\ dev'.tog["in"] = 1 - m.tog["in"]
      BY <3>1, <3>2, FlippedFacts
    <3>4. QED
      BY <3>1, <3>3
  <2>4. CASE masked
    BY <1>1, <1>2, <2>0, <2>3, <2>4 DEF Placed, OutStep, InStepUnmasked, Counts
  <2>5. CASE ~masked
    <3>0. InPlace("in") /\ Moving
      BY <1>1, <1>2, <2>0, <2>5 DEF Moving
    <3> DEFINE j == sent + xfer.got
    <3>1. PICK k : k = j
      OBVIOUS
    <3>2. dev.left = req.n - k /\ dev.tog["in"] = xfer.tog /\ Done(req.n - dev.left)
          /\ dev.next + dev.left = req.lba + req.n
      BY <1>1, <3>0, <3>1 DEF InPlace, Tog
    <3>3. /\ dev.left \in Nat /\ dev.next \in Nat /\ req.lba \in Nat /\ sent \in Nat /\ xfer.got \in Nat
          /\ req.n \in 0..MaxCount /\ MaxCount \in Nat /\ Sectors \in Nat /\ k = sent + xfer.got
      BY <3>1, Quiet, Types, Constants
    <3>4. /\ k \in Nat /\ k < req.n /\ dev.next = req.lba + k /\ req.n - dev.left = k
          /\ k \in 0..(MaxCount - 1)
      <4>1. k \in Nat
        BY <3>3
      <4>2. dev.left = req.n - k /\ dev.next + dev.left = req.lba + req.n /\ dev.left >= 1
        BY <2>2, <3>2
      <4>3. k < req.n /\ req.n - dev.left = k
        BY <3>3, <4>1, <4>2
      <4>4. dev.next = req.lba + k
        <5>1. req.n \in Nat /\ req.lba \in Nat /\ dev.next \in Nat /\ dev.next + (req.n - k) = req.lba + req.n
          BY <3>3, <4>2
        <5>2. QED
          BY <4>1, <5>1
      <4>5. QED
        BY <3>3, <4>1, <4>3, <4>4
    <3>5. mem' = [mem EXCEPT ![k] = disk[req.lba + k]] /\ xfer' = Progress
      BY <1>4, <3>1, <3>2, <3>4 DEF SectorIn
    <3>6. /\ xfer'.pid = "in" /\ xfer'.want = xfer.want /\ xfer'.got = xfer.got + 1
          /\ xfer'.tog = 1 - xfer.tog
          /\ xfer'.state = IF xfer.got + 1 = xfer.want THEN "ok" ELSE "active"
      BY <1>1, <3>5, Quiet, ProgressFacts
    <3>7. Done(k + 1)'
      <4>1. mem'[k] = disk[req.lba + k]
        BY <3>4, <3>5, Quiet, Types
      <4>2. \A i \in 0..(k - 1) : i # k /\ i \in 0..(MaxCount - 1)
        BY <3>3, <3>4
      <4>3. \A i \in 0..(k - 1) : mem'[i] = mem[i]
        BY <3>5, <4>2, Quiet, Types
      <4>4. Done(k)
        BY <3>2, <3>4
      <4>5. QED
        BY <1>1, <3>4, <4>1, <4>3, <4>4, DoneMore
    <3>8. dev'.left \in Nat /\ req'.n - dev'.left = k + 1 /\ k + 1 = sent' + xfer'.got
          /\ dev'.left <= req'.n /\ dev'.left = req'.n - (sent' + xfer'.got)
      <4>1. sent' = sent /\ xfer'.got = xfer.got + 1 /\ req' = req /\ dev'.left = dev.left - 1
        BY <1>1, <2>3, <3>6
      <4>2. QED
        BY <2>2, <3>2, <3>3, <3>4, <4>1
    <3>9. Done(req.n - dev.left)'
      BY <3>7, <3>8 DEF Done
    <3>10. CASE dev.left # 1
      <4>1. dev'.next + dev'.left = req'.lba + req'.n
        BY <1>1, <2>3, <3>2, <3>3, <3>10
      <4>2. dev'.tog["in"] = Tog("in")'
        BY <2>3, <3>2, <3>6 DEF Tog
      <4>3. xfer'.state = "ok" => xfer'.got = xfer'.want
        BY <3>6
      <4>4. InPlace("in")'
        BY <1>1, <1>2, <2>0, <3>8, <3>9, <4>1, <4>2, <4>3 DEF InPlace
      <4>5. QED
        BY <1>1, <1>2, <2>0, <2>3, <3>10, <4>4 DEF Placed, OutStep, InStepUnmasked
    <3>11. CASE dev.left = 1
      <4>1. dev'.left = 0
        BY <2>3, <3>11
      <4>2. Done(req.n)'
        BY <1>1, <3>3, <3>9, <4>1 DEF Done
      <4>3. QED
        BY <1>1, <2>0, <2>3, <3>11, <4>2 DEF Placed, OutStep, InStepUnmasked
    <3>12. QED
      BY <3>10, <3>11
  <2>6. QED
    BY <2>4, <2>5
<1>5. QED
  BY <1>3, <1>4

LEMMA StatusInData ==
  ASSUME DataInv, StatusIn PROVE Placed' /\ OutStep' /\ InStepUnmasked'
<1>1. /\ xfer.pid = "in" /\ xfer.state = "active" /\ dev.phase = "status" /\ pc \in {"data", "status", "status2"}
      /\ UNCHANGED <<pc, req, sent, htog, disk, faults, masked>>
  BY Quiet, NoTransferFacts DEF StatusIn, Active, WellFormed, XferOK
<1>2. dev'.phase = "command" /\ dev'.tog["in"] = 1 - dev.tog["in"]
  <2> DEFINE d == [dev EXCEPT !.phase = "command"]
  <2>1. d \in DevType /\ d.phase = "command" /\ d.tog = dev.tog
    BY Quiet DEF DevType
  <2>2. dev' = Flipped(d, "in") /\ "in" \in Pipes
    BY DEF StatusIn, Pipes
  <2> HIDE DEF d
  <2>3. QED
    BY <2>1, <2>2, FlippedFacts
<1>3. After
  BY <1>1 DEF After
<1>4. CASE xfer.tog # dev.tog["in"]
  <2>1. xfer' = xfer
    BY <1>4 DEF StatusIn
  <2>2. QED
    BY <1>1, <1>2, <2>1 DEF Placed, OutStep, InStepUnmasked
<1>5. CASE xfer.tog = dev.tog["in"] /\ xfer.what = "csw"
  <2>1. xfer' = EndShort /\ csw' = dev.status /\ mem' = mem
    BY <1>5 DEF StatusIn
  <2>2. xfer'.tog = 1 - xfer.tog
    BY <2>1, Quiet, EndFacts
  <2>3. (csw' = "good" /\ Counts) => Done(req.n)
    BY <1>1, <1>3, <2>1, Quiet DEF Placed
  <2>4. Done(req.n)' <=> Done(req.n)
    BY <1>1, <2>1 DEF Done, InRange
  <2>5. Counts' <=> Counts
    BY <1>1 DEF Counts
  <2>6. Placed'
    BY <1>1, <1>2, <2>3, <2>4, <2>5 DEF Placed
  <2>7. QED
    BY <1>1, <1>2, <1>5, <2>2, <2>6 DEF OutStep, InStepUnmasked
<1>6. CASE xfer.what # "csw"
  <2>1. pc = "data"
    BY <1>1, <1>6, Quiet DEF WellFormed, XferOK
  <2>2. QED
    BY <1>1, <1>2, <2>1 DEF Placed, OutStep, InStepUnmasked
<1>7. QED
  BY <1>4, <1>5, <1>6

\* A transfer that fails: nothing else moves.
LEMMA FailsData ==
  ASSUME DataInv, xfer.state = "active", xfer' = Fail, faults' \in Nat, faults' >= faults,
         UNCHANGED <<pc, req, mem, sent, htog, csw, dev, disk, masked>>,
         dev.phase = "out" => faults' >= 1 \/ pc \notin {"command", "data"}
  PROVE  Placed' /\ OutStep' /\ InStepUnmasked'
<1>1. xfer'.state = "failed" /\ pc \in {"command", "data", "status", "status2"}
  BY Quiet, EndFacts, NoTransferFacts DEF WellFormed, XferOK
<1>2. Placed'
  <2>1. CASE pc = "command"
    BY <1>1, <2>1 DEF Placed, After
  <2>2. CASE pc # "command"
    <3>1. After /\ ~Moving'
      BY <1>1, <2>2 DEF After, Moving
    <3>2. QED
      BY <1>1, <2>2, <3>1, PlacedKept
  <2>3. QED
    BY <2>1, <2>2
<1>3. OutStep'
  <2> SUFFICES ASSUME dev'.phase = "out" PROVE OutStep'
    BY DEF OutStep
  <2>1. dev.phase = "out" /\ "out" \notin dev'.halt
    BY Quiet DEF OutStep
  <2>2. faults' >= 1
    BY <1>1, <2>1, Quiet DEF OutStep
  <2>3. QED
    BY <1>1, <2>1, <2>2 DEF OutStep
<1>4. InStepUnmasked'
  BY <1>1, Quiet DEF InStepUnmasked
<1>5. QED
  BY <1>2, <1>3, <1>4

LEMMA UnansweredData ==
  ASSUME DataInv, Unanswered PROVE Placed' /\ OutStep' /\ InStepUnmasked'
<1>1. /\ xfer.state = "active" /\ xfer' = Fail /\ faults' = faults
      /\ UNCHANGED <<pc, req, mem, sent, htog, csw, dev, disk, masked>>
  BY DEF Unanswered, host
<1>2. dev.phase = "out" => pc \notin {"command", "data"}
  <2> SUFFICES ASSUME dev.phase = "out", pc \in {"command", "data"} PROVE FALSE
    OBVIOUS
  <2>1. "out" \notin dev.halt
    BY Quiet DEF OutStep
  <2>2. xfer.pid = "out"
    <3>1. CASE pc = "command"
      BY <3>1, Quiet DEF WellFormed, XferOK
    <3>2. CASE pc = "data"
      <4>1. req.dir = "out"
        BY <3>2, Quiet DEF Placed, After, InPlace
      <4>2. xfer.pid = req.dir
        BY <1>1, <3>2, Quiet DEF WellFormed, XferOK
      <4>3. QED
        BY <4>1, <4>2
    <3>3. QED
      BY <3>1, <3>2
  <2>3. Accepts(xfer.pid)
    BY <2>2 DEF Accepts
  <2>4. QED
    BY <2>1, <2>2, <2>3 DEF Unanswered
<1>3. QED
  BY <1>1, <1>2, Quiet, FailsData

LEMMA SlowData ==
  ASSUME DataInv, Slow PROVE Placed' /\ OutStep' /\ InStepUnmasked'
<1>1. /\ xfer.state = "active" /\ xfer' = Fail /\ faults' = faults + 1
      /\ UNCHANGED <<pc, req, mem, sent, htog, csw, dev, disk, masked>>
  BY DEF Slow, Fault, host
<1>2. QED
  BY <1>1, Quiet, FailsData

\* A command that fails: its device waits for nothing but the status.
LEMMA CommandFailsData ==
  ASSUME DataInv, xfer.state = "active", dev'.phase = "status", dev'.status = "failed",
         UNCHANGED <<pc, req, mem, sent, htog, csw, disk>>,
         masked => masked',
         ~masked' => dev'.tog["in"] = dev.tog["in"] /\ xfer' = xfer,
         \/ xfer' = xfer
         \/ xfer'.state = "ok" /\ req.dir = "in" /\ masked'
  PROVE  Placed' /\ OutStep' /\ InStepUnmasked'
<1>1. Placed'
  BY DEF Placed, Counts
<1>2. OutStep'
  BY DEF OutStep
<1>3. InStepUnmasked'
  BY Quiet DEF InStepUnmasked
<1>4. QED
  BY <1>1, <1>2, <1>3

LEMMA MediumErrorData ==
  ASSUME DataInv, MediumError PROVE Placed' /\ OutStep' /\ InStepUnmasked'
<1>1. /\ xfer.state = "active" /\ dev' = Refused(dev, xfer.pid) /\ xfer.pid \in Pipes
      /\ UNCHANGED <<pc, req, mem, sent, htog, csw, disk, xfer, masked>>
  BY Quiet, Types DEF MediumError, Fault, host
<1>2. dev'.phase = "status" /\ dev'.tog = dev.tog
  BY <1>1, Quiet, RefusedFacts
<1>3. dev'.status = "failed"
  BY <1>1, Quiet DEF Refused, DevType
<1>4. QED
  BY <1>1, <1>2, <1>3, CommandFailsData

LEMMA LateErrorData ==
  ASSUME DataInv, LateError PROVE Placed' /\ OutStep' /\ InStepUnmasked'
<1>1. /\ xfer.state = "active" /\ dev' = [dev EXCEPT !.status = "failed"] /\ dev.phase = "status"
      /\ UNCHANGED <<pc, req, mem, sent, htog, csw, disk, xfer, masked>>
  BY DEF LateError, Fault, host
<1>2. dev'.phase = "status" /\ dev'.tog = dev.tog /\ dev'.status = "failed"
  BY <1>1, Quiet DEF DevType
<1>3. QED
  BY <1>1, <1>2, CommandFailsData

LEMMA EmptyPacketData ==
  ASSUME DataInv, EmptyPacket PROVE Placed' /\ OutStep' /\ InStepUnmasked'
<1>1. /\ xfer.state = "active" /\ xfer.pid = "in" /\ dev.phase = "in" /\ masked'
      /\ UNCHANGED <<pc, req, mem, sent, htog, csw, disk>>
      /\ (xfer' = xfer \/ xfer' = EndShort)
  BY DEF EmptyPacket, Fault, Active, host
<1>2. dev'.phase = "status" /\ dev'.status = "failed"
  <2> DEFINE d == [dev EXCEPT !.phase = "status", !.status = "failed", !.left = 0, !.next = 0]
  <2>1. d \in DevType /\ d.phase = "status" /\ d.status = "failed"
    BY Quiet, EndedFacts
  <2>2. dev' = Flipped(d, "in") /\ "in" \in Pipes
    BY DEF EmptyPacket, Pipes
  <2> HIDE DEF d
  <2>3. QED
    BY <2>1, <2>2, FlippedFacts
<1>3. req.dir = "in"
  <2>1. pc \in {"data", "status", "status2"}
    BY <1>1, Quiet, NoTransferFacts DEF WellFormed, XferOK
  <2>2. QED
    BY <1>1, <2>1, Quiet DEF Placed, After
<1>4. xfer' = xfer \/ (xfer'.state = "ok" /\ req.dir = "in" /\ masked')
  BY <1>1, <1>3, Quiet, EndFacts
<1>5. QED
  BY <1>1, <1>2, <1>4, CommandFailsData

-----------------------------------------------------------------------------
(* The invariant *)

\* A call that returns success has seen a good status, and its sectors are in place.
LEMMA SuccessKept ==
  ASSUME DataInv, [Next]_vars, CallOK' PROVE SuccessIsReal'
<1>1. CASE pc' # "idle"
  BY <1>1 DEF CallOK, SuccessIsReal
<1>2. CASE UNCHANGED vars
  BY <1>2 DEF vars, host, DataInv, SuccessIsReal, Real, InRange
<1>3. CASE StatusDone
  <2>1. /\ pc \in {"status", "status2"} /\ xfer.state = "ok"
        /\ UNCHANGED <<req, mem, disk, masked>>
        /\ result' = IF AfterStatus = "return" THEN "ok" ELSE result
        /\ pc # "idle"
    BY <1>3 DEF StatusDone, Ended
  <2>2. result' = "ok" => csw = "good"
    BY <2>1 DEF DataInv, CallOK, AfterStatus
  <2>3. (csw = "good" /\ Counts) => Done(req.n)
    BY <2>1, Quiet DEF Placed
  <2>4. QED
    BY <2>1, <2>2, <2>3 DEF SuccessIsReal, Real, Done, InRange, Counts
<1>4. CASE TryAgain
  BY <1>4 DEF TryAgain, DataInv, CallOK, SuccessIsReal
<1>5. CASE Wire \/ Faults
  <2>1. xfer.state = "active" /\ pc' = pc
    BY <1>5 DEF Wire, Faults, PacketOut, SectorIn, StatusIn, Unanswered, Slow, LostHandshake,
                MediumError, LateError, EmptyPacket, Fault, Active, host
  <2>2. pc # "idle"
    BY <2>1, Quiet
  <2>3. QED
    BY <1>1, <2>1, <2>2
<1>6. CASE Call \/ (Driver /\ ~StatusDone /\ ~TryAgain)
  <2>1. pc' # "idle" \/ NextChunk \/ ChunkDone
    BY <1>6 DEF Call, Driver, Read_write_usb, SendCommand, CommandDone, AskStatus, StatusFails,
                ClearIn, ResetDevice, ResetIn, ResetOut
  <2>2. (NextChunk \/ ChunkDone) => pc' = "data"
    BY DEF NextChunk, ChunkDone
  <2>3. QED
    BY <1>1, <2>1, <2>2
<1>7. QED
  BY <1>1, <1>2, <1>3, <1>4, <1>5, <1>6 DEF Next

LEMMA InitData == Init => DataInv
<1> SUFFICES ASSUME Init PROVE DataInv
  OBVIOUS
<1>1. IInv
  BY InitInv
<1>2. pc = "idle" /\ xfer = NoTransfer /\ dev.phase = "command" /\ result = "none"
  BY DEF Init
<1>3. Placed /\ OutStep /\ InStepUnmasked
  BY <1>2 DEF Placed, After, OutStep, InStepUnmasked
<1>4. SuccessIsReal
  BY <1>2 DEF SuccessIsReal
<1>5. QED
  BY <1>1, <1>3, <1>4 DEF IInv, DataInv

LEMMA NextData == ASSUME MaxFaults <= 2 PROVE DataInv /\ [Next]_vars => DataInv'
<1> SUFFICES ASSUME DataInv, [Next]_vars PROVE DataInv'
  OBVIOUS
<1>1. WellFormed' /\ CallOK'
  BY NextWell DEF DataInv
<1>2. Placed' /\ OutStep' /\ InStepUnmasked'
  <2>1. CASE UNCHANGED vars
    BY <2>1, Quiet DEF vars, host, Placed, OutStep, InStepUnmasked, After, Moving, InPlace, Done, Counts,
                       InRange, Tog
  <2>2. ASSUME NEW dir \in Pipes, NEW r \in Requests, NEW data \in Payloads,
               Read_write_usb(dir, r[1], r[2], data)
        PROVE  Placed' /\ OutStep' /\ InStepUnmasked'
    BY <2>2, CallData
  <2>3. CASE Driver
    BY <2>3, SendCommandData, CommandDoneData, NextChunkData, ChunkDoneData, AskStatusData, StatusDoneData,
       StatusFailsData, ClearInData, ResetDeviceData, ResetInData, ResetOutData, TryAgainData
    DEF Driver
  <2>4. CASE Wire
    BY <2>4, PacketOutData, SectorInData, StatusInData, UnansweredData DEF Wire
  <2>5. CASE Faults
    BY <2>5, SlowData, LostHandshakeData, MediumErrorData, LateErrorData, EmptyPacketData DEF Faults
  <2>6. QED
    BY <2>1, <2>2, <2>3, <2>4, <2>5 DEF Next, Call
<1>3. SuccessIsReal'
  BY <1>1, SuccessKept
<1>4. QED
  BY <1>1, <1>2, <1>3 DEF DataInv

LEMMA DataInvariant == ASSUME MaxFaults <= 2 PROVE Spec => []DataInv
<1>1. DataInv /\ [Next]_vars => DataInv'
  BY NextData
<1>2. QED
  BY <1>1, InitData, PTL DEF Spec

-----------------------------------------------------------------------------
(* The properties *)

\* SuccessIsReal, for every device, request and transfer size, while at most two things
\* fail in a call: a read or write of Read_write_usb that returns success has moved
\* every sector it was asked for, although one status block serves all commands.
THEOREM Success == ASSUME MaxFaults <= 2 PROVE Spec => []SuccessIsReal
<1>1. DataInv => SuccessIsReal
  BY DEF DataInv
<1>2. QED
  BY <1>1, DataInvariant, PTL

\* A packet that stores a sector stores the one the driver means.
LEMMA StoresWithin ==
  ASSUME DataInv, Active("out"), "out" \notin dev.halt, Accepts("out"), UNCHANGED <<req, mem>>,
         dev' = Flipped(Takes(dev), "out"), disk' = IF Stored THEN StoredAt ELSE disk,
         NEW s \in DOMAIN disk, disk'[s] # disk[s]
  PROVE  /\ req.dir = "out" /\ s \in req.lba..(req.lba + req.n - 1)
         /\ disk'[s] = mem[s - req.lba]
<1>1. dev.phase = "out" /\ xfer.what = "data" /\ xfer.state = "active"
  BY DEF Stored, Active
<1>2. pc = "data"
  BY <1>1, Quiet, NoTransferFacts DEF WellFormed, XferOK
<1> DEFINE j == sent + xfer.got
<1>3. PICK k : k = j
  OBVIOUS
<1>4. /\ req.dir = "out" /\ k \in Nat /\ k < req.n /\ disk' = [disk EXCEPT ![req.lba + k] = mem[k]]
  BY <1>1, <1>2, <1>3, SectorTaken
<1>5. s = req.lba + k
  BY <1>4
<1>6. req.lba \in Nat /\ req.n \in Nat
  BY Quiet
<1>7. s \in req.lba..(req.lba + req.n - 1) /\ s - req.lba = k
  BY <1>4, <1>5, <1>6
<1>8. disk'[s] = mem[k]
  BY <1>4, <1>5
<1>9. QED
  BY <1>4, <1>7, <1>8

LEMMA WritesWithin ==
  ASSUME DataInv, Next, NEW s \in DOMAIN disk, disk'[s] # disk[s]
  PROVE  /\ req.dir = "out" /\ s \in req.lba..(req.lba + req.n - 1)
         /\ disk'[s] = mem[s - req.lba]
<1>1. PacketOut \/ LostHandshake
  BY DEF Next, Call, Driver, Wire, Faults, Read_write_usb, SendCommand, CommandDone, NextChunk, ChunkDone,
         AskStatus, StatusDone, StatusFails, ClearIn, ResetDevice, ResetIn, ResetOut, TryAgain, SectorIn,
         StatusIn, Unanswered, Slow, MediumError, LateError, EmptyPacket
<1>2. QED
  BY <1>1, StoresWithin DEF PacketOut, LostHandshake, host

\* OnlyRequestedSectors under the same bound: no write of Read_write_usb touches a sector
\* outside its request, however often it is repeated.
THEOREM Confinement == ASSUME MaxFaults <= 2 PROVE Spec => OnlyRequestedSectors
<1>1. DataInv /\ [Next]_vars => [\A s \in DOMAIN disk : disk'[s] # disk[s] =>
                                   /\ req.dir = "out" /\ s \in req.lba..(req.lba + req.n - 1)
                                   /\ disk'[s] = mem[s - req.lba]]_vars
  BY WritesWithin
<1>2. QED
  BY <1>1, DataInvariant, PTL DEF Spec, OnlyRequestedSectors

=============================================================================
