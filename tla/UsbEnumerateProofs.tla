------------------------- MODULE UsbEnumerateProofs -------------------------
(***************************************************************************)
(* Enumeration of USB storage, for every number of ports, hubs, slots,     *)
(* drives and runs, whatever is plugged in.  The first part holds whatever *)
(* fails; the second asks that a device at address 0 is not lost there;    *)
(* the third and the fourth that no two root ports have a device.          *)
(***************************************************************************)
EXTENDS UsbEnumerate, FiniteSetTheorems, TLAPS

Lun == 0..15
BusOK ==
  /\ plug \in Plugs
  /\ addr \in [Places -> {None} \cup 0..MaxDev]
  /\ configured \subseteq Places

\* A slot that may hold drives is that of the device with its number; slot 0
\* may have been cleared, and is then marked as a hub.
TableOK ==
  /\ slots \in [Slots -> [id: 0..MaxDev, lun: Lun \cup {Rejected, Hub}]]
  /\ max_dev \in 0..MaxDev /\ usb_count \in 0..max_dev
  /\ \A k \in Slots : k < max_dev /\ slots[k].lun < Rejected => slots[k].id = k + 1

ResultOK ==
  /\ drives \in Seq([id: 1..MaxDev, lun: Lun]) /\ Len(drives) <= MaxDri
  /\ error \in 0..MaxDri \cup {128, 129, 130} /\ stage \in 0..4

\* What a port count can be leaves cx below 2^16.
CacheOK == cache \in [ports: 0..(Word - 1), connected: BOOLEAN, enabled: BOOLEAN]

\* enum_retry and the resets done share one byte's worth of attempts.
RetryOK ==
  /\ enum_retry \in 0..(Byte - 1) /\ attempts \in 0..Byte
  /\ pc = "ports" => attempts = 0
  /\ pc = "attempt" => enum_retry # 0 /\ attempts + enum_retry < Byte
  /\ pc = "handoff" => attempts = 0 \/ (enum_retry # 0 /\ attempts + enum_retry <= Byte)

WhereOK ==
  /\ pc \in {"idle", "ports", "attempt", "handoff", "fill", "slots", "hub",
             "hub port", "drives"}
  /\ port \in 1..(NPorts + 1) /\ slot \in 0..MaxDev /\ left \in 0..Word
  /\ lun \in Lun /\ caller \in {"ports", "hub"} /\ runs \in 0..MaxRuns
  /\ pc \in {"attempt", "handoff"} \/ (pc = "fill" /\ caller = "ports") => port <= NPorts
  /\ pc \in {"hub", "hub port"} \/ (pc = "fill" /\ caller = "hub") => slot < MaxDev
  /\ pc = "hub port" => left > 0
  /\ pc = "drives" => slot < max_dev

\* Drive_enumerate has entered LUNs that lie before the one it is at.
Visited ==
  pc = "drives" =>
    /\ Len(drives) < MaxDri
    /\ \A i \in 1..Len(drives) :
         \/ drives[i].id <= slot
         \/ drives[i].id = slot + 1 /\ drives[i].lun < lun

IInv == BusOK /\ TableOK /\ ResultOK /\ CacheOK /\ RetryOK /\ WhereOK /\ Visited
             /\ DrivesDistinct

-----------------------------------------------------------------------------

LEMMA Sizes ==
  /\ NPorts \in Nat \ {0} /\ HubPorts \in Nat /\ TopLun \in Lun
  /\ MaxDev \in Nat \ {0} /\ MaxDri \in Nat \ {0} /\ MaxRuns \in Nat
  /\ Byte \in Nat /\ Byte > 2 /\ Word \in Nat /\ Word > 1
  /\ ConfigLength \in 1..(Word - 1) /\ HubPorts < Word /\ Stray \in Nat
BY UsbAssumption DEF Lun

LEMMA InitIInv == Init => IInv
<1> SUFFICES ASSUME Init PROVE IInv
  OBVIOUS
<1> USE DEF Init
<1> USE Sizes
<1>1. BusOK
  BY DEF BusOK
<1>2. TableOK
  <2>1. [id |-> 0, lun |-> 0] \in [id: 0..MaxDev, lun: Lun \cup {Rejected, Hub}]
    BY DEF Lun
  <2>2. slots \in [Slots -> [id: 0..MaxDev, lun: Lun \cup {Rejected, Hub}]]
    BY <2>1 DEF Slots
  <2>3. \A k \in Slots : ~ (k < max_dev)
    BY DEF Slots
  <2>4. max_dev \in 0..MaxDev /\ usb_count \in 0..max_dev
    OBVIOUS
  <2>5. QED
    BY <2>2, <2>3, <2>4 DEF TableOK
<1>3. ResultOK /\ DrivesDistinct
  BY DEF ResultOK, DrivesDistinct
<1>4. CacheOK
  BY DEF CacheOK, ZeroCache
<1>5. RetryOK
  BY DEF RetryOK
<1>6. WhereOK /\ Visited
  <2>1. 1 \in 1..(NPorts + 1) /\ 0 \in 0..MaxDev /\ 0 \in 0..Word /\ 0 \in Lun /\ 0 \in 0..MaxRuns
    BY DEF Lun
  <2>2. QED
    BY <2>1 DEF WhereOK, Visited
<1>7. QED
  BY <1>1, <1>2, <1>3, <1>4, <1>5, <1>6 DEF IInv

\* The bus ----------------------------------------------------------------

LEMMA Takes ==
  ASSUME IInv, Filling, NEW taken \in Takers
  PROVE  taken \subseteq Places /\ NewId \in 1..MaxDev /\ max_dev \in Slots
<1>1. max_dev \in 0..MaxDev /\ max_dev < MaxDev /\ MaxDev \in Nat
  BY Sizes DEF IInv, TableOK, Filling
<1>2. taken \subseteq Places
  BY DEF Takers, At
<1>3. QED
  BY <1>1, <1>2 DEF NewId, Slots

LEMMA AddressedBus ==
  ASSUME IInv, Filling, NEW taken \in Takers, NEW top, Addressed(taken, top), UNCHANGED plug,
         configured' \subseteq configured \cup taken
  PROVE  BusOK'
BY Takes, Sizes DEF Addressed, IInv, BusOK

LEMMA FillBus ==
  ASSUME IInv, Fill
  PROVE  BusOK'
<1>1. CASE TableFull \/ NoHead \/ NoDescriptor
  BY <1>1 DEF TableFull, NoHead, NoDescriptor, bus, IInv, BusOK
<1>2. ASSUME NEW taken \in Takers, NoConfiguration(taken)
      PROVE  BusOK'
  BY <1>2, AddressedBus DEF NoConfiguration
<1>3. ASSUME NEW taken \in Takers, NEW x \in taken,
             \/ Unsuitable(taken, x) \/ HubFound(taken, x)
             \/ \E answered \in BOOLEAN : StorageFound(taken, x, answered)
      PROVE  BusOK'
  <2>1. Filling /\ (\E top : Addressed(taken, top)) /\ UNCHANGED plug
        /\ configured' \subseteq configured \cup taken
    BY <1>3 DEF Unsuitable, HubFound, StorageFound, Configure
  <2>2. QED
    BY <2>1, AddressedBus
<1>4. QED
  BY <1>1, <1>2, <1>3 DEF Fill

LEMMA NextBus ==
  ASSUME IInv, Next
  PROVE  BusOK'
<1>1. ASSUME UNCHANGED bus PROVE BusOK'
  BY <1>1 DEF bus, IInv, BusOK
<1>2. CASE NoController
  BY <1>1, <1>2 DEF NoController
<1>3. CASE StartController
  BY <1>3 DEF StartController, IInv, BusOK
<1>4. CASE RootStep
  <2>1. CASE EmptyPort \/ LowSpeedPort \/ ConnectedPort \/ PortsDone
    BY <1>1, <2>1 DEF EmptyPort, LowSpeedPort, ConnectedPort, PortsDone
  <2>2. CASE HandOff \/ \E enabled \in BOOLEAN : Attempt(enabled)
    BY <2>2, Sizes DEF HandOff, Attempt, IInv, BusOK
  <2>3. QED
    BY <1>4, <2>1, <2>2 DEF RootStep
<1>5. CASE Fill
  BY <1>5, FillBus
<1>6. CASE HubStep
  <2>1. CASE ResetHubPort
    <3>1. PICK reset : addr' = [x \in Places |-> IF x \in reset THEN 0 ELSE addr[x]]
                       /\ configured' = configured \ reset /\ plug' = plug
      BY <2>1 DEF ResetHubPort
    <3>2. 0 \in 0..MaxDev
      BY Sizes
    <3>3. QED
      BY <3>1, <3>2 DEF IInv, BusOK
  <2>2. CASE ~ ResetHubPort
    BY <1>1, <1>6, <2>2 DEF HubStep, PassSlot, EmptyHubPort, HubPortStatus, HubDone, ProbeSlot
  <2>3. QED
    BY <2>1, <2>2
<1>7. CASE DriveStep
  BY <1>1, <1>7 DEF DriveStep, NoDevice, StartDrives, SkipSlot, AddDrive, UnitNotReady
<1>8. QED
  BY <1>2, <1>3, <1>4, <1>5, <1>6, <1>7 DEF Next, Enumerating

\* The device table -------------------------------------------------------

\* A device gets the slot and the number behind those given.
LEMMA AddressedTable ==
  ASSUME IInv, Filling, NEW taken \in Takers, NEW top \in Lun \cup {Rejected, Hub},
         Addressed(taken, top), usb_count' \in {usb_count, usb_count + 1}
  PROVE  TableOK'
<1> DEFINE new == [id |-> NewId, lun |-> top]
<1>1. /\ max_dev \in Slots /\ NewId \in 1..MaxDev /\ NewId = max_dev + 1
      /\ slots' = [slots EXCEPT ![max_dev] = new] /\ max_dev' = NewId
  BY Takes DEF Addressed, NewId
<1>2. /\ slots \in [Slots -> [id: 0..MaxDev, lun: Lun \cup {Rejected, Hub}]]
      /\ max_dev \in Nat /\ usb_count \in 0..max_dev
      /\ \A k \in Slots : k < max_dev /\ slots[k].lun < Rejected => slots[k].id = k + 1
  BY Sizes DEF IInv, TableOK
<1>3. new \in [id: 0..MaxDev, lun: Lun \cup {Rejected, Hub}] /\ new.id = max_dev + 1
  BY <1>1, Sizes
<1> HIDE DEF new
<1>4. slots' \in [Slots -> [id: 0..MaxDev, lun: Lun \cup {Rejected, Hub}]]
  BY <1>1, <1>2, <1>3
<1>5. max_dev' \in 0..MaxDev /\ usb_count' \in 0..max_dev'
  BY <1>1, <1>2, Sizes
<1>6. ASSUME NEW k \in Slots, k < max_dev', slots'[k].lun < Rejected
      PROVE  slots'[k].id = k + 1
  <2>1. CASE k = max_dev
    BY <1>1, <1>2, <1>3, <2>1
  <2>2. CASE k # max_dev
    <3>1. k \in Nat /\ k < max_dev
      BY <1>1, <1>2, <1>6, <2>2, Sizes DEF Slots
    <3>2. QED
      BY <1>1, <1>2, <1>6, <2>2, <3>1
  <2>3. QED
    BY <2>1, <2>2
<1>7. QED
  BY <1>4, <1>5, <1>6 DEF TableOK

\* A slot that is marked as no place of drives may have any number.
LEMMA MarkedTable ==
  ASSUME IInv, NEW k \in Slots, NEW new \in [id: 0..MaxDev, lun: {Rejected, Hub}],
         slots' = [slots EXCEPT ![k] = new], UNCHANGED <<max_dev, usb_count>>
  PROVE  TableOK'
<1>1. ~ (new.lun < Rejected)
  BY DEF Rejected, Hub
<1>2. new \in [id: 0..MaxDev, lun: Lun \cup {Rejected, Hub}]
  OBVIOUS
<1>3. QED
  BY <1>1, <1>2 DEF IInv, TableOK

LEMMA FillTable ==
  ASSUME IInv, Fill
  PROVE  TableOK'
<1>1. CASE TableFull \/ NoDescriptor
  BY <1>1 DEF TableFull, NoDescriptor, table, IInv, TableOK
<1>2. CASE NoHead
  <2> DEFINE new == [slots[max_dev] EXCEPT !.lun = Rejected]
  <2>1. /\ slots' = [slots EXCEPT ![max_dev] = new] /\ UNCHANGED <<max_dev, usb_count>>
        /\ max_dev < MaxDev
    BY <1>2 DEF NoHead, Filling
  <2>2. max_dev \in Slots
    BY <2>1, Sizes DEF IInv, TableOK, Slots
  <2>3. slots[max_dev] \in [id: 0..MaxDev, lun: Lun \cup {Rejected, Hub}]
    BY <2>2 DEF IInv, TableOK
  <2>4. new \in [id: 0..MaxDev, lun: {Rejected, Hub}]
    BY <2>3
  <2> HIDE DEF new
  <2>5. QED
    BY <2>1, <2>2, <2>4, MarkedTable
<1>3. ASSUME NEW taken \in Takers, NoConfiguration(taken)
      PROVE  TableOK'
  BY <1>3, AddressedTable DEF NoConfiguration
<1>4. ASSUME NEW taken \in Takers, NEW x \in taken,
             \/ Unsuitable(taken, x) \/ HubFound(taken, x)
             \/ \E answered \in BOOLEAN : StorageFound(taken, x, answered)
      PROVE  TableOK'
  <2>1. TopLun \in Lun /\ StaleLun \in Lun
    BY Sizes DEF StaleLun, Lun
  <2>2. /\ Filling /\ \E top \in Lun \cup {Rejected, Hub} : Addressed(taken, top)
        /\ usb_count' \in {usb_count, usb_count + 1}
    BY <1>4, <2>1 DEF Unsuitable, HubFound, StorageFound
  <2>3. QED
    BY <2>2, AddressedTable
<1>5. QED
  BY <1>1, <1>2, <1>3, <1>4 DEF Fill

LEMMA NextTable ==
  ASSUME IInv, Next
  PROVE  TableOK'
<1>1. ASSUME UNCHANGED table PROVE TableOK'
  BY <1>1 DEF table, IInv, TableOK
<1>2. CASE NoController \/ StartController
  BY <1>1, <1>2 DEF NoController, StartController
<1>3. CASE RootStep
  <2>1. CASE EmptyPort \/ LowSpeedPort \/ ConnectedPort \/ PortsDone \/ HandOff
    BY <1>1, <2>1 DEF EmptyPort, LowSpeedPort, ConnectedPort, PortsDone, HandOff
  <2>2. ASSUME NEW enabled \in BOOLEAN, Attempt(enabled) PROVE TableOK'
    <3> DEFINE new == [id |-> 0, lun |-> Hub]
    <3>1. /\ slots' = [slots EXCEPT ![0] = new] /\ UNCHANGED <<max_dev, usb_count>>
      BY <2>2 DEF Attempt
    <3>2. 0 \in Slots /\ new \in [id: 0..MaxDev, lun: {Rejected, Hub}]
      BY Sizes DEF Slots
    <3> HIDE DEF new
    <3>3. QED
      BY <3>1, <3>2, MarkedTable
  <2>3. QED
    BY <1>3, <2>1, <2>2 DEF RootStep
<1>4. CASE Fill
  BY <1>4, FillTable
<1>5. CASE HubStep
  BY <1>1, <1>5 DEF HubStep, PassSlot, EmptyHubPort, ResetHubPort, HubPortStatus, HubDone,
                    ProbeSlot
<1>6. CASE DriveStep
  BY <1>1, <1>6 DEF DriveStep, NoDevice, StartDrives, SkipSlot, AddDrive, UnitNotReady
<1>7. QED
  BY <1>2, <1>3, <1>4, <1>5, <1>6 DEF Next, Enumerating

\* What transfers leave in Cache ------------------------------------------

LEMMA CacheValues ==
  LET C == [ports: 0..(Word - 1), connected: BOOLEAN, enabled: BOOLEAN]
  IN  /\ HeadCache \in C /\ ConfigCache \in C /\ HubCache \in C /\ LunCache(TopLun) \in C
      /\ \A c, e \in BOOLEAN : PortCache(c, e) \in C
<1> USE Sizes
<1>1. 0 \in 0..(Word - 1) /\ ConfigLength \in 0..(Word - 1) /\ HubPorts \in 0..(Word - 1)
  OBVIOUS
<1>2. QED
  BY <1>1 DEF HeadCache, ZeroCache, ConfigCache, HubCache, LunCache, PortCache

LEMMA NextCache ==
  ASSUME IInv, Next
  PROVE  CacheOK'
<1>1. ASSUME UNCHANGED cache PROVE CacheOK'
  BY <1>1 DEF IInv, CacheOK
<1>2. CASE NoController \/ StartController
  BY <1>1, <1>2 DEF NoController, StartController
<1>3. CASE RootStep
  BY <1>1, <1>3 DEF RootStep, EmptyPort, LowSpeedPort, ConnectedPort, PortsDone, HandOff, Attempt
<1>4. CASE Fill
  <2>1. CASE TableFull \/ NoHead \/ NoDescriptor
    BY <1>1, <2>1, CacheValues DEF TableFull, NoHead, NoDescriptor, CacheOK
  <2>2. ASSUME NEW taken \in Takers, NoConfiguration(taken) PROVE CacheOK'
    BY <2>2, CacheValues DEF NoConfiguration, CacheOK
  <2>3. ASSUME NEW taken \in Takers, NEW x \in taken,
               \/ Unsuitable(taken, x) \/ HubFound(taken, x)
               \/ \E answered \in BOOLEAN : StorageFound(taken, x, answered)
        PROVE  CacheOK'
    BY <2>3, CacheValues DEF Unsuitable, HubFound, StorageFound, CacheOK
  <2>4. QED
    BY <1>4, <2>1, <2>2, <2>3 DEF Fill
<1>5. CASE HubStep
  <2>1. CASE PassSlot \/ HubDone
    BY <1>1, <2>1 DEF PassSlot, HubDone
  <2>2. CASE EmptyHubPort \/ ResetHubPort \/ HubPortStatus
    <3>1. PICK e \in BOOLEAN : cache' \in Status(e)
      BY <2>2 DEF EmptyHubPort, ResetHubPort, HubPortStatus, Enabled
    <3>2. cache' = cache \/ cache' = PortCache(Occupied, e)
      BY <3>1 DEF Status
    <3>3. Occupied \in BOOLEAN
      BY DEF Occupied
    <3>4. QED
      BY <1>1, <3>2, <3>3, CacheValues DEF CacheOK
  <2>3. ASSUME NEW answered \in BOOLEAN, ProbeSlot(answered) PROVE CacheOK'
    BY <1>1, <2>3, CacheValues DEF ProbeSlot, CacheOK
  <2>4. QED
    BY <1>5, <2>1, <2>2, <2>3 DEF HubStep
<1>6. CASE DriveStep
  BY <1>1, <1>6 DEF DriveStep, NoDevice, StartDrives, SkipSlot, AddDrive, UnitNotReady
<1>7. QED
  BY <1>2, <1>3, <1>4, <1>5, <1>6 DEF Next, Enumerating

\* Attempts on a root port ------------------------------------------------

\* Filling goes back to the root ports, with no attempts made, or to the hub.
LEMMA FillGoes ==
  ASSUME IInv, Fill
  PROVE  /\ pc = "fill" /\ FillReturn
         /\ UNCHANGED <<enum_retry, slot, left, lun, caller, runs>>
<1>1. CASE TableFull \/ NoHead \/ NoDescriptor
  BY <1>1 DEF TableFull, NoHead, NoDescriptor, Filling
<1>2. ASSUME NEW taken \in Takers, NoConfiguration(taken)
      PROVE  /\ pc = "fill" /\ FillReturn
             /\ UNCHANGED <<enum_retry, slot, left, lun, caller, runs>>
  BY <1>2 DEF NoConfiguration, Filling
<1>3. ASSUME NEW taken \in Takers, NEW x \in taken,
             \/ Unsuitable(taken, x) \/ HubFound(taken, x)
             \/ \E answered \in BOOLEAN : StorageFound(taken, x, answered)
      PROVE  /\ pc = "fill" /\ FillReturn
             /\ UNCHANGED <<enum_retry, slot, left, lun, caller, runs>>
  BY <1>3 DEF Unsuitable, HubFound, StorageFound, Filling
<1>4. QED
  BY <1>1, <1>2, <1>3 DEF Fill

LEMMA NextRetry ==
  ASSUME IInv, Next
  PROVE  RetryOK'
<1>1. /\ enum_retry \in 0..(Byte - 1) /\ attempts \in 0..Byte /\ Byte \in Nat /\ Byte > 2
      /\ pc = "ports" => attempts = 0
      /\ pc = "attempt" => enum_retry # 0 /\ attempts + enum_retry < Byte
      /\ pc = "handoff" => attempts = 0 \/ (enum_retry # 0 /\ attempts + enum_retry <= Byte)
  BY Sizes DEF IInv, RetryOK
<1>2. ASSUME UNCHANGED enum_retry, attempts' \in {attempts, 0},
             pc' \notin {"attempt", "handoff"}, pc' = "ports" => attempts' = 0
      PROVE  RetryOK'
  <2>1. attempts' \in 0..Byte /\ enum_retry' \in 0..(Byte - 1)
    BY <1>1, <1>2
  <2>2. QED
    BY <1>2, <2>1 DEF RetryOK
<1>3. CASE NoController \/ StartController
  BY <1>2, <1>3 DEF NoController, StartController, Go, retries
<1>4. CASE RootStep
  <2>1. CASE EmptyPort \/ PortsDone
    BY <1>2, <2>1 DEF EmptyPort, PortsDone, NextPort, Go, retries
  <2>2. CASE LowSpeedPort
    BY <1>1, <2>2 DEF LowSpeedPort, Go, retries, RetryOK
  <2>3. CASE ConnectedPort
    BY <1>1, <2>3 DEF ConnectedPort, Go, RetryOK
  <2>4. CASE HandOff
    <3> DEFINE less == (enum_retry - 1) % Byte
    <3>1. /\ pc = "handoff" /\ enum_retry' = less
          /\ \/ less # 0 /\ pc' = "attempt" /\ attempts' = attempts
             \/ less = 0 /\ pc' = "ports" /\ attempts' = 0
      BY <2>4 DEF HandOff, NextPort, Go
    <3>2. less \in 0..(Byte - 1)
      BY <1>1
    <3>3. enum_retry # 0 => less = enum_retry - 1
      BY <1>1
    <3> HIDE DEF less
    <3>4. less # 0 => attempts + less < Byte
      BY <1>1, <3>1, <3>2, <3>3
    <3>5. QED
      BY <1>1, <3>1, <3>2, <3>4 DEF RetryOK
  <2>5. ASSUME NEW enabled \in BOOLEAN, Attempt(enabled) PROVE RetryOK'
    <3>1. /\ pc = "attempt" /\ attempts' = attempts + 1 /\ enum_retry' = enum_retry
          /\ pc' \in {"fill", "handoff"}
      BY <2>5 DEF Attempt, Go
    <3>2. QED
      BY <1>1, <3>1 DEF RetryOK
  <2>6. QED
    BY <1>4, <2>1, <2>2, <2>3, <2>4, <2>5 DEF RootStep
<1>5. CASE Fill
  BY <1>2, <1>5, FillGoes DEF FillReturn, NextPort, Go
<1>6. CASE HubStep
  BY <1>2, <1>6 DEF HubStep, PassSlot, EmptyHubPort, ResetHubPort, HubPortStatus, HubDone,
                    ProbeSlot, Go, retries
<1>7. CASE DriveStep
  <2>1. UNCHANGED retries /\ (pc' = pc \/ pc' \in {"idle", "drives"})
        /\ pc \in {"slots", "drives"}
    BY <1>7 DEF DriveStep, NoDevice, StartDrives, SkipSlot, AddDrive, UnitNotReady,
                NextUnit, NextSlot, Finish, Go
  <2>2. QED
    BY <1>2, <2>1 DEF retries
<1>8. QED
  BY <1>3, <1>4, <1>5, <1>6, <1>7 DEF Next, Enumerating

\* Where the driver is ----------------------------------------------------

\* The next LUN or slot, or the end of Drive_enumerate.
LEMMA NextUnitMoves ==
  ASSUME NEW found, NextUnit(found), pc = "drives",
         slot \in Nat, max_dev \in Nat, slot < max_dev
  PROVE  \/ lun < slots[slot].lun /\ lun' = lun + 1 /\ slot' = slot /\ pc' = "drives"
         \/ /\ lun' = 0 /\ slot' = slot + 1
            /\ \/ pc' = "drives" /\ slot' < max_dev
               \/ pc' = "idle" /\ Finish(found)
BY DEF NextUnit, NextSlot, Finish, Go

LEMMA DriveMoves ==
  ASSUME IInv, DriveStep
  PROVE  /\ UNCHANGED <<port, left, caller, runs, max_dev>>
         /\ pc' \in {"idle", "drives"}
         /\ slot' \in 0..MaxDev /\ lun' \in Lun
         /\ pc' = "drives" => slot' < max_dev
<1>1. /\ slot \in 0..MaxDev /\ max_dev \in 0..MaxDev /\ MaxDev \in Nat /\ lun \in Lun
      /\ usb_count \in 0..max_dev
      /\ pc = "drives" => slot < max_dev
  BY Sizes DEF IInv, WhereOK, TableOK
<1>2. CASE NoDevice
  BY <1>1, <1>2 DEF NoDevice, loops, table, Go
<1>3. CASE StartDrives
  <2>1. /\ UNCHANGED <<port, left, caller, runs, max_dev>>
        /\ pc' = "drives" /\ slot' = 0 /\ lun' = 0 /\ usb_count # 0
    BY <1>3 DEF StartDrives, Go, table
  <2>2. QED
    BY <1>1, <2>1 DEF Lun
<1>4. ASSUME NEW found, NextUnit(found), slots[slot].lun < Rejected, pc = "drives",
             UNCHANGED <<port, left, caller, runs, max_dev>>
      PROVE  /\ pc' \in {"idle", "drives"}
             /\ slot' \in 0..MaxDev /\ lun' \in Lun
             /\ pc' = "drives" => slot' < max_dev
  <2>1. slot \in Slots
    BY <1>1, <1>4 DEF Slots
  <2>2. slots[slot].lun \in Lun
    <3>1. slots[slot].lun \in Lun \cup {Rejected, Hub}
      BY <2>1 DEF IInv, TableOK
    <3>2. QED
      BY <1>4, <3>1 DEF Rejected, Hub
  <2>3. lun < slots[slot].lun => lun + 1 \in Lun
    BY <1>1, <2>2 DEF Lun
  <2>4. slot + 1 \in 0..MaxDev /\ 0 \in Lun
    BY <1>1, <1>4 DEF Lun
  <2>5. slot \in Nat /\ max_dev \in Nat /\ slot < max_dev
    BY <1>1, <1>4
  <2>6. QED
    BY <1>1, <1>4, <2>3, <2>4, <2>5, NextUnitMoves
<1>5. CASE SkipSlot
  <2>1. /\ pc = "drives" /\ NextSlot(drives) /\ UNCHANGED <<port, left, caller, runs, max_dev>>
    BY <1>5 DEF SkipSlot, table
  <2>2. /\ lun' = 0 /\ slot' = slot + 1
        /\ \/ pc' = "idle"
           \/ pc' = "drives" /\ slot + 1 # max_dev
    BY <2>1 DEF NextSlot, Finish, Go
  <2>3. slot + 1 \in 0..MaxDev /\ 0 \in Lun /\ (slot + 1 # max_dev => slot + 1 < max_dev)
    BY <1>1, <2>1 DEF Lun
  <2>4. QED
    BY <2>1, <2>2, <2>3
<1>6. CASE AddDrive
  <2>1. /\ pc = "drives" /\ slots[slot].lun < Rejected
        /\ UNCHANGED <<port, left, caller, runs, max_dev>>
        /\ \/ pc' = "idle" /\ UNCHANGED <<slot, lun>>
           \/ NextUnit(drives')
    BY <1>6 DEF AddDrive, Finish, Go, table
  <2>2. QED
    BY <1>1, <1>4, <2>1
<1>7. CASE UnitNotReady
  <2>1. /\ pc = "drives" /\ slots[slot].lun < Rejected
        /\ UNCHANGED <<port, left, caller, runs, max_dev>> /\ NextUnit(drives)
    BY <1>7 DEF UnitNotReady, table
  <2>2. QED
    BY <1>1, <1>4, <2>1
<1>8. QED
  BY <1>2, <1>3, <1>5, <1>6, <1>7 DEF DriveStep

LEMMA NextWhere ==
  ASSUME IInv, Next
  PROVE  WhereOK'
<1>0. WhereOK
  BY DEF IInv
<1> USE DEF WhereOK
<1>1. CASE NoController \/ StartController
  <2>1. runs < MaxRuns /\ runs' = runs + 1
    BY <1>1 DEF NoController, StartController, Start
  <2>2. runs' \in 0..MaxRuns /\ 1 \in 1..(NPorts + 1)
    <3>1. runs \in 0..MaxRuns
      BY <1>0
    <3>2. QED
      BY <2>1, <3>1, Sizes
  <2>3. CASE NoController
    BY <1>0, <2>2, <2>3 DEF NoController, Go, loops
  <2>4. CASE StartController
    BY <1>0, <2>2, <2>4 DEF StartController, Go
  <2>5. QED
    BY <1>1, <2>3, <2>4
<1>2. CASE RootStep
  <2>1. port <= NPorts => port + 1 \in 1..(NPorts + 1)
    <3>1. port \in 1..(NPorts + 1)
      BY <1>0
    <3>2. QED
      BY <3>1, Sizes
  <2>2. CASE EmptyPort
    BY <1>0, <2>1, <2>2 DEF EmptyPort, NextPort, Go
  <2>3. CASE LowSpeedPort \/ ConnectedPort
    BY <1>0, <2>3 DEF LowSpeedPort, ConnectedPort, Go, loops
  <2>4. CASE HandOff
    BY <1>0, <2>1, <2>4 DEF HandOff, NextPort, Go
  <2>5. CASE PortsDone
    <3>1. 0 \in 0..MaxDev
      BY Sizes
    <3>2. QED
      BY <1>0, <2>5, <3>1 DEF PortsDone, Go
  <2>6. ASSUME NEW enabled \in BOOLEAN, Attempt(enabled) PROVE WhereOK'
    BY <1>0, <2>6 DEF Attempt, Go
  <2>7. QED
    BY <1>2, <2>2, <2>3, <2>4, <2>5, <2>6 DEF RootStep
<1>3. CASE Fill
  <2>1. caller = "ports" /\ pc = "fill" => port + 1 \in 1..(NPorts + 1)
    BY <1>0, Sizes
  <2>2. QED
    BY <1>0, <1>3, <2>1, FillGoes DEF FillReturn, NextPort, Go
<1>4. CASE HubStep
  <2>1. /\ slot \in 0..MaxDev /\ MaxDev \in Nat /\ left \in 0..Word /\ Word \in Nat /\ Word > 1
    BY <1>0, Sizes
  <2>2. slot < MaxDev => slot + 1 \in 0..MaxDev
    BY <2>1
  <2>3. left > 0 => left - 1 \in 0..Word
    BY <2>1
  <2>4. CASE PassSlot
    BY <1>0, <2>2, <2>4 DEF PassSlot
  <2>5. CASE HubDone
    BY <1>0, <2>2, <2>5 DEF HubDone, Go
  <2>6. CASE EmptyHubPort
    BY <1>0, <2>3, <2>6 DEF EmptyHubPort
  <2>7. CASE ResetHubPort
    BY <1>0, <2>7 DEF ResetHubPort, Go, loops
  <2>8. CASE HubPortStatus
    BY <1>0, <2>3, <2>8 DEF HubPortStatus, Go
  <2>9. ASSUME NEW answered \in BOOLEAN, ProbeSlot(answered) PROVE WhereOK'
    <3>1. cache'.ports \in 0..(Word - 1)
      BY NextCache DEF CacheOK
    <3>2. left' = IF cache'.ports = 0 THEN Word ELSE cache'.ports
      BY <2>9 DEF ProbeSlot
    <3>3. left' \in 0..Word
      BY <2>1, <3>1, <3>2
    <3>4. QED
      BY <1>0, <2>9, <3>3 DEF ProbeSlot, Go
  <2>10. QED
    BY <1>4, <2>4, <2>5, <2>6, <2>7, <2>8, <2>9 DEF HubStep
<1>5. CASE DriveStep
  BY <1>0, <1>5, DriveMoves
<1>6. QED
  BY <1>1, <1>2, <1>3, <1>4, <1>5 DEF Next, Enumerating

\* The drives -------------------------------------------------------------

LEMMA SeqElement ==
  ASSUME NEW S, NEW s \in Seq(S), NEW i \in 1..Len(s)
  PROVE  s[i] \in S
OBVIOUS

\* What Drive_enumerate has entered stays below where it goes next.
LEMMA NextUnitVisits ==
  ASSUME NEW found \in Seq([id: 1..MaxDev, lun: Lun]), NextUnit(found), pc = "drives",
         slot \in Nat, max_dev \in Nat, slot < max_dev, lun \in Nat, MaxDev \in Nat,
         \A i \in 1..Len(found) :
           found[i].id <= slot \/ (found[i].id = slot + 1 /\ found[i].lun <= lun)
  PROVE  pc' = "drives" =>
           \A i \in 1..Len(found) :
             found[i].id <= slot' \/ (found[i].id = slot' + 1 /\ found[i].lun < lun')
<1> SUFFICES ASSUME pc' = "drives", NEW i \in 1..Len(found)
             PROVE  found[i].id <= slot' \/ (found[i].id = slot' + 1 /\ found[i].lun < lun')
  OBVIOUS
<1>1. found[i].id \in Nat /\ found[i].lun \in Nat
  <2>1. found[i] \in [id: 1..MaxDev, lun: Lun]
    BY SeqElement
  <2>2. QED
    BY <2>1 DEF Lun
<1>2. found[i].id <= slot \/ (found[i].id = slot + 1 /\ found[i].lun <= lun)
  OBVIOUS
<1> DEFINE n == found[i].id
           u == found[i].lun
<1> HIDE DEF n, u
<1>3. n \in Nat /\ u \in Nat /\ (n <= slot \/ (n = slot + 1 /\ u <= lun))
  BY <1>1, <1>2 DEF n, u
<1>4. (lun' = lun + 1 /\ slot' = slot) \/ slot' = slot + 1
  BY NextUnitMoves
<1>5. n <= slot' \/ (n = slot' + 1 /\ u < lun')
  BY <1>3, <1>4
<1>6. QED
  BY <1>5 DEF n, u

\* Every drive found so far is another LUN than the one Drive_enumerate is at.
LEMMA VisitedBelow ==
  ASSUME IInv, pc = "drives"
  PROVE  /\ drives \in Seq([id: 1..MaxDev, lun: Lun]) /\ Len(drives) < MaxDri
         /\ slot \in Nat /\ slot < max_dev /\ max_dev \in Nat /\ max_dev <= MaxDev
         /\ lun \in Lun /\ MaxDev \in Nat
         /\ \A i \in 1..Len(drives) :
              drives[i].id <= slot \/ (drives[i].id = slot + 1 /\ drives[i].lun < lun)
<1>1. /\ drives \in Seq([id: 1..MaxDev, lun: Lun])
      /\ slot \in 0..MaxDev /\ slot < max_dev /\ max_dev \in 0..MaxDev /\ lun \in Lun
  BY DEF IInv, ResultOK, WhereOK, TableOK
<1>2. Len(drives) < MaxDri
      /\ \A i \in 1..Len(drives) :
           drives[i].id <= slot \/ (drives[i].id = slot + 1 /\ drives[i].lun < lun)
  BY DEF IInv, Visited
<1>3. QED
  BY <1>1, <1>2, Sizes

\* The drive that is added is one that was not there.
LEMMA Added ==
  ASSUME IInv, AddDrive
  PROVE  LET new == [id |-> slot + 1, lun |-> lun]
         IN  /\ drives' = Append(drives, new) /\ new \in [id: 1..MaxDev, lun: Lun]
             /\ \A i \in 1..Len(drives) : drives[i] # new
<1> DEFINE new == [id |-> slot + 1, lun |-> lun]
<1>1. pc = "drives" /\ slots[slot].lun < Rejected
      /\ drives' = Append(drives, [id |-> slots[slot].id, lun |-> lun])
  BY DEF AddDrive
<1>2. /\ drives \in Seq([id: 1..MaxDev, lun: Lun])
      /\ slot \in Nat /\ slot < max_dev /\ max_dev \in Nat /\ max_dev <= MaxDev
      /\ lun \in Lun /\ MaxDev \in Nat
      /\ \A i \in 1..Len(drives) :
           drives[i].id <= slot \/ (drives[i].id = slot + 1 /\ drives[i].lun < lun)
  BY <1>1, VisitedBelow
<1>3. slot \in Slots
  BY <1>2 DEF Slots
<1>4. slots[slot].id = slot + 1
  BY <1>1, <1>2, <1>3 DEF IInv, TableOK
<1>5. slot + 1 \in 1..MaxDev
  BY <1>2
<1>6. ASSUME NEW i \in 1..Len(drives) PROVE drives[i] # new
  <2>1. drives[i].id <= slot \/ (drives[i].id = slot + 1 /\ drives[i].lun < lun)
    BY <1>2
  <2>2. drives[i] = new => drives[i].id = slot + 1 /\ drives[i].lun = lun
    OBVIOUS
  <2>3. lun \in Nat
    BY <1>2 DEF Lun
  <2>4. ~ (slot + 1 <= slot)
    BY <1>2
  <2>5. ~ (lun < lun)
    BY <2>3
  <2>6. QED
    BY <2>1, <2>2, <2>4, <2>5
<1>7. QED
  BY <1>1, <1>2, <1>4, <1>5, <1>6

LEMMA AppendDistinct ==
  ASSUME NEW S, NEW found \in Seq(S), NEW new \in S,
         \A i, j \in 1..Len(found) : found[i] = found[j] => i = j,
         \A i \in 1..Len(found) : found[i] # new
  PROVE  LET more == Append(found, new)
         IN  /\ more \in Seq(S) /\ Len(more) = Len(found) + 1
             /\ \A i, j \in 1..Len(more) : more[i] = more[j] => i = j
             /\ \A i \in 1..Len(more) : i <= Len(found) \/ more[i] = new
             /\ \A i \in 1..Len(found) : more[i] = found[i]
<1> DEFINE more == Append(found, new)
           n == Len(found)
<1>1. more \in Seq(S) /\ Len(more) = n + 1 /\ n \in Nat
  OBVIOUS
<1>2. \A i \in 1..n : more[i] = found[i]
  OBVIOUS
<1>3. more[n + 1] = new
  OBVIOUS
<1>4. \A i, j \in 1..n : found[i] = found[j] => i = j
  OBVIOUS
<1>5. \A i \in 1..n : found[i] # new
  OBVIOUS
<1> HIDE DEF more, n
<1>6. \A i \in 1..(n + 1) : i = n + 1 \/ i \in 1..n
  BY <1>1
<1>7. \A i, j \in 1..(n + 1) : more[i] = more[j] => i = j
  BY <1>2, <1>3, <1>4, <1>5, <1>6
<1>8. \A i \in 1..(n + 1) : i <= n \/ more[i] = new
  BY <1>1, <1>3, <1>6
<1>9. QED
  BY <1>1, <1>2, <1>7, <1>8 DEF more, n

\* A step that enters no drive.
LEMMA SameDrives ==
  ASSUME IInv, UNCHANGED drives, error' \in 0..MaxDri \cup {128, 129, 130}, stage' \in 0..4
  PROVE  ResultOK' /\ DrivesDistinct'
BY DEF IInv, ResultOK, DrivesDistinct

LEMMA NextResult ==
  ASSUME IInv, Next
  PROVE  ResultOK' /\ DrivesDistinct' /\ Visited'
<1>1. /\ drives \in Seq([id: 1..MaxDev, lun: Lun]) /\ Len(drives) <= MaxDri
      /\ error \in 0..MaxDri \cup {128, 129, 130} /\ stage \in 0..4 /\ MaxDri \in Nat
      /\ MaxDri > 0 /\ MaxDev \in Nat /\ Len(drives) \in Nat
  BY Sizes DEF IInv, ResultOK
<1>2. ASSUME UNCHANGED drives, pc' # "drives",
             error' \in 0..MaxDri \cup {128, 129, 130}, stage' \in 0..4
      PROVE  ResultOK' /\ DrivesDistinct' /\ Visited'
  BY <1>2, SameDrives DEF Visited
<1>3. CASE NoController \/ StartController
  BY <1>2, <1>3 DEF NoController, StartController, Start, Go
<1>4. CASE RootStep
  BY <1>1, <1>2, <1>4 DEF RootStep, EmptyPort, LowSpeedPort, ConnectedPort, PortsDone, HandOff,
                          Attempt, NextPort, Go, result
<1>5. CASE Fill
  <2>1. pc' # "drives"
    BY <1>5, FillGoes DEF FillReturn, NextPort, Go
  <2>2. UNCHANGED <<drives, error>> /\ stage' \in {stage, 3}
    <3>1. CASE TableFull \/ NoHead \/ NoDescriptor
      BY <3>1 DEF TableFull, NoHead, NoDescriptor, result
    <3>2. ASSUME NEW taken \in Takers, NoConfiguration(taken)
          PROVE  UNCHANGED <<drives, error>> /\ stage' \in {stage, 3}
      BY <3>2 DEF NoConfiguration
    <3>3. ASSUME NEW taken \in Takers, NEW x \in taken,
                 \/ Unsuitable(taken, x) \/ HubFound(taken, x)
                 \/ \E answered \in BOOLEAN : StorageFound(taken, x, answered)
          PROVE  UNCHANGED <<drives, error>> /\ stage' \in {stage, 3}
      BY <3>3 DEF Unsuitable, HubFound, StorageFound, result
    <3>4. QED
      BY <1>5, <3>1, <3>2, <3>3 DEF Fill
  <2>3. QED
    BY <1>1, <1>2, <2>1, <2>2
<1>6. CASE HubStep
  <2>1. UNCHANGED result /\ pc' # "drives"
    <3>1. CASE PassSlot \/ EmptyHubPort \/ ResetHubPort \/ HubDone
      BY <3>1 DEF PassSlot, EmptyHubPort, ResetHubPort, HubDone, Go
    <3>2. CASE HubPortStatus
      BY <3>2 DEF HubPortStatus, Go
    <3>3. ASSUME NEW answered \in BOOLEAN, ProbeSlot(answered)
          PROVE  UNCHANGED result /\ pc' # "drives"
      BY <3>3 DEF ProbeSlot, Go
    <3>4. QED
      BY <1>6, <3>1, <3>2, <3>3 DEF HubStep
  <2>2. QED
    BY <1>1, <1>2, <2>1 DEF result
<1>7. CASE NoDevice
  BY <1>1, <1>2, <1>7 DEF NoDevice, Go
<1>8. CASE StartDrives
  <2>1. drives' = <<>> /\ error' = 129 /\ stage' = stage /\ lun' = 0 /\ slot' = 0
    BY <1>8 DEF StartDrives
  <2>2. <<>> \in Seq([id: 1..MaxDev, lun: Lun]) /\ Len(<<>>) = 0
    OBVIOUS
  <2>3. \A i \in 1..0 : FALSE
    OBVIOUS
  <2>4. Len(drives') = 0 /\ drives' \in Seq([id: 1..MaxDev, lun: Lun])
    BY <2>1, <2>2
  <2>5. QED
    BY <1>1, <2>1, <2>3, <2>4 DEF ResultOK, DrivesDistinct, Visited
\* How Drive_enumerate leaves error and stage.
<1>9. ASSUME NEW found, Len(found) \in 0..MaxDri,
             Finish(found) \/ UNCHANGED <<error, stage>>
      PROVE  error' \in 0..MaxDri \cup {128, 129, 130} /\ stage' \in 0..4
  BY <1>1, <1>9 DEF Finish
<1>10. CASE SkipSlot \/ UnitNotReady
  <2>1. /\ pc = "drives" /\ UNCHANGED drives
        /\ \/ NextSlot(drives)
           \/ NextUnit(drives)
    BY <1>10 DEF SkipSlot, UnitNotReady
  <2>2. Finish(drives) \/ UNCHANGED <<error, stage>>
    BY <2>1 DEF NextUnit, NextSlot
  <2>3. ResultOK' /\ DrivesDistinct'
    BY <1>1, <1>9, <2>1, <2>2, SameDrives
  <2>4. /\ Len(drives) < MaxDri /\ slot \in Nat /\ max_dev \in Nat /\ slot < max_dev /\ lun \in Lun
        /\ \A i \in 1..Len(drives) :
             drives[i].id <= slot \/ (drives[i].id = slot + 1 /\ drives[i].lun < lun)
    BY <2>1, VisitedBelow
  <2>5. ASSUME NEW i \in 1..Len(drives)
        PROVE  drives[i].id \in Nat /\ drives[i].lun \in Nat
    <3>1. drives \in Seq([id: 1..MaxDev, lun: Lun])
      BY <1>1
    <3>2. drives[i] \in [id: 1..MaxDev, lun: Lun]
      BY <3>1, SeqElement
    <3>3. QED
      BY <1>1, <3>2 DEF Lun
  <2>6. CASE NextSlot(drives)
    <3>1. slot' = slot + 1
      BY <2>6 DEF NextSlot
    <3>2. \A i \in 1..Len(drives) : drives[i].id <= slot'
      BY <2>4, <2>5, <3>1
    <3>3. QED
      BY <2>1, <2>3, <2>4, <3>2 DEF Visited
  <2>7. CASE NextUnit(drives)
    <3>1. lun \in Nat
      BY <2>4 DEF Lun
    <3>2. \A i \in 1..Len(drives) :
            drives[i].id <= slot \/ (drives[i].id = slot + 1 /\ drives[i].lun <= lun)
      BY <2>4, <2>5, <3>1
    <3>3. pc' = "drives" =>
            \A i \in 1..Len(drives) :
              drives[i].id <= slot' \/ (drives[i].id = slot' + 1 /\ drives[i].lun < lun')
      BY <1>1, <2>1, <2>4, <2>7, <3>1, <3>2, NextUnitVisits
    <3>4. QED
      BY <2>1, <2>3, <2>4, <3>3 DEF Visited
  <2>8. QED
    BY <2>1, <2>6, <2>7
<1>11. CASE AddDrive
  <2> DEFINE new == [id |-> slot + 1, lun |-> lun]
             more == Append(drives, new)
             S == [id: 1..MaxDev, lun: Lun]
  <2>1. /\ drives' = more /\ new \in S
        /\ \A i \in 1..Len(drives) : drives[i] # new
    BY <1>11, Added
  <2>2. pc = "drives"
    BY <1>11 DEF AddDrive
  <2>3. /\ Len(drives) < MaxDri /\ slot \in Nat /\ max_dev \in Nat /\ slot < max_dev /\ lun \in Lun
        /\ \A i \in 1..Len(drives) :
             drives[i].id <= slot \/ (drives[i].id = slot + 1 /\ drives[i].lun < lun)
    BY <2>2, VisitedBelow
  <2>4. \A i, j \in 1..Len(drives) : drives[i] = drives[j] => i = j
    BY DEF IInv, DrivesDistinct
  <2>5. /\ more \in Seq(S) /\ Len(more) = Len(drives) + 1
        /\ \A i, j \in 1..Len(more) : more[i] = more[j] => i = j
        /\ \A i \in 1..Len(more) : i <= Len(drives) \/ more[i] = new
        /\ \A i \in 1..Len(drives) : more[i] = drives[i]
    BY <1>1, <2>1, <2>4, AppendDistinct
  <2>6. new.id = slot + 1 /\ new.lun = lun
    OBVIOUS
  <2> HIDE DEF new, more
  <2>7. Len(more) \in 0..MaxDri
    BY <1>1, <2>3, <2>5
  <2>8. \/ Len(more) = MaxDri /\ Finish(more) /\ pc' = "idle"
        \/ Len(more) # MaxDri /\ NextUnit(more)
    BY <1>11, <2>1 DEF AddDrive, Finish, Go
  <2>9. Finish(more) \/ UNCHANGED <<error, stage>>
    BY <2>8 DEF NextUnit, NextSlot
  <2>10. error' \in 0..MaxDri \cup {128, 129, 130} /\ stage' \in 0..4
    BY <1>9, <2>7, <2>9
  <2>11. ResultOK' /\ DrivesDistinct'
    BY <2>1, <2>5, <2>7, <2>10 DEF ResultOK, DrivesDistinct
  <2>12. ASSUME NEW i \in 1..Len(more)
         PROVE  more[i].id <= slot \/ (more[i].id = slot + 1 /\ more[i].lun <= lun)
    <3>1. lun \in Nat
      BY <2>3 DEF Lun
    <3>2. CASE more[i] = new
      BY <2>6, <3>1, <3>2
    <3>3. CASE more[i] # new
      <4>1. i \in 1..Len(drives) /\ more[i] = drives[i]
        <5>1. i \in Nat /\ i >= 1
          OBVIOUS
        <5>2. i <= Len(drives)
          BY <2>5, <3>3
        <5>3. i \in 1..Len(drives)
          BY <1>1, <5>1, <5>2
        <5>4. QED
          BY <2>5, <5>3
      <4>2. drives[i] \in [id: 1..MaxDev, lun: Lun]
        BY <1>1, <4>1, SeqElement
      <4>3. drives[i].lun \in Nat
        BY <4>2 DEF Lun
      <4>4. QED
        BY <2>3, <3>1, <4>1, <4>3
    <3>4. QED
      BY <3>2, <3>3
  <2>13. Visited'
    <3>1. CASE pc' = "idle"
      BY <3>1 DEF Visited
    <3>2. CASE Len(more) # MaxDri /\ NextUnit(more)
      <4>1. lun \in Nat /\ Len(more) < MaxDri
        BY <1>1, <2>3, <2>7, <3>2 DEF Lun
      <4>2. pc' = "drives" =>
              \A i \in 1..Len(more) :
                more[i].id <= slot' \/ (more[i].id = slot' + 1 /\ more[i].lun < lun')
        BY <1>1, <2>2, <2>3, <2>5, <2>12, <3>2, <4>1, NextUnitVisits
      <4>3. QED
        BY <2>1, <4>1, <4>2 DEF Visited
    <3>3. QED
      BY <2>8, <3>1, <3>2
  <2>14. QED
    BY <2>11, <2>13
<1>12. QED
  BY <1>3, <1>4, <1>5, <1>6, <1>7, <1>8, <1>10, <1>11 DEF Next, Enumerating, DriveStep

-----------------------------------------------------------------------------

LEMMA Inductive == Spec => []IInv
<1>1. ASSUME IInv, UNCHANGED vars
      PROVE  IInv'
  <2> USE <1>1 DEF vars, bus, table, result, retries, loops, IInv
  <2>1. BusOK' /\ CacheOK' /\ RetryOK'
    BY DEF BusOK, CacheOK, RetryOK
  <2>2. TableOK'
    BY DEF TableOK
  <2>3. ResultOK' /\ DrivesDistinct' /\ Visited'
    BY DEF ResultOK, DrivesDistinct, Visited
  <2>4. WhereOK'
    BY DEF WhereOK
  <2>5. QED
    BY <2>1, <2>2, <2>3, <2>4
<1>2. IInv /\ [Next]_vars => IInv'
  BY <1>1, NextBus, NextTable, NextCache, NextRetry, NextWhere, NextResult DEF IInv
<1>3. QED
  BY InitIInv, <1>2, PTL DEF Spec

\* The driver's variables keep their ranges whatever fails: the device table
\* and the drive table are written only inside their bounds, cx is at most
\* 2^16 and enum_retry stays a byte.
THEOREM Types == Spec => []TypeOK
<1>1. IInv => TypeOK
  <2> SUFFICES ASSUME IInv PROVE TypeOK
    OBVIOUS
  <2>1. cache \in [ports: Nat, connected: BOOLEAN, enabled: BOOLEAN]
    <3>1. cache \in [ports: 0..(Word - 1), connected: BOOLEAN, enabled: BOOLEAN]
      BY DEF IInv, CacheOK
    <3>2. QED
      BY <3>1
  <2>2. QED
    BY <2>1 DEF IInv, BusOK, TableOK, ResultOK, RetryOK, WhereOK, TypeOK, Lun
<1>2. QED
  BY Inductive, <1>1, PTL

\* Whatever fails and however often `usb --init` is given, no LUN becomes two
\* drives: a write to one would appear on another.
THEOREM Distinct == Spec => []DrivesDistinct
<1>1. IInv => DrivesDistinct
  BY DEF IInv
<1>2. QED
  BY Inductive, <1>1, PTL

-----------------------------------------------------------------------------
(* That every drive is one device.  What it needs of the bus: the transfers *)
(* that lead a device away from address 0 do not fail.                      *)

Calm == Failing \cap {"head", "device", "address", "hub status"} = {}

Apart == \A x, y \in Places : addr[x] = addr[y] /\ addr[x] > 0 => x = y
Assigned == \A x \in Places : addr[x] <= max_dev

\* While the table has a slot left, one device at most is at address 0: the
\* one that is being filled in, or the one on the hub port just reset.
Alone ==
  max_dev < MaxDev =>
    /\ \A x, y \in At(0) : x = y
    /\ pc \notin {"fill", "hub port"} => At(0) = {}
    /\ pc = "hub port" => At(0) \subseteq Below

BInv == IInv /\ Apart /\ Assigned /\ Alone /\ DrivesAreReal

LEMMA NoneAndOne ==
  ASSUME NEW a, \A x, y \in At(a) : x = y
  PROVE  Cardinality(At(a)) = IF At(a) = {} THEN 0 ELSE 1
<1>1. CASE At(a) = {}
  BY <1>1, FS_EmptySet
<1>2. ASSUME NEW x \in At(a) PROVE Cardinality(At(a)) = 1
  <2>1. At(a) = {x}
    BY <1>2
  <2>2. QED
    BY <2>1, FS_Singleton
<1>3. QED
  BY <1>1, <1>2

\* A hub's ports hold no hub.
LEMMA NoHubBelow ==
  ASSUME IInv, left > 0
  PROVE  \A y \in Below : y \in Places /\ plug[y] # "hub"
<1>1. plug \in Plugs /\ left \in 0..Word /\ Word \in Nat
  BY Sizes DEF IInv, BusOK, WhereOK
<1>2. left # 0
  BY <1>1
<1>3. ASSUME NEW y \in Below PROVE y \in Places /\ y[2] # 0
  BY <1>2, <1>3 DEF Below
<1>4. QED
  BY <1>1, <1>3, UsbAssumption

LEMMA SlotInTable ==
  ASSUME IInv
  PROVE  slot < MaxDev => slot \in Slots
<1>1. slot \in 0..MaxDev /\ MaxDev \in Nat
  BY Sizes DEF IInv, WhereOK
<1>2. QED
  BY <1>1 DEF Slots

LEMMA Addresses ==
  ASSUME IInv, NEW k \in Slots
  PROVE  Address(k) \in Nat /\ (Address(k) # 0 => Address(k) > 0)
<1>1. slots[k].id \in 0..MaxDev
  BY DEF IInv, TableOK
<1>2. slots[k].id \in Nat
  BY <1>1, Sizes
<1> DEFINE a == Address(k)
<1>3. a \in Nat
  BY <1>2, Sizes DEF Address
<1> HIDE DEF a
<1>4. a # 0 => a > 0
  BY <1>3
<1>5. QED
  BY <1>3, <1>4 DEF a

LEMMA OneHub ==
  ASSUME BInv, max_dev < MaxDev, pc \in {"hub", "hub port"}, left > 0
  PROVE  /\ \A x, y \in HubsAt(Address(slot)) : x = y
         /\ HubsAt(Address(slot)) # {} =>
              Address(slot) # 0 /\ \A x, y \in At(Address(slot)) : x = y
<1>5. HubsAt(0) = {}
  <2>1. At(0) = {} \/ At(0) \subseteq Below
    BY DEF BInv, Alone
  <2>2. \A y \in Below : plug[y] # "hub"
    BY NoHubBelow DEF BInv
  <2>3. QED
    BY <2>1, <2>2 DEF HubsAt
<1>6. Address(slot) > 0 => \A x, y \in At(Address(slot)) : x = y
  BY DEF BInv, Apart, At
<1>7. CASE Address(slot) = 0
  BY <1>5, <1>7
<1>8. CASE Address(slot) # 0
  <2>1. Address(slot) > 0
    BY <1>8, SlotInTable, Addresses DEF BInv, IInv, WhereOK
  <2>2. QED
    BY <1>6, <1>8, <2>1 DEF HubsAt
<1>9. QED
  BY <1>7, <1>8

\* Filling in finds the device or finds nobody.
LEMMA CalmFill ==
  ASSUME Calm, BInv, Fill
  PROVE  \/ UNCHANGED <<addr, max_dev>> /\ max_dev >= MaxDev
         \/ UNCHANGED <<addr, max_dev>> /\ At(0) = {}
         \/ /\ addr' = [x \in Places |-> IF x \in At(0) THEN NewId ELSE addr[x]]
            /\ max_dev' = NewId /\ max_dev < MaxDev
<1>1. CASE TableFull
  BY <1>1 DEF TableFull, bus, table
<1>2. CASE ~ TableFull
  <2>1. pc = "fill" /\ Filling
    BY <1>2 DEF Fill, NoHead, NoDescriptor, NoConfiguration, Unsuitable, HubFound,
                StorageFound, Filling
  <2>2. \A x, y \in At(0) : x = y
    BY <2>1 DEF BInv, Alone, Filling
  <2>3. Cardinality(At(0)) = IF At(0) = {} THEN 0 ELSE 1
    BY <2>2, NoneAndOne
  <2>4. \A step \in {"head", "device", "address"} : MayMiss(0, step) => At(0) = {}
    BY <2>3 DEF MayMiss, CanFail, Calm
  <2>5. CASE NoHead \/ NoDescriptor
    BY <2>4, <2>5 DEF NoHead, NoDescriptor, bus, table
  <2>6. ASSUME NEW taken \in Takers, NEW top, Addressed(taken, top)
        PROVE  /\ addr' = [x \in Places |-> IF x \in At(0) THEN NewId ELSE addr[x]]
               /\ max_dev' = NewId /\ max_dev < MaxDev
    <3>1. taken = At(0)
      BY <2>4, <2>6 DEF Takers
    <3>2. QED
      BY <2>1, <2>6, <3>1 DEF Addressed, Filling
  <2>7. ASSUME NEW taken \in Takers, NoConfiguration(taken)
        PROVE  \E top : Addressed(taken, top)
    BY <2>7 DEF NoConfiguration
  <2>8. ASSUME NEW taken \in Takers, NEW x \in taken,
               \/ Unsuitable(taken, x) \/ HubFound(taken, x)
               \/ \E answered \in BOOLEAN : StorageFound(taken, x, answered)
        PROVE  \E top : Addressed(taken, top)
    BY <2>8 DEF Unsuitable, HubFound, StorageFound
  <2>9. QED
    BY <1>2, <2>5, <2>6, <2>7, <2>8 DEF Fill
<1>3. QED
  BY <1>1, <1>2

\* Nobody is at address 0, or nothing that counts has changed.
LEMMA BusKept ==
  ASSUME BInv, UNCHANGED <<addr, max_dev>>,
         pc' \notin {"fill", "hub port"}, max_dev < MaxDev => At(0) = {}
  PROVE  Apart' /\ Assigned' /\ Alone'
BY DEF BInv, Apart, Assigned, Alone, At

LEMMA CalmFilled ==
  ASSUME Calm, BInv, Fill
  PROVE  Apart' /\ Assigned' /\ Alone'
<1>1. pc' \notin {"fill", "hub port"}
  BY FillGoes DEF FillReturn, NextPort, Go, BInv
<1>2. CASE UNCHANGED <<addr, max_dev>> /\ (max_dev >= MaxDev \/ At(0) = {})
  <2>1. max_dev \in 0..MaxDev /\ MaxDev \in Nat
    BY Sizes DEF BInv, IInv, TableOK
  <2>2. max_dev < MaxDev => At(0) = {}
    BY <1>2, <2>1
  <2>3. QED
    BY <1>1, <1>2, <2>2, BusKept
<1>3. ASSUME addr' = [x \in Places |-> IF x \in At(0) THEN NewId ELSE addr[x]],
             max_dev' = NewId, max_dev < MaxDev
      PROVE  Apart' /\ Assigned' /\ Alone'
  <2>1. /\ max_dev \in Nat /\ NewId = max_dev + 1
        /\ \A x \in Places : addr[x] \in {None} \cup Nat /\ addr[x] <= max_dev
    <3>1. max_dev \in 0..MaxDev /\ MaxDev \in Nat /\ addr \in [Places -> {None} \cup 0..MaxDev]
      BY Sizes DEF BInv, IInv, TableOK, BusOK
    <3>2. \A x \in Places : addr[x] \in {None} \cup 0..MaxDev
      BY <3>1
    <3>3. \A x \in Places : addr[x] \in {None} \cup Nat
      BY <3>1, <3>2
    <3>4. QED
      BY <3>1, <3>3 DEF NewId, BInv, Assigned
  <2>2. \A x, y \in At(0) : x = y
    <3>1. pc = "fill"
      BY FillGoes DEF BInv
    <3>2. QED
      BY <1>3, <3>1 DEF BInv, Alone
  <2>3. \A x \in Places : x \in At(0) <=> addr[x] = 0
    BY DEF At
  <2>4. \A x \in Places : IF addr[x] = 0 THEN addr'[x] = NewId ELSE addr'[x] = addr[x]
    BY <1>3, <2>3
  <2>5. \A x \in Places : addr[x] # NewId /\ NewId > 0
    <3>1. ASSUME NEW x \in Places PROVE addr[x] # NewId
      BY <2>1
    <3>2. QED
      BY <2>1, <3>1
  <2>6. Apart'
    BY <2>2, <2>3, <2>4, <2>5 DEF BInv, Apart
  <2>7. Assigned'
    <3>1. ASSUME NEW x \in Places PROVE addr'[x] <= max_dev'
      <4>1. addr[x] \in {None} \cup Nat /\ addr[x] <= max_dev /\ max_dev \in Nat
            /\ max_dev' = max_dev + 1
        BY <1>3, <2>1
      <4>2. addr'[x] = max_dev + 1 \/ addr'[x] = addr[x]
        BY <2>1, <2>4
      <4>3. QED
        BY <4>1, <4>2 DEF None
    <3>2. QED
      BY <3>1 DEF Assigned
  <2>8. At(0)' = {}
    <3>1. ASSUME NEW x \in Places PROVE addr'[x] # 0
      <4>1. NewId # 0
        BY <2>1
      <4>2. QED
        BY <2>4, <4>1
    <3>2. QED
      BY <3>1 DEF At
  <2>9. QED
    BY <1>1, <2>6, <2>7, <2>8 DEF Alone
<1>4. QED
  BY <1>2, <1>3, CalmFill

\* A reset device answers to address 0, the others where they did.
LEMMA ResetBus ==
  ASSUME BInv, NEW R, R \subseteq Places, NEW v \in {0, None},
         addr' = [x \in Places |-> IF x \in R THEN v ELSE addr[x]], UNCHANGED max_dev
  PROVE  /\ Apart' /\ Assigned'
         /\ At(0)' = IF v = 0 THEN At(0) \cup R ELSE At(0) \ R
<1>1. /\ max_dev \in Nat
      /\ \A x \in Places : addr[x] <= max_dev
  <2>1. max_dev \in 0..MaxDev /\ MaxDev \in Nat
    BY Sizes DEF BInv, IInv, TableOK
  <2>2. QED
    BY <2>1 DEF BInv, Assigned
<1>2. ~ (v > 0) /\ v <= max_dev
  BY <1>1 DEF None
<1>3. \A x \in Places : IF x \in R THEN addr'[x] = v ELSE addr'[x] = addr[x]
  OBVIOUS
<1>4. ASSUME NEW x \in Places, NEW y \in Places, addr'[x] = addr'[y], addr'[x] > 0
      PROVE  x = y
  <2>1. addr'[x] # v
    BY <1>2, <1>4
  <2>2. x \notin R /\ y \notin R
    BY <1>3, <1>4, <2>1
  <2>3. addr[x] = addr[y] /\ addr[x] > 0
    BY <1>3, <1>4, <2>2
  <2>4. QED
    BY <2>3 DEF BInv, Apart
<1>5. ASSUME NEW x \in Places PROVE addr'[x] <= max_dev'
  <2>1. addr'[x] = v \/ addr'[x] = addr[x]
    BY <1>3
  <2>2. QED
    BY <1>1, <1>2, <2>1
<1>6. At(0)' = IF v = 0 THEN At(0) \cup R ELSE At(0) \ R
  <2>1. At(0)' = {x \in Places : addr'[x] = 0}
    BY DEF At
  <2>2. At(0) = {x \in Places : addr[x] = 0}
    BY DEF At
  <2>3. QED
    BY <1>3, <2>1, <2>2
<1>7. QED
  BY <1>4, <1>5, <1>6 DEF Apart, Assigned

LEMMA RootBus ==
  ASSUME BInv, RootStep
  PROVE  Apart' /\ Assigned' /\ Alone'
<1>1. pc \in {"ports", "attempt", "handoff"}
  BY DEF RootStep, EmptyPort, LowSpeedPort, ConnectedPort, PortsDone, HandOff, Attempt
<1>2. max_dev < MaxDev => At(0) = {}
  BY <1>1 DEF BInv, Alone
<1>3. CASE EmptyPort \/ LowSpeedPort \/ ConnectedPort \/ PortsDone
  <2>1. UNCHANGED <<addr, max_dev>> /\ pc' \notin {"fill", "hub port"}
    BY <1>3 DEF EmptyPort, LowSpeedPort, ConnectedPort, PortsDone, NextPort, Go, bus, table
  <2>2. QED
    BY <1>2, <2>1, BusKept
<1>4. ASSUME NEW v \in {0, None}, addr' = [addr EXCEPT ![<<port, 0>>] = v], UNCHANGED max_dev,
             pc' \notin {"hub", "hub port"}, pc' = "fill" \/ v = None
      PROVE  Apart' /\ Assigned' /\ Alone'
  <2> DEFINE R == {<<port, 0>>} \cap Places
  <2>1. addr' = [x \in Places |-> IF x \in R THEN v ELSE addr[x]]
    BY <1>4 DEF BInv, IInv, BusOK
  <2>2. /\ Apart' /\ Assigned'
        /\ At(0)' = IF v = 0 THEN At(0) \cup R ELSE At(0) \ R
    BY <1>4, <2>1, ResetBus
  <2>3. (max_dev < MaxDev)' => At(0) = {}
    BY <1>2, <1>4
  <2>4. None # 0
    BY DEF None
  <2>5. QED
    BY <1>4, <2>2, <2>3, <2>4 DEF Alone
<1>5. CASE HandOff
  <2>1. /\ addr' = [addr EXCEPT ![<<port, 0>>] = None] /\ UNCHANGED max_dev
        /\ pc' \in {"attempt", "ports"}
    BY <1>5 DEF HandOff, NextPort, Go, table
  <2>2. QED
    BY <1>4, <2>1
<1>6. ASSUME NEW enabled \in BOOLEAN, Attempt(enabled) PROVE Apart' /\ Assigned' /\ Alone'
  <2>1. /\ addr' = [addr EXCEPT ![<<port, 0>>] = IF enabled THEN 0 ELSE None]
        /\ UNCHANGED max_dev /\ IF enabled THEN pc' = "fill" ELSE pc' = "handoff"
    BY <1>6 DEF Attempt, Go
  <2>2. QED
    BY <1>4, <2>1
<1>7. QED
  BY <1>3, <1>5, <1>6 DEF RootStep

\* A port that was reset is filled in unless nobody was there.
LEMMA HubBus ==
  ASSUME Calm, BInv, HubStep
  PROVE  Apart' /\ Assigned' /\ Alone'
<1>1. CASE PassSlot \/ EmptyHubPort \/ HubDone \/ \E answered \in BOOLEAN : ProbeSlot(answered)
  <2>1. UNCHANGED <<addr, max_dev>> /\ pc \in {"slots", "hub"} /\ pc' \in {"slots", "hub"}
    BY <1>1 DEF PassSlot, EmptyHubPort, HubDone, ProbeSlot, Go, bus, table
  <2>2. max_dev < MaxDev => At(0) = {}
    BY <2>1 DEF BInv, Alone
  <2>3. QED
    BY <2>1, <2>2, BusKept
<1>2. CASE ResetHubPort
  <2>1. pc = "hub" /\ left > 0 /\ pc' = "hub port" /\ UNCHANGED <<max_dev, slots, slot, left, plug>>
    BY <1>2 DEF ResetHubPort, Go, table, loops
  <2>2. PICK R : R \subseteq {y \in Below : plug[y] \in HighSpeed}
                 /\ addr' = [x \in Places |-> IF x \in R THEN 0 ELSE addr[x]]
    BY <1>2 DEF ResetHubPort
  <2>3. R \subseteq Places
    BY <2>2 DEF Below
  <2>4. /\ Apart' /\ Assigned'
        /\ At(0)' = At(0) \cup R
    BY <2>1, <2>2, <2>3, ResetBus
  <2>5. ASSUME max_dev < MaxDev
        PROVE  /\ \A x, y \in At(0)' : x = y
               /\ At(0)' \subseteq Below'
    <3>1. At(0)' = R
      BY <2>1, <2>4, <2>5 DEF BInv, Alone
    <3>2. \A x, y \in Below : x = y
      BY <2>1, <2>5, OneHub DEF Below
    <3>3. \A x \in R : plug[x] # "hub"
      BY <2>1, <2>2, NoHubBelow DEF BInv
    <3>4. ASSUME NEW x \in HubsAt(Address(slot)) PROVE x \in HubsAt(Address(slot))'
      <4>1. x \in Places /\ addr[x] = Address(slot) /\ plug[x] = "hub"
        BY <3>4 DEF HubsAt, At
      <4>2. addr'[x] = addr[x]
        BY <2>2, <3>3, <4>1
      <4>3. QED
        BY <2>1, <4>1, <4>2 DEF HubsAt, At, Address
    <3>5. Below \subseteq Below'
      BY <2>1, <3>4 DEF Below
    <3>6. QED
      BY <2>2, <3>1, <3>2, <3>5
  <2>6. QED
    BY <2>1, <2>4, <2>5 DEF Alone
<1>3. CASE HubPortStatus
  <2>1. /\ pc = "hub port" /\ UNCHANGED <<addr, max_dev>>
        /\ cache' \in Status(Enabled)
        /\ pc' = IF cache'.enabled THEN "fill" ELSE "hub"
    BY <1>3 DEF HubPortStatus, Go, bus, table
  <2>2. Apart' /\ Assigned' /\ (max_dev < MaxDev => \A x, y \in At(0)' : x = y)
    BY <2>1 DEF BInv, Apart, Assigned, Alone, At
  <2>3. ASSUME max_dev < MaxDev, NEW x \in At(0) PROVE cache'.enabled
    <3>1. x \in Below
      BY <2>1, <2>3 DEF BInv, Alone
    <3>2. Enabled
      BY <2>3, <3>1 DEF Enabled, At
    <3>3. HubsAt(Address(slot)) # {}
      BY <3>1 DEF Below
    <3>4. left > 0
      BY <2>1 DEF BInv, IInv, WhereOK
    <3>5. \A u, v \in At(Address(slot)) : u = v
      BY <2>1, <2>3, <3>3, <3>4, OneHub
    <3>6. Cardinality(At(Address(slot))) = 1
      <4>1. At(Address(slot)) # {}
        BY <3>3 DEF HubsAt
      <4>2. QED
        BY <3>5, <4>1, NoneAndOne
    <3>7. ~ MayMiss(Address(slot), "hub status")
      BY <3>6 DEF MayMiss, CanFail, Calm
    <3>8. cache' = PortCache(Occupied, Enabled)
      BY <2>1, <3>1, <3>7 DEF Status
    <3>9. QED
      BY <3>2, <3>8 DEF PortCache
  <2>4. max_dev < MaxDev /\ pc' # "fill" => At(0)' = {}
    BY <2>1, <2>3 DEF At
  <2>5. QED
    BY <2>1, <2>2, <2>4 DEF Alone
<1>4. QED
  BY <1>1, <1>2, <1>3 DEF HubStep

LEMMA CalmBus ==
  ASSUME Calm, BInv, [Next]_vars
  PROVE  Apart' /\ Assigned' /\ Alone'
<1>1. CASE UNCHANGED vars
  BY <1>1 DEF vars, bus, table, loops, BInv, Apart, Assigned, Alone, At, Below, HubsAt, Address
<1>2. CASE NoController \/ DriveStep
  <2>1. UNCHANGED <<addr, max_dev>> /\ pc \in {"idle", "slots", "drives"}
        /\ pc' \in {"idle", "drives"}
    <3>1. CASE NoController
      BY <3>1 DEF NoController, Start, Go, bus, table
    <3>2. CASE DriveStep
      <4>1. UNCHANGED <<addr, max_dev>> /\ pc \in {"slots", "drives"}
        BY <3>2 DEF DriveStep, NoDevice, StartDrives, SkipSlot, AddDrive, UnitNotReady, bus, table
      <4>2. pc' \in {"idle", "drives"}
        BY <3>2, DriveMoves DEF BInv
      <4>3. QED
        BY <4>1, <4>2
    <3>3. QED
      BY <1>2, <3>1, <3>2
  <2>2. max_dev < MaxDev => At(0) = {}
    BY <2>1 DEF BInv, Alone
  <2>3. QED
    BY <2>1, <2>2, BusKept
<1>3. CASE StartController
  <2>1. addr' = [x \in Places |-> IF x \in Places THEN None ELSE addr[x]] /\ UNCHANGED max_dev
        /\ pc' = "ports"
    BY <1>3 DEF StartController, Go, table
  <2>2. /\ Apart' /\ Assigned'
        /\ At(0)' = At(0) \ Places
    BY <2>1, ResetBus DEF None
  <2>3. At(0)' = {}
    BY <2>2 DEF At
  <2>4. QED
    BY <2>1, <2>2, <2>3 DEF Alone
<1>4. QED
  BY <1>1, <1>2, <1>3, RootBus, CalmFilled, HubBus DEF Next, Enumerating

\* A drive is a LUN of one device.
Real(d) == \E x \in Places : At(d.id) = {x} /\ plug[x] = "storage" /\ d.lun <= TopLun

LEMMA CalmDrives ==
  ASSUME BInv, [Next]_vars
  PROVE  DrivesAreReal'
<1>1. CASE UNCHANGED vars
  BY <1>1 DEF vars, bus, table, result, loops, BInv, DrivesAreReal, At
<1>2. ASSUME pc' # "drives", pc' = "idle" => error' \in {128, 129} PROVE DrivesAreReal'
  <2>1. \A n \in {128, 129} : ~ (n < 128)
    OBVIOUS
  <2>2. QED
    BY <1>2, <2>1 DEF DrivesAreReal
<1>3. CASE NoController \/ StartController
  BY <1>2, <1>3 DEF NoController, StartController, Start, Go
<1>4. CASE RootStep
  BY <1>2, <1>4 DEF RootStep, EmptyPort, LowSpeedPort, ConnectedPort, PortsDone, HandOff, Attempt,
                    NextPort, Go
<1>5. CASE Fill
  BY <1>2, <1>5, FillGoes DEF FillReturn, NextPort, Go, BInv
<1>6. CASE HubStep
  <2>1. pc' \notin {"drives", "idle"}
    <3>1. CASE PassSlot \/ EmptyHubPort \/ ResetHubPort \/ HubDone
      BY <3>1 DEF PassSlot, EmptyHubPort, ResetHubPort, HubDone, Go
    <3>2. CASE HubPortStatus
      BY <3>2 DEF HubPortStatus, Go
    <3>3. ASSUME NEW answered \in BOOLEAN, ProbeSlot(answered) PROVE pc' \notin {"drives", "idle"}
      BY <3>3 DEF ProbeSlot, Go
    <3>4. QED
      BY <1>6, <3>1, <3>2, <3>3 DEF HubStep
  <2>2. QED
    BY <1>2, <2>1
<1>7. CASE NoDevice
  BY <1>2, <1>7 DEF NoDevice, Go
<1>8. CASE StartDrives
  <2>1. drives' = <<>>
    BY <1>8 DEF StartDrives
  <2>2. Len(<<>>) = 0 /\ 1..0 = {}
    OBVIOUS
  <2>3. 1..Len(drives') = {}
    BY <2>1, <2>2
  <2>4. QED
    BY <2>3 DEF DrivesAreReal
<1>9. ASSUME pc = "drives" PROVE \A i \in 1..Len(drives) : Real(drives[i])
  BY <1>9 DEF BInv, DrivesAreReal, Real
<1>10. ASSUME UNCHANGED bus, \A i \in 1..Len(drives') : Real(drives'[i])
       PROVE  DrivesAreReal'
  BY <1>10 DEF DrivesAreReal, Real, At, bus
<1>11. CASE SkipSlot \/ UnitNotReady
  <2>1. pc = "drives" /\ UNCHANGED bus /\ drives' = drives
    BY <1>11 DEF SkipSlot, UnitNotReady
  <2>2. QED
    BY <1>9, <1>10, <2>1
<1>12. CASE AddDrive
  <2> DEFINE new == [id |-> slot + 1, lun |-> lun]
  <2>1. pc = "drives" /\ UNCHANGED bus /\ slots[slot].lun < Rejected /\ Ready
    BY <1>12 DEF AddDrive
  <2>2. drives' = Append(drives, new) /\ new \in [id: 1..MaxDev, lun: Lun]
        /\ \A i \in 1..Len(drives) : drives[i] # new
    BY <1>12, Added DEF BInv
  <2>3. new.id = slots[slot].id /\ new.lun = lun
    <3>1. slot < max_dev
      BY <2>1, VisitedBelow DEF BInv
    <3>2. slot \in Slots
      BY <2>1, SlotInTable, VisitedBelow DEF BInv
    <3>3. QED
      BY <2>1, <3>1, <3>2 DEF BInv, IInv, TableOK
  <2>4. new.id > 0
    <3>1. slot \in Nat
      BY <2>1, VisitedBelow DEF BInv
    <3>2. QED
      BY <3>1
  <2>5. drives \in Seq([id: 1..MaxDev, lun: Lun])
        /\ \A i, j \in 1..Len(drives) : drives[i] = drives[j] => i = j
    BY DEF BInv, IInv, ResultOK, DrivesDistinct
  <2> HIDE DEF new
  <2>6. Real(new)
    <3>1. PICK x \in At(new.id) : plug[x] = "storage" /\ lun <= TopLun
      BY <2>1, <2>3 DEF Ready
    <3>2. \A y \in At(new.id) : y = x
      BY <2>4, <3>1 DEF BInv, Apart, At
    <3>3. At(new.id) = {x} /\ x \in Places
      BY <3>1, <3>2 DEF At
    <3>4. QED
      BY <2>3, <3>1, <3>3 DEF Real
  <2> DEFINE more == Append(drives, new)
  <2>7. /\ more \in Seq([id: 1..MaxDev, lun: Lun]) /\ Len(more) = Len(drives) + 1
        /\ \A i \in 1..Len(more) : i <= Len(drives) \/ more[i] = new
        /\ \A i \in 1..Len(drives) : more[i] = drives[i]
    BY <2>2, <2>5, AppendDistinct
  <2>8. Len(drives) \in Nat
    BY <2>5
  <2> HIDE DEF more
  <2>9. \A i \in 1..Len(more) : i \in 1..Len(drives) \/ more[i] = new
    BY <2>7, <2>8
  <2>10. \A i \in 1..Len(more) : Real(more[i])
    BY <1>9, <2>1, <2>6, <2>7, <2>9
  <2>11. QED
    BY <1>10, <2>1, <2>2, <2>10 DEF more
<1>13. QED
  BY <1>1, <1>3, <1>4, <1>5, <1>6, <1>7, <1>8, <1>11, <1>12 DEF Next, Enumerating, DriveStep

LEMMA InitBInv ==
  ASSUME Init
  PROVE  BInv
<1>1. \A x \in Places : addr[x] = None /\ max_dev = 0
  BY DEF Init
<1>2. ~ (None > 0) /\ None <= 0 /\ None # 0
  BY DEF None
<1>3. At(0) = {} /\ Apart /\ Assigned
  BY <1>1, <1>2 DEF At, Apart, Assigned
<1>4. DrivesAreReal
  <2>1. drives = <<>>
    BY DEF Init
  <2>2. Len(<<>>) = 0 /\ 1..0 = {}
    OBVIOUS
  <2>3. QED
    BY <2>1, <2>2 DEF DrivesAreReal
<1>5. QED
  BY <1>3, <1>4, InitIInv DEF BInv, Alone

\* On any tree of devices, whichever of the other steps fail and however often
\* `usb --init` is given, every drive is a LUN of one storage device and of no
\* other, as long as no device is lost at address 0: the head of its
\* descriptor, the descriptor and SET_ADDRESS go through, and so does a hub's
\* port status.  (Where one does not, two devices can share an address.)
THEOREM Reality ==
  ASSUME Failing \cap {"head", "device", "address", "hub status"} = {}
  PROVE  Spec => []DrivesAreReal
<1>1. Calm
  BY DEF Calm
<1>2. Init => BInv
  BY InitBInv
<1>3. BInv /\ IInv' /\ [Next]_vars => BInv'
  BY <1>1, CalmBus, CalmDrives DEF BInv
<1>4. BInv => DrivesAreReal
  BY DEF BInv
<1>5. QED
  BY Inductive, <1>2, <1>3, <1>4, PTL DEF Spec

-----------------------------------------------------------------------------
(* That hubs only are probed.  What it needs of the root ports: one device at   *)
(* most, which is not one for the companion controller, is reset and tells its  *)
(* descriptor, and a table that is empty.                                       *)

LoneRoot ==
  \A f \in Plugs : \A p, q \in 1..NPorts :
    f[<<p, 0>>] # "none" /\ f[<<q, 0>>] # "none" => p = q

Smooth ==
  /\ LoneRoot /\ MaxRuns <= 1 /\ Failing \cap {"reset", "device"} = {}
  /\ \A f \in Plugs : \A p \in 1..NPorts : f[<<p, 0>>] \in HighSpeed \cup {"none"}

\* A root port that is still to come, or is at work, has a device.
RootLeft == \E p \in 1..NPorts : p >= port /\ plug[<<p, 0>>] # "none"
Marked(k) == slots[k].lun = Hub
Untouched == /\ max_dev = 0 /\ configured = {} /\ At(0) = {}
             /\ \A k \in Slots : ~ Marked(k)
FillsRoot == pc = "fill" /\ caller = "ports"
InHub == pc \in {"hub", "hub port"} \/ (pc = "fill" /\ caller = "hub")

\* The only root device comes to an empty table; the slot that was cleared for it
\* is its own, and a slot marked as a hub later is that of a hub.
RootFirst ==
  /\ runs = 0 => pc = "idle" /\ Untouched
  /\ pc \in {"ports", "attempt"} /\ RootLeft => Untouched
  /\ pc # "handoff"
  /\ pc = "attempt" \/ FillsRoot => plug[<<port, 0>>] \in HighSpeed
  /\ FillsRoot => max_dev = 0 /\ configured = {} /\ At(0) = {<<port, 0>>}
HubsMarked ==
  /\ \A k \in Slots : Marked(k) =>
       \/ k = 0 /\ FillsRoot
       \/ k < max_dev /\ slots[k].id > 0 /\ HubsAt(slots[k].id) # {}
  /\ InHub => Marked(slot)

HubInv == IInv /\ RootFirst /\ HubsMarked

LEMMA SmoothPlugs ==
  ASSUME Smooth, IInv
  PROVE  /\ \A p \in 1..NPorts : plug[<<p, 0>>] # "none" =>
              /\ plug[<<p, 0>>] \in HighSpeed
              /\ \A q \in 1..NPorts : plug[<<q, 0>>] # "none" => q = p
         /\ runs \in Nat /\ (runs < MaxRuns => runs = 0) /\ port \in Nat /\ port >= 1
         /\ ~ CanFail("reset") /\ ~ CanFail("device")
<1>1. plug \in Plugs
  BY DEF IInv, BusOK
<1>2. runs \in 0..MaxRuns /\ MaxRuns \in Nat /\ MaxRuns <= 1 /\ port \in 1..(NPorts + 1)
      /\ NPorts \in Nat
  BY Sizes DEF IInv, WhereOK, Smooth
<1>3. runs \in Nat /\ (runs < MaxRuns => runs = 0) /\ port \in Nat /\ port >= 1
  BY <1>2
<1> QED
  BY <1>1, <1>3 DEF Smooth, LoneRoot, CanFail

\* A hub stays where a slot has it while no hub's address is changed.
LEMMA StillHub ==
  ASSUME NEW k \in Slots, slots[k].id > 0, HubsAt(slots[k].id) # {},
         plug' = plug, slots'[k] = slots[k],
         \A x \in Places : plug[x] = "hub" /\ addr[x] > 0 => addr'[x] = addr[x]
  PROVE  HubsAt(slots[k].id)' # {}
<1>1. PICK x \in Places : addr[x] = slots[k].id /\ plug[x] = "hub"
  BY DEF HubsAt, At
<1>2. addr'[x] = slots'[k].id /\ plug'[x] = "hub"
  BY <1>1
<1> QED
  BY <1>2 DEF HubsAt, At

\* The step fills no slot, and is in the hub it was in.
LEMMA SameMarks ==
  ASSUME HubInv, ~ FillsRoot, UNCHANGED <<plug, slots, max_dev>>,
         \A x \in Places : plug[x] = "hub" /\ addr[x] > 0 => addr'[x] = addr[x],
         InHub' => slot' = slot /\ Marked(slot)
  PROVE  HubsMarked'
<1>1. ASSUME NEW k \in Slots, Marked(k)'
      PROVE  k < max_dev' /\ (slots[k].id)' > 0 /\ HubsAt(slots[k].id)' # {}
  <2>1. k < max_dev /\ slots[k].id > 0 /\ HubsAt(slots[k].id) # {}
    BY <1>1 DEF HubInv, HubsMarked, Marked
  <2>2. HubsAt(slots[k].id)' # {}
    BY <2>1, StillHub
  <2> QED
    BY <2>1, <2>2
<1>2. InHub' => Marked(slot)'
  BY DEF Marked
<1> QED
  BY <1>1, <1>2 DEF HubsMarked

\* A slot that is marked now, and was not being cleared, has a number.
LEMMA HubSlot ==
  ASSUME HubInv, InHub
  PROVE  /\ Marked(slot) /\ slot \in Slots /\ slot < max_dev /\ slots[slot].id > 0
         /\ HubsAt(slots[slot].id) # {}
<1>1. Marked(slot) /\ ~ FillsRoot
  BY DEF HubInv, HubsMarked, InHub, FillsRoot
<1>2. slot \in Slots
  BY SlotInTable DEF HubInv, IInv, WhereOK, InHub
<1> QED
  BY <1>1, <1>2 DEF HubInv, HubsMarked

LEMMA StartHubs ==
  ASSUME Smooth, HubInv, NoController \/ StartController
  PROVE  RootFirst' /\ HubsMarked'
<1>1. Untouched /\ runs' # 0 /\ UNCHANGED <<slots, max_dev>>
  <2>1. runs < MaxRuns /\ runs' = runs + 1
    BY DEF NoController, StartController, Start
  <2>2. runs = 0
    BY <2>1, SmoothPlugs DEF HubInv
  <2> QED
    BY <2>1, <2>2 DEF HubInv, RootFirst, NoController, StartController, table
<1>2. At(0)' = {} /\ configured' = {} /\ pc' \in {"idle", "ports"}
  <2>1. CASE NoController
    BY <1>1, <2>1 DEF NoController, Untouched, bus, At, Go
  <2>2. CASE StartController
    <3>1. \A x \in Places : addr'[x] # 0
      BY <2>2 DEF StartController, None
    <3> QED
      BY <2>2, <3>1 DEF StartController, At, Go
  <2> QED
    BY <2>1, <2>2
<1>3. Untouched'
  BY <1>1, <1>2 DEF Untouched, Marked
<1>4. RootFirst'
  BY <1>1, <1>2, <1>3 DEF RootFirst, FillsRoot
<1> QED
  BY <1>2, <1>3, <1>4 DEF HubsMarked, Untouched, InHub

\* No attempt fails, and it is the first.
LEMMA RootHubs ==
  ASSUME Smooth, HubInv, RootStep
  PROVE  RootFirst' /\ HubsMarked'
<1>1. /\ pc \in {"ports", "attempt"} /\ runs' = runs /\ runs # 0 /\ plug' = plug
      /\ ~ FillsRoot
  <2>1. pc \in {"ports", "attempt", "handoff"} /\ runs' = runs /\ plug' = plug
    BY DEF RootStep, EmptyPort, LowSpeedPort, ConnectedPort, PortsDone, HandOff, Attempt, bus
  <2> QED
    BY <2>1 DEF HubInv, RootFirst, FillsRoot
<1>2. CASE EmptyPort
  <2>1. /\ pc = "ports" /\ port' = port + 1 /\ pc' = "ports"
        /\ UNCHANGED <<addr, configured, slots, max_dev>>
    BY <1>2 DEF EmptyPort, NextPort, Go, bus, table
  <2>2. RootLeft' => RootLeft
    <3> SUFFICES ASSUME NEW p \in 1..NPorts, p >= port + 1, plug[<<p, 0>>] # "none"
                 PROVE  RootLeft
      BY <1>1, <2>1 DEF RootLeft
    <3>1. p >= port
      BY SmoothPlugs, Sizes DEF HubInv
    <3> QED
      BY <3>1 DEF RootLeft
  <2>3. RootFirst'
    BY <1>1, <2>1, <2>2 DEF HubInv, RootFirst, Untouched, Marked, FillsRoot, At
  <2> QED
    BY <1>1, <2>1, <2>3, SameMarks DEF InHub
<1>3. CASE LowSpeedPort
  <2>1. port \in 1..NPorts /\ plug[<<port, 0>>] = "low"
    BY <1>3, SmoothPlugs, Sizes DEF LowSpeedPort, HubInv
  <2> QED
    BY <2>1, SmoothPlugs DEF HubInv, HighSpeed
<1>4. CASE ConnectedPort
  <2>1. /\ pc = "ports" /\ port \in 1..NPorts /\ plug[<<port, 0>>] # "none" /\ pc' = "attempt"
        /\ UNCHANGED <<addr, configured, slots, max_dev, port>>
    BY <1>4, SmoothPlugs, Sizes DEF ConnectedPort, HubInv, Go, bus, table, loops
  <2>2. plug[<<port, 0>>] \in HighSpeed
    BY <2>1, SmoothPlugs DEF HubInv
  <2>3. RootLeft
    BY <2>1, SmoothPlugs DEF RootLeft, HubInv
  <2>4. RootFirst'
    BY <1>1, <2>1, <2>2, <2>3 DEF HubInv, RootFirst, Untouched, Marked, FillsRoot, At
  <2> QED
    BY <1>1, <2>1, <2>4, SameMarks DEF InHub
<1>5. CASE HandOff
  BY <1>1, <1>5 DEF HandOff
<1>6. CASE PortsDone
  <2>1. pc = "ports" /\ pc' = "slots" /\ UNCHANGED <<addr, slots, max_dev>>
    BY <1>6 DEF PortsDone, Go, bus, table
  <2> QED
    BY <1>1, <2>1, SameMarks DEF RootFirst, FillsRoot, InHub
<1>7. ASSUME NEW enabled \in BOOLEAN, Attempt(enabled) PROVE RootFirst' /\ HubsMarked'
  <2>1. pc = "attempt" /\ plug[<<port, 0>>] \in HighSpeed /\ <<port, 0>> \in Places
    <3>1. pc = "attempt" /\ port <= NPorts /\ port \in Nat /\ port >= 1
      BY <1>7, SmoothPlugs DEF Attempt, HubInv, IInv, WhereOK
    <3> QED
      BY <3>1, Sizes DEF HubInv, RootFirst, Places
  <2>2. /\ enabled /\ pc' = "fill" /\ caller' = "ports" /\ port' = port
        /\ slots' = [slots EXCEPT ![0] = [id |-> 0, lun |-> Hub]]
        /\ addr' = [addr EXCEPT ![<<port, 0>>] = 0]
        /\ UNCHANGED <<configured, max_dev>>
    BY <1>7, <2>1, SmoothPlugs DEF Attempt, Go, HubInv
  <2>3. Untouched
    <3>1. RootLeft
      <4>1. port \in 1..NPorts /\ port >= port
        BY <2>1 DEF Places
      <4>2. plug[<<port, 0>>] # "none"
        BY <2>1 DEF HighSpeed
      <4> QED
        BY <4>1, <4>2 DEF RootLeft
    <3> QED
      BY <2>1, <3>1 DEF HubInv, RootFirst
  <2>4. At(0)' = {<<port, 0>>}
    <3>1. \A x \in Places : addr'[x] = IF x = <<port, 0>> THEN 0 ELSE addr[x]
      BY <2>2 DEF HubInv, IInv, BusOK
    <3>2. \A x \in Places : addr[x] # 0
      BY <2>3 DEF Untouched, At
    <3> QED
      BY <2>1, <3>1, <3>2 DEF At
  <2>5. RootFirst'
    BY <1>1, <2>1, <2>2, <2>3, <2>4 DEF RootFirst, Untouched, FillsRoot
  <2>6. \A k \in Slots : Marked(k)' => k = 0
    <3>1. \A k \in Slots : k # 0 => slots'[k] = slots[k]
      BY <2>2 DEF HubInv, IInv, TableOK
    <3> QED
      BY <2>3, <3>1 DEF Untouched, Marked
  <2> QED
    BY <2>2, <2>5, <2>6 DEF HubsMarked, FillsRoot, InHub
<1> QED
  BY <1>2, <1>3, <1>4, <1>5, <1>6, <1>7 DEF RootStep

LEMMA FillKeepsPlug ==
  ASSUME Fill
  PROVE  plug' = plug
<1>1. CASE TableFull \/ NoHead \/ NoDescriptor
  BY <1>1 DEF TableFull, NoHead, NoDescriptor, bus
<1>2. ASSUME NEW taken \in Takers, NoConfiguration(taken) PROVE plug' = plug
  BY <1>2 DEF NoConfiguration
<1>3. ASSUME NEW taken \in Takers, NEW x \in taken,
             \/ Unsuitable(taken, x) \/ HubFound(taken, x)
             \/ \E answered \in BOOLEAN : StorageFound(taken, x, answered)
      PROVE  plug' = plug
  BY <1>3 DEF Unsuitable, HubFound, StorageFound
<1> QED
  BY <1>1, <1>2, <1>3 DEF Fill

\* After the root device no root port has one.
LEMMA FillFirst ==
  ASSUME Smooth, HubInv, Fill
  PROVE  RootFirst' /\ plug' = plug /\ (InHub' => InHub /\ slot' = slot)
<1>1. plug' = plug
  BY FillKeepsPlug
<1>2. /\ pc = "fill" /\ FillReturn /\ UNCHANGED <<slot, caller, runs>> /\ runs # 0
      /\ caller \in {"ports", "hub"}
  BY FillGoes DEF HubInv, RootFirst, IInv, WhereOK
<1>3. CASE caller = "ports"
  <2>1. pc' = "ports" /\ port' = port + 1 /\ port <= NPorts /\ plug[<<port, 0>>] # "none"
    BY <1>2, <1>3 DEF FillReturn, NextPort, Go, HubInv, RootFirst, FillsRoot, HighSpeed, IInv,
                      WhereOK
  <2>2. port \in 1..NPorts /\ port \in Nat
    BY <2>1, SmoothPlugs, Sizes DEF HubInv
  <2>3. ASSUME NEW p \in 1..NPorts, p >= port + 1, plug[<<p, 0>>] # "none" PROVE FALSE
    <3>1. p = port
      BY <2>1, <2>2, <2>3, SmoothPlugs DEF HubInv
    <3> QED
      BY <2>2, <2>3, <3>1
  <2>4. ~ RootLeft'
    BY <1>1, <2>1, <2>3 DEF RootLeft
  <2> QED
    BY <1>1, <1>2, <2>1, <2>4 DEF RootFirst, FillsRoot, InHub
<1>4. CASE caller = "hub"
  <2>1. pc' = "hub"
    BY <1>2, <1>4 DEF FillReturn, Go
  <2> QED
    BY <1>1, <1>2, <1>4, <2>1 DEF RootFirst, FillsRoot, InHub
<1> QED
  BY <1>2, <1>3, <1>4

\* The slot being filled is not the one of the hub that is probed.
LEMMA NewSlotMarked ==
  ASSUME HubInv, Filling, UNCHANGED plug, NEW new,
         slots' = [slots EXCEPT ![max_dev] = new], max_dev' \in {max_dev, NewId},
         \A x \in Places : plug[x] = "hub" /\ addr[x] > 0 => addr'[x] = addr[x],
         new.lun = Hub => max_dev' = NewId /\ new.id > 0 /\ \E x \in Places : plug[x] = "hub" /\ addr'[x] = new.id,
         InHub' => InHub /\ slot' = slot
  PROVE  HubsMarked'
<1>1. /\ max_dev \in Slots /\ max_dev \in Nat /\ NewId = max_dev + 1
      /\ \A k \in Slots : slots'[k] = IF k = max_dev THEN new ELSE slots[k]
  <2>1. max_dev \in 0..MaxDev /\ max_dev < MaxDev /\ MaxDev \in Nat
    BY Sizes DEF HubInv, IInv, TableOK, Filling
  <2>2. max_dev \in Slots /\ max_dev \in Nat
    BY <2>1 DEF Slots
  <2> QED
    BY <2>2 DEF HubInv, IInv, TableOK, NewId
<1>2. FillsRoot => max_dev = 0
  BY DEF HubInv, RootFirst
<1>3. ASSUME NEW k \in Slots, Marked(k)', k # max_dev
      PROVE  k < max_dev' /\ (slots[k].id)' > 0 /\ HubsAt(slots[k].id)' # {}
  <2>1. slots'[k] = slots[k]
    BY <1>1, <1>3
  <2>2. k < max_dev /\ slots[k].id > 0 /\ HubsAt(slots[k].id) # {}
    BY <1>2, <1>3, <2>1 DEF HubInv, HubsMarked, Marked
  <2>3. k < max_dev'
    BY <1>1, <2>2 DEF Slots
  <2>4. HubsAt(slots[k].id)' # {}
    BY <2>1, <2>2, StillHub
  <2> QED
    BY <2>1, <2>2, <2>3, <2>4
<1>4. ASSUME NEW k \in Slots, Marked(k)', k = max_dev
      PROVE  k < max_dev' /\ (slots[k].id)' > 0 /\ HubsAt(slots[k].id)' # {}
  <2>1. slots'[k] = new /\ new.lun = Hub
    BY <1>1, <1>4 DEF Marked
  <2>2. max_dev' = NewId /\ new.id > 0
    BY <2>1
  <2>3. PICK x \in Places : plug[x] = "hub" /\ addr'[x] = new.id
    BY <2>1
  <2>4. x \in HubsAt(slots[k].id)'
    BY <2>1, <2>3 DEF HubsAt, At
  <2> QED
    BY <1>1, <1>4, <2>1, <2>2, <2>4
<1>5. InHub' => Marked(slot)'
  <2> SUFFICES ASSUME InHub' PROVE Marked(slot)'
    OBVIOUS
  <2>1. slot \in Slots /\ slot < max_dev /\ Marked(slot) /\ slot' = slot
    BY HubSlot
  <2>2. slots'[slot] = slots[slot]
    BY <1>1, <2>1
  <2> QED
    BY <2>1, <2>2 DEF Marked
<1> QED
  BY <1>3, <1>4, <1>5 DEF HubsMarked

LEMMA FillHubs ==
  ASSUME Smooth, HubInv, Fill
  PROVE  RootFirst' /\ HubsMarked'
<1>1. RootFirst' /\ plug' = plug /\ (InHub' => InHub /\ slot' = slot)
  BY FillFirst
<1>2. InHub => Marked(slot)
  BY HubSlot
<1>3. FillsRoot => max_dev = 0 /\ At(0) = {<<port, 0>>}
  BY DEF HubInv, RootFirst
<1>4. CASE TableFull
  <2>1. UNCHANGED <<addr, slots, max_dev>> /\ max_dev >= MaxDev
    BY <1>4 DEF TableFull, bus, table
  <2>2. ~ FillsRoot
    BY <1>3, <2>1, Sizes
  <2> QED
    BY <1>1, <1>2, <2>1, <2>2, SameMarks
<1>5. CASE NoHead
  <2> DEFINE new == [slots[max_dev] EXCEPT !.lun = Rejected]
  <2>1. /\ Filling /\ UNCHANGED <<addr, max_dev>>
        /\ slots' = [slots EXCEPT ![max_dev] = new]
    BY <1>5 DEF NoHead, bus
  <2>2. max_dev \in Slots
    BY <2>1, Sizes DEF HubInv, IInv, TableOK, Filling, Slots
  <2>3. new.lun # Hub
    <3>1. slots[max_dev] \in [id: 0..MaxDev, lun: Lun \cup {Rejected, Hub}]
      BY <2>2 DEF HubInv, IInv, TableOK
    <3> QED
      BY <3>1 DEF Rejected, Hub
  <2> HIDE DEF new
  <2> QED
    BY <1>1, <2>1, <2>3, NewSlotMarked
<1>6. CASE NoDescriptor
  <2>1. UNCHANGED <<addr, slots, max_dev>> /\ MayMiss(0, "device")
    BY <1>6 DEF NoDescriptor, bus, table
  <2>2. FillsRoot => Cardinality(At(0)) = 1
    BY <1>3, FS_Singleton
  <2>3. ~ FillsRoot
    BY <2>1, <2>2, SmoothPlugs DEF MayMiss, HubInv
  <2> QED
    BY <1>1, <1>2, <2>1, <2>3, SameMarks
<1>7. ASSUME NEW taken \in Takers, NEW top, Filling, Addressed(taken, top),
             top = Hub => \E x \in taken : plug[x] = "hub"
      PROVE  HubsMarked'
  <2> DEFINE new == [id |-> NewId, lun |-> top]
  <2>1. /\ slots' = [slots EXCEPT ![max_dev] = new] /\ max_dev' = NewId
        /\ addr' = [x \in Places |-> IF x \in taken THEN NewId ELSE addr[x]]
        /\ new.id = NewId /\ new.lun = top
    BY <1>7 DEF Addressed
  <2>2. taken \subseteq At(0)
    BY DEF Takers
  <2>3. NewId \in 1..MaxDev /\ taken \subseteq Places
    BY <1>7, Takes DEF HubInv
  <2>4. NewId > 0
    BY <2>3, Sizes
  <2>5. \A x \in Places : addr[x] > 0 => addr'[x] = addr[x]
    BY <2>1, <2>2 DEF At
  <2>6. top = Hub => \E x \in Places : plug[x] = "hub" /\ addr'[x] = NewId
    BY <1>7, <2>1, <2>3
  <2> HIDE DEF new
  <2> QED
    BY <1>1, <1>7, <2>1, <2>4, <2>5, <2>6, NewSlotMarked
<1>8. ASSUME NEW taken \in Takers, NoConfiguration(taken) PROVE HubsMarked'
  BY <1>7, <1>8 DEF NoConfiguration, Rejected, Hub
<1>9. ASSUME NEW taken \in Takers, NEW x \in taken,
             \/ Unsuitable(taken, x) \/ HubFound(taken, x)
             \/ \E answered \in BOOLEAN : StorageFound(taken, x, answered)
      PROVE  HubsMarked'
  <2>1. Rejected # Hub /\ TopLun # Hub /\ StaleLun # Hub
    BY Sizes DEF Rejected, Hub, StaleLun, Lun
  <2>2. \E top : /\ Filling /\ Addressed(taken, top)
                 /\ top = Hub => plug[x] = "hub"
    BY <1>9, <2>1 DEF Unsuitable, HubFound, StorageFound
  <2> QED
    BY <1>7, <2>2
<1> QED
  BY <1>1, <1>4, <1>5, <1>6, <1>8, <1>9 DEF Fill

\* usb_probe changes the address of no hub.
LEMMA ProbeHubs ==
  ASSUME Smooth, HubInv, HubStep
  PROVE  RootFirst' /\ HubsMarked'
<1>1. /\ pc \in {"slots", "hub", "hub port"} /\ UNCHANGED <<plug, slots, max_dev, runs>>
      /\ pc' \in {"slots", "hub", "hub port", "fill"} /\ (pc' = "fill" => caller' = "hub")
  <2>1. CASE PassSlot \/ EmptyHubPort \/ ResetHubPort \/ HubDone
    BY <2>1 DEF PassSlot, EmptyHubPort, ResetHubPort, HubDone, Go, bus, table
  <2>2. CASE HubPortStatus
    BY <2>2 DEF HubPortStatus, Go, bus, table
  <2>3. ASSUME NEW answered \in BOOLEAN, ProbeSlot(answered)
        PROVE  /\ pc = "slots" /\ UNCHANGED <<plug, slots, max_dev, runs>> /\ pc' = "hub"
    BY <2>3 DEF ProbeSlot, Go, bus, table
  <2> QED
    BY <2>1, <2>2, <2>3 DEF HubStep
<1>2. RootFirst' /\ ~ FillsRoot
  BY <1>1 DEF HubInv, RootFirst, FillsRoot
<1>3. InHub' => slot' = slot /\ Marked(slot)
  <2>1. CASE PassSlot \/ HubDone
    BY <2>1 DEF PassSlot, HubDone, Go, InHub
  <2>2. CASE EmptyHubPort \/ ResetHubPort \/ HubPortStatus
    BY <1>1, <2>2, HubSlot DEF EmptyHubPort, ResetHubPort, HubPortStatus, loops, InHub
  <2>3. ASSUME NEW answered \in BOOLEAN, ProbeSlot(answered)
        PROVE  slot' = slot /\ Marked(slot)
    BY <2>3 DEF ProbeSlot, Marked
  <2> QED
    BY <2>1, <2>2, <2>3 DEF HubStep
<1>4. \A x \in Places : plug[x] = "hub" /\ addr[x] > 0 => addr'[x] = addr[x]
  <2>1. CASE ResetHubPort
    <3>1. left > 0
      BY <2>1 DEF ResetHubPort
    <3>2. PICK R : /\ R \subseteq Below
                   /\ addr' = [x \in Places |-> IF x \in R THEN 0 ELSE addr[x]]
      BY <2>1 DEF ResetHubPort
    <3>3. \A x \in R : plug[x] # "hub"
      BY <3>1, <3>2, NoHubBelow DEF HubInv
    <3> QED
      BY <3>2, <3>3
  <2>2. CASE ~ ResetHubPort
    <3>1. addr' = addr
      BY <2>2 DEF HubStep, PassSlot, EmptyHubPort, HubPortStatus, HubDone, ProbeSlot, bus
    <3> QED
      BY <3>1
  <2> QED
    BY <2>1, <2>2
<1> QED
  BY <1>1, <1>2, <1>3, <1>4, SameMarks

LEMMA DriveHubs ==
  ASSUME HubInv, DriveStep
  PROVE  RootFirst' /\ HubsMarked'
<1>1. UNCHANGED <<addr, plug, slots, max_dev, runs>> /\ pc \in {"slots", "drives"}
  BY DEF DriveStep, NoDevice, StartDrives, SkipSlot, AddDrive, UnitNotReady, bus, table
<1>2. pc' \in {"idle", "drives"}
  BY DriveMoves DEF HubInv
<1>3. RootFirst' /\ ~ FillsRoot /\ ~ InHub'
  BY <1>1, <1>2 DEF HubInv, RootFirst, FillsRoot, InHub
<1> QED
  BY <1>1, <1>3, SameMarks

LEMMA HubsStay ==
  ASSUME Smooth, HubInv, [Next]_vars
  PROVE  RootFirst' /\ HubsMarked'
<1>1. CASE UNCHANGED vars
  BY <1>1 DEF vars, bus, table, loops, HubInv, RootFirst, HubsMarked, RootLeft, Untouched,
              Marked, FillsRoot, InHub, At, HubsAt
<1>2. CASE NoController \/ StartController
  BY <1>2, StartHubs
<1> QED
  BY <1>1, <1>2, RootHubs, FillHubs, ProbeHubs, DriveHubs DEF Next, Enumerating

LEMMA InitHubs ==
  ASSUME Init
  PROVE  HubInv
<1>1. At(0) = {}
  BY DEF Init, At, None
<1>2. \A k \in Slots : ~ Marked(k)
  BY DEF Init, Slots, Marked, Hub
<1>3. RootFirst
  BY <1>1, <1>2 DEF Init, RootFirst, Untouched, FillsRoot
<1> QED
  BY <1>2, <1>3, InitIInv DEF Init, HubInv, HubsMarked, InHub

LEMMA HubsInductive ==
  ASSUME Smooth
  PROVE  Spec => []HubInv
<1>1. HubInv /\ IInv' /\ [Next]_vars => HubInv'
  BY HubsStay DEF HubInv
<1> QED
  BY <1>1, InitHubs, Inductive, PTL DEF Spec

LEMMA ProbedIsHub ==
  ASSUME HubInv, InHub
  PROVE  HubsAt(Address(slot)) # {}
<1>1. slots[slot].id > 0 /\ HubsAt(slots[slot].id) # {}
  BY HubSlot
<1>2. Address(slot) = slots[slot].id
  BY <1>1 DEF Address
<1> QED
  BY <1>1, <1>2

\* usb_probe sends its requests to hubs only, whatever else fails and whatever is behind
\* the hub: a slot with MaxLUN 0xff is always that of a hub, although the driver
\* clears a slot by the same mark.
THEOREM OnlyHubs ==
  ASSUME LoneRoot, MaxRuns <= 1, Failing \cap {"reset", "device"} = {},
         \A f \in Plugs : \A p \in 1..NPorts : f[<<p, 0>>] \in HighSpeed \cup {"none"}
  PROVE  Spec => []ProbesOnlyHubs
<1>1. Smooth
  BY DEF Smooth
<1>2. HubInv => ProbesOnlyHubs
  BY ProbedIsHub DEF ProbesOnlyHubs, InHub
<1> QED
  BY <1>1, <1>2, HubsInductive, PTL

-----------------------------------------------------------------------------
(* That every stick becomes a drive.  It needs one device at most at the root, of *)
(* any kind; the attempts to reset it may fail, and the driver may run again.     *)

\* Nothing is configured when the root device is reset.
RootFresh ==
  /\ pc \in {"attempt", "handoff"} \/ FillsRoot => plug[<<port, 0>>] # "none"
  /\ pc \in {"ports", "attempt", "handoff"} /\ RootLeft => configured = {}

\* The storage devices that took part to the end: each is that of a slot which holds
\* drives, and Drive_enumerate has a drive for those it has been at.
Sticks == {x \in configured : plug[x] = "storage"}
HasDrive(x) == \E i \in 1..Len(drives) : drives[i].id = addr[x]
Counted ==
  \A x \in Sticks :
    addr[x] \in 1..max_dev /\ slots[addr[x] - 1].lun < Rejected /\ usb_count > 0
Entered ==
  pc = "drives" =>
    \A x \in Sticks : addr[x] <= slot \/ (addr[x] = slot + 1 /\ lun > 0) => HasDrive(x)

StickInv == BInv /\ RootFresh /\ Counted /\ Entered /\ SticksBecomeDrives

\* An error is told from a number of drives by its top bit.
Quiet == LoneRoot /\ Calm /\ ~ CanFail("ready") /\ MaxDri < 128

LEMMA Table ==
  ASSUME IInv
  PROVE  /\ max_dev \in Nat /\ max_dev <= MaxDev /\ MaxDev \in Nat /\ usb_count \in Nat
         /\ addr \in [Places -> {None} \cup Nat] /\ configured \subseteq Places
         /\ \A k \in 0..(max_dev - 1) : k \in Slots
<1>1. max_dev \in 0..MaxDev /\ MaxDev \in Nat /\ usb_count \in 0..max_dev
  BY Sizes DEF IInv, TableOK
<1>2. addr \in [Places -> {None} \cup 0..MaxDev] /\ configured \subseteq Places
  BY DEF IInv, BusOK
<1>3. addr \in [Places -> {None} \cup Nat]
  BY <1>1, <1>2
<1>4. \A k \in 0..(max_dev - 1) : k \in 0..(MaxDev - 1)
  BY <1>1
<1> QED
  BY <1>1, <1>2, <1>3, <1>4 DEF Slots

\* Devices that stay where they were keep their slots.
LEMMA CountedStays ==
  ASSUME IInv, Counted, NEW x \in Sticks, addr'[x] = addr[x],
         max_dev' \in {max_dev, max_dev + 1}, usb_count' \in {usb_count, usb_count + 1},
         \A k \in 0..(max_dev - 1) : slots'[k] = slots[k]
  PROVE  addr'[x] \in 1..max_dev' /\ slots'[addr'[x] - 1].lun < Rejected /\ usb_count' > 0
<1>1. addr[x] \in 1..max_dev /\ slots[addr[x] - 1].lun < Rejected /\ usb_count > 0
  BY DEF Counted
<1>2. max_dev \in Nat /\ usb_count \in Nat
  BY Table
<1> DEFINE a == addr[x]
<1>3. a \in 1..max_dev /\ addr'[x] = a
  BY <1>1
<1> HIDE DEF a
<1>4. a \in 1..max_dev' /\ a - 1 \in 0..(max_dev - 1)
  BY <1>2, <1>3
<1>5. slots'[a - 1] = slots[a - 1]
  BY <1>4
<1>6. usb_count' > 0
  BY <1>1, <1>2
<1> QED
  BY <1>1, <1>3, <1>4, <1>5, <1>6 DEF a

LEMMA SameCounted ==
  ASSUME IInv, Counted, UNCHANGED <<plug, max_dev, usb_count>>, configured' \subseteq configured,
         \A x \in configured' : addr'[x] = addr[x],
         \A k \in 0..(max_dev - 1) : slots'[k] = slots[k]
  PROVE  Counted'
<1>1. \A x \in Sticks' : x \in Sticks /\ addr'[x] = addr[x]
  BY DEF Sticks
<1> QED
  BY <1>1, CountedStays DEF Counted

LEMMA PortRange ==
  ASSUME IInv
  PROVE  port \in Nat /\ (port <= NPorts => port \in 1..NPorts /\ port >= port)
<1>1. port \in 1..(NPorts + 1) /\ NPorts \in Nat
  BY Sizes DEF IInv, WhereOK
<1> QED
  BY <1>1

\* A root port at work has a device, and there are no more behind it.
LEMMA LastRoot ==
  ASSUME LoneRoot, IInv, port <= NPorts, plug[<<port, 0>>] # "none"
  PROVE  RootLeft /\ \A p \in 1..NPorts : p >= port + 1 => plug[<<p, 0>>] = "none"
<1>1. port \in 1..NPorts /\ port >= port /\ plug \in Plugs /\ port \in Nat
  BY PortRange DEF IInv, BusOK
<1>2. \A p \in 1..NPorts : p >= port + 1 => p # port
  BY <1>1
<1> QED
  BY <1>1, <1>2 DEF LoneRoot, RootLeft

LEMMA NextFresh ==
  ASSUME LoneRoot, IInv, RootFresh, NextPort, plug' = plug, port <= NPorts,
         plug[<<port, 0>>] # "none" \/ (pc = "ports" /\ UNCHANGED configured)
  PROVE  RootFresh'
<1>1. pc' = "ports" /\ port' = port + 1 /\ port \in Nat
  BY PortRange DEF NextPort, Go
<1>2. CASE plug[<<port, 0>>] # "none"
  <2>1. ~ RootLeft'
    BY <1>1, <1>2, LastRoot DEF RootLeft
  <2> QED
    BY <1>1, <2>1 DEF RootFresh, FillsRoot
<1>3. CASE pc = "ports" /\ UNCHANGED configured
  <2>1. \A p \in 1..NPorts : p >= port + 1 => p >= port
    BY <1>1
  <2>2. RootLeft' => RootLeft
    BY <1>1, <2>1 DEF RootLeft
  <2> QED
    BY <1>1, <1>3, <2>2 DEF RootFresh, FillsRoot
<1> QED
  BY <1>2, <1>3

LEMMA FreshKept ==
  ASSUME LoneRoot, IInv, RootFresh, [Next]_vars
  PROVE  RootFresh'
<1>1. CASE UNCHANGED vars
  BY <1>1 DEF vars, bus, loops, RootFresh, FillsRoot, RootLeft
<1>2. CASE NoController \/ StartController
  BY <1>2 DEF NoController, StartController, Go, RootFresh, FillsRoot
<1>3. CASE EmptyPort
  BY <1>3, NextFresh DEF EmptyPort, bus
<1>4. CASE LowSpeedPort \/ ConnectedPort
  BY <1>4 DEF LowSpeedPort, ConnectedPort, Go, bus, loops, RootFresh, RootLeft, FillsRoot
<1>5. ASSUME NEW enabled \in BOOLEAN, Attempt(enabled) PROVE RootFresh'
  BY <1>5 DEF Attempt, Go, RootFresh, RootLeft, FillsRoot
<1>6. CASE HandOff
  <2>1. plug[<<port, 0>>] # "none" /\ port <= NPorts /\ UNCHANGED <<plug, configured>>
    BY <1>6 DEF HandOff, RootFresh, IInv, WhereOK
  <2>2. NextPort \/ (pc' = "attempt" /\ port' = port)
    BY <1>6 DEF HandOff, Go
  <2> QED
    BY <1>6, <2>1, <2>2, NextFresh DEF RootFresh, RootLeft, FillsRoot, HandOff
<1>7. CASE PortsDone
  BY <1>7 DEF PortsDone, Go, RootFresh, FillsRoot
<1>8. CASE Fill
  <2>1. pc = "fill" /\ FillReturn /\ plug' = plug /\ caller' = caller
    BY <1>8, FillGoes, FillKeepsPlug
  <2>2. CASE caller = "ports"
    <3>1. NextPort /\ port <= NPorts /\ plug[<<port, 0>>] # "none"
      BY <2>1, <2>2 DEF FillReturn, RootFresh, FillsRoot, IInv, WhereOK
    <3> QED
      BY <2>1, <3>1, NextFresh
  <2>3. CASE caller # "ports"
    <3>1. pc' = "hub"
      BY <2>1, <2>3 DEF FillReturn, Go
    <3> QED
      BY <3>1 DEF RootFresh, FillsRoot
  <2> QED
    BY <2>2, <2>3
<1>9. CASE HubStep
  <2>1. CASE PassSlot \/ EmptyHubPort \/ ResetHubPort \/ HubDone
    BY <2>1 DEF PassSlot, EmptyHubPort, ResetHubPort, HubDone, Go, RootFresh, FillsRoot
  <2>2. CASE HubPortStatus
    BY <2>2 DEF HubPortStatus, Go, RootFresh, FillsRoot
  <2>3. ASSUME NEW answered \in BOOLEAN, ProbeSlot(answered) PROVE RootFresh'
    BY <2>3 DEF ProbeSlot, Go, RootFresh, FillsRoot
  <2> QED
    BY <1>9, <2>1, <2>2, <2>3 DEF HubStep
<1>10. CASE DriveStep
  BY <1>10, DriveMoves DEF RootFresh, FillsRoot
<1> QED
  BY <1>1, <1>2, <1>3, <1>4, <1>5, <1>6, <1>7, <1>8, <1>9, <1>10
  DEF Next, Enumerating, RootStep

LEMMA RootCounted ==
  ASSUME Quiet, StickInv, RootStep
  PROVE  Counted'
<1>1. CASE EmptyPort \/ LowSpeedPort \/ ConnectedPort \/ PortsDone
  BY <1>1, SameCounted
  DEF EmptyPort, LowSpeedPort, ConnectedPort, PortsDone, bus, table, StickInv, BInv
<1>2. CASE HandOff \/ \E enabled \in BOOLEAN : Attempt(enabled)
  <2>1. /\ pc \in {"attempt", "handoff"} /\ port <= NPorts /\ UNCHANGED configured
        /\ plug[<<port, 0>>] # "none"
    BY <1>2 DEF Attempt, HandOff, StickInv, BInv, IInv, WhereOK, RootFresh
  <2>2. configured' = {}
    BY <2>1, LastRoot DEF StickInv, BInv, Quiet, RootFresh
  <2> QED
    BY <2>2 DEF Counted, Sticks
<1> QED
  BY <1>1, <1>2 DEF RootStep

\* The device that is filled in gets the slot with its number.
LEMMA FillCounted ==
  ASSUME Quiet, StickInv, Fill
  PROVE  Counted'
<1>1. IInv /\ Counted /\ BInv /\ Calm
  BY DEF StickInv, BInv, Quiet
<1>2. max_dev \in Nat /\ usb_count \in Nat /\ max_dev <= MaxDev /\ MaxDev \in Nat
      /\ configured \subseteq Places
  BY <1>1, Table
<1>3. CASE TableFull \/ NoDescriptor
  BY <1>1, <1>3, SameCounted DEF TableFull, NoDescriptor, bus, table
<1>4. CASE NoHead
  <2>1. UNCHANGED <<bus, max_dev, usb_count>>
        /\ slots' = [slots EXCEPT ![max_dev].lun = Rejected]
    BY <1>4 DEF NoHead
  <2>2. \A k \in 0..(max_dev - 1) : k # max_dev /\ k \in Slots
    BY <1>1, <1>2, Table
  <2>3. \A k \in 0..(max_dev - 1) : slots'[k] = slots[k]
    BY <1>1, <2>1, <2>2 DEF IInv, TableOK
  <2> QED
    BY <1>1, <2>1, <2>3, SameCounted DEF bus
<1>5. ASSUME NEW taken \in Takers, NEW top, Filling, Addressed(taken, top)
      PROVE  /\ \A x \in At(0) : At(0) = {x} /\ addr'[x] = max_dev + 1
             /\ taken \subseteq At(0) /\ max_dev' = max_dev + 1
             /\ \A x \in Places : x \notin At(0) => addr'[x] = addr[x]
             /\ slots'[max_dev].lun = top
             /\ \A k \in 0..(max_dev - 1) : slots'[k] = slots[k]
             /\ \A x \in Sticks : x \notin At(0)
  <2>1. /\ addr' = [x \in Places |-> IF x \in At(0) THEN NewId ELSE addr[x]]
        /\ max_dev' = NewId /\ NewId = max_dev + 1 /\ max_dev < MaxDev /\ max_dev \in Slots
        /\ slots' = [slots EXCEPT ![max_dev] = [id |-> NewId, lun |-> top]]
    <3>1. /\ max_dev' = NewId /\ NewId = max_dev + 1 /\ max_dev < MaxDev
          /\ slots' = [slots EXCEPT ![max_dev] = [id |-> NewId, lun |-> top]]
      BY <1>5 DEF Addressed, NewId, Filling
    <3>2. max_dev \in Slots
      BY <1>1, <1>5, Takes
    <3> QED
      BY <1>1, <1>2, <3>1, <3>2, CalmFill
  <2>2. \A x, y \in At(0) : x = y
    BY <1>1, <1>5 DEF BInv, Alone, Filling
  <2>3. \A k \in 0..(max_dev - 1) : k # max_dev /\ k \in Slots
    BY <1>1, <1>2, Table
  <2>4. slots'[max_dev].lun = top /\ \A k \in 0..(max_dev - 1) : slots'[k] = slots[k]
    BY <1>1, <2>1, <2>3 DEF IInv, TableOK
  <2>5. \A x \in Sticks : x \notin At(0)
    BY <1>1, <1>2 DEF Counted, At
  <2>6. taken \subseteq At(0)
    BY DEF Takers
  <2> QED
    BY <2>1, <2>2, <2>4, <2>5, <2>6 DEF At
<1>6. ASSUME NEW taken \in Takers, NEW top, Filling, Addressed(taken, top), UNCHANGED plug,
             configured' \subseteq configured \cup taken,
             usb_count' \in {usb_count, usb_count + 1},
             \A x \in taken : plug[x] = "storage" /\ x \in configured' =>
                                top < Rejected /\ usb_count' = usb_count + 1
      PROVE  Counted'
  <2> SUFFICES ASSUME NEW x \in Sticks'
               PROVE  addr'[x] \in 1..max_dev' /\ slots'[addr'[x] - 1].lun < Rejected
                      /\ usb_count' > 0
    BY DEF Counted
  <2>1. x \in configured' /\ plug[x] = "storage"
    BY <1>6 DEF Sticks
  <2>2. CASE x \in taken
    <3>1. addr'[x] = max_dev + 1 /\ max_dev' = max_dev + 1 /\ slots'[max_dev].lun = top
          /\ top < Rejected /\ usb_count' = usb_count + 1
      BY <1>5, <1>6, <2>1, <2>2
    <3>2. addr'[x] - 1 = max_dev /\ addr'[x] \in 1..max_dev' /\ usb_count' > 0
      BY <1>2, <3>1
    <3> QED
      BY <3>1, <3>2
  <2>3. CASE x \notin taken
    <3>1. x \in Sticks
      BY <1>6, <2>1, <2>3 DEF Sticks
    <3>2. x \in Places
      BY <1>2, <3>1 DEF Sticks
    <3>3. addr'[x] = addr[x] /\ max_dev' = max_dev + 1
          /\ \A k \in 0..(max_dev - 1) : slots'[k] = slots[k]
      BY <1>5, <1>6, <3>1, <3>2
    <3> QED
      BY <1>1, <1>6, <3>1, <3>3, CountedStays
  <2> QED
    BY <2>2, <2>3
<1>7. ASSUME NEW taken \in Takers, NoConfiguration(taken) PROVE Counted'
  <2>1. Filling /\ Addressed(taken, Rejected) /\ UNCHANGED <<plug, configured, usb_count>>
    BY <1>7 DEF NoConfiguration
  <2>2. \A x \in taken : ~ (plug[x] = "storage" /\ x \in configured)
    BY <1>5, <2>1 DEF Sticks
  <2> QED
    BY <1>6, <2>1, <2>2
<1>8. ASSUME NEW taken \in Takers, NEW x \in taken, Unsuitable(taken, x) \/ HubFound(taken, x)
      PROVE  Counted'
  <2>1. PICK top : Filling /\ Addressed(taken, top)
    BY <1>8 DEF Unsuitable, HubFound
  <2>2. UNCHANGED <<plug, usb_count>> /\ configured' \subseteq configured \cup taken
        /\ plug[x] # "storage"
    BY <1>8 DEF Unsuitable, HubFound, Configure
  <2>3. \A y \in taken : y = x
    BY <1>5, <2>1
  <2> QED
    BY <1>6, <2>1, <2>2, <2>3
<1>9. ASSUME NEW taken \in Takers, NEW x \in taken, NEW answered \in BOOLEAN,
             StorageFound(taken, x, answered)
      PROVE  Counted'
  <2>1. /\ Filling /\ Addressed(taken, IF answered THEN TopLun ELSE StaleLun) /\ UNCHANGED plug
        /\ usb_count' = usb_count + 1 /\ configured' \subseteq configured \cup taken
    BY <1>9 DEF StorageFound, Configure
  <2>2. (IF answered THEN TopLun ELSE StaleLun) < Rejected
    BY Sizes DEF Rejected, StaleLun, Lun
  <2> QED
    BY <1>6, <2>1, <2>2
<1> QED
  BY <1>3, <1>4, <1>7, <1>8, <1>9 DEF Fill

LEMMA CountedKept ==
  ASSUME Quiet, StickInv, [Next]_vars
  PROVE  Counted'
<1>1. IInv /\ Counted
  BY DEF StickInv, BInv
<1>2. CASE UNCHANGED <<bus, table>>
  BY <1>1, <1>2, SameCounted DEF bus, table
<1>3. CASE HubStep
  <2>1. CASE ResetHubPort
    <3>1. PICK R : /\ addr' = [x \in Places |-> IF x \in R THEN 0 ELSE addr[x]]
                   /\ configured' = configured \ R
      BY <2>1 DEF ResetHubPort
    <3>2. UNCHANGED <<plug, table>>
      BY <2>1 DEF ResetHubPort
    <3>3. configured \subseteq Places
      BY <1>1, Table
    <3> QED
      BY <1>1, <3>1, <3>2, <3>3, SameCounted DEF table
  <2>2. CASE ~ ResetHubPort
    BY <1>2, <1>3, <2>2 DEF HubStep, PassSlot, EmptyHubPort, HubPortStatus, HubDone, ProbeSlot
  <2> QED
    BY <2>1, <2>2
<1>4. CASE DriveStep
  BY <1>2, <1>4 DEF DriveStep, NoDevice, StartDrives, SkipSlot, AddDrive, UnitNotReady
<1>5. CASE UNCHANGED vars \/ NoController
  BY <1>2, <1>5 DEF vars, NoController
<1>6. CASE StartController
  BY <1>6 DEF StartController, Counted, Sticks
<1> QED
  BY <1>3, <1>4, <1>5, <1>6, RootCounted, FillCounted DEF Next, Enumerating

\* The first LUN of a device that took part to the end answers.
LEMMA StickReady ==
  ASSUME Quiet, StickInv, pc = "drives", NEW x \in Sticks, addr[x] = slot + 1
  PROVE  /\ slots[slot].id = addr[x] /\ ~ (slots[slot].lun >= Rejected)
         /\ lun = 0 => Ready /\ ~ MayMiss(slots[slot].id, "ready")
<1>1. slot \in Nat /\ slot < max_dev /\ slot \in Slots /\ x \in Places /\ x \in configured
      /\ plug[x] = "storage"
  BY VisitedBelow, SlotInTable, Table DEF StickInv, BInv, Sticks
<1>2. slots[slot].lun < Rejected
  <2>1. slots[addr[x] - 1].lun < Rejected /\ addr[x] - 1 = slot
    BY <1>1 DEF StickInv, Counted
  <2> QED
    BY <2>1
<1>3. slots[slot].id = addr[x] /\ addr[x] > 0
  BY <1>1, <1>2 DEF StickInv, BInv, IInv, TableOK
<1>4. At(addr[x]) = {x}
  BY <1>1, <1>3 DEF StickInv, BInv, Apart, At
<1>5. lun = 0 => Ready
  BY <1>1, <1>3, <1>4, Sizes DEF Ready, Lun
<1>6. Cardinality(At(slots[slot].id)) = 1
  BY <1>3, <1>4, FS_Singleton
<1>7. ~ (slots[slot].lun >= Rejected)
  <2>1. slots[slot].lun \in Lun \cup {Rejected, Hub}
    BY <1>1 DEF StickInv, BInv, IInv, TableOK
  <2> QED
    BY <1>2, <2>1 DEF Lun, Rejected, Hub
<1> QED
  BY <1>3, <1>5, <1>6, <1>7 DEF MayMiss, Quiet

\* One step of Drive_enumerate: the devices of this slot and of those before have a drive.
LEMMA NowDrives ==
  ASSUME Quiet, StickInv, pc = "drives", SkipSlot \/ AddDrive \/ UnitNotReady,
         NEW x \in Sticks, addr[x] <= slot + 1
  PROVE  HasDrive(x)' /\ addr[x] >= 1
<1>1. /\ slot \in Nat /\ addr[x] \in Nat /\ addr[x] >= 1 /\ lun \in Nat
      /\ drives \in Seq([id: 1..MaxDev, lun: Lun])
  <2>1. slot \in Nat /\ lun \in Lun /\ drives \in Seq([id: 1..MaxDev, lun: Lun])
    BY VisitedBelow DEF StickInv, BInv
  <2>2. addr[x] \in 1..max_dev /\ max_dev \in Nat
    BY Table DEF StickInv, BInv, Counted
  <2> QED
    BY <2>1, <2>2 DEF Lun
<1>2. addr' = addr
  BY DEF SkipSlot, AddDrive, UnitNotReady, bus
<1>3. HasDrive(x) => HasDrive(x)'
  <2> SUFFICES ASSUME NEW i \in 1..Len(drives), drives[i].id = addr[x] PROVE HasDrive(x)'
    BY DEF HasDrive
  <2>1. CASE SkipSlot \/ UnitNotReady
    BY <1>2, <2>1 DEF SkipSlot, UnitNotReady, HasDrive
  <2>2. CASE AddDrive
    <3>1. PICK new : drives' = Append(drives, new)
      BY <2>2 DEF AddDrive
    <3>2. Len(drives') = Len(drives) + 1 /\ drives'[i] = drives[i] /\ Len(drives) \in Nat
      BY <1>1, <3>1
    <3>3. i \in 1..Len(drives')
      BY <3>2
    <3> QED
      BY <1>2, <3>2, <3>3 DEF HasDrive
  <2> QED
    BY <2>1, <2>2
<1>4. CASE addr[x] <= slot \/ lun > 0
  BY <1>1, <1>3, <1>4 DEF StickInv, Entered
<1>5. CASE addr[x] = slot + 1 /\ lun = 0
  <2>1. AddDrive
    BY <1>5, StickReady DEF SkipSlot, UnitNotReady
  <2>2. PICK new : drives' = Append(drives, new) /\ new.id = slot + 1
    BY <2>1, Added DEF StickInv, BInv
  <2>3. /\ Len(drives') = Len(drives) + 1 /\ drives'[Len(drives) + 1] = new
        /\ Len(drives) \in Nat
    BY <1>1, <2>2
  <2>4. Len(drives) + 1 \in 1..Len(drives')
    BY <2>3
  <2> QED
    BY <1>1, <1>2, <1>5, <2>2, <2>3, <2>4 DEF HasDrive
<1> QED
  BY <1>1, <1>4, <1>5

LEMMA DriveStick ==
  ASSUME Quiet, StickInv, SkipSlot \/ AddDrive \/ UnitNotReady
  PROVE  Entered' /\ SticksBecomeDrives'
<1>1. /\ pc = "drives" /\ UNCHANGED <<plug, addr, configured>>
  BY DEF SkipSlot, AddDrive, UnitNotReady, bus
<1>2. /\ slot \in Nat /\ slot < max_dev /\ max_dev \in Nat /\ lun \in Nat
      /\ \A x \in Sticks : addr[x] \in Nat /\ addr[x] >= 1 /\ addr[x] <= max_dev
  <2>1. slot \in Nat /\ slot < max_dev /\ max_dev \in Nat /\ lun \in Lun
    BY <1>1, VisitedBelow DEF StickInv, BInv
  <2>2. \A x \in Sticks : addr[x] \in 1..max_dev
    BY DEF StickInv, Counted
  <2> QED
    BY <2>1, <2>2 DEF Lun
<1>3. Sticks' = Sticks
  BY <1>1 DEF Sticks
<1>4. \A x \in Sticks : addr[x] <= slot + 1 => HasDrive(x)'
  BY <1>1, NowDrives
<1>5. \/ pc' = "drives" /\ slot' \in {slot, slot + 1} /\ (slot' = slot + 1 => lun' = 0)
      \/ pc' = "idle" /\ Finish(drives') /\ (slot + 1 = max_dev \/ Len(drives') = MaxDri)
  <2>1. CASE NextSlot(drives')
    BY <1>1, <1>2, <2>1 DEF NextSlot, Finish, Go
  <2>2. CASE UNCHANGED <<pc, slot>>
    BY <1>1, <1>2, <2>2
  <2>3. ASSUME NextUnit(drives') PROVE NextSlot(drives') \/ UNCHANGED <<pc, slot>>
    BY <2>3 DEF NextUnit
  <2>4. CASE Finish(drives') /\ Len(drives') = MaxDri
    <3>1. pc' = "idle"
      BY <2>4 DEF Finish, Go
    <3> QED
      BY <2>4, <3>1
  <2>5. \/ NextSlot(drives') \/ NextUnit(drives')
        \/ Finish(drives') /\ Len(drives') = MaxDri
    <3>1. CASE SkipSlot
      BY <3>1 DEF SkipSlot
    <3>2. CASE UnitNotReady
      BY <3>2 DEF UnitNotReady
    <3>3. CASE AddDrive
      BY <3>3 DEF AddDrive
    <3> QED
      BY <3>1, <3>2, <3>3
  <2> QED
    BY <2>1, <2>2, <2>3, <2>4, <2>5
<1>6. Entered'
  <2> SUFFICES ASSUME pc' = "drives", NEW x \in Sticks,
                      addr[x] <= slot' \/ (addr[x] = slot' + 1 /\ lun' > 0)
               PROVE  HasDrive(x)'
    BY <1>1, <1>3 DEF Entered
  <2>1. addr[x] <= slot + 1
    BY <1>2, <1>5
  <2> QED
    BY <1>4, <2>1
<1>7. SticksBecomeDrives'
  <2> SUFFICES ASSUME pc' = "idle", error' < 128 => Len(drives') < MaxDri, NEW x \in Sticks
               PROVE  \E i \in 1..Len(drives') : error' < 128 /\ drives'[i].id = addr[x]
    BY <1>1, <1>3 DEF SticksBecomeDrives, Sticks
  <2>1. Finish(drives') /\ (slot + 1 = max_dev \/ Len(drives') = MaxDri)
    BY <1>5
  <2>2. drives' \in Seq([id: 1..MaxDev, lun: Lun]) /\ Len(drives') <= MaxDri
        /\ MaxDri \in Nat \ {0} /\ MaxDri < 128
    BY Sizes, NextResult DEF StickInv, BInv, ResultOK, Next, Enumerating, DriveStep, Quiet
  <2>3. Len(drives') \in Nat
    BY <2>2
  <2>4. drives' # <<>> => error' < 128
    BY <2>1, <2>2, <2>3 DEF Finish
  <2>5. Len(drives') # MaxDri
    <3> SUFFICES ASSUME Len(drives') = MaxDri PROVE FALSE
      OBVIOUS
    <3>1. drives' # <<>>
      BY <2>2
    <3> QED
      BY <2>2, <2>3, <2>4, <3>1
  <2>6. HasDrive(x)'
    BY <1>2, <1>4, <2>1, <2>5
  <2>7. PICK i \in 1..Len(drives') : drives'[i].id = addr[x]
    BY <1>1, <2>6 DEF HasDrive
  <2>8. drives' # <<>>
    BY <2>2, <2>3
  <2> QED
    BY <2>4, <2>7, <2>8
<1> QED
  BY <1>6, <1>7

LEMMA SticksStay ==
  ASSUME Quiet, StickInv, [Next]_vars
  PROVE  Entered' /\ SticksBecomeDrives'
<1>1. CASE UNCHANGED vars
  BY <1>1 DEF vars, bus, result, loops, StickInv, Entered, SticksBecomeDrives, HasDrive, Sticks
<1>2. ASSUME pc' # "drives", pc' = "idle" => error' = 128 PROVE Entered' /\ SticksBecomeDrives'
  BY <1>2 DEF Entered, SticksBecomeDrives
<1>3. CASE NoController \/ StartController
  BY <1>2, <1>3 DEF NoController, StartController, Start, Go
<1>4. CASE RootStep
  BY <1>2, <1>4 DEF RootStep, EmptyPort, LowSpeedPort, ConnectedPort, PortsDone, HandOff, Attempt,
                    NextPort, Go
<1>5. CASE Fill
  BY <1>2, <1>5, FillGoes DEF FillReturn, NextPort, Go, StickInv, BInv
<1>6. CASE HubStep
  <2>1. pc' \in {"slots", "hub", "hub port", "fill"}
    <3>1. CASE PassSlot \/ EmptyHubPort \/ ResetHubPort \/ HubDone
      BY <3>1 DEF PassSlot, EmptyHubPort, ResetHubPort, HubDone, Go
    <3>2. CASE HubPortStatus
      BY <3>2 DEF HubPortStatus, Go
    <3>3. ASSUME NEW answered \in BOOLEAN, ProbeSlot(answered) PROVE pc' = "hub"
      BY <3>3 DEF ProbeSlot, Go
    <3> QED
      BY <1>6, <3>1, <3>2, <3>3 DEF HubStep
  <2> QED
    BY <1>2, <2>1
<1>7. CASE NoDevice
  <2>1. Sticks = {}
    BY <1>7 DEF NoDevice, StickInv, Counted
  <2>2. pc' = "idle" /\ Sticks' = Sticks
    BY <1>7 DEF NoDevice, Go, bus, Sticks
  <2> QED
    BY <2>1, <2>2 DEF Entered, SticksBecomeDrives, Sticks
<1>8. CASE StartDrives
  <2>1. pc' = "drives" /\ slot' = 0 /\ lun' = 0 /\ UNCHANGED <<plug, addr, configured>>
    BY <1>8 DEF StartDrives, Go, bus
  <2>2. \A x \in Sticks : addr[x] \in 1..max_dev /\ max_dev \in Nat
    BY Table DEF StickInv, BInv, Counted
  <2>3. \A x \in Sticks : ~ (addr[x] <= 0)
    BY <2>2
  <2> QED
    BY <2>1, <2>3 DEF Entered, SticksBecomeDrives, Sticks
<1> QED
  BY <1>1, <1>3, <1>4, <1>5, <1>6, <1>7, <1>8, DriveStick DEF Next, Enumerating, DriveStep

LEMMA InitSticks ==
  ASSUME Init
  PROVE  RootFresh /\ Counted /\ Entered /\ SticksBecomeDrives
BY DEF Init, RootFresh, FillsRoot, Counted, Entered, SticksBecomeDrives, Sticks

\* When usb --init is over, each storage device that took part in it to the end, at the
\* root or behind the hub there, has a drive, unless the drive table was full: no slot, no LUN
\* and no device is passed over from SET_CONFIGURATION to the drive number.
THEOREM Found ==
  ASSUME LoneRoot, MaxDri < 128,
         Failing \subseteq {"reset", "config", "set config", "lun", "hub descriptor"}
  PROVE  Spec => []SticksBecomeDrives
<1>1. Quiet /\ Calm /\ LoneRoot
  BY DEF Quiet, Calm, CanFail
<1>2. BInv /\ IInv' /\ [Next]_vars => BInv'
  BY <1>1, CalmBus, CalmDrives DEF BInv
<1>3. StickInv /\ IInv' /\ [Next]_vars => StickInv'
  BY <1>1, <1>2, FreshKept, CountedKept, SticksStay DEF StickInv, BInv
<1>4. Init => StickInv
  BY InitBInv, InitSticks DEF StickInv
<1>5. StickInv => SticksBecomeDrives
  BY DEF StickInv
<1> QED
  BY Inductive, <1>3, <1>4, <1>5, PTL DEF Spec

=============================================================================
