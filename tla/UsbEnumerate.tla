---------------------------- MODULE UsbEnumerate ----------------------------
(***************************************************************************)
(* Enumeration of USB storage by the EHCI driver in asm.S (USB2DRI), as    *)
(* `usb --init` runs it: Device_enumerate resets each root port and calls  *)
(* Fill_device_structure, every slot marked as a hub is then probed by     *)
(* usb_probe, and Drive_enumerate turns the LUNs that answer into drives.  *)
(*                                                                         *)
(* The driver keeps its device table, max_dev and usb_count from one       *)
(* `usb --init` to the next.  The devices answer to bus addresses: after a *)
(* reset to 0, after SET_ADDRESS to the number the driver gave them.       *)
(***************************************************************************)
EXTENDS Integers, Sequences, FiniteSets

CONSTANTS
  NPorts,        \* root ports of the controller (HCSPARAMS & 15)
  HubPorts,      \* ports of an external hub
  Plugs,         \* what may be plugged in: functions from Places to Kinds
  TopLun,        \* bMaxLUN of a storage device
  Failing,       \* the steps that may fail on a device that works
  MaxDev,        \* slots of the device table (8)
  MaxDri,        \* entries of the drive table (4)
  Byte,          \* 2^8: enum_retry is a byte
  Word,          \* 2^16: cx counts the turns of a loop
  ConfigLength,  \* wTotalLength of a configuration, as Cache[2] (32)
  Stray,         \* the address read past the table for device 0 - 1
  MaxRuns        \* bound: how often `usb --init` is given

None == -1
Hub == 255           \* MaxLUN 0xff: a hub, to be probed
\* Mutant: 0xff where a device is rejected.
RejectedAsHub == 255
Rejected == 240      \* MaxLUN 0xf0: no storage here

\* <<p, 0>> is root port p; <<p, q>> port q of a hub in root port p.  Hubs
\* behind hubs are left out.
Places == (1..NPorts) \X (0..HubPorts)
HighSpeed == {"storage", "hub", "other"}
Kinds == HighSpeed \cup {"none", "low", "full"}
Steps == {"reset", "head", "device", "address", "config", "set config", "lun",
          "hub descriptor", "hub status", "ready"}

ASSUME UsbAssumption ==
  /\ NPorts \in Nat \ {0} /\ HubPorts \in Nat /\ TopLun \in 0..15
  /\ Plugs \subseteq [Places -> Kinds]
  /\ \A f \in Plugs : \A x \in Places : x[2] # 0 =>
       f[x] # "hub" /\ (f[x] # "none" => f[<<x[1], 0>>] = "hub")
  /\ Failing \subseteq Steps
  /\ MaxDev \in 1..127 /\ MaxDri \in Nat \ {0} /\ MaxRuns \in Nat
  /\ Byte \in Nat \ {0, 1, 2} /\ Word \in Nat \ {0, 1}
  /\ ConfigLength \in 1..(Word - 1) /\ HubPorts < Word
  /\ Stray \in Nat

VARIABLES
  plug,        \* plug[x]: the kind of device at place x
  addr,        \* addr[x]: the address it answers to, None while not reset
  configured,  \* places whose device has had SET_CONFIGURATION
  slots,       \* the device table: slots[k].id (DevID), slots[k].lun (MaxLUN)
  max_dev,     \* devices given an address
  usb_count,   \* storage devices found
  drives,      \* the drive table: DriID and DriLUN of the max_dri drives
  error,       \* usb_count_error: 0x80.. an error, else the number of drives
  stage,       \* usb_fail_stage
  cache,       \* what the last answered transfer left in Cache
  enum_retry,  \* attempts left on a root port
  attempts,    \* history: resets of the current root port
  pc, port, slot, left, lun, caller, \* where the driver is
  runs

bus == <<plug, addr, configured>>
table == <<slots, max_dev, usb_count>>
result == <<drives, error, stage>>
retries == <<enum_retry, attempts>>
loops == <<port, slot, left, lun, caller>>
vars == <<bus, table, result, cache, retries, pc, loops, runs>>

-----------------------------------------------------------------------------
(* Control transfers.  What a failed one leaves in Cache is what was there. *)

\* The fields of Cache the driver reads: byte 2 (ports of a hub), bit 0 of
\* the first word (connected), bits 1 and 10 (enabled at high speed).
ZeroCache == [ports |-> 0, connected |-> FALSE, enabled |-> FALSE]
HeadCache == ZeroCache                        \* 12 01 00 02 ...
ConfigCache == [ports |-> ConfigLength, connected |-> TRUE, enabled |-> FALSE]
LunCache(l) == [ConfigCache EXCEPT !.connected = l % 2 = 1]
HubCache == [ports |-> HubPorts, connected |-> TRUE, enabled |-> FALSE]
PortCache(c, e) == [ports |-> 0, connected |-> c, enabled |-> e]

At(a) == {x \in Places : addr[x] = a}
CanFail(step) == step \in Failing

\* A transfer to address a may go wrong: nothing is there, two devices talk
\* at once, or the step fails.
MayMiss(a, step) == CanFail(step) \/ Cardinality(At(a)) # 1

\* Device address of the slot that _id names: for _id = 0 it is the byte at
\* Dev + 0xff * DevLen, outside the table.
Address(k) == IF slots[k].id = 0 THEN Stray ELSE slots[k].id

HubsAt(a) == {x \in At(a) : plug[x] = "hub"}

-----------------------------------------------------------------------------
Init ==
  /\ plug \in Plugs
  /\ addr = [x \in Places |-> None]
  /\ configured = {}
  /\ slots = [k \in 0..(MaxDev - 1) |-> [id |-> 0, lun |-> 0]]
  /\ max_dev = 0 /\ usb_count = 0
  /\ drives = <<>> /\ error = 0 /\ stage = 0
  /\ cache = ZeroCache
  /\ enum_retry = 0 /\ attempts = 0
  /\ pc = "idle"
  /\ port = 1 /\ slot = 0 /\ left = 0 /\ lun = 0 /\ caller = "ports"
  /\ runs = 0

Go(where) == pc' = where

Start == /\ pc = "idle"
         /\ runs < MaxRuns
         /\ runs' = runs + 1
         /\ error' = 128                      \* 0x80
         /\ stage' = 0

\* Check_bus finds no EHCI controller.
NoController ==
  /\ Start
  /\ Go("idle")
  /\ UNCHANGED <<bus, table, drives, cache, retries, loops>>

\* host_initialization resets the controller and powers the ports.
StartController ==
  /\ Start
  /\ addr' = [x \in Places |-> None]
  /\ configured' = {}
  /\ port' = 1
  /\ attempts' = 0
  /\ Go("ports")
  /\ UNCHANGED <<plug, table, drives, cache, enum_retry, slot, left, lun, caller>>

-----------------------------------------------------------------------------
(* Device_enumerate: the root ports *)

NextPort == /\ port' = port + 1
            /\ attempts' = 0
            /\ Go("ports")

EmptyPort ==
  /\ pc = "ports" /\ port <= NPorts
  /\ plug[<<port, 0>>] = "none"
  /\ NextPort
  /\ UNCHANGED <<bus, table, result, cache, enum_retry, slot, left, lun, caller, runs>>

\* Line status: a low-speed device goes straight to the companion controller,
\* past the initialisation of enum_retry.
LowSpeedPort ==
  /\ pc = "ports" /\ port <= NPorts
  /\ plug[<<port, 0>>] = "low"
  /\ Go("handoff")
  /\ UNCHANGED <<bus, table, result, cache, retries, loops, runs>>

ConnectedPort ==
  /\ pc = "ports" /\ port <= NPorts
  /\ plug[<<port, 0>>] \notin {"none", "low"}
  /\ enum_retry' = 2
  /\ Go("attempt")
  /\ UNCHANGED <<bus, table, result, cache, attempts, loops, runs>>

\* `retry`: clear slot 0, whatever slot the port's device will get, and reset
\* the port.
Attempt(enabled) ==
  /\ pc = "attempt"
  /\ slots' = [slots EXCEPT ![0] = [id |-> 0, lun |-> Hub]]
  /\ attempts' = attempts + 1
  /\ IF enabled THEN plug[<<port, 0>>] \in HighSpeed
                ELSE plug[<<port, 0>>] \notin HighSpeed \/ CanFail("reset")
  /\ addr' = [addr EXCEPT ![<<port, 0>>] = IF enabled THEN 0 ELSE None]
  /\ IF enabled THEN Go("fill") /\ caller' = "ports"
                ELSE Go("handoff") /\ UNCHANGED caller
  /\ UNCHANGED <<plug, configured, max_dev, usb_count, result, cache,
                 enum_retry, port, slot, left, lun, runs>>

\* 0x3002: give the port to the companion controller; decb enum_retry.
HandOff ==
  /\ pc = "handoff"
  /\ addr' = [addr EXCEPT ![<<port, 0>>] = None]
  /\ enum_retry' = (enum_retry - 1) % Byte
  /\ IF enum_retry' # 0
       THEN Go("attempt") /\ UNCHANGED <<stage, attempts, port>>
       ELSE stage' = 2 /\ NextPort
  /\ UNCHANGED <<plug, configured, table, drives, error, cache, slot, left,
                 lun, caller, runs>>

PortsDone ==
  /\ pc = "ports" /\ port > NPorts
  /\ slot' = 0
  /\ Go("slots")
  /\ UNCHANGED <<bus, table, result, cache, retries, port, left, lun, caller, runs>>

-----------------------------------------------------------------------------
(* Fill_device_structure: the device at address 0 *)

FillReturn == IF caller = "ports" THEN NextPort
                                  ELSE Go("hub") /\ UNCHANGED <<port, attempts>>

Filling == pc = "fill" /\ max_dev < MaxDev

TableFull ==
  /\ pc = "fill" /\ max_dev >= MaxDev
  /\ FillReturn
  /\ UNCHANGED <<bus, table, result, cache, enum_retry, slot, left, lun, caller, runs>>

\* The first 8 bytes of the device descriptor cannot be read.
NoHead ==
  /\ Filling
  /\ MayMiss(0, "head")
  /\ slots' = [slots EXCEPT ![max_dev].lun = Rejected]
  /\ stage' = 3
  /\ FillReturn
  /\ UNCHANGED <<bus, max_dev, usb_count, drives, error, cache, enum_retry,
                 slot, left, lun, caller, runs>>

\* The whole descriptor cannot be read: the slot stays as it is.
NoDescriptor ==
  /\ Filling
  /\ At(0) # {} /\ MayMiss(0, "device")
  /\ cache' = HeadCache
  /\ stage' = 3
  /\ FillReturn
  /\ UNCHANGED <<bus, table, drives, error, enum_retry, slot, left, lun, caller, runs>>

\* SET_ADDRESS, its status not looked at: the devices that may take it are
\* all of those at address 0.
Takers == IF MayMiss(0, "address") THEN SUBSET At(0) ELSE {At(0)}
NewId == max_dev + 1

\* Mutant: max_dev is not advanced.
AddressedUncounted(taken, top) ==
  /\ slots' = [slots EXCEPT ![max_dev] = [id |-> NewId, lun |-> top]]
  /\ addr' = [x \in Places |-> IF x \in taken THEN NewId ELSE addr[x]]
  /\ UNCHANGED max_dev

Addressed(taken, top) ==
  /\ slots' = [slots EXCEPT ![max_dev] = [id |-> NewId, lun |-> top]]
  /\ max_dev' = NewId
  /\ addr' = [x \in Places |-> IF x \in taken THEN NewId ELSE addr[x]]

\* The configuration cannot be read.
NoConfiguration(taken) ==
  /\ Filling /\ At(0) # {}
  /\ taken = {} \/ Cardinality(taken) > 1 \/ CanFail("config")
  /\ Addressed(taken, Rejected)
  /\ stage' = 3
  /\ cache' = HeadCache
  /\ FillReturn
  /\ UNCHANGED <<plug, configured, usb_count, drives, error, enum_retry, slot,
                 left, lun, caller, runs>>

\* The configuration of device x has no interface the driver can use.
Unsuitable(taken, x) ==
  /\ Filling /\ x \in taken /\ plug[x] = "other"
  /\ Addressed(taken, Rejected)
  /\ stage' = 3
  /\ cache' = ConfigCache
  /\ FillReturn
  /\ UNCHANGED <<plug, configured, usb_count, drives, error, enum_retry, slot,
                 left, lun, caller, runs>>

\* szpz: SET_CONFIGURATION, its status not looked at.
Configure(taken) ==
  \/ configured' = configured \cup taken
  \/ CanFail("set config") /\ UNCHANGED configured

HubFound(taken, x) ==
  /\ Filling /\ x \in taken /\ plug[x] = "hub"
  /\ Addressed(taken, Hub)
  /\ Configure(taken)
  /\ cache' = ConfigCache
  /\ FillReturn
  /\ UNCHANGED <<plug, usb_count, result, enum_retry, slot, left, lun, caller, runs>>

\* bLength of the configuration, left in Cache[0].
StaleLun == 9

\* A storage device: Get_lun's status is not looked at.
StorageFound(taken, x, answered) ==
  /\ Filling /\ x \in taken /\ plug[x] = "storage"
  /\ answered \/ CanFail("lun") \/ Cardinality(taken) > 1
  /\ Addressed(taken, IF answered THEN TopLun ELSE StaleLun)
  /\ Configure(taken)
  /\ cache' = IF answered THEN LunCache(TopLun) ELSE ConfigCache
  /\ usb_count' = usb_count + 1
  /\ FillReturn
  /\ UNCHANGED <<plug, result, enum_retry, slot, left, lun, caller, runs>>

Fill ==
  \/ TableFull \/ NoHead \/ NoDescriptor
  \/ \E taken \in Takers :
       \/ NoConfiguration(taken)
       \/ \E x \in taken :
            \/ Unsuitable(taken, x) \/ HubFound(taken, x)
            \/ \E answered \in BOOLEAN : StorageFound(taken, x, answered)

-----------------------------------------------------------------------------
(* cl_jxq and usb_probe: the slots marked as hubs *)

PassSlot ==
  /\ pc = "slots" /\ slot < MaxDev
  /\ slots[slot].lun # Hub
  /\ slot' = slot + 1
  /\ UNCHANGED <<bus, table, result, cache, retries, pc, port, left, lun, caller, runs>>

\* Get_Hub, its status not looked at, then one turn of the power loop and one
\* of the port loop per port; a count of zero is Word turns.
ProbeSlot(answered) ==
  /\ pc = "slots" /\ slot < MaxDev
  /\ slots[slot].lun = Hub
  /\ IF answered THEN HubsAt(Address(slot)) # {}
                 ELSE HubsAt(Address(slot)) = {} \/ MayMiss(Address(slot), "hub descriptor")
  /\ cache' = IF answered THEN HubCache ELSE cache
  /\ left' = IF cache'.ports = 0 THEN Word ELSE cache'.ports
  /\ Go("hub")
  /\ UNCHANGED <<bus, table, result, retries, port, slot, lun, caller, runs>>

\* The place below port `left` of the probed hub.
Below == {<<x[1], left>> : x \in HubsAt(Address(slot))} \cap Places
Occupied == \E y \in Below : plug[y] # "none"
Enabled == \E y \in Below : addr[y] = 0

\* What Get_HubPort_Status may leave in Cache: the port's status when a hub
\* that has the port answers, else what was there.
Status(enabled) ==
  {c \in {PortCache(Occupied, enabled), cache} :
     IF c = cache THEN Below = {} \/ MayMiss(Address(slot), "hub status")
                       \/ c = PortCache(Occupied, enabled)
                  ELSE Below # {}}

EmptyHubPort ==
  /\ pc = "hub" /\ left > 0
  /\ cache' \in Status(FALSE)
  /\ ~ cache'.connected
  /\ left' = left - 1
  /\ UNCHANGED <<bus, table, result, retries, pc, port, slot, lun, caller, runs>>

\* Port_Reset_hub.
ResetHubPort ==
  /\ pc = "hub" /\ left > 0
  /\ cache' \in Status(FALSE)
  /\ cache'.connected
  /\ \E reset \in {{y \in Below : plug[y] \in HighSpeed}} \cup
                  (IF CanFail("reset") THEN {{}} ELSE {}) :
        /\ addr' = [x \in Places |-> IF x \in reset THEN 0 ELSE addr[x]]
        /\ configured' = configured \ reset
  /\ Go("hub port")
  /\ UNCHANGED <<plug, table, result, retries, loops, runs>>

\* Mutant: the next port is not taken.
HubPortStatusStays ==
  /\ pc = "hub port"
  /\ cache' \in Status(Enabled)
  /\ IF cache'.enabled THEN Go("fill") /\ caller' = "hub" /\ left' = left - 1
                       ELSE Go("hub") /\ UNCHANGED <<caller, left>>
  /\ UNCHANGED <<bus, table, result, retries, port, slot, lun, runs>>

\* The status again: a port enabled at high speed holds a device to fill in.
HubPortStatus ==
  /\ pc = "hub port"
  /\ cache' \in Status(Enabled)
  /\ IF cache'.enabled THEN Go("fill") /\ caller' = "hub"
                       ELSE Go("hub") /\ UNCHANGED caller
  /\ left' = left - 1
  /\ UNCHANGED <<bus, table, result, retries, port, slot, lun, runs>>

HubDone ==
  /\ pc = "hub" /\ left = 0
  /\ slot' = slot + 1
  /\ Go("slots")
  /\ UNCHANGED <<bus, table, result, cache, retries, port, left, lun, caller, runs>>

\* "no device on any port": usb_count is zero.
NoDevice ==
  /\ pc = "slots" /\ slot = MaxDev
  /\ usb_count = 0
  /\ error' = 129                             \* 0x81
  /\ stage' = 1
  /\ Go("idle")
  /\ UNCHANGED <<bus, table, drives, cache, retries, loops, runs>>

-----------------------------------------------------------------------------
(* Drive_enumerate *)

StartDrives ==
  /\ pc = "slots" /\ slot = MaxDev
  /\ usb_count # 0
  /\ error' = 129
  /\ drives' = <<>>
  /\ slot' = 0 /\ lun' = 0
  /\ Go("drives")
  /\ UNCHANGED <<bus, table, stage, cache, retries, port, left, caller, runs>>

\* Drive_enumerate is over: 0x82 and stage 4, or the number of drives.
Finish(found) ==
  /\ Go("idle")
  /\ IF found = <<>> THEN error' = 130 /\ stage' = 4
                     ELSE error' = Len(found) /\ UNCHANGED stage

NextSlot(found) ==
  /\ lun' = 0
  /\ slot' = slot + 1
  /\ IF slot + 1 = max_dev THEN Finish(found)
                           ELSE Go("drives") /\ UNCHANGED <<error, stage>>

\* Mutant: _lun is not cleared for the next slot.
NextUnitKeepsLun(found) ==
  IF lun < slots[slot].lun
    THEN lun' = lun + 1 /\ UNCHANGED <<pc, slot, error, stage>>
    ELSE /\ slot' = slot + 1
         /\ UNCHANGED lun
         /\ IF slot + 1 = max_dev THEN Finish(found)
                                  ELSE Go("drives") /\ UNCHANGED <<error, stage>>
\* Mutant: the LUN is not advanced.
NextUnitStays(found) ==
  IF lun < slots[slot].lun /\ Len(found) < 2
    THEN UNCHANGED <<pc, slot, lun, error, stage>>
    ELSE NextSlot(found)

NextUnit(found) ==
  IF lun < slots[slot].lun
    THEN lun' = lun + 1 /\ UNCHANGED <<pc, slot, error, stage>>
    ELSE NextSlot(found)

SkipSlot ==
  /\ pc = "drives"
  /\ slots[slot].lun >= Rejected
  /\ NextSlot(drives)
  /\ UNCHANGED <<bus, table, drives, cache, retries, port, left, caller, runs>>

\* The unit is ready within five attempts, tells its capacity and gets a
\* drive number.
Ready ==
  \E x \in At(slots[slot].id) : plug[x] = "storage" /\ x \in configured /\ lun <= TopLun

AddDrive ==
  /\ pc = "drives"
  /\ slots[slot].lun < Rejected
  /\ Ready
  /\ drives' = Append(drives, [id |-> slots[slot].id, lun |-> lun])
  /\ IF Len(drives') = MaxDri THEN Finish(drives') /\ UNCHANGED <<slot, lun>>
                              ELSE NextUnit(drives')
  /\ UNCHANGED <<bus, table, cache, retries, port, left, caller, runs>>

UnitNotReady ==
  /\ pc = "drives"
  /\ slots[slot].lun < Rejected
  /\ ~ Ready \/ MayMiss(slots[slot].id, "ready")
  /\ NextUnit(drives)
  /\ UNCHANGED <<bus, table, drives, cache, retries, port, left, caller, runs>>

-----------------------------------------------------------------------------
RootStep ==
  \/ EmptyPort \/ LowSpeedPort \/ ConnectedPort \/ HandOff \/ PortsDone
  \/ \E enabled \in BOOLEAN : Attempt(enabled)
HubStep ==
  \/ PassSlot \/ EmptyHubPort \/ ResetHubPort \/ HubPortStatus \/ HubDone
  \/ \E answered \in BOOLEAN : ProbeSlot(answered)
DriveStep == NoDevice \/ StartDrives \/ SkipSlot \/ AddDrive \/ UnitNotReady

Enumerating == RootStep \/ Fill \/ HubStep \/ DriveStep

Next == NoController \/ StartController \/ Enumerating

\* The driver runs to its end; nothing obliges the user to start it.
Spec == Init /\ [][Next]_vars /\ WF_vars(Enumerating)

-----------------------------------------------------------------------------
(* Properties *)

Slots == 0..(MaxDev - 1)

TypeOK ==
  /\ plug \in Plugs
  /\ addr \in [Places -> {None} \cup 0..MaxDev]
  /\ configured \subseteq Places
  /\ slots \in [Slots -> [id: 0..MaxDev, lun: 0..15 \cup {Rejected, Hub}]]
  /\ max_dev \in 0..MaxDev /\ usb_count \in 0..max_dev
  /\ drives \in Seq([id: 1..MaxDev, lun: 0..15]) /\ Len(drives) <= MaxDri
  /\ error \in 0..MaxDri \cup {128, 129, 130} /\ stage \in 0..4
  /\ cache \in [ports: Nat, connected: BOOLEAN, enabled: BOOLEAN]
  /\ enum_retry \in 0..(Byte - 1) /\ attempts \in 0..Byte
  /\ pc \in {"idle", "ports", "attempt", "handoff", "fill", "slots", "hub",
             "hub port", "drives"}
  /\ port \in 1..(NPorts + 1) /\ slot \in 0..MaxDev /\ left \in 0..Word
  /\ lun \in 0..15 /\ caller \in {"ports", "hub"} /\ runs \in 0..MaxRuns

\* usb_probe sends hub requests to hubs only: a port that was skipped leaves
\* nothing behind that is taken for a hub.
ProbesOnlyHubs ==
  pc \in {"hub", "hub port"} => HubsAt(Address(slot)) # {}

\* "up to 3 attempts per port".
AttemptsBounded == attempts <= 3

\* Every drive is a LUN of one storage device and of no other device: a write
\* to the drive goes where its content came from.
DrivesAreReal ==
  pc = "drives" \/ (pc = "idle" /\ error < 128) =>
    \A i \in 1..Len(drives) : \E x \in Places :
       /\ At(drives[i].id) = {x}
       /\ plug[x] = "storage"
       /\ drives[i].lun <= TopLun

\* No LUN becomes two drives, whatever fails and however often the driver is
\* started: Drive_enumerate visits each LUN of each slot once.
DrivesDistinct ==
  \A i, j \in 1..Len(drives) : drives[i] = drives[j] => i = j

\* When usb --init is over, each storage device that took part in the
\* enumeration to its end has a drive, as long as the drive table had room.
SticksBecomeDrives ==
  pc = "idle" /\ error # 128 /\ (error < 128 => Len(drives) < MaxDri) =>
    \A x \in configured : plug[x] = "storage" =>
       \E i \in 1..Len(drives) : error < 128 /\ drives[i].id = addr[x]

\* `usb --init` returns, although enum_retry and cx wrap around below zero.
EnumerationEnds == pc = "ports" ~> pc = "idle"
=============================================================================
