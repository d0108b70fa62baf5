--------------------------- MODULE MCUsbEnumerate ---------------------------
(* Small instances of UsbEnumerate. *)
EXTENDS UsbEnumerate, TLC

\* What root ports and hub ports may hold.
Plugged(roots, below) ==
  {f \in [Places -> roots \cup below \cup {"none"}] : \A x \in Places :
     IF x[2] = 0 THEN f[x] \in roots
     ELSE IF f[<<x[1], 0>>] = "hub" THEN f[x] \in below ELSE f[x] = "none"}

\* One root port: a device, or a hub of devices.
OnePort == Plugged({"none", "storage", "hub", "other"}, {"none", "storage", "other", "low"})

\* One root port with a low-speed device.
LowSpeed == Plugged({"low", "storage"}, {"none"})

\* Anything.
AnyPlug == Plugged({"none", "storage", "hub", "low", "full", "other"},
                   {"none", "storage", "low"})

\* Two sticks in two root ports; two sticks behind a hub.
TwoSticks == Plugged({"storage"}, {"none"})
HubOfSticks == Plugged({"hub"}, {"storage"})

\* The faults that strike once a device has left address 0.
LateFaults == {"config", "set config", "lun", "hub descriptor"}
=============================================================================
