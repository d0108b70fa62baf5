----------------------------- MODULE DriveNames -----------------------------
(***************************************************************************)
(* What the map command promises (README_GRUB4DOS.txt 380-404 and          *)
(* 3849-3889): a drive number means what it was mapped to, a whole drive   *)
(* or a part of one, as it was when the map was given.  Maps and unmaps    *)
(* collect in a table and take effect, all together, when int 13 is        *)
(* hooked.  There are no slots here, no memory and no chains of maps.      *)
(***************************************************************************)
EXTENDS Integers, Sequences

CONSTANTS
  Numbers,    \* drive numbers
  Real        \* Real[d]: the sectors of the drive the BIOS has, <<>> if none

VARIABLES
  pending,    \* what each number will mean when int 13 is hooked
  active,     \* what it means now
  asked       \* the request of the last step, if it was one

vars == <<pending, active, asked>>

Init == pending = Real /\ active = Real /\ asked.op = "none"

\* `map (to)start+n (from)`, `map (to) (from)` if n = 0, and `map (d) (d)`,
\* which takes a mapping away.
Meant(r) ==
  IF r.n # 0 THEN SubSeq(active[r.to], r.start + 1, r.start + r.n)
  ELSE IF r.to = r.from THEN Real[r.from] ELSE active[r.to]

Map ==
  /\ asked'.op = "map"
  /\ pending' = [pending EXCEPT ![asked'.from] = Meant(asked')]
  /\ UNCHANGED active

Unmap ==
  /\ asked'.op = "unmap"
  /\ pending' = [d \in Numbers |->
                   IF d \in asked'.range THEN Real[d] ELSE pending[d]]
  /\ UNCHANGED active

\* What a number stands for when it is given to another, and what a number is
\* left with when it cannot be mapped.
Old(d) == {pending[d], active[d]}
Lost(d) == IF asked'.fails THEN {Real[d]} ELSE {}

\* The two numbers change places.  A number without a mapping stands for what
\* it means now; a swap that fails may leave it without one.
Swap ==
  /\ asked'.op = "swap"
  /\ \E x \in Old(asked'.a) \cup Lost(asked'.b), y \in Old(asked'.b) \cup Lost(asked'.a) :
       pending' = [pending EXCEPT ![asked'.b] = x, ![asked'.a] = y]
  /\ UNCHANGED active

\* map --hook, --rehook and boot; a boot leaves a hook as it is.
Hook == asked'.op = "none" /\ active' = pending /\ UNCHANGED pending
Unhook == asked'.op = "none" /\ active' = Real /\ UNCHANGED pending
Rest == asked'.op = "none" /\ UNCHANGED <<pending, active>>

Next == Map \/ Unmap \/ Swap \/ Hook \/ Unhook \/ Rest

Spec == Init /\ [][Next]_vars
=============================================================================
