---------------------------- MODULE MCTrackCache ----------------------------
(* Small instances of TrackCache. *)
EXTENDS TrackCache, TLC

\* A disk of n sectors, all of whose bytes are b.
Blank(n, b) == [s \in 0..(n - 1) |-> [i \in 0..(SS - 1) |-> b]]

LBA(spt) == [lba |-> TRUE, sectors |-> spt]
CHS(spt) == [lba |-> FALSE, sectors |-> spt]

\* One LBA drive; tracks of VT = 3 sectors against 2 sectors per track, and a
\* last track that the drive's end cuts short.
LbaDrives == {128}
LbaTotal == [d \in LbaDrives |-> 5]
LbaGeometries == [d \in LbaDrives |-> {LBA(2)}]
LbaImages == [d \in LbaDrives |-> {Blank(5, 0)}]
LbaTargets == [d \in LbaDrives |-> {0, 1, 3, 4}]
LbaData == {<<0>>, <<1>>, <<1, 0>>, <<0, 1, 1>>, <<1, 1, 0, 1, 0>>}
AllTargets == [d \in LbaDrives |-> 0..4]

\* A floppy whose probed track length may change under geometry --tune, and a
\* hard disk: switching, exchanging and mapping drives.
TwoDrives == {0, 128}
TwoTotal == (0 :> 3) @@ (128 :> 2)
TwoGeometries == (0 :> {CHS(1), CHS(2)}) @@ (128 :> {LBA(2)})
TwoImages == (0 :> {Blank(3, 0), Blank(3, 1)}) @@ (128 :> {Blank(2, 0)})
TwoTargets == (0 :> {0, 2}) @@ (128 :> {1})
TwoData == {<<1>>, <<0, 1>>}

\* Sectors of two bytes: requests that start and end inside a sector.
ByteDrives == {0}
ByteTotal == [d \in ByteDrives |-> 3]
ByteGeometries == [d \in ByteDrives |-> {CHS(2)}]
ByteImages == [d \in ByteDrives |-> {Blank(3, 0)}]
ByteTargets == [d \in ByteDrives |-> {1}]
ByteData == {<<1>>, <<1, 0>>, <<0, 1, 1, 1>>}

\* A drive with more sectors than a 32-bit buf_track can name.
WideTotal == [d \in LbaDrives |-> 6]
WideImages == [d \in LbaDrives |-> {Blank(6, 0), Blank(6, 1)}]
WideTargets == [d \in LbaDrives |-> {}]
=============================================================================
