--------------------------- MODULE MCPartitionWalk ---------------------------
(***************************************************************************)
(* Drives for PartitionWalk: tables of two entries, an extended partition  *)
(* of up to two records whose links may lead anywhere, GPT arrays with     *)
(* holes.                                                                  *)
(***************************************************************************)
EXTENDS PartitionWalk, TLC

E(t, s, l) == [type |-> t, start |-> s, len |-> l, ok |-> TRUE]
Garbage == [type |-> "data", start |-> 3, len |-> 2, ok |-> FALSE]
T(a, b) == (1 :> a) @@ (2 :> b)

Label12 == 3 :> <<[type |-> "none", start |-> 0, len |-> 0],
                  [type |-> "data", start |-> 2, len |-> 1],
                  [type |-> "data", start |-> 3, len |-> 2]>>
Mbr(a, b, l1, n1, l2, n2) ==
  [table |-> (0 :> T(a, b)) @@ (10 :> T(l1, n1)) @@ (20 :> T(l2, n2)),
   gpt |-> <<>>, label |-> Label12]

Chained ==
  {Mbr(a, E("ext", 10, 20), l1, n1, l2, n2) :
     a \in {Garbage, E("bsd", 2, 3)},
     l1 \in {Empty, E("data", 1, 2), E("data", 1, 0)},
     n1 \in {Empty, E("ext", 0, 9), E("ext", 10, 9), E("data", 4, 1)},
     l2 \in {Empty, E("bsd", 2, 1)},
     n2 \in {Empty, E("ext", 0, 9), E("ext", 10, 9), E("ext", 35, 9)}}
Plain ==
  {Mbr(a, b, Empty, Empty, Empty, Empty) :
     a \in {E("bsd", 2, 3), E("data", 1, 2)}, b \in {E("ext", 0, 20), E("data", 5, 2)}}
Three ==
  {[table |-> (0 :> T(Empty, E("ext", 10, 29))) @@ (10 :> T(l, E("ext", 10, 9)))
                @@ (20 :> T(Empty, E("ext", 20, 9))) @@ (30 :> T(E("data", 1, 2), n)),
    gpt |-> <<>>, label |-> <<>>] :
     l \in {Empty, E("data", 1, 2)}, n \in {Empty, E("ext", 10, 9)}}

\* The protective MBR may list some of the partitions, too.
Protective ==
  {0 :> T(E("data", 1, 30), Empty), 0 :> T(E("data", 1, 9), E("data", 14, 4)),
   (0 :> T(E("data", 1, 9), E("ext", 10, 20))) @@ (10 :> T(E("data", 1, 2), Empty))}
G(s, r) == [start |-> s, len |-> 3, reserved |-> r]
Gpts ==
  {[table |-> t, gpt |-> <<a, b, c>>, label |-> <<>>] : t \in Protective,
     a \in {G(0, FALSE), G(4, TRUE)}, b \in {G(0, FALSE), G(8, FALSE)},
     c \in {G(0, FALSE), G(12, FALSE), G(12, TRUE)}}

MCDisks == Chained \cup Three \cup Plain \cup Gpts
MCDests ==
  [part : {0, 2, 3}, sub : {None}] \cup [part : {0, None}, sub : {1}]
NoDrives == {}
MCStray == {[start |-> 6, len |-> 70]}

\* Two drives, an MBR one and a GPT one.
TwoDrives ==
  {Mbr(E("data", 1, 2), E("data", 5, 2), Empty, Empty, Empty, Empty),
   [table |-> (0 :> T(E("data", 1, 30), Empty)), gpt |-> <<G(4, FALSE)>>, label |-> <<>>]}

=============================================================================
