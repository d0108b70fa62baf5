------------------------------ MODULE MCDriveMap ------------------------------
(* Small instances of DriveMap: two real disks, a number without one, and      *)
(* six pages of memory in three ranges, the last page above 4 GB.              *)
EXTENDS DriveMap, TLC

MCDisks == (128 :> <<11, 12, 13, 14>>) @@ (129 :> <<21, 22, 23>>) @@ (130 :> <<>>)
MCRegions == {<<1, 9>>, <<10, 14>>, <<14, 16>>}
MCImages == {<<128, 1, 3>>, <<129, 0, 2>>, <<130, 0, 2>>}
MCOptions == {<<0, FALSE>>, <<0, TRUE>>, <<4, FALSE>>}

\* For the full table: one range of three places and one image of each disk.
FullDisks == (128 :> <<11, 12>>) @@ (129 :> <<21, 22>>) @@ (130 :> <<>>)
FullRegions == {<<0, 7>>}
FullImages == {<<128, 0, 2>>, <<129, 0, 2>>}
FullOptions == {<<0, FALSE>>}

\* One range across 4 GB, with FourGB = 4.
StraddlingRegions == {<<2, 6>>}
=============================================================================
