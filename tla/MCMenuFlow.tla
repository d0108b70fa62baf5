----------------------------- MODULE MCMenuFlow -----------------------------
(***************************************************************************)
(* Small menus for MenuFlow.                                               *)
(***************************************************************************)
EXTENDS MenuFlow

SaveCurrent == [op |-> "save", arg |-> "current"]
SaveFallback == [op |-> "save", arg |-> "fallback"]
Nothing == [op |-> "nothing"]
Kernel == [op |-> "kernel"]
Fail == [op |-> "fail"]
Fallback(args) == [op |-> "fallback", args |-> args]
Go(args) == [op |-> "go", args |-> args]

Moves == {"UP", "DOWN", "LEFT", "RIGHT", "PPAGE", "NPAGE", "HOME", "END", "DIGIT", "BOOT"}
Edits == {"EDIT", "AFTER", "BEFORE", "DELETE", "ESC"}

\* Five entries in a box of two rows, two of them without a bootable command;
\* numbers by bootable entry. The default entry is on the third page.
Scrolling ==
  [bootable |-> <<FALSE, TRUE, TRUE, FALSE, TRUE>>, control |-> 1,
   labels |-> <<-1, -1, -1, -1, -1>>, default |-> 4, fallback |-> <<2>>,
   timeout |-> 1, hidden |-> "no", keys |-> Moves,
   script |-> <<<<Fail>>, <<SaveCurrent, Kernel>>, <<Kernel>>, <<Nothing>>, <<Fail, Kernel>>>>,
   fate |-> <<"runs", "runs", "runs", "runs", "runs">>]

\* Titles that carry numbers of their own, the hidden menu and the editor.
Labelled ==
  [bootable |-> <<TRUE, FALSE, TRUE>>, control |-> 0, labels |-> <<2, -1, 1>>,
   default |-> 2, fallback |-> <<0>>, timeout |-> 1, hidden |-> "chkpass",
   keys |-> {"UP", "DOWN", "RIGHT", "DIGIT", "BOOT"} \cup Edits,
   script |-> <<<<SaveCurrent, Kernel>>, <<Nothing>>, <<Fail, Kernel>>>>,
   fate |-> <<"runs", "runs", "runs">>]

\* Every entry saves its fallback and boots; three crash and one runs.
Rescue ==
  [bootable |-> <<TRUE, TRUE, TRUE, TRUE>>, control |-> 2, labels |-> <<-1, -1, -1, -1>>,
   default |-> -1, fallback |-> <<3, 1, 2>>, timeout |-> 0, hidden |-> "any",
   keys |-> {"DOWN", "BOOT"},
   script |-> [e \in 1 .. 4 |-> <<SaveFallback, Kernel>>],
   fate |-> <<"crashes", "crashes", "runs", "crashes">>]

\* A list that names an entry the menu does not have, and a default that is
\* not there either; the two that are left fail.
Missing ==
  [Rescue EXCEPT !.default = 9, !.fallback = <<7, 2, 1>>, !.hidden = "no",
                 !.fate = <<"runs", "fails", "fails", "fails">>]

\* Entries that name each other: 0 goes to 1, 1 falls back to 0.
Circle ==
  [bootable |-> <<TRUE, TRUE>>, control |-> 2, labels |-> <<-1, -1>>, default |-> 0,
   fallback |-> <<>>, timeout |-> 0, hidden |-> "no", keys |-> {"UP", "BOOT", "EDIT", "ESC"},
   script |-> <<<<Go(<<1>>)>>, <<Fallback(<<0, 1>>), Fail>>>>,
   fate |-> <<"runs", "runs">>]

SmallMenus == {Scrolling, Labelled, Rescue, Missing, Circle}

\* A full list whose last entry the menu does not have.
FullMenus == {[Missing EXCEPT !.fallback = <<2, 1, 3, 7>>]}
=============================================================================
