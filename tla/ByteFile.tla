------------------------------- MODULE ByteFile -------------------------------
(***************************************************************************)
(* What the users of grub_open, grub_seek and grub_read rely on: an open   *)
(* file is a sequence of bytes with a position; a read returns the bytes   *)
(* at the position, as many as asked for or as there are, and a read that  *)
(* fails gives a beginning of them, and is known to have failed.  There    *)
(* are no sectors here, no block lists, no windows and no compression.     *)
(***************************************************************************)
EXTENDS Integers, Sequences

CONSTANT Contents     \* the files there are

VARIABLES
  content,   \* the open file's bytes, <<>> if none
  pos,       \* its position
  reply      \* of the last read: [asked, bytes, ok]

vars == <<content, pos, reply>>

Nothing == [asked |-> 0, bytes |-> <<>>, ok |-> TRUE]

Init == content = <<>> /\ pos = 0 /\ reply = Nothing

\* A file is opened, or none.
Open ==
  /\ content' \in Contents \cup {<<>>}
  /\ pos' = 0 /\ reply' = Nothing

Seek == pos' \in Nat /\ reply' = Nothing /\ UNCHANGED content

\* The n bytes from the position on, or those there are.
Rest == SubSeq(content, pos + 1, Len(content))
FirstOf(n) == SubSeq(Rest, 1, IF n < Len(Rest) THEN n ELSE Len(Rest))

Read ==
  /\ reply'.ok /\ reply'.asked \in Nat
  /\ reply'.bytes = FirstOf(reply'.asked)
  /\ pos' = pos + Len(reply'.bytes)
  /\ UNCHANGED content

ReadFails ==
  /\ ~reply'.ok
  /\ \E n \in 0..Len(content) : reply'.bytes = FirstOf(n)
  /\ pos' \in Nat
  /\ UNCHANGED content

Next == Open \/ Seek \/ Read \/ ReadFails

Spec == Init /\ [][Next]_vars
=============================================================================
