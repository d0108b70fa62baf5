----------------------------- MODULE MCFileRead ------------------------------
(***************************************************************************)
(* A disk with a plain file and two gzipped ones in pieces, in a window    *)
(* and an input buffer of four bytes.                                      *)
(***************************************************************************)
EXTENDS FileRead, TLC

A == Literal("a")
B == Literal("b")
C == Literal("c")
P(b) == Plain(b)

\* ab|ab abcde, in symbols: copies across the window's end, two blocks.
MCDisk ==
  (0 :> <<Header, Block(FALSE)>>) @@ (1 :> <<A, B>>) @@ (2 :> <<Copy(3, 2), C>>) @@
  (3 :> <<EndOfBlock, Stored(3, TRUE)>>) @@ (4 :> <<P("x"), P("y")>>) @@
  (5 :> <<P("z"), Trailer(9)>>) @@
  \* a stored block longer than a window, then a copy as far back as it goes
  (6 :> <<Header, Stored(5, FALSE)>>) @@ (7 :> <<P("p"), P("q")>>) @@
  (8 :> <<P("r"), P("s")>>) @@ (9 :> <<P("t"), Block(TRUE)>>) @@
  (10 :> <<Prefix, Copy(4, 4)>>) @@ (11 :> <<EndOfBlock, Trailer(9)>>) @@
  \* no gzip data after a gzip header
  (17 :> <<P("x"), Trailer(3)>>) @@
  \* codes longer than a byte
  (12 :> <<Header, Block(TRUE)>>) @@ (13 :> <<Prefix, A>>) @@ (14 :> <<Prefix, B>>) @@
  (15 :> <<Prefix, C>>) @@ (16 :> <<EndOfBlock, Trailer(8)>>)

L(s, n) == [start |-> s, length |-> n]
MCFiles ==
  {[list |-> <<L(7, 1), L(4, 2)>>, max |-> 5],
   [list |-> <<L(0, 2), L(2, 3), L(5, 1)>>, max |-> 12],
   [list |-> <<L(6, 1), L(7, 3), L(10, 2)>>, max |-> 12],
   [list |-> <<L(12, 1), L(17, 1)>>, max |-> 4]}
Codes == <<L(12, 1), L(13, 3), L(14, 2), L(13, 3), L(16, 1)>>
MCWide == {[list |-> Codes, max |-> 20]}
=============================================================================
