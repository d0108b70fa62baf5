-------------------------------- MODULE Device --------------------------------
(***************************************************************************)
(* devread, as the file systems use it: a call that reads a run of sectors *)
(* or fails, and what it does to errnum.                                   *)
(*                                                                         *)
(* A call of a file system's function is a record c: the volume, the fault *)
(* that strikes it, how many times it has called devread, filepos,         *)
(* filemax, errnum, the file system's buffers buf, what has been read out, *)
(* and the value ret it returns.                                           *)
(***************************************************************************)
EXTENDS Integers, Sequences, SequencesExt

CONSTANTS
  SS,       \* cells (bytes, or directory entries) per sector
  MAXINT    \* above every cluster and every position

ERR_NONE == "none"
ERR_READ == "read"
ERR_OUTSIDE_PART == "outside partition"
ERR_FSYS_CORRUPT == "corrupt"
ERR_FSYS_MOUNT == "no file system"
ERR_FILE_NOT_FOUND == "not found"
ERR_BAD_FILETYPE == "bad file type"
ERR_SYMLINK_LOOP == "symlink loop"
ERR_FILELENGTH == "file length"

\* No fault; the n-th devread of a call fails; it and all after it fail.
NoFault == [at |-> 0, stays |-> FALSE]
Once(n) == [at |-> n, stays |-> FALSE]
From(n) == [at |-> n, stays |-> TRUE]

Struck(c) ==
  /\ c.fault # NoFault
  /\ c.reads + 1 = c.fault.at \/ (c.fault.stays /\ c.reads + 1 > c.fault.at)

\* "Check partition boundaries", then rawread, which begins with errnum = 0.
Devread(c, sector, offset, size) ==
  LET past == sector + ((offset + size - 1) \div SS) >= c.vol.length
  IN [c EXCEPT !.reads = @ + 1,
               !.errnum = IF past \/ sector < 0 THEN ERR_OUTSIDE_PART
                          ELSE IF Struck(c) THEN ERR_READ ELSE ERR_NONE]

\* The cells devread puts into the caller's buffer, if it can.
Cells(vol, sector, offset, size) ==
  [k \in 1..size |-> LET o == offset + k - 1
                     IN vol.at[sector + (o \div SS)][(o % SS) + 1]]

\* A caller's buffer where nothing has been read.
Unknown(size) == [k \in 1..size |-> "?"]

\* A piece of the file read into the caller's buffer, or not: the loops of the
\* file systems look at neither devread's value nor errnum.
ReadPiece(c, sector, offset, size) ==
  LET After(d) == [d EXCEPT !.out = @ \o IF d.errnum = ERR_NONE
                                        THEN Cells(d.vol, sector, offset, size)
                                        ELSE Unknown(size),
                           !.filepos = @ + size]
  IN After(Devread(c, sector, offset, size))

\* "return errnum ? 0 : ret".
Return(c) == [c EXCEPT !.ret = IF c.errnum = ERR_NONE THEN Len(c.out) ELSE 0]
Fail(c, e) == [c EXCEPT !.errnum = e, !.ret = 0]

\* A function applied n times, or until what it gives is done.
Repeat(n, Step(_), Done(_), c) ==
  LET Go(x) == IF Done(x) THEN x ELSE Step(x)
      at[k \in 0..n] == IF k = 0 THEN c ELSE Go(at[k - 1])
  IN at[n]

Least(a, b) == IF a < b THEN a ELSE b
=============================================================================
