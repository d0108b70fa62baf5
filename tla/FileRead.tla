------------------------------- MODULE FileRead -------------------------------
(***************************************************************************)
(* Reading a file given as a list of blocks, gzipped or not: grub_open,    *)
(* grub_read, block_read_func (disk_io.c) and gunzip_read (gunzip.c).      *)
(*                                                                         *)
(* A byte of a gzipped file is one symbol of it: the header, the head of a *)
(* block, a literal, a copy, an end of block, the trailer.  How symbols    *)
(* are packed into bits is left out; where the decoder asks for input, and *)
(* what it does with a symbol it did not expect, is as in the code.        *)
(***************************************************************************)
EXTENDS Integers, Sequences, SequencesExt, FiniteSetsExt

CONSTANTS
  Files,       \* [list, max]: a block list and filemax
  Disk,        \* the sectors: sequences of SS symbols
  SS,          \* bytes per sector
  WSIZE, INBUFSIZ,
  Step,        \* grub_read_loop_threshold and grub_read_step
  Lengths,     \* bound: how much a caller asks for at once
  MaxOpens,    \* bound: calls of grub_open
  Failing      \* where a disk read may fail: "plain", "stored", "coded"

Entries(f) == DOMAIN f.list
SectorsOf(e) == e.start..(e.start + e.length - 1)

VARIABLES
  file,        \* the open file, Closed if none
  filepos, filemax, errnum, compressed_file,
  cur,         \* blk_buf: cur_filepos, cur_blklist, cur_blknum
  gzip,        \* gzip_filepos, gzip_filemax, gzip_data_offset
  inflate,     \* saved_filepos, last_block, block_len, block_type, code_state,
               \* inflate_n, inflate_d, wp, slide
  inbuf, bufloc,
  pc,          \* "idle", "test", "chunk", "blocks", "serve", "window", "inflate",
               \* "head", "stored", "codes", "done"
  call,        \* grub_read's call: [test, start, asked, len, count, last, out]
  io,          \* block_read_func's call: [len, done, to, back]
  result,      \* the last read's bytes, and whether errnum was 0
  opens        \* calls of grub_open so far

vars == <<file, filepos, filemax, errnum, compressed_file, cur, gzip, inflate,
          inbuf, bufloc, pc, call, io, result, opens>>

Closed == [list |-> <<>>, max |-> 0]

-----------------------------------------------------------------------------
(* The symbols. *)

Plain(b) == [is |-> "plain", byte |-> b]
Header == [is |-> "header"]
Trailer(size) == [is |-> "trailer", size |-> size]
Stored(n, last) == [is |-> "stored", n |-> n, last |-> last]
Block(last) == [is |-> "block", last |-> last]
Literal(b) == [is |-> "literal", byte |-> b]
Copy(n, d) == [is |-> "copy", n |-> n, d |-> d]
EndOfBlock == [is |-> "end"]
Prefix == [is |-> "prefix"]     \* the first bits of a code longer than a byte

\* A symbol taken as a plain byte.
ByteOf(s) == IF s.is \in {"plain", "literal"} THEN s.byte ELSE "?"

-----------------------------------------------------------------------------
(* block_read_func *)

\* The sectors of the first k entries of a list.
SectorsUpTo(list) ==
  LET n[k \in 0..Len(list)] == IF k = 0 THEN 0 ELSE n[k - 1] + list[k].length
  IN n

\* The bytes of a file, as its list gives them.
Flat == [f \in Files |->
  LET sectors(e) == FlattenSeq([j \in 1..e.length |-> Disk[e.start + j - 1]])
  IN SubSeq(FlattenSeq([i \in Entries(f) |-> sectors(f.list[i])]), 1, f.max)]

SymbolAt(f, p) == Flat[f][p + 1]

\* No list is empty or shorter than its file, every sector is there; the longest
\* distance of a copy is a window, and a gzipped file ends with its trailer.
SymbolOK(s) ==
  /\ s.is = "stored" => s.n \in Nat /\ s.last \in BOOLEAN
  /\ s.is = "block" => s.last \in BOOLEAN
  /\ s.is = "copy" => s.n \in Nat /\ s.d \in 1..WSIZE
  /\ s.is = "trailer" => s.size \in Nat
FileOK(f) ==
  /\ f.list \in Seq([start : Nat, length : Nat \ {0}])
  /\ \A i \in Entries(f) : SectorsOf(f.list[i]) \subseteq DOMAIN Disk
  /\ f.max \in 1..(SS * SectorsUpTo(f.list)[Len(f.list)])
  /\ SymbolAt(f, 0).is = "header" => SymbolAt(f, f.max - 1).is = "trailer"
ASSUME FileAssumption ==
  /\ SS \in Nat \ {0} /\ WSIZE \in Nat \ {0} /\ INBUFSIZ \in Nat \ {0}
  /\ Step \in Nat \ {0} /\ Lengths \subseteq Nat /\ MaxOpens \in Nat
  /\ \A s \in DOMAIN Disk : /\ Disk[s] \in Seq(Range(Disk[s])) /\ Len(Disk[s]) = SS
                           /\ \A o \in 1..SS : SymbolOK(Disk[s][o])
  /\ \A f \in Files : FileOK(f)

AtStart == [filepos |-> 0, blklist |-> 1, blknum |-> 0]

\* One sector further in the list.
NextBlock(f, c) ==
  IF c.blknum + 1 = f.list[c.blklist].length
  THEN [c EXCEPT !.blklist = @ + 1, !.blknum = 0]
  ELSE [c EXCEPT !.blknum = @ + 1]

\* "Look for the right block in the list": from the beginning if the position
\* is before the cursor, else from the sector the cursor is in.
Before(p) == IF p < cur.filepos THEN AtStart ELSE cur
Ahead(f, c, n) == LET after[k \in 0..n] == IF k = 0 THEN c ELSE NextBlock(f, after[k - 1])
               IN after[n]
\* Mutant: from the cursor's byte, not from its sector.
SectorsFromByte(c, p) == (p - c.filepos) \div SS
SectorsAhead(c, p) == (p - (c.filepos - (c.filepos % SS))) \div SS
Locate(p) ==
  LET c == Before(p)
  IN IF p > c.filepos THEN [Ahead(file, c, SectorsAhead(c, p)) EXCEPT !.filepos = p] ELSE c

\* How much the next devread moves: to the end of the list's entry at most.
Size(c, p, len) ==
  LET room == (file.list[c.blklist].length - c.blknum) * SS - (p % SS)
  IN IF room > len THEN len ELSE room

\* What it moves.
Bytes(c, p, size) ==
  [k \in 1..size |->
     LET o == (p % SS) + k - 1
     IN Disk[file.list[c.blklist].start + c.blknum + (o \div SS)][(o % SS) + 1]]

\* May a read fail here?
MayFail ==
  (CASE io.to = "caller" -> "plain" [] io.back = "codes" -> "coded" [] OTHER -> "stored")
    \in Failing

\* The position goes on, whether or not the data was moved.
Moved(size) ==
  /\ filepos' = filepos + size
  /\ io' = [io EXCEPT !.len = @ - size, !.done = @ + size]

BlockRead ==
  /\ pc = "blocks" /\ io.len > 0 /\ errnum = 0
  /\ cur' = Locate(filepos)
  /\ LET size == Size(cur', filepos, io.len)
         data == Bytes(cur', filepos, size)
     IN /\ Moved(size)
        /\ \/ /\ errnum' = 0
              /\ IF io.to = "inbuf"
                 THEN /\ inbuf' = [k \in 1..INBUFSIZ |->
                                     IF k > io.done /\ k <= io.done + size
                                     THEN data[k - io.done] ELSE inbuf[k]]
                      /\ UNCHANGED call
                 ELSE /\ call' = [call EXCEPT !.out = @ \o [k \in 1..size |-> ByteOf(data[k])]]
                      /\ UNCHANGED inbuf
           \/ MayFail /\ errnum' = 1 /\ UNCHANGED <<inbuf, call>>
  /\ UNCHANGED <<file, filemax, compressed_file, gzip, inflate, bufloc, pc, result, opens>>

\* Its value: nothing, if there was an error.
BlockReturn ==
  /\ pc = "blocks" /\ (io.len = 0 \/ errnum # 0)
  /\ pc' = io.back
  /\ call' = IF io.to = "caller"
             THEN [call EXCEPT !.last = IF errnum = 0 THEN io.done ELSE 0] ELSE call
  /\ UNCHANGED <<file, filepos, filemax, errnum, compressed_file, cur, gzip, inflate,
                 inbuf, bufloc, io, result, opens>>

-----------------------------------------------------------------------------
(* gunzip.c *)

\* initialize_tables.  A copy cut off by a window's end stays in code_state.
Initialized(i) == [i EXCEPT !.saved_filepos = 0, !.last_block = FALSE, !.block_len = 0]

\* gunzip_read swaps the positions (gunzip_swap_values), and starts from the
\* beginning for a position before the window.
\* Mutant: not for the last byte before it.
BehindLate == inflate.saved_filepos > filepos + WSIZE + 1
Behind == inflate.saved_filepos > filepos + WSIZE
GunzipRead ==
  /\ compressed_file' = FALSE
  /\ gzip' = [gzip EXCEPT !.filepos = filepos, !.filemax = filemax]
  /\ filemax' = gzip.filemax
  /\ filepos' = IF Behind THEN gzip.data_offset ELSE gzip.filepos
  /\ inflate' = IF Behind THEN Initialized(inflate) ELSE inflate
  /\ bufloc' = IF Behind THEN 0 ELSE bufloc
  /\ pc' = "serve"
  /\ UNCHANGED io

\* The rest of gunzip_read's len.
Wanted == Min({call.len - call.count, Step}) - call.last

ServeMore ==
  /\ pc = "serve" /\ Wanted > 0 /\ errnum = 0
  /\ pc' = "window"
  /\ UNCHANGED <<file, filepos, filemax, errnum, compressed_file, cur, gzip, inflate,
                 inbuf, bufloc, call, io, result, opens>>

\* The loop over inflate_window.
NextWindow ==
  /\ pc = "window" /\ gzip.filepos >= inflate.saved_filepos
  /\ inflate' = [inflate EXCEPT !.wp = 0] /\ pc' = "inflate"
  /\ UNCHANGED <<file, filepos, filemax, errnum, compressed_file, cur, gzip,
                 inbuf, bufloc, call, io, result, opens>>

\* The data from the window, whatever errnum is.
Serve ==
  /\ pc = "window" /\ gzip.filepos < inflate.saved_filepos
  /\ LET size == Min({inflate.saved_filepos - gzip.filepos, Wanted})
     IN /\ gzip' = [gzip EXCEPT !.filepos = @ + size]
        /\ call' = [call EXCEPT !.last = @ + size,
                      !.out = @ \o [k \in 1..size |->
                                      inflate.slide[(gzip.filepos + k - 1) % WSIZE]]]
  /\ pc' = "serve"
  /\ UNCHANGED <<file, filepos, filemax, errnum, compressed_file, cur, inflate,
                 inbuf, bufloc, io, result, opens>>

\* Its end.
GunzipReturn ==
  /\ pc = "serve" /\ (Wanted = 0 \/ errnum # 0)
  /\ compressed_file' = TRUE
  /\ filepos' = gzip.filepos /\ filemax' = gzip.filemax
  /\ gzip' = [gzip EXCEPT !.filepos = filepos, !.filemax = filemax]
  /\ call' = IF errnum = 0 THEN call ELSE [call EXCEPT !.last = 0]
  /\ pc' = "chunk"
  /\ UNCHANGED <<file, errnum, cur, inflate, inbuf, bufloc, io, result, opens>>

\* get_byte needs another piece of the file ...
Dry == filepos = gzip.data_offset \/ bufloc = INBUFSIZ

\* ... which grub_read puts into inbuf, if the file goes on.
Refill ==
  /\ pc \in {"head", "stored"} \/ (pc = "codes" /\ inflate.code_state = 0)
  /\ Dry
  /\ bufloc' = 0
  /\ IF filepos >= filemax THEN UNCHANGED <<errnum, io, pc>>
     ELSE /\ errnum' = 0 /\ pc' = "blocks"
          /\ io' = [len |-> Min({INBUFSIZ, filemax - filepos}), done |-> 0,
                    to |-> "inbuf", back |-> pc]
  /\ UNCHANGED <<file, filepos, filemax, compressed_file, cur, gzip, inflate, inbuf,
                 call, result, opens>>

\* The decoder takes the next symbol, whatever errnum is.
Symbol == inbuf[bufloc + 1]
Takes == ~Dry /\ bufloc' = bufloc + 1

\* What its steps leave alone.
decoding == <<file, filepos, filemax, compressed_file, cur, gzip, inbuf, call, io, result, opens>>

\* inflate_window's loop: what comes next.
Inflate ==
  /\ pc = "inflate" /\ inflate.wp < WSIZE /\ errnum = 0
  /\ \/ inflate.block_len = 0 /\ ~inflate.last_block /\ pc' = "head"
     \/ inflate.block_len > 0 /\ pc' = inflate.block_type
  /\ UNCHANGED <<decoding, errnum, inflate, bufloc>>

\* The window is full, or the data at an end, or an error stops it.
\* Mutant: the data's end does not count as a window.
WindowDoneAt(n) ==
  /\ pc = "inflate"
  /\ inflate.wp = WSIZE \/ errnum # 0 \/ (inflate.block_len = 0 /\ inflate.last_block)
  /\ inflate' = [inflate EXCEPT !.saved_filepos = @ + n]
  /\ pc' = "window"
  /\ UNCHANGED <<decoding, errnum, bufloc>>
WindowDoneShort == WindowDoneAt(inflate.wp)
WindowDone == WindowDoneAt(WSIZE)

\* get_new_block: anything but the head of a block is "bad data".
BlockHeader == [inflate EXCEPT
  !.block_type = IF Symbol.is = "stored" THEN "stored" ELSE "codes",
  !.last_block = Symbol.last, !.block_len = IF Symbol.is = "stored" THEN Symbol.n ELSE 1,
  !.code_state = IF Symbol.is = "stored" THEN @ ELSE 0]
GetNewBlock ==
  /\ pc = "head" /\ Takes
  /\ \/ /\ Symbol.is \in {"stored", "block"}
        /\ inflate' = BlockHeader /\ UNCHANGED errnum
        /\ pc' = IF errnum = 0 THEN "inflate" ELSE "window"
     \/ /\ Symbol.is \notin {"stored", "block"}
        /\ errnum' = 2 /\ pc' = "window" /\ UNCHANGED inflate
  /\ UNCHANGED decoding

\* "Expand stored block".
StoredByte ==
  /\ pc = "stored" /\ Takes
  /\ inflate' = [inflate EXCEPT !.slide[inflate.wp] = ByteOf(Symbol),
                                !.wp = @ + 1, !.block_len = @ - 1]
  /\ pc' = "inflate"
  /\ UNCHANGED <<decoding, errnum>>

\* inflate_codes_in_window looks at errnum neither before nor after a symbol; it
\* ends with the window or the block, or at a code there is not.
Written(i) == IF i.wp = WSIZE THEN "inflate" ELSE "codes"
TakeCode == pc = "codes" /\ inflate.code_state = 0 /\ Takes
DecodeLiteral ==
  /\ TakeCode /\ Symbol.is = "literal"
  /\ inflate' = [inflate EXCEPT !.slide[inflate.wp] = Symbol.byte, !.wp = @ + 1]
  /\ pc' = Written(inflate')
  /\ UNCHANGED <<decoding, errnum>>
DecodeCopy ==
  /\ TakeCode /\ Symbol.is = "copy"
  /\ inflate' = [inflate EXCEPT !.code_state = 1, !.inflate_n = Symbol.n,
                                !.inflate_d = (inflate.wp - Symbol.d) % WSIZE]
  /\ UNCHANGED <<decoding, errnum, pc>>
DecodeEnd ==
  /\ TakeCode /\ Symbol.is = "end"
  /\ inflate' = [inflate EXCEPT !.block_len = 0] /\ pc' = "inflate"
  /\ UNCHANGED <<decoding, errnum>>
DecodePrefix ==
  /\ TakeCode /\ Symbol.is = "prefix"
  /\ UNCHANGED <<decoding, errnum, inflate, pc>>
DecodeBad ==
  /\ TakeCode /\ Symbol.is \notin {"literal", "copy", "end", "prefix"}
  /\ errnum' = 2 /\ pc' = "inflate"
  /\ UNCHANGED <<decoding, inflate>>

\* "Do the copy", as far as the window's end, around the window's end on the
\* other side.
\* Mutant: what the window's end cuts off is forgotten.
Copied ==
  LET i == inflate
      e == Min({i.inflate_n, WSIZE - i.wp})
      s[k \in 0..e] ==
        IF k = 0 THEN i.slide
        ELSE [s[k - 1] EXCEPT ![i.wp + k - 1] = s[k - 1][(i.inflate_d + k - 1) % WSIZE]]
  IN [i EXCEPT !.slide = s[e], !.wp = @ + e, !.inflate_n = @ - e,
               !.inflate_d = (@ + e) % WSIZE]
RestDropped(i) == 0
Rest(i) == IF i.inflate_n = 0 THEN 0 ELSE 1
DoCopy ==
  /\ pc = "codes" /\ inflate.code_state = 1
  /\ inflate' = [Copied EXCEPT !.code_state = Rest(Copied)]
  /\ pc' = Written(Copied)
  /\ UNCHANGED <<decoding, errnum, bufloc>>

-----------------------------------------------------------------------------
(* grub_read *)

NoCall == [test |-> FALSE, start |-> 0, asked |-> 0, len |-> 0, count |-> 0, last |-> 0,
           out |-> <<>>]
NoIo == [len |-> 0, done |-> 0, to |-> "caller", back |-> "chunk"]
Nothing == [asked |-> 0, bytes |-> <<>>, ok |-> TRUE]

\* block_read_func is called for the rest of a chunk.
BlockCall(out) ==
  /\ io' = [len |-> Min({out.len - out.count, Step}), done |-> 0, to |-> "caller",
            back |-> "chunk"]
  /\ call' = [out EXCEPT !.last = 0]
  /\ pc' = "blocks"
  /\ UNCHANGED <<filepos, filemax, compressed_file, gzip, inflate, bufloc>>

ReadFunc(out) ==
  \/ ~compressed_file /\ BlockCall(out)
  \/ compressed_file /\ GunzipRead /\ call' = [out EXCEPT !.last = 0]

\* At the end of the file nothing is read, and errnum is left.
GrubRead(n, test) ==
  LET new == [test |-> test, start |-> filepos, asked |-> n, count |-> 0, last |-> 0,
              out |-> <<>>,
              len |-> IF filepos >= filemax THEN 0 ELSE Min({n, filemax - filepos})]
  IN \/ /\ new.len > 0 /\ errnum' = 0 /\ ReadFunc(new)
     \/ /\ new.len = 0 /\ call' = new /\ pc' = "done"
        /\ errnum' = IF filepos >= filemax THEN errnum ELSE 0
        /\ UNCHANGED <<filepos, filemax, compressed_file, gzip, inflate, bufloc, io>>

\* "Transfer small amount of data at a time", until all is there or a call
\* returns nothing.
Counted == [call EXCEPT !.count = @ + call.last]
Chunk ==
  /\ pc = "chunk"
  /\ \/ /\ call.last > 0 /\ Counted.count < call.len /\ ReadFunc(Counted)
     \/ /\ call.last = 0 \/ Counted.count >= call.len
        /\ call' = Counted /\ pc' = "done"
        /\ UNCHANGED <<filepos, filemax, compressed_file, gzip, inflate, bufloc, io>>
  /\ UNCHANGED <<file, errnum, cur, inbuf, result, opens>>

-----------------------------------------------------------------------------
(* The callers. *)

\* Callers give up a compressed file that could not be read.
Read ==
  /\ pc = "idle" /\ file # Closed /\ (compressed_file => errnum = 0)
  /\ \E n \in Lengths : GrubRead(n, FALSE)
  /\ UNCHANGED <<file, cur, inbuf, result, opens>>

ReadDone ==
  /\ pc = "done" /\ ~call.test
  /\ result' = [asked |-> call.asked, bytes |-> SubSeq(call.out, 1, call.count),
                ok |-> errnum = 0]
  /\ pc' = "idle" /\ call' = NoCall /\ io' = NoIo
  /\ UNCHANGED <<file, filepos, filemax, errnum, compressed_file, cur, gzip, inflate,
                 inbuf, bufloc, opens>>

\* filepos is a variable of its callers.
Seek ==
  /\ pc = "idle" /\ file # Closed /\ filepos' \in 0..filemax /\ result' = Nothing
  /\ UNCHANGED <<file, filemax, errnum, compressed_file, cur, gzip, inflate, inbuf,
                 bufloc, pc, call, io, opens>>

\* grub_open of a block list, as far as gunzip_test_header's look at the data:
\* its first bytes, and the last ones if they are a gzip header.
Opens == opens < MaxOpens /\ opens' = opens + 1 /\ result' = Nothing
Open ==
  /\ pc = "idle" /\ Opens /\ errnum' = 0
  /\ \E f \in Files :
       IF SymbolAt(f, 0).is = "header"
       THEN LET size == SymbolAt(f, f.max - 1).size
            IN /\ file' = f
               /\ filepos' = 0 /\ filemax' = size /\ compressed_file' = TRUE
               /\ gzip' = [filepos |-> 1, filemax |-> f.max, data_offset |-> 1]
               /\ inflate' = Initialized(inflate) /\ bufloc' = 0
               /\ cur' = [Ahead(f, AtStart, (f.max - 1) \div SS) EXCEPT !.filepos = f.max - 1]
               /\ pc' = "test"
       ELSE /\ file' = f
            /\ filepos' = 0 /\ filemax' = f.max /\ compressed_file' = FALSE
            /\ cur' = AtStart
            /\ UNCHANGED <<gzip, inflate, bufloc, pc>>
  /\ UNCHANGED <<inbuf, call, io>>

\* The look fails.
OpenFails ==
  /\ pc = "idle" /\ Opens /\ "plain" \in Failing /\ errnum' = 1
  /\ file' = Closed /\ filepos' = 0 /\ compressed_file' = FALSE /\ cur' = AtStart
  /\ UNCHANGED <<filemax, gzip, inflate, inbuf, bufloc, pc, call, io>>

\* "Compressed data detected but failed to decompress - using raw data!"
Test ==
  /\ pc = "test" /\ GrubRead(1, TRUE)
  /\ UNCHANGED <<file, cur, inbuf, result, opens>>
TestDone ==
  /\ pc = "done" /\ call.test
  /\ filepos' = 0 /\ pc' = "idle" /\ call' = NoCall /\ io' = NoIo
  /\ IF call.count = 1
     THEN UNCHANGED <<filemax, compressed_file>>
     ELSE filemax' = gzip.filemax /\ compressed_file' = FALSE
  /\ UNCHANGED <<file, errnum, cur, gzip, inflate, inbuf, bufloc, result, opens>>

Init ==
  /\ file = Closed /\ filepos = 0 /\ filemax = 0 /\ errnum = 0 /\ compressed_file = FALSE
  /\ cur = AtStart
  /\ gzip = [filepos |-> 0, filemax |-> 0, data_offset |-> 0]
  /\ inflate = [saved_filepos |-> 0, last_block |-> FALSE, block_len |-> 0,
                block_type |-> "stored", code_state |-> 0, inflate_n |-> 0,
                inflate_d |-> 0, wp |-> 0, slide |-> [k \in 0..(WSIZE - 1) |-> "?"]]
  /\ inbuf = [k \in 1..INBUFSIZ |-> Plain("?")] /\ bufloc = 0
  /\ pc = "idle"
  /\ call = NoCall /\ io = NoIo
  /\ result = Nothing /\ opens = 0

Gunzip ==
  \/ ServeMore \/ NextWindow \/ Serve \/ GunzipReturn \/ Refill
  \/ Inflate \/ WindowDone \/ GetNewBlock \/ StoredByte
  \/ DecodeLiteral \/ DecodeCopy \/ DecodeEnd \/ DecodePrefix \/ DecodeBad \/ DoCopy
Work == BlockRead \/ BlockReturn \/ Gunzip \/ Chunk \/ ReadDone \/ Test \/ TestDone
Next == Read \/ Seek \/ Open \/ OpenFails \/ Work

\* Once called, the reader runs to its end.
Spec == Init /\ [][Next]_vars /\ WF_vars(Work)

-----------------------------------------------------------------------------
(* What a gzipped file holds: a definition by its symbols, without windows. *)

Extended(out, n, d) ==
  LET more[k \in 0..n] ==
        IF k = 0 THEN out ELSE Append(more[k - 1], more[k - 1][Len(out) + k - d])
  IN more[n]

\* One symbol more: in is the place in the stream, left what a stored block still
\* has, last whether its block is the last one.
AfterBlock(last) == IF last THEN "end" ELSE "head"
Step1(acc, s) ==
  CASE acc.in = "stored" ->
         [acc EXCEPT !.out = Append(@, ByteOf(s)), !.left = @ - 1,
                     !.in = IF acc.left = 1 THEN AfterBlock(acc.last) ELSE @]
    [] acc.in = "head" /\ s.is = "stored" ->
         [acc EXCEPT !.left = s.n, !.last = s.last,
                     !.in = IF s.n = 0 THEN AfterBlock(s.last) ELSE "stored"]
    [] acc.in = "head" /\ s.is = "block" -> [acc EXCEPT !.last = s.last, !.in = "codes"]
    [] acc.in = "codes" /\ s.is = "literal" -> [acc EXCEPT !.out = Append(@, s.byte)]
    [] acc.in = "codes" /\ s.is = "copy" -> [acc EXCEPT !.out = Extended(@, s.n, s.d)]
    [] acc.in = "codes" /\ s.is = "end" -> [acc EXCEPT !.in = AfterBlock(acc.last)]
    [] acc.in = "codes" /\ s.is = "prefix" -> acc
    [] OTHER -> IF acc.in = "end" THEN acc ELSE [acc EXCEPT !.in = "bad"]

\* Behind the header.
Start == [in |-> "head", left |-> 0, last |-> FALSE, out |-> <<>>]
Gzipped == {f \in Files : SymbolAt(f, 0).is = "header"}

\* After the first k symbols from there.
Decoding == [f \in Gzipped |->
  LET d[k \in 0..(f.max - 1)] ==
        IF k = 0 THEN Start ELSE Step1(d[k - 1], SymbolAt(f, k))
  IN d]
Decoded == [f \in Gzipped |-> Decoding[f][f.max - 1].out]
Plainly == [f \in Files |-> [i \in DOMAIN Flat[f] |-> ByteOf(Flat[f][i])]]

\* In gunzip_read compressed_file is off.
Zipped ==
  \/ compressed_file
  \/ pc \in {"serve", "window", "inflate", "head", "stored", "codes"}
  \/ pc = "blocks" /\ io.to = "inbuf"

Content == IF file = Closed THEN <<>> ELSE IF Zipped THEN Decoded[file] ELSE Plainly[file]

\* The file is not yet the caller's.
Testing == pc = "test" \/ (pc # "idle" /\ call.test)

-----------------------------------------------------------------------------
TypeOK ==
  /\ file \in Files \cup {Closed} /\ compressed_file \in BOOLEAN
  /\ filepos \in Nat /\ filemax \in Nat /\ errnum \in 0..2
  /\ cur.blklist \in 1..(Len(file.list) + 1) /\ cur.blknum \in Nat
  /\ inflate.wp \in 0..WSIZE /\ inflate.block_len \in Nat /\ inflate.code_state \in {0, 1}
  /\ bufloc \in 0..INBUFSIZ /\ io.len \in Nat /\ call.count <= call.len

\* blk_buf's cursor is the list's sector at cur_filepos, after any sequence of
\* seeks, reads and failures.
CursorRight ==
  file # Closed =>
    /\ cur.blknum < file.list[cur.blklist].length
    /\ cur.filepos \div SS = cur.blknum + SectorsUpTo(file.list)[cur.blklist - 1]

\* The window that a later read may be served from is the file's: WSIZE bytes
\* before saved_filepos, as far as there are.
WindowRight ==
  pc = "idle" /\ compressed_file /\ errnum = 0 =>
    \A p \in 0..(filemax - 1) :
      p < inflate.saved_filepos /\ p + WSIZE >= inflate.saved_filepos =>
        inflate.slide[p % WSIZE] = Decoded[file][p + 1]

\* A read comes to an end.
ReadsEnd == pc # "idle" ~> pc = "idle"

\* What grub_read returns is the file's bytes at filepos, all that were asked
\* for unless errnum is set: block lists, windows and compression do not show.
AsBytes == INSTANCE ByteFile WITH
  Contents <- {Plainly[f] : f \in Files} \cup {Decoded[f] : f \in DOMAIN Decoded},
  content <- IF Testing THEN <<>> ELSE Content,
  pos <- IF Testing THEN 0 ELSE IF pc = "idle" THEN filepos ELSE call.start,
  reply <- result
ImplementsByteFile == AsBytes!Spec
=============================================================================
