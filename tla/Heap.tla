-------------------------------- MODULE Heap --------------------------------
(***************************************************************************)
(* grub_malloc and grub_free of common.c.                                  *)
(*                                                                         *)
(* The heap is a list of descriptors in the order of their addresses; a    *)
(* block reaches from its descriptor's address to the next one's, and the  *)
(* last one to free_mem_end.  Bit 0 of the address marks a block in use.   *)
(* The descriptors are taken from a table, where address 0 is a free one.  *)
(* Pointers from one descriptor to the next are the order of `blocks`.     *)
(***************************************************************************)
EXTENDS Integers, Sequences, SequencesExt, FiniteSets

CONSTANTS
  Start,       \* MALLOC_ADDR_START
  End,         \* free_mem_end
  TableSize,   \* descriptors in the table
  Sizes,       \* what callers ask for, in bytes
  MaxHeld      \* bound: how many blocks the callers hold at once

Grain == 16

ASSUME HeapAssumption ==
  /\ Start \in Nat /\ End \in Nat /\ Start < End
  /\ Start % Grain = 0 /\ End % Grain = 0
  /\ TableSize \in Nat \ {0} /\ Sizes \subseteq Nat /\ MaxHeld \in Nat

VARIABLES
  blocks,      \* the list: records [addr, used]
  held         \* what callers have been given and have not freed: [ptr, size]

heapvars == <<blocks, held>>

-----------------------------------------------------------------------------
Block(a, u) == [addr |-> a, used |-> u]

HeapInit == blocks = <<Block(Start, FALSE)>> /\ held = {}

\* "16 bytes alignment, 16 more": (size + 0x1F) & ~0xf.
\* Mutant: the slack is forgotten and the size rounded down.
NeedRoundedDown(size) == (size \div Grain) * Grain
Need(size) == ((size + 31) \div Grain) * Grain

\* p->next->addr as it stands in the descriptor, the mark of a used block
\* included.
NextWord(i) ==
  IF i = Len(blocks) THEN End
  ELSE blocks[i + 1].addr + (IF blocks[i + 1].used THEN 1 ELSE 0)
AllocMem(i) == NextWord(i) - blocks[i].addr

\* The block's real end.
EndOf(i) == IF i = Len(blocks) THEN End ELSE blocks[i + 1].addr

\* The first free block with room.
\* Mutant: any block with room.
FitsInUse(i, need) ==
  /\ AllocMem(i) >= need
  /\ \A j \in 1..(i - 1) : blocks[j].used \/ AllocMem(j) < need
Fits(i, need) ==
  /\ ~blocks[i].used /\ AllocMem(i) >= need
  /\ \A j \in 1..(i - 1) : blocks[j].used \/ AllocMem(j) < need

Give(i, size) == held' = held \cup {[ptr |-> blocks[i].addr, size |-> size]}

\* The block is taken whole.
TakeWhole(size) ==
  \E i \in DOMAIN blocks :
    /\ Fits(i, Need(size)) /\ AllocMem(i) = Need(size)
    /\ blocks' = [blocks EXCEPT ![i].used = TRUE]
    /\ Give(i, size)

\* The block is split, if a descriptor is left for its rest.
\* Mutant: the rest is linked in front.
SplitInFront(size) ==
  \E i \in DOMAIN blocks :
    /\ Fits(i, Need(size)) /\ AllocMem(i) > Need(size) /\ Len(blocks) < TableSize
    /\ blocks' = InsertAt([blocks EXCEPT ![i].used = TRUE], i,
                          Block(blocks[i].addr + Need(size), FALSE))
    /\ Give(i, size)
Split(size) ==
  \E i \in DOMAIN blocks :
    /\ Fits(i, Need(size)) /\ AllocMem(i) > Need(size) /\ Len(blocks) < TableSize
    /\ blocks' = InsertAt([blocks EXCEPT ![i].used = TRUE], i + 1,
                          Block(blocks[i].addr + Need(size), FALSE))
    /\ Give(i, size)

\* ERR_WONT_FIT: no room, or no descriptor for the rest of the first block
\* with room.  Nothing changes.
MallocWontFit(size) ==
  /\ \/ \A i \in DOMAIN blocks : ~Fits(i, Need(size))
     \/ \E i \in DOMAIN blocks :
          Fits(i, Need(size)) /\ AllocMem(i) > Need(size) /\ Len(blocks) = TableSize
  /\ UNCHANGED heapvars

Malloc ==
  \E size \in Sizes :
    \/ Cardinality(held) < MaxHeld /\ (TakeWhole(size) \/ Split(size))
    \/ MallocWontFit(size)

-----------------------------------------------------------------------------
\* The first descriptor with that address, used or not.
Found(ptr) ==
  {i \in DOMAIN blocks : blocks[i].addr = ptr /\ \A j \in 1..(i - 1) : blocks[j].addr # ptr}

\* Block i joins the free one before it and the free one behind it.
\* Mutant: the block behind is not looked at.
JoinedBefore(s, i) == IF i > 1 /\ ~s[i - 1].used THEN RemoveAt(s, i) ELSE s
Joined(s, i) ==
  LET before == i > 1 /\ ~s[i - 1].used
      t == IF before THEN RemoveAt(s, i) ELSE s
      k == IF before THEN i - 1 ELSE i
  IN IF k < Len(t) /\ ~t[k + 1].used THEN RemoveAt(t, k + 1) ELSE t

\* The rest of grub_free once its loop has found a descriptor.
Free ==
  \E h \in held :
    /\ held' = held \ {h}
    /\ blocks' = IF Found(h.ptr) = {} THEN blocks
                 ELSE LET i == CHOOSE i \in Found(h.ptr) : TRUE
                      IN Joined([blocks EXCEPT ![i].used = FALSE], i)

HeapNext == Malloc \/ Free

HeapSpec == HeapInit /\ [][HeapNext]_heapvars

-----------------------------------------------------------------------------
HeapTypeOK ==
  /\ blocks \in Seq([addr : Nat, used : BOOLEAN])
  /\ Len(blocks) \in 1..TableSize
  /\ \A h \in held : h.ptr \in Nat /\ h.size \in Sizes

\* The bytes of a caller's block.
BytesOf(h) == h.ptr..(h.ptr + h.size - 1)

\* Two callers never share a byte, and none is given memory outside the heap.
HeldDisjoint ==
  \A g, h \in held :
    /\ g # h => BytesOf(g) \cap BytesOf(h) = {}
    /\ BytesOf(h) \subseteq Start..(End - 1)

\* The list covers the heap in order.  Two blocks share an address only when
\* the first is an empty one, left where a block has been taken whole.
ListCovers ==
  /\ blocks[1].addr = Start
  /\ \A i \in DOMAIN blocks : i < Len(blocks) =>
       \/ blocks[i].addr < blocks[i + 1].addr
       \/ blocks[i].addr = blocks[i + 1].addr /\ ~blocks[i].used /\ blocks[i + 1].used
  /\ blocks[Len(blocks)].addr < End

\* "Merge free blocks": no two free blocks are neighbours, over any sequence
\* of calls, so that freed memory is found by a larger request.
NoFreeNeighbours ==
  \A i \in DOMAIN blocks : i < Len(blocks) => blocks[i].used \/ blocks[i + 1].used

\* grub_free makes a block "unused memory" again: every block in use is some
\* caller's.
UsedIsHeld ==
  \A i \in DOMAIN blocks : blocks[i].used => \E h \in held : h.ptr = blocks[i].addr
=============================================================================
