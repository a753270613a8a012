------------------------------- MODULE MemBuf -------------------------------
(***************************************************************************)
(* MemBuf (Buffer.h): the memory of the archive.  Blocks of the heap are   *)
(* cut into pieces from the front; a request that does not fit into the    *)
(* current chunk moves on to the next one, and what is left of a chunk is  *)
(* given up.  Nothing is released but everything at once, by Free, which   *)
(* keeps the first block.                                                  *)
(*                                                                         *)
(* All operations hold the critical section of the buffer, so each is one  *)
(* step whichever thread calls it.  Chunks are numbered from 1.            *)
(***************************************************************************)
EXTENDS Naturals, FiniteSets, FiniteSetsExt

CONSTANTS
  AllocSize,   \* m_allocSize, the size of a block
  ChankCount,  \* m_chankCount: maxBufSize / allocSize + 1
  Sizes,       \* the sizes that are asked for
  Blocks,      \* blocks of the heap; malloc fails when none is left, or sooner
  NoBlock      \* buf of a chunk that has no block

ASSUME ConstantsAssumption ==
  /\ AllocSize \in Nat \ {0}
  /\ ChankCount \in Nat \ {0}
  /\ Sizes \subseteq Nat \ {0}
  /\ NoBlock \notin Blocks

VARIABLES
  chank,     \* m_MemBufChank: block, size and use of every chunk
  curChank,  \* m_curChank
  chankEnd,  \* m_chankEnd: the first chunk that cannot be used
  allocMem,  \* m_allocMem, the bytes handed out
  usedMem,   \* m_usedMem, the bytes taken from the heap
  heap,      \* the blocks malloc gave and nobody freed
  pieces     \* what the callers hold: pieces handed out since the last Free

vars == <<chank, curChank, chankEnd, allocMem, usedMem, heap, pieces>>

Chanks == 1..ChankCount
Blank  == [buf |-> NoBlock, size |-> 0, used |-> 0]

TypeOK ==
  /\ chank \in [Chanks -> [buf : Blocks \cup {NoBlock}, size : Nat, used : Nat]]
  /\ curChank \in 1..(ChankCount + 1)
  /\ chankEnd \in 1..(ChankCount + 1)
  /\ allocMem \in Nat
  /\ usedMem \in Nat
  /\ heap \subseteq Blocks
  /\ pieces \subseteq [chank : Chanks, from : Nat, size : Nat]

(* The constructor takes the first block and cuts off one piece as large as *)
(* the block, which nobody gets.  Without a block there is no chunk at all. *)
Init ==
  /\ curChank = 1
  /\ \/ \E b \in Blocks :
          /\ chank = [c \in Chanks |->
                        IF c = 1 THEN [buf |-> b, size |-> AllocSize, used |-> AllocSize] ELSE Blank]
          /\ heap = {b}
          /\ pieces = {[chank |-> 1, from |-> 0, size |-> AllocSize]}
          /\ allocMem = AllocSize /\ usedMem = AllocSize
          /\ chankEnd = ChankCount + 1
     \/ /\ chank = [c \in Chanks |-> Blank]
        /\ heap = {} /\ pieces = {}
        /\ allocMem = 0 /\ usedMem = 0
        /\ chankEnd = 1

-----------------------------------------------------------------------------
(* Alloc and _Alloc.                                                       *)

Room(c, size) == size <= chank[c].size - chank[c].used

Usable(c) == c < chankEnd

(* The caller gets `size' bytes of chunk c from offset `from' on.            *)
Hand(c, from, size) ==
  /\ pieces' = pieces \cup {[chank |-> c, from |-> from, size |-> size]}
  /\ allocMem' = allocMem + size

AllocHere(size) ==
  /\ Usable(curChank) /\ Room(curChank, size)
  /\ chank' = [chank EXCEPT ![curChank].used = @ + size]
  /\ Hand(curChank, chank[curChank].used, size)
  /\ UNCHANGED <<curChank, chankEnd, usedMem, heap>>

(* The next chunk gets a block, larger than usual if the request is.  It    *)
(* has none before: Free leaves only the first chunk with a block.          *)
Wrong_AllocNext(size) ==   \* an oversized request still gets a usual block
  LET c == curChank + 1 IN
  /\ Usable(curChank) /\ ~Room(curChank, size)
  /\ curChank' = c
  /\ Usable(c)
  /\ \E b \in Blocks \ heap :
       /\ chank' = [chank EXCEPT ![c] = [buf |-> b, size |-> AllocSize, used |-> size]]
       /\ heap' = heap \cup {b}
       /\ usedMem' = usedMem + AllocSize
  /\ Hand(c, 0, size)
  /\ UNCHANGED chankEnd
AllocNext(size) ==
  LET c == curChank + 1
      allocSize == IF size > AllocSize THEN size ELSE AllocSize IN
  /\ Usable(curChank) /\ ~Room(curChank, size)
  /\ curChank' = c
  /\ Usable(c)
  /\ \E b \in Blocks \ heap :
       /\ chank' = [chank EXCEPT ![c] = [buf |-> b, size |-> allocSize, used |-> size]]
       /\ heap' = heap \cup {b}
       /\ usedMem' = usedMem + allocSize
  /\ Hand(c, 0, size)
  /\ UNCHANGED chankEnd

(* malloc fails: no chunk from here on, not even after Free.                *)
AllocFails(size) ==
  /\ Usable(curChank) /\ ~Room(curChank, size)
  /\ curChank' = curChank + 1
  /\ Usable(curChank + 1)
  /\ chankEnd' = curChank + 1
  /\ UNCHANGED <<chank, allocMem, usedMem, heap, pieces>>

(* The last chunk is full.                                                  *)
AllocAtEnd(size) ==
  /\ Usable(curChank) /\ ~Room(curChank, size)
  /\ curChank' = curChank + 1
  /\ ~Usable(curChank + 1)
  /\ UNCHANGED <<chank, chankEnd, allocMem, usedMem, heap, pieces>>

(* A request when there is no chunk left.                                   *)
Refused(size) == ~Usable(curChank) /\ UNCHANGED vars

Alloc(size) ==
  \/ AllocHere(size)
  \/ AllocNext(size)
  \/ AllocFails(size)
  \/ AllocAtEnd(size)
  \/ Refused(size)

-----------------------------------------------------------------------------
(* Free: the blocks of the chunks after the first go back to the heap.      *)

Wrong_Freed == {c \in Chanks : 1 < c /\ c < curChank}   \* the current one stays
Freed == {c \in Chanks : 1 < c /\ c <= curChank /\ c < chankEnd}

Free ==
  /\ heap' = heap \ {chank[c].buf : c \in Freed}
  /\ chank' = [c \in Chanks |-> IF c = 1 THEN [chank[1] EXCEPT !.used = 0] ELSE Blank]
  /\ curChank' = 1
  /\ allocMem' = 0
  /\ usedMem' = chank[1].size
  /\ pieces' = {}
  /\ UNCHANGED chankEnd

Next == Free \/ \E size \in Sizes : Alloc(size)

Spec == Init /\ [][Next]_vars

-----------------------------------------------------------------------------
(* Correctness.                                                            *)

(* No two callers share a byte, and every piece lies in a block that is     *)
(* still there.                                                            *)
PiecesApart ==
  /\ \A p \in pieces :
       /\ chank[p.chank].buf \in heap
       /\ p.from + p.size <= chank[p.chank].size
  /\ \A p, q \in pieces : p # q /\ p.chank = q.chank =>
       p.from + p.size <= q.from \/ q.from + q.size <= p.from

(* The blocks that were not freed are those of the chunks, each of one      *)
(* chunk: Free forgets no block, and frees none twice.                      *)
BlocksOwned ==
  /\ \A c \in Chanks : chank[c].buf # NoBlock => chank[c].buf \in heap
  /\ \A b \in heap : \E c \in Chanks : chank[c].buf = b
  /\ \A c, d \in Chanks : chank[c].buf = chank[d].buf /\ chank[c].buf # NoBlock => c = d

(* The invariant of the proof: the chunks with a block are the first ones,  *)
(* up to the current one, and pieces end where the use of a chunk ends.     *)
ChanksInUse ==
  \A c \in Chanks :
    /\ chank[c].buf # NoBlock <=> c <= curChank /\ c < chankEnd
    /\ chank[c].buf = NoBlock => chank[c] = Blank
    /\ chank[c].used <= chank[c].size
PiecesInUse == \A p \in pieces : p.from + p.size <= chank[p.chank].used /\ p.size > 0
IInv == TypeOK /\ ChanksInUse /\ PiecesInUse /\ BlocksOwned /\ PiecesApart
=============================================================================
