---------------------------- MODULE MemoryProofs ----------------------------
(***************************************************************************)
(* Proofs about MemBuf, for any size and number of chunks, any requests    *)
(* and any heap, and about PtrArray on top of it, for any size of a slot.   *)
(***************************************************************************)
EXTENDS PtrArray, SequenceTheorems, TLAPS

(* Freed are all chunks with a block but the first.                         *)
LEMMA FreedFacts ==
  ASSUME IInv, NEW c \in Chanks
  PROVE  c \in Freed <=> c # 1 /\ chank[c].buf # NoBlock
<1>1. c \in Nat /\ c >= 1 /\ curChank \in Nat /\ chankEnd \in Nat
  BY ConstantsAssumption DEF IInv, TypeOK, Chanks
<1>2. chank[c].buf # NoBlock <=> c <= curChank /\ c < chankEnd
  BY DEF IInv, ChanksInUse
<1> QED
  BY <1>1, <1>2 DEF Freed

LEMMA InitIInv == Init => IInv
<1> SUFFICES ASSUME Init PROVE IInv
  OBVIOUS
<1> USE ConstantsAssumption DEF Chanks
<1>1. CASE \E b \in Blocks :
             /\ chank = [c \in Chanks |->
                           IF c = 1 THEN [buf |-> b, size |-> AllocSize, used |-> AllocSize] ELSE Blank]
             /\ heap = {b}
             /\ pieces = {[chank |-> 1, from |-> 0, size |-> AllocSize]}
             /\ allocMem = AllocSize /\ usedMem = AllocSize
             /\ chankEnd = ChankCount + 1
  <2>1. PICK b \in Blocks :
          /\ chank = [c \in Chanks |->
                        IF c = 1 THEN [buf |-> b, size |-> AllocSize, used |-> AllocSize] ELSE Blank]
          /\ heap = {b}
          /\ pieces = {[chank |-> 1, from |-> 0, size |-> AllocSize]}
          /\ allocMem = AllocSize /\ usedMem = AllocSize
          /\ chankEnd = ChankCount + 1
    BY <1>1
  <2>2. curChank = 1 /\ 1 \in Chanks
    BY DEF Init
  <2>3. TypeOK
    BY <2>1, <2>2 DEF TypeOK, Blank
  <2>4. ChanksInUse
    BY <2>1, <2>2 DEF ChanksInUse, Blank
  <2>5. PiecesInUse /\ PiecesApart
    BY <2>1, <2>2 DEF PiecesInUse, PiecesApart
  <2>6. BlocksOwned
    BY <2>1, <2>2 DEF BlocksOwned, Blank
  <2> QED
    BY <2>3, <2>4, <2>5, <2>6 DEF IInv
<1>2. CASE /\ chank = [c \in Chanks |-> Blank]
           /\ heap = {} /\ pieces = {}
           /\ allocMem = 0 /\ usedMem = 0
           /\ chankEnd = 1
  <2>1. curChank = 1
    BY DEF Init
  <2> QED
    BY <1>2, <2>1 DEF IInv, TypeOK, ChanksInUse, PiecesInUse, PiecesApart, BlocksOwned, Blank
<1> QED
  BY <1>1, <1>2 DEF Init

(* With a piece `new' at the end of chunk new.chank, in a state in which that *)
(* chunk has room for it, the pieces stay apart.                            *)
LEMMA PieceAdded ==
  ASSUME IInv, NEW new, new \in [chank : Chanks, from : Nat, size : Nat], new.size > 0,
         pieces' = pieces \cup {new}, heap \subseteq heap',
         chank' \in [Chanks -> [buf : Blocks \cup {NoBlock}, size : Nat, used : Nat]],
         new.from = chank[new.chank].used,
         chank'[new.chank].used = new.from + new.size,
         chank'[new.chank].used <= chank'[new.chank].size,
         chank'[new.chank].buf \in heap',
         chank[new.chank].buf # NoBlock => chank'[new.chank].buf = chank[new.chank].buf
                                         /\ chank'[new.chank].size = chank[new.chank].size,
         \A c \in Chanks \ {new.chank} : chank'[c] = chank[c]
  PROVE  PiecesInUse' /\ PiecesApart'
<1>1. ASSUME NEW q \in pieces
      PROVE  /\ q.chank \in Chanks /\ q.from \in Nat /\ q.size \in Nat /\ q.size > 0
             /\ q.from + q.size <= chank[q.chank].used
             /\ chank[q.chank].buf \in heap /\ chank[q.chank].buf # NoBlock
             /\ q.from + q.size <= chank[q.chank].size
  <2>1. q.chank \in Chanks /\ q.from \in Nat /\ q.size \in Nat /\ heap \subseteq Blocks
    BY DEF IInv, TypeOK
  <2>2. q.from + q.size <= chank[q.chank].used /\ q.size > 0
    BY DEF IInv, PiecesInUse
  <2>3. chank[q.chank].buf \in heap /\ q.from + q.size <= chank[q.chank].size
    BY DEF IInv, PiecesApart
  <2> QED
    BY <2>1, <2>2, <2>3, ConstantsAssumption
<1>2. new.chank \in Chanks /\ new.from \in Nat /\ new.size \in Nat /\ chank[new.chank].used \in Nat
  BY DEF IInv, TypeOK
<1>3. ASSUME NEW q \in pieces
      PROVE  /\ q.from + q.size <= chank'[q.chank].used
             /\ chank'[q.chank].buf \in heap'
             /\ q.from + q.size <= chank'[q.chank].size
             /\ q.chank = new.chank => q.from + q.size <= new.from
  <2>1. CASE q.chank = new.chank
    BY <1>1, <1>2, <2>1
  <2>2. CASE q.chank # new.chank
    BY <1>1, <2>2
  <2> QED
    BY <2>1, <2>2
<1>4. PiecesInUse'
  BY <1>1, <1>2, <1>3 DEF PiecesInUse
<1>5. \A q \in pieces' : chank'[q.chank].buf \in heap' /\ q.from + q.size <= chank'[q.chank].size
  BY <1>2, <1>3
<1>6. ASSUME NEW q \in pieces', NEW r \in pieces', q # r, q.chank = r.chank
      PROVE  q.from + q.size <= r.from \/ r.from + r.size <= q.from
  <2>1. CASE q = new
    BY <1>3, <1>6, <2>1
  <2>2. CASE r = new
    BY <1>3, <1>6, <2>2
  <2>3. CASE q # new /\ r # new
    BY <1>6, <2>3 DEF IInv, PiecesApart
  <2> QED
    BY <2>1, <2>2, <2>3
<1> QED
  BY <1>4, <1>5, <1>6 DEF PiecesApart

LEMMA AllocHereIInv ==
  ASSUME IInv, NEW size \in Nat \ {0}, AllocHere(size) PROVE IInv'
<1> DEFINE new == [chank |-> curChank, from |-> chank[curChank].used, size |-> size]
           k == chank[curChank]
<1>1. /\ Usable(curChank) /\ Room(curChank, size)
      /\ chank' = [chank EXCEPT ![curChank].used = @ + size]
      /\ pieces' = pieces \cup {new} /\ allocMem' = allocMem + size
      /\ UNCHANGED <<curChank, chankEnd, usedMem, heap>>
  BY DEF AllocHere, Hand
<1>2. /\ curChank \in Chanks /\ size \in Nat /\ size > 0
      /\ chank \in [Chanks -> [buf : Blocks \cup {NoBlock}, size : Nat, used : Nat]]
      /\ allocMem \in Nat
  BY <1>1, ConstantsAssumption DEF Usable, IInv, TypeOK, Chanks
<1>3. k.size \in Nat /\ k.used \in Nat /\ k.used + size <= k.size
  <2>1. k.size \in Nat /\ k.used \in Nat /\ size <= k.size - k.used
    BY <1>1, <1>2 DEF Room
  <2> QED
    BY <1>2, <2>1
<1>4. k.buf # NoBlock /\ k.buf \in heap
  <2>1. k.buf # NoBlock
    BY <1>1, <1>2 DEF Usable, IInv, ChanksInUse, Chanks
  <2> QED
    BY <1>2, <2>1 DEF IInv, BlocksOwned
<1>5. /\ chank'[curChank] = [buf |-> k.buf, size |-> k.size, used |-> k.used + size]
      /\ \A c \in Chanks \ {curChank} : chank'[c] = chank[c]
      /\ chank' \in [Chanks -> [buf : Blocks \cup {NoBlock}, size : Nat, used : Nat]]
  BY <1>1, <1>2, <1>3
<1>6. new \in [chank : Chanks, from : Nat, size : Nat]
  BY <1>2, <1>3
<1>7. PiecesInUse' /\ PiecesApart'
  <2>1. new.chank = curChank /\ new.from = k.used /\ new.size = size
    OBVIOUS
  <2>2. new \in [chank : Chanks, from : Nat, size : Nat] /\ new.size > 0
    BY <1>2, <1>6
  <2>3. pieces' = pieces \cup {new} /\ heap \subseteq heap'
    BY <1>1
  <2>4. /\ new.from = chank[new.chank].used /\ chank'[new.chank].used = new.from + new.size
        /\ chank'[new.chank].used <= chank'[new.chank].size
    BY <1>3, <1>5, <2>1
  <2>5. /\ chank'[new.chank].buf \in heap'
        /\ chank'[new.chank].buf = chank[new.chank].buf /\ chank'[new.chank].size = chank[new.chank].size
        /\ \A c \in Chanks \ {new.chank} : chank'[c] = chank[c]
    BY <1>1, <1>4, <1>5, <2>1
  <2> HIDE DEF new
  <2> QED
    BY <1>5, <2>2, <2>3, <2>4, <2>5, PieceAdded, Zenon
<1>8. TypeOK'
  BY <1>1, <1>2, <1>5, <1>6 DEF IInv, TypeOK
<1>9. ChanksInUse'
  <2>1. ASSUME NEW c \in Chanks
        PROVE  /\ chank'[c].buf # NoBlock <=> c <= curChank /\ c < chankEnd
               /\ chank'[c].buf = NoBlock => chank'[c] = Blank
               /\ chank'[c].used <= chank'[c].size
    <3>1. CASE c = curChank
      BY <1>1, <1>2, <1>3, <1>4, <1>5, <3>1 DEF Usable, Chanks
    <3>2. CASE c # curChank
      BY <1>5, <3>2 DEF IInv, ChanksInUse
    <3> QED
      BY <3>1, <3>2
  <2> QED
    BY <1>1, <2>1 DEF ChanksInUse
<1>10. BlocksOwned'
  <2>1. \A c \in Chanks : chank'[c].buf = chank[c].buf
    BY <1>2, <1>5
  <2>2. BlocksOwned /\ heap' = heap
    BY <1>1 DEF IInv
  <2> QED
    BY <2>1, <2>2, Zenon DEF BlocksOwned
<1> QED
  BY <1>7, <1>8, <1>9, <1>10 DEF IInv

LEMMA AllocNextIInv ==
  ASSUME IInv, NEW size \in Nat \ {0}, AllocNext(size) PROVE IInv'
<1> DEFINE c == curChank + 1
           allocSize == IF size > AllocSize THEN size ELSE AllocSize
           new == [chank |-> c, from |-> 0, size |-> size]
<1>1. /\ Usable(curChank) /\ Usable(c) /\ curChank' = c /\ chankEnd' = chankEnd
      /\ pieces' = pieces \cup {new} /\ allocMem' = allocMem + size
  BY DEF AllocNext, Hand
<1>2. PICK b \in Blocks \ heap :
        /\ chank' = [chank EXCEPT ![c] = [buf |-> b, size |-> allocSize, used |-> size]]
        /\ heap' = heap \cup {b}
        /\ usedMem' = usedMem + allocSize
  BY DEF AllocNext
<1>3. /\ c \in Chanks /\ c \in Nat /\ curChank \in Nat /\ chankEnd \in 1..(ChankCount + 1)
      /\ size \in Nat /\ size > 0 /\ allocSize \in Nat /\ size <= allocSize
      /\ allocMem \in Nat /\ usedMem \in Nat
  BY <1>1, ConstantsAssumption DEF Usable, IInv, TypeOK, Chanks
<1>4. chank \in [Chanks -> [buf : Blocks \cup {NoBlock}, size : Nat, used : Nat]]
  BY DEF IInv, TypeOK
<1>5. chank[c] = Blank /\ chank[c].buf = NoBlock /\ chank[c].used = 0
  <2>1. ~(c <= curChank)
    BY <1>3
  <2> QED
    BY <1>3, <2>1 DEF IInv, ChanksInUse, Blank
<1>6. /\ chank'[c] = [buf |-> b, size |-> allocSize, used |-> size]
      /\ \A d \in Chanks \ {c} : chank'[d] = chank[d]
      /\ chank' \in [Chanks -> [buf : Blocks \cup {NoBlock}, size : Nat, used : Nat]]
  BY <1>2, <1>3, <1>4
<1> HIDE DEF c, allocSize
<1>7. new \in [chank : Chanks, from : Nat, size : Nat]
  BY <1>3
<1>8. b # NoBlock /\ b \in heap' /\ heap \subseteq heap'
  BY <1>2, ConstantsAssumption
<1>9. PiecesInUse' /\ PiecesApart'
  <2>1. new.chank = c /\ new.from = 0 /\ new.size = size
    OBVIOUS
  <2>2. new.size > 0 /\ pieces' = pieces \cup {new}
    BY <1>1, <1>3
  <2>3. /\ new.from = chank[new.chank].used /\ chank'[new.chank].used = new.from + new.size
        /\ chank'[new.chank].used <= chank'[new.chank].size
    BY <1>3, <1>5, <1>6, <2>1
  <2>4. /\ chank'[new.chank].buf \in heap' /\ chank[new.chank].buf = NoBlock
        /\ \A d \in Chanks \ {new.chank} : chank'[d] = chank[d]
    BY <1>5, <1>6, <1>8, <2>1
  <2> HIDE DEF new
  <2> QED
    BY <1>6, <1>7, <1>8, <2>2, <2>3, <2>4, PieceAdded, Zenon
<1>10. TypeOK'
  <2>1. pieces' \subseteq [chank : Chanks, from : Nat, size : Nat] /\ heap' \subseteq Blocks
    BY <1>1, <1>2, <1>7 DEF IInv, TypeOK
  <2>2. curChank' \in 1..(ChankCount + 1) /\ allocMem' \in Nat /\ usedMem' \in Nat
    BY <1>1, <1>2, <1>3, ConstantsAssumption DEF Chanks
  <2> QED
    BY <1>1, <1>3, <1>6, <2>1, <2>2 DEF TypeOK
<1>11. ChanksInUse'
  <2>1. ASSUME NEW d \in Chanks
        PROVE  /\ chank'[d].buf # NoBlock <=> d <= c /\ d < chankEnd
               /\ chank'[d].buf = NoBlock => chank'[d] = Blank
               /\ chank'[d].used <= chank'[d].size
    <3>1. CASE d = c
      BY <1>1, <1>3, <1>6, <1>8, <3>1 DEF Usable
    <3>2. CASE d # c
      <4>1. d <= c <=> d <= curChank
        BY <1>3, <3>2 DEF c, Chanks
      <4> QED
        BY <1>6, <3>2, <4>1 DEF IInv, ChanksInUse
    <3> QED
      BY <3>1, <3>2
  <2> QED
    BY <1>1, <2>1 DEF ChanksInUse
<1>12. BlocksOwned'
  <2>1. \A d \in Chanks \ {c} : chank'[d].buf = chank[d].buf
    BY <1>6
  <2>2. chank'[c].buf = b /\ chank[c].buf = NoBlock /\ heap' = heap \cup {b} /\ c \in Chanks
    BY <1>2, <1>3, <1>5, <1>6
  <2>3. \A d \in Chanks \ {c} : chank'[d].buf # NoBlock => chank'[d].buf \in heap /\ chank'[d].buf # b
    BY <2>1 DEF IInv, BlocksOwned
  <2>4. \A e \in heap : \E d \in Chanks \ {c} : chank'[d].buf = e
    BY <2>1, <2>2, ConstantsAssumption DEF IInv, BlocksOwned, TypeOK
  <2>5. \A d, e \in Chanks \ {c} : chank'[d].buf = chank'[e].buf /\ chank'[d].buf # NoBlock => d = e
    BY <2>1 DEF IInv, BlocksOwned
  <2> QED
    BY <1>8, <2>2, <2>3, <2>4, <2>5 DEF BlocksOwned
<1> QED
  BY <1>9, <1>10, <1>11, <1>12 DEF IInv

(* A request that gets nothing moves curChank behind the last chunk.        *)
LEMMA AllocNothingIInv ==
  ASSUME IInv, NEW size \in Nat \ {0}, AllocFails(size) \/ AllocAtEnd(size) PROVE IInv'
<1>1. /\ Usable(curChank) /\ curChank' = curChank + 1 /\ chankEnd' = curChank + 1
      /\ UNCHANGED <<chank, allocMem, usedMem, heap, pieces>>
  BY ConstantsAssumption DEF AllocFails, AllocAtEnd, Usable, IInv, TypeOK
<1>2. /\ curChank \in Chanks /\ curChank \in Nat /\ chankEnd \in Nat
      /\ curChank + 1 \in 1..(ChankCount + 1)
  BY <1>1, ConstantsAssumption DEF Usable, IInv, TypeOK, Chanks
<1>3. TypeOK'
  BY <1>1, <1>2 DEF IInv, TypeOK
<1>4. ChanksInUse'
  <2>1. ASSUME NEW c \in Chanks
        PROVE  c <= curChank /\ c < chankEnd <=> c <= curChank' /\ c < chankEnd'
    BY <1>1, <1>2 DEF Usable, Chanks
  <2> QED
    BY <1>1, <2>1 DEF IInv, ChanksInUse
<1>5. PiecesInUse' /\ PiecesApart' /\ BlocksOwned'
  BY <1>1 DEF IInv, PiecesInUse, PiecesApart, BlocksOwned
<1> QED
  BY <1>3, <1>4, <1>5 DEF IInv

LEMMA FreeIInv == ASSUME IInv, Free PROVE IInv'
<1>1. /\ heap' = heap \ {chank[c].buf : c \in Freed}
      /\ chank' = [c \in Chanks |-> IF c = 1 THEN [chank[1] EXCEPT !.used = 0] ELSE Blank]
      /\ curChank' = 1 /\ allocMem' = 0 /\ usedMem' = chank[1].size
      /\ pieces' = {} /\ chankEnd' = chankEnd
  BY DEF Free
<1>2. /\ 1 \in Chanks /\ chankEnd \in 1..(ChankCount + 1) /\ curChank \in 1..(ChankCount + 1)
      /\ chank[1] \in [buf : Blocks \cup {NoBlock}, size : Nat, used : Nat]
  BY ConstantsAssumption DEF IInv, TypeOK, Chanks
<1>3. /\ chank'[1] = [buf |-> chank[1].buf, size |-> chank[1].size, used |-> 0]
      /\ \A c \in Chanks \ {1} : chank'[c] = Blank
  BY <1>1, <1>2
<1>4. TypeOK'
  <2>1. chank' \in [Chanks -> [buf : Blocks \cup {NoBlock}, size : Nat, used : Nat]]
    BY <1>1, <1>2 DEF Blank
  <2>2. heap' \subseteq Blocks
    BY <1>1 DEF IInv, TypeOK
  <2> QED
    BY <1>1, <1>2, <2>1, <2>2, ConstantsAssumption DEF TypeOK
<1>5. ChanksInUse'
  <2>1. chank[1].buf # NoBlock <=> 1 < chankEnd
    BY <1>2 DEF IInv, ChanksInUse
  <2>2. chank[1].buf = NoBlock => chank[1] = Blank
    BY <1>2 DEF IInv, ChanksInUse
  <2>3. ASSUME NEW c \in Chanks
        PROVE  /\ chank'[c].buf # NoBlock <=> c <= 1 /\ c < chankEnd
               /\ chank'[c].buf = NoBlock => chank'[c] = Blank
               /\ chank'[c].used <= chank'[c].size
    <3>1. CASE c = 1
      BY <1>2, <1>3, <2>1, <2>2, <3>1 DEF Blank
    <3>2. CASE c # 1
      BY <1>3, <3>2, ConstantsAssumption DEF Blank, Chanks
    <3> QED
      BY <3>1, <3>2
  <2> QED
    BY <1>1, <2>3 DEF ChanksInUse
<1>6. BlocksOwned'
  <2>1. \A c \in Chanks : c \in Freed <=> c # 1 /\ chank[c].buf # NoBlock
    BY FreedFacts
  <2>2. chank[1].buf # NoBlock => chank[1].buf \in heap'
    <3>1. \A c \in Freed : c \in Chanks /\ c # 1 /\ chank[c].buf # NoBlock
      BY <2>1 DEF Freed
    <3>2. \A c \in Freed : chank[c].buf # chank[1].buf
      BY <1>2, <3>1 DEF IInv, BlocksOwned
    <3>3. chank[1].buf # NoBlock => chank[1].buf \in heap
      BY <1>2 DEF IInv, BlocksOwned
    <3> QED
      BY <1>1, <3>2, <3>3
  <2>3. ASSUME NEW b \in heap' PROVE chank[1].buf = b
    <3>1. PICK c \in Chanks : chank[c].buf = b
      BY <1>1 DEF IInv, BlocksOwned
    <3>2. b # NoBlock /\ c \notin Freed
      BY <1>1, <2>3, <3>1, ConstantsAssumption DEF IInv, TypeOK
    <3> QED
      BY <2>1, <3>1, <3>2
  <2>4. \A c \in Chanks \ {1} : chank'[c].buf = NoBlock
    BY <1>3 DEF Blank
  <2>5. chank'[1].buf = chank[1].buf
    BY <1>3
  <2> QED
    BY <1>2, <2>2, <2>3, <2>4, <2>5 DEF BlocksOwned
<1>7. PiecesInUse' /\ PiecesApart'
  BY <1>1 DEF PiecesInUse, PiecesApart
<1> QED
  BY <1>4, <1>5, <1>6, <1>7 DEF IInv

LEMMA SameIInv == IInv /\ UNCHANGED vars => IInv'
BY DEF vars, IInv, TypeOK, ChanksInUse, PiecesInUse, PiecesApart, BlocksOwned

LEMMA AllocIInv ==
  ASSUME IInv, NEW size \in Nat \ {0}, Alloc(size) PROVE IInv'
BY SameIInv, AllocHereIInv, AllocNextIInv, AllocNothingIInv DEF Alloc, Refused

LEMMA StepIInv == IInv /\ [Next]_vars => IInv'
BY FreeIInv, SameIInv, AllocIInv, ConstantsAssumption DEF Next

(* No two pieces of memory that MemBuf handed out since the last Free       *)
(* overlap, whatever was asked for and whenever malloc failed.              *)
THEOREM PiecesNeverOverlap == Spec => []PiecesApart
<1>1. IInv => PiecesApart
  BY DEF IInv
<1> QED
  BY <1>1, InitIInv, StepIInv, PTL DEF Spec

(* Free gives back every block but the first, and none twice.               *)
THEOREM NoBlockForgotten == Spec => []BlocksOwned
<1>1. IInv => BlocksOwned
  BY DEF IInv
<1> QED
  BY <1>1, InitIInv, StepIInv, PTL DEF Spec

-----------------------------------------------------------------------------
(* Numbers of slots and entries.                                            *)

LEMMA Products == ASSUME NEW m \in Nat, NEW n \in Nat PROVE m * n \in Nat
OBVIOUS

LEMMA Split ==
  ASSUME NEW k \in Nat
  PROVE  k \div Base \in Nat /\ (k % Base) \in 0..(Base - 1) /\ k = (k \div Base) * Base + (k % Base)
<1>1. Base \in Nat /\ Base > 0
  BY ArrayAssumption DEF ArrayAssumption
<1>2. k \div Base \in Nat
  BY <1>1
<1>3. (k % Base) \in 0..(Base - 1)
  BY <1>1
<1>4. k = Base * (k \div Base) + (k % Base)
  BY <1>1
<1> QED
  BY <1>1, <1>2, <1>3, <1>4

LEMMA Larger ==
  ASSUME NEW m \in Nat, NEW n \in Nat, m < n
  PROVE  (m + 1) * Base <= n * Base /\ (m + 1) * Base = m * Base + Base
<1>1. PICK d \in Nat : n = m + 1 + d
  <2>1. n - m - 1 \in Nat /\ n = m + 1 + (n - m - 1)
    OBVIOUS
  <2> QED
    BY <2>1
<1>2. n * Base = (m + 1) * Base + d * Base /\ d * Base \in Nat
  BY <1>1, ArrayAssumption DEF ArrayAssumption
<1> QED
  BY <1>2, ArrayAssumption DEF ArrayAssumption

LEMMA SmallRest ==
  ASSUME NEW a \in Nat, NEW b \in Nat, NEW x \in Nat, NEW y \in Nat,
         a + x = b + y, x < Base
  PROVE  ~(a + Base <= b)
BY ArrayAssumption DEF ArrayAssumption

LEMMA Joined ==
  ASSUME NEW q \in Nat, NEW r \in 0..(Base - 1)
  PROVE  /\ q * Base + r \in Nat
         /\ (q * Base + r) \div Base = q /\ (q * Base + r) % Base = r
<1> DEFINE k == q * Base + r
           d == k \div Base
<1>0. Base \in Nat /\ Base >= 1 /\ q * Base \in Nat
  BY ArrayAssumption DEF ArrayAssumption
<1>1. k \in Nat
  BY <1>0
<1>2. d \in Nat /\ (k % Base) \in 0..(Base - 1) /\ k = d * Base + (k % Base)
  BY <1>1, Split
<1> HIDE DEF d
<1>3. ~(d < q)
  <2> SUFFICES ASSUME d < q PROVE FALSE
    OBVIOUS
  <2>1. d * Base + Base <= q * Base /\ d * Base \in Nat
    BY <1>0, <1>2, Larger
  <2>2. (k % Base) \in Nat /\ (k % Base) < Base /\ r \in Nat /\ d * Base + (k % Base) = q * Base + r
    BY <1>0, <1>2
  <2> QED
    BY <1>0, <2>1, <2>2, SmallRest
<1>4. ~(q < d)
  <2> SUFFICES ASSUME q < d PROVE FALSE
    OBVIOUS
  <2>1. q * Base + Base <= d * Base /\ d * Base \in Nat
    BY <1>0, <1>2, Larger
  <2>2. (k % Base) \in Nat /\ r < Base /\ r \in Nat /\ q * Base + r = d * Base + (k % Base)
    BY <1>0, <1>2
  <2> QED
    BY <1>0, <2>1, <2>2, SmallRest
<1>5. d = q
  BY <1>2, <1>3, <1>4
<1>6. (k % Base) = r
  BY <1>0, <1>2, <1>5
<1> QED
  BY <1>1, <1>5, <1>6 DEF d

(* An entry before the next one is in a slot before the last, or in the last *)
(* slot before the next entry.                                              *)
LEMMA EntryOf ==
  ASSUME NEW n \in Nat \ {0}, NEW c \in 0..Base, NEW k \in Nat, k < (n - 1) * Base + c
  PROVE  /\ k \div Base \in 0..(n - 1)
         /\ k \div Base = n - 1 => (k % Base) < c
<1> DEFINE q == k \div Base
<1>0. Base \in Nat /\ Base >= 1 /\ n - 1 \in Nat /\ (n - 1) * Base \in Nat
  BY ArrayAssumption DEF ArrayAssumption
<1>1. q \in Nat /\ (k % Base) \in 0..(Base - 1) /\ k = q * Base + (k % Base)
  BY Split
<1> HIDE DEF q
<1>2. ~(n - 1 < q)
  <2> SUFFICES ASSUME n - 1 < q PROVE FALSE
    OBVIOUS
  <2>1. (n - 1) * Base + Base <= q * Base /\ q * Base \in Nat
    BY <1>0, <1>1, Larger
  <2>2. PICK a \in Nat : a = (n - 1) * Base
    BY <1>0
  <2>3. PICK b \in Nat : b = q * Base
    BY <2>1
  <2>4. a + Base <= b /\ b + (k % Base) < a + c
    BY <1>1, <2>1, <2>2, <2>3
  <2> QED
    BY <1>0, <1>1, <2>4
<1>3. ASSUME q = n - 1 PROVE (k % Base) < c
  <2>1. PICK a \in Nat : a = (n - 1) * Base
    BY <1>0
  <2>2. a + (k % Base) < a + c
    BY <1>1, <1>3, <2>1
  <2> QED
    BY <1>0, <1>1, <2>2
<1> QED
  BY <1>0, <1>1, <1>2, <1>3 DEF q

-----------------------------------------------------------------------------
(* Words of memory and the pieces that a step takes.                        *)

(* The word at entry e of the piece at a, in a memory m.                    *)
At(m, a, e) == IF Word(a, e) \in DOMAIN m THEN m[Word(a, e)] ELSE NULL

LEMMA WriteOne ==
  ASSUME NEW a, NEW e, NEW v, mem' = Write(a, e, v), NEW b, NEW d
  PROVE  At(mem', b, d) = IF Word(b, d) = Word(a, e) THEN v ELSE At(mem, b, d)
<1> DEFINE x == Word(a, e)
           y == Word(b, d)
<1>1. mem' = [w \in DOMAIN mem \cup {x} |-> IF w = x THEN v ELSE mem[w]]
  BY Zenon DEF Write
<1> HIDE DEF x, y
<1>2. (IF y \in DOMAIN mem' THEN mem'[y] ELSE NULL)
        = IF y = x THEN v ELSE IF y \in DOMAIN mem THEN mem[y] ELSE NULL
  BY <1>1
<1> QED
  BY <1>2, Zenon DEF At, x, y

LEMMA ReadIsAt ==
  /\ \A a, e : Read(a, e) = At(mem, a, e)
  /\ \A k : /\ Slot2(k) = At(mem, pp1, k % Base)
            /\ Slot3(k) = At(mem, Slot2(k \div Base), k % Base)
            /\ Slot4(k) = At(mem, Slot3(k \div Base), k % Base)
            /\ Get(k) = At(mem, Slot4(k \div Base), k % Base)
BY Zenon DEF Read, At, Slot2, Slot3, Slot4, Get

LEMMA ReadIsAtPrime ==
  \A k : /\ Slot2(k)' = At(mem', pp1', k % Base)
         /\ Slot3(k)' = At(mem', Slot2(k \div Base)', k % Base)
         /\ Slot4(k)' = At(mem', Slot3(k \div Base)', k % Base)
         /\ Get(k)' = At(mem', Slot4(k \div Base)', k % Base)
BY Zenon DEF Read, At, Slot2, Slot3, Slot4, Get

(* Two slots share no word.                                                 *)
LEMMA WordsApart ==
  ASSUME PiecesApart, NEW a, NEW b, IsSlot(a), IsSlot(b),
         NEW d \in 0..(Base - 1), NEW e \in 0..(Base - 1), Word(a, d) = Word(b, e)
  PROVE  a = b /\ d = e
<1> DEFINE q == [chank |-> a.chank, from |-> a.from, size |-> Base]
           r == [chank |-> b.chank, from |-> b.from, size |-> Base]
<1>1. /\ a \in [chank : Chanks, from : Nat] /\ b \in [chank : Chanks, from : Nat]
      /\ q \in pieces /\ r \in pieces
  BY DEF IsSlot
<1>2. a.chank = b.chank /\ a.from + d = b.from + e
  BY DEF Word
<1>3. a.from \in Nat /\ b.from \in Nat /\ Base \in Nat /\ d \in Nat /\ e \in Nat
      /\ d < Base /\ e < Base
  BY <1>1, ArrayAssumption
<1>4. q = r
  <2>1. q # r => a.from + Base <= b.from \/ b.from + Base <= a.from
    BY <1>1, <1>2 DEF PiecesApart
  <2> QED
    BY <1>2, <1>3, <2>1
<1>5. a.from = b.from
  BY <1>4
<1> QED
  BY <1>1, <1>2, <1>3, <1>5

(* What a successful request gives is new, and what was there stays.        *)
LEMMA NewPiece ==
  ASSUME IInv, NEW size \in Nat \ {0}, Got(size)
  PROVE  /\ Piece(size) \in [chank : Chanks, from : Nat]
         /\ [chank |-> Piece(size).chank, from |-> Piece(size).from, size |-> size] \in pieces'
         /\ pieces \subseteq pieces'
         /\ \A q \in pieces : ~(q.chank = Piece(size).chank /\ q.from = Piece(size).from)
<1> DEFINE v == Piece(size)
<1>1. /\ chank \in [Chanks -> [buf : Blocks \cup {NoBlock}, size : Nat, used : Nat]]
      /\ curChank \in 1..(ChankCount + 1) /\ chankEnd \in 1..(ChankCount + 1)
      /\ pieces \subseteq [chank : Chanks, from : Nat, size : Nat]
      /\ ChankCount \in Nat
  BY ConstantsAssumption DEF IInv, TypeOK
<1>2. \A q \in pieces : q.from + q.size <= chank[q.chank].used /\ q.size > 0
  BY DEF IInv, PiecesInUse
<1>3. CASE AllocHere(size)
  <2>1. /\ curChank \in Chanks /\ curChank' = curChank
        /\ chank' = [chank EXCEPT ![curChank].used = @ + size]
        /\ pieces' = pieces \cup {[chank |-> curChank, from |-> chank[curChank].used, size |-> size]}
    BY <1>1, <1>3 DEF AllocHere, Hand, Usable, Chanks
  <2>2. chank'[curChank].used = chank[curChank].used + size /\ chank[curChank].used \in Nat
    BY <1>1, <2>1
  <2>3. v = [chank |-> curChank, from |-> chank[curChank].used]
    BY <2>1, <2>2 DEF Piece
  <2>4. \A q \in pieces : ~(q.chank = v.chank /\ q.from = v.from)
    BY <1>1, <1>2, <2>2, <2>3
  <2> QED
    BY <2>1, <2>2, <2>3, <2>4
<1>4. CASE AllocNext(size)
  <2> DEFINE c == curChank + 1
  <2>1. /\ c \in Chanks /\ curChank' = c
        /\ pieces' = pieces \cup {[chank |-> c, from |-> 0, size |-> size]}
    BY <1>1, <1>4 DEF AllocNext, Hand, Usable, Chanks
  <2>2. chank'[c].used = size
    BY <1>1, <1>4, <2>1 DEF AllocNext
  <2>3. v = [chank |-> c, from |-> 0]
    BY <2>1, <2>2 DEF Piece
  <2>4. chank[c].used = 0
    <3>1. ~(c <= curChank)
      BY <1>1
    <3>2. chank[c] = Blank
      BY <2>1, <3>1 DEF IInv, ChanksInUse
    <3> QED
      BY <3>2 DEF Blank
  <2>5. \A q \in pieces : q.chank # c
    BY <1>1, <1>2, <2>4
  <2> QED
    BY <2>1, <2>3, <2>5
<1> QED
  BY <1>3, <1>4 DEF Got

(* Without memory there is none any more, until everything is freed.        *)
LEMMA NothingLeft ==
  ASSUME IInv, NEW size, NotGot(size)
  PROVE  ~Usable(curChank)' /\ pieces' = pieces
BY DEF NotGot, AllocFails, AllocAtEnd, Refused, Usable, vars, IInv, TypeOK

LEMMA StaysEmpty ==
  ASSUME NEW size, Got(size) PROVE Usable(curChank)
BY DEF Got, AllocHere, AllocNext

LEMMA AllocIsEither == ASSUME NEW size PROVE Alloc(size) <=> Got(size) \/ NotGot(size)
BY Zenon DEF Alloc, Got, NotGot

-----------------------------------------------------------------------------
(* One word written at the end of what a level has.                         *)

NextOf(l) == CASE l = 1 -> c1 [] l = 2 -> c2 [] l = 3 -> c3 [] l = 4 -> c4

LEMMA Levels ==
  /\ Last(1) = 0 /\ Last(2) = c1 - 1 /\ Last(3) = N3 - 1 /\ Last(4) = N4 - 1
  /\ NextOf(1) = c1 /\ NextOf(2) = c2 /\ NextOf(3) = c3 /\ NextOf(4) = c4
  /\ \A k : /\ Slot(1, k) = pp1 /\ Slot(2, k) = Slot2(k)
            /\ Slot(3, k) = Slot3(k) /\ Slot(4, k) = Slot4(k)
BY DEF Last, NextOf, Slot

LEMMA Numbers ==
  ASSUME Counters
  PROVE  /\ Base \in Nat /\ Base >= 2 /\ c1 \in 1..Base
         /\ c2 \in 0..Base /\ c3 \in 0..Base /\ c4 \in 0..Base
         /\ N3 \in Nat \ {0} /\ N4 \in Nat \ {0} /\ N5 \in Nat
         /\ N3 = (c1 - 1) * Base + c2 /\ N4 = (N3 - 1) * Base + c3 /\ N5 = (N4 - 1) * Base + c4
<1>1. /\ Base \in Nat /\ Base >= 2 /\ c1 \in 1..Base
      /\ c2 \in 0..Base /\ c3 \in 0..Base /\ c4 \in 0..Base
      /\ N3 >= 1 /\ N4 >= 1
  BY ArrayAssumption DEF Counters
<1>2. N3 = (c1 - 1) * Base + c2 /\ N4 = (N3 - 1) * Base + c3 /\ N5 = (N4 - 1) * Base + c4
  BY DEF N3, N4, N5
<1>3. N3 \in Nat \ {0}
  <2>1. c1 - 1 \in Nat
    BY <1>1
  <2>2. (c1 - 1) * Base \in Nat
    BY <1>1, <2>1, Products
  <2> QED
    BY <1>1, <1>2, <2>2
<1>4. N4 \in Nat \ {0}
  <2>1. N3 - 1 \in Nat
    BY <1>3
  <2>2. (N3 - 1) * Base \in Nat
    BY <1>1, <2>1, Products
  <2> QED
    BY <1>1, <1>2, <2>2
<1>5. N5 \in Nat
  <2>1. N4 - 1 \in Nat
    BY <1>4
  <2>2. (N4 - 1) * Base \in Nat
    BY <1>1, <2>1, Products
  <2> QED
    BY <1>1, <1>2, <2>2
<1> QED
  BY <1>1, <1>2, <1>3, <1>4, <1>5

LEMMA SlotFacts ==
  ASSUME SlotsApart, Built, NEW l \in 1..4, NEW k \in 0..Last(l)
  PROVE  /\ IsSlot(Slot(l, k))
         /\ \A m \in 1..4 : \A j \in 0..Last(m) : Slot(l, k) = Slot(m, j) => l = m /\ k = j
BY Zenon DEF SlotsApart

(* A word that a reader may come by keeps its value.                        *)
LEMMA UsedWordStays ==
  ASSUME PiecesApart, Counters, SlotsApart, Built,
         NEW l \in 1..4, NextOf(l) < Base,
         NEW v, mem' = Write(Slot(l, Last(l)), NextOf(l), v),
         NEW m \in 1..4, NEW j \in 0..Last(m), NEW d \in 0..(Base - 1),
         j = Last(m) => d < NextOf(m)
  PROVE  At(mem', Slot(m, j), d) = At(mem, Slot(m, j), d)
<1> DEFINE a == Slot(l, Last(l))
           b == Slot(m, j)
           e == NextOf(l)
<1>1. Last(l) \in 0..Last(l) /\ e \in 0..(Base - 1) /\ e >= 0
  <2>1. l \in {1, 2, 3, 4}
    OBVIOUS
  <2> QED
    BY <2>1, Numbers, Levels
<1>2. /\ IsSlot(a) /\ IsSlot(b)
      /\ a = b => l = m /\ Last(l) = j
  BY <1>1, SlotFacts, Zenon
<1>3. Word(b, d) # Word(a, e)
  <2> SUFFICES ASSUME Word(b, d) = Word(a, e) PROVE FALSE
    OBVIOUS
  <2>1. b = a /\ d = e
    BY <1>1, <1>2, WordsApart, Zenon
  <2>2. l = m /\ j = Last(m) /\ d = NextOf(m)
    BY <1>2, <2>1
  <2> QED
    BY <1>1, <2>2
<1> QED
  BY <1>3, WriteOne

(* So every slot and every node that is there is found where it was.        *)
Kept ==
  /\ \A k \in 0..(c1 - 1) : Slot2(k)' = Slot2(k)
  /\ \A k \in 0..(N3 - 1) : Slot3(k)' = Slot3(k)
  /\ \A k \in 0..(N4 - 1) : Slot4(k)' = Slot4(k)
  /\ \A k \in 0..(N5 - 1) : Get(k)' = Get(k)

LEMMA WriteKeeps ==
  ASSUME PiecesApart, Counters, SlotsApart, Built,
         NEW l \in 1..4, NextOf(l) < Base,
         NEW v, mem' = Write(Slot(l, Last(l)), NextOf(l), v), pp1' = pp1
  PROVE  Kept
<1>0. /\ Base \in Nat /\ Base >= 2 /\ c1 \in 1..Base
      /\ c2 \in 0..Base /\ c3 \in 0..Base /\ c4 \in 0..Base
      /\ N3 \in Nat \ {0} /\ N4 \in Nat \ {0} /\ N5 \in Nat
      /\ N3 = (c1 - 1) * Base + c2 /\ N4 = (N3 - 1) * Base + c3 /\ N5 = (N4 - 1) * Base + c4
  BY Numbers
<1>1. ASSUME NEW m \in 1..4, NEW j \in 0..Last(m), NEW d \in 0..(Base - 1),
             j = Last(m) => d < NextOf(m)
      PROVE  At(mem', Slot(m, j), d) = At(mem, Slot(m, j), d)
  BY <1>1, UsedWordStays
<1>2. ASSUME NEW k \in 0..(c1 - 1) PROVE Slot2(k)' = Slot2(k)
  <2>1. k \in Nat /\ k < Base /\ k < c1
    BY <1>0
  <2>2. k % Base = k
    BY <1>0, <2>1
  <2>3. At(mem', pp1, k) = At(mem, pp1, k)
    <3>1. 0 \in 0..Last(1) /\ k \in 0..(Base - 1) /\ k < NextOf(1) /\ Slot(1, 0) = pp1 /\ 1 \in 1..4
      BY <1>0, <2>1, Levels
    <3> QED
      BY <1>1, <3>1
  <2> QED
    BY <2>2, <2>3, ReadIsAt, ReadIsAtPrime
<1>3. ASSUME NEW k \in 0..(N3 - 1) PROVE Slot3(k)' = Slot3(k)
  <2>1. k \in Nat /\ k < (c1 - 1) * Base + c2
    BY <1>0
  <2>2. /\ k \div Base \in 0..(c1 - 1) /\ k % Base \in 0..(Base - 1)
        /\ k \div Base = c1 - 1 => (k % Base) < c2
    <3>1. c1 \in Nat \ {0}
      BY <1>0
    <3>2. /\ k \div Base \in 0..(c1 - 1)
          /\ k \div Base = c1 - 1 => (k % Base) < c2
      BY <1>0, <2>1, <3>1, EntryOf
    <3> QED
      BY <2>1, <3>2, Split
  <2>3. Slot2(k \div Base)' = Slot2(k \div Base)
    BY <1>2, <2>2
  <2>4. At(mem', Slot2(k \div Base), k % Base) = At(mem, Slot2(k \div Base), k % Base)
    <3>1. /\ 2 \in 1..4 /\ Last(2) = c1 - 1 /\ NextOf(2) = c2
          /\ Slot(2, k \div Base) = Slot2(k \div Base)
      BY Levels
    <3> QED
      BY <1>1, <2>2, <3>1
  <2> QED
    BY <2>3, <2>4, ReadIsAt, ReadIsAtPrime
<1>4. ASSUME NEW k \in 0..(N4 - 1) PROVE Slot4(k)' = Slot4(k)
  <2>1. k \in Nat /\ k < (N3 - 1) * Base + c3
    BY <1>0
  <2>2. /\ k \div Base \in 0..(N3 - 1) /\ k % Base \in 0..(Base - 1)
        /\ k \div Base = N3 - 1 => (k % Base) < c3
    BY <1>0, <2>1, EntryOf, Split
  <2>3. Slot3(k \div Base)' = Slot3(k \div Base)
    BY <1>3, <2>2
  <2>4. At(mem', Slot3(k \div Base), k % Base) = At(mem, Slot3(k \div Base), k % Base)
    <3>1. /\ 3 \in 1..4 /\ Last(3) = N3 - 1 /\ NextOf(3) = c3
          /\ Slot(3, k \div Base) = Slot3(k \div Base)
      BY Levels
    <3> QED
      BY <1>1, <2>2, <3>1
  <2> QED
    BY <2>3, <2>4, ReadIsAt, ReadIsAtPrime
<1>5. ASSUME NEW k \in 0..(N5 - 1) PROVE Get(k)' = Get(k)
  <2>1. k \in Nat /\ k < (N4 - 1) * Base + c4
    BY <1>0
  <2>2. /\ k \div Base \in 0..(N4 - 1) /\ k % Base \in 0..(Base - 1)
        /\ k \div Base = N4 - 1 => (k % Base) < c4
    BY <1>0, <2>1, EntryOf, Split
  <2>3. Slot4(k \div Base)' = Slot4(k \div Base)
    BY <1>4, <2>2
  <2>4. At(mem', Slot4(k \div Base), k % Base) = At(mem, Slot4(k \div Base), k % Base)
    <3>1. /\ 4 \in 1..4 /\ Last(4) = N4 - 1 /\ NextOf(4) = c4
          /\ Slot(4, k \div Base) = Slot4(k \div Base)
      BY Levels
    <3> QED
      BY <1>1, <2>2, <3>1
  <2> QED
    BY <2>3, <2>4, ReadIsAt, ReadIsAtPrime
<1> QED
  BY <1>2, <1>3, <1>4, <1>5 DEF Kept

-----------------------------------------------------------------------------
(* Steps that write nothing.                                                *)

LEMMA SameTree ==
  ASSUME UNCHANGED <<mem, pp1, c1, c2, c3, c4>>
  PROVE  /\ N3' = N3 /\ N4' = N4 /\ N5' = N5
         /\ \A k : Slot2(k)' = Slot2(k) /\ Slot3(k)' = Slot3(k) /\ Slot4(k)' = Slot4(k)
         /\ \A k : Get(k)' = Get(k)
<1>1. N3' = N3 /\ N4' = N4 /\ N5' = N5
  BY DEF N3, N4, N5
<1>2. \A k : Slot2(k)' = Slot2(k)
  BY ReadIsAt, ReadIsAtPrime
<1>3. \A k : Slot3(k)' = Slot3(k)
  BY <1>2, ReadIsAt, ReadIsAtPrime
<1>4. \A k : Slot4(k)' = Slot4(k)
  BY <1>3, ReadIsAt, ReadIsAtPrime
<1>5. \A k : Get(k)' = Get(k)
  BY <1>4, ReadIsAt, ReadIsAtPrime
<1> QED
  BY <1>1, <1>2, <1>3, <1>4, <1>5

LEMMA SlotStays ==
  ASSUME NEW a, IsSlot(a), pieces \subseteq pieces' PROVE IsSlot(a)'
BY DEF IsSlot

LEMMA SameSlots ==
  ASSUME SlotsApart, LastFilled, UNCHANGED <<mem, pp1, pp2, pp3, pp4, c1, c2, c3, c4>>,
         pieces \subseteq pieces', Built' => Built
  PROVE  SlotsApart' /\ LastFilled'
<1>1. /\ N3' = N3 /\ N4' = N4 /\ N5' = N5
      /\ \A k : Slot2(k)' = Slot2(k) /\ Slot3(k)' = Slot3(k) /\ Slot4(k)' = Slot4(k)
  BY SameTree
<1>2. \A l \in 1..4 : Last(l)' = Last(l)
  BY <1>1 DEF Last
<1>3. \A l \in 1..4 : \A k : Slot(l, k)' = Slot(l, k)
  BY <1>1 DEF Slot
<1>4. SlotsApart'
  <2> SUFFICES ASSUME Built PROVE
        \A l \in 1..4 : \A k \in 0..Last(l)' :
          /\ IsSlot(Slot(l, k))'
          /\ \A m \in 1..4 : \A j \in 0..Last(m)' : Slot(l, k)' = Slot(m, j)' => l = m /\ k = j
    BY Zenon DEF SlotsApart
  <2> SUFFICES ASSUME NEW l \in 1..4, NEW k \in 0..Last(l)
               PROVE  /\ IsSlot(Slot(l, k))'
                      /\ \A m \in 1..4 : \A j \in 0..Last(m)' :
                           Slot(l, k)' = Slot(m, j)' => l = m /\ k = j
    BY <1>2
  <2>1. /\ IsSlot(Slot(l, k))
        /\ \A m \in 1..4 : \A j \in 0..Last(m) : Slot(l, k) = Slot(m, j) => l = m /\ k = j
    BY SlotFacts
  <2>2. IsSlot(Slot(l, k))'
    BY <1>3, <2>1 DEF IsSlot
  <2> QED
    BY <1>2, <1>3, <2>1, <2>2
<1>5. LastFilled'
  BY <1>1 DEF LastFilled
<1> QED
  BY <1>4, <1>5

LEMMA FullStays ==
  ASSUME IInv, NEW size, Got(size) \/ NotGot(size), FullAtLimit, count' = count, full' => full
  PROVE  FullAtLimit'
BY NothingLeft, StaysEmpty DEF FullAtLimit

(* Whatever changes nothing but the place in the program, or takes memory.  *)
LEMMA NoWrite ==
  ASSUME ArrayInv, UNCHANGED <<mem, pp1, pp2, pp3, pp4, c1, c2, c3, c4, count, added>>,
         pieces \subseteq pieces', pc # "count", pc' # "count", Built' <=> Built
  PROVE  Counters' /\ SlotsApart' /\ LastFilled' /\ ReaderSeesAll'
<1>1. Counters
  BY DEF ArrayInv
<1>2. /\ N3' = N3 /\ N4' = N4 /\ N5' = N5
      /\ \A k : Get(k)' = Get(k)
  BY SameTree
<1>3. Counters'
  BY <1>1, <1>2 DEF Counters
<1>4. SlotsApart' /\ LastFilled'
  BY SameSlots DEF ArrayInv
<1>5. ReaderSeesAll'
  BY <1>2 DEF ReaderSeesAll, ArrayInv
<1> QED
  BY <1>3, <1>4, <1>5

LEMMA InAdd ==
  ASSUME ArrayInv, pc \in {"level2", "level3", "level4", "store", "count"}
  PROVE  Built /\ ~full /\ ~Building
BY DEF ArrayInv, FullForEver, Building

LEMMA HasEntryInv ==
  ASSUME ArrayInv,
         \/ pc = "level2" /\ c2 < Base /\ HasEntry("level3")
         \/ pc = "level3" /\ c3 < Base /\ HasEntry("level4")
         \/ pc = "level4" /\ c4 < Base /\ HasEntry("store")
  PROVE  ArrayInv'
<1>1. /\ pc \in {"level2", "level3", "level4"} /\ pc' \in {"level3", "level4", "store"}
      /\ UNCHANGED <<mem, pp1, pp2, pp3, pp4, c1, c2, c3, c4, full, count, p, added>>
      /\ UNCHANGED <<pieces, curChank, chankEnd>>
  BY DEF HasEntry, memBuf, vars, array
<1>2. Built /\ ~full /\ ~Building /\ ~Building'
  BY <1>1, InAdd DEF Building
<1>3. Built' <=> Built
  BY <1>1, <1>2 DEF Built
<1>4. Counters' /\ SlotsApart' /\ LastFilled' /\ ReaderSeesAll'
  BY <1>1, <1>3, NoWrite
<1>5. EntryThere'
  BY ArrayAssumption DEF HasEntry, array, ArrayInv, EntryThere
<1>6. FirstSlots' /\ JustStored' /\ FullForEver' /\ FullAtLimit'
  BY <1>1, <1>2, <1>3 DEF ArrayInv, FirstSlots, JustStored, FullForEver, FullAtLimit, Building
<1> QED
  BY <1>4, <1>5, <1>6 DEF ArrayInv

LEMMA GiveUpInv ==
  ASSUME IInv, ArrayInv, pc \in {"level2", "level3", "level4"}, GiveUp,
         pc = "level4" => c4 = Base, pieces' = pieces,
         ~Usable(curChank)' \/ count' = Limit - Base * Base - Base + 2
  PROVE  ArrayInv'
<1>1. /\ UNCHANGED <<mem, pp1, pp2, pp3, pp4, c1, c2, c3, c4, count, p, added>>
      /\ pc' = "idle" /\ full' = TRUE
  BY DEF GiveUp
<1>2. Built /\ ~full /\ ~Building /\ ~Building'
  BY <1>1, InAdd DEF Building
<1>3. Built' <=> Built
  BY <1>1, <1>2 DEF Built
<1>4. Counters' /\ SlotsApart' /\ LastFilled' /\ ReaderSeesAll'
  BY <1>1, <1>3, NoWrite
<1>5. EntryThere'
  BY <1>1, ArrayAssumption DEF ArrayInv, EntryThere
<1>6. FirstSlots' /\ JustStored' /\ FullForEver' /\ FullAtLimit'
  BY <1>1, <1>2, <1>3 DEF ArrayInv, FirstSlots, JustStored, FullForEver, FullAtLimit, Building
<1> QED
  BY <1>4, <1>5, <1>6 DEF ArrayInv

LEMMA AddInv == ASSUME IInv, ArrayInv, Add PROVE ArrayInv'
<1>1. /\ UNCHANGED <<mem, pp1, pp2, pp3, pp4, c1, c2, c3, c4, count, added, full>>
      /\ pc = "idle" /\ pc' \in {"idle", "level2"}
      /\ pc' = "level2" => ~full
  BY DEF Add, array, ArrayInv, FullForEver
<1>2. ~Building /\ ~Building' /\ (Built' <=> Built)
  BY <1>1 DEF Building, Built
<1>3. Got(NodeSize) \/ NotGot(NodeSize)
  BY DEF Add
<1>4. pieces \subseteq pieces'
  BY <1>3, NewPiece, NothingLeft, ArrayAssumption
<1>5. Counters' /\ SlotsApart' /\ LastFilled' /\ ReaderSeesAll'
  BY <1>1, <1>2, <1>4, NoWrite
<1>6. EntryThere'
  BY <1>1 DEF ArrayInv, EntryThere
<1>7. JustStored'
  <2>1. pc' = "level2" => p' = Piece(NodeSize) /\ Got(NodeSize)
    BY <1>1 DEF Add
  <2> QED
    BY <1>1, <2>1, NewPiece, ArrayAssumption DEF JustStored
<1>8. FirstSlots' /\ FullForEver'
  BY <1>1, <1>2 DEF ArrayInv, FirstSlots, FullForEver
<1>9. FullAtLimit'
  BY <1>1, <1>3, FullStays DEF ArrayInv
<1> QED
  BY <1>5, <1>6, <1>7, <1>8, <1>9 DEF ArrayInv

LEMMA TakeTextInv ==
  ASSUME IInv, ArrayInv, NEW size \in Sizes, TakeText(size) PROVE ArrayInv'
<1>1. /\ UNCHANGED <<mem, pp1, pp2, pp3, pp4, c1, c2, c3, c4, count, added, full, pc, p>>
      /\ Got(size) \/ NotGot(size)
  BY AllocIsEither DEF TakeText, array
<1>2. pieces \subseteq pieces'
  BY <1>1, NewPiece, NothingLeft, ConstantsAssumption
<1>3. (Building' <=> Building) /\ (Built' <=> Built)
  BY <1>1 DEF Building, Built
<1>4. /\ N3' = N3 /\ N4' = N4 /\ N5' = N5
      /\ \A k : Slot2(k)' = Slot2(k) /\ Slot3(k)' = Slot3(k) /\ Get(k)' = Get(k)
  BY <1>1, SameTree
<1>5. Counters'
  BY <1>1, <1>3, <1>4 DEF ArrayInv, Counters
<1>6. SlotsApart' /\ LastFilled'
  BY <1>1, <1>2, <1>3, SameSlots DEF ArrayInv
<1>7. EntryThere' /\ JustStored' /\ ReaderSeesAll'
  BY <1>1, <1>4 DEF ArrayInv, EntryThere, JustStored, ReaderSeesAll
<1>8. FirstSlots'
  BY <1>1, <1>2, <1>3, <1>4 DEF ArrayInv, FirstSlots, IsSlot
<1>9. FullForEver'
  BY <1>1, <1>3 DEF ArrayInv, FullForEver
<1>10. FullAtLimit'
  BY <1>1, FullStays DEF ArrayInv
<1> QED
  BY <1>5, <1>6, <1>7, <1>8, <1>9, <1>10 DEF ArrayInv

(* The array is built anew, whatever is left in memory.                     *)
LEMMA FreshInv ==
  ASSUME pp4 = NULL, c1 = 1, c2 = 1, c3 = 1, c4 = 0, full = FALSE, count = 0,
         pc = "new1", added = <<>>
  PROVE  ArrayInv
<1>1. N3 = 1 /\ N4 = 1 /\ N5 = 0
  BY ArrayAssumption DEF N3, N4, N5
<1>2. Building /\ ~Built
  BY DEF Building, Built
<1>3. Counters
  BY <1>1, ArrayAssumption DEF Counters
<1>4. EntryThere /\ SlotsApart /\ LastFilled /\ FirstSlots /\ JustStored /\ FullForEver
  BY <1>2, ArrayAssumption DEF EntryThere, SlotsApart, LastFilled, FirstSlots, JustStored, FullForEver
<1>5. FullAtLimit /\ ReaderSeesAll
  BY DEF FullAtLimit, ReaderSeesAll
<1> QED
  BY <1>3, <1>4, <1>5 DEF ArrayInv

LEMMA ClearInv == ASSUME Clear PROVE ArrayInv'
<1>1. /\ pp4' = NULL /\ c1' = 1 /\ c2' = 1 /\ c3' = 1 /\ c4' = 0 /\ full' = FALSE /\ count' = 0
      /\ pc' = "new1" /\ added' = <<>>
  BY DEF Clear
<1>2. N3' = 1 /\ N4' = 1 /\ N5' = 0
  BY <1>1, ArrayAssumption DEF N3, N4, N5
<1>3. Building' /\ ~Built'
  BY <1>1 DEF Building, Built
<1>4. Counters'
  BY <1>1, <1>2, ArrayAssumption DEF Counters
<1>5. EntryThere' /\ SlotsApart' /\ LastFilled' /\ FirstSlots' /\ JustStored' /\ FullForEver'
  BY <1>1, <1>3, ArrayAssumption DEF EntryThere, SlotsApart, LastFilled, FirstSlots, JustStored, FullForEver
<1>6. FullAtLimit' /\ ReaderSeesAll'
  BY <1>1 DEF FullAtLimit, ReaderSeesAll
<1> QED
  BY <1>4, <1>5, <1>6 DEF ArrayInv

-----------------------------------------------------------------------------
(* The constructor.                                                         *)

LEMMA NoSlotInv ==
  ASSUME IInv, ArrayInv, Building, NoSlot PROVE ArrayInv'
<1>1. /\ UNCHANGED <<mem, pp1, pp2, pp3, pp4, c1, c2, c3, c4, count, p, added>>
      /\ pc' = "idle" /\ full' = TRUE /\ pp4' = NULL
  BY DEF NoSlot, ArrayInv, FirstSlots
<1>2. ~Building' /\ ~Built' /\ ~Built /\ pc # "count"
  BY <1>1 DEF Building, Built
<1>3. ~Usable(curChank)' /\ pieces' = pieces
  BY NothingLeft DEF NoSlot
<1>4. Counters' /\ SlotsApart' /\ LastFilled' /\ ReaderSeesAll'
  BY <1>1, <1>2, <1>3, NoWrite
<1>5. EntryThere'
  BY <1>1, <1>2, ArrayAssumption DEF ArrayInv, EntryThere, Counters
<1>6. FirstSlots' /\ JustStored' /\ FullForEver' /\ FullAtLimit'
  BY <1>1, <1>2, <1>3 DEF FirstSlots, JustStored, FullForEver, FullAtLimit
<1> QED
  BY <1>4, <1>5, <1>6 DEF ArrayInv

(* As long as the constructor runs, only the slots are of interest.         *)
LEMMA StillBuilding ==
  ASSUME ArrayInv, Building, Building', FirstSlots', UNCHANGED <<c1, c2, c3, c4, full, count, added>>
  PROVE  ArrayInv'
<1>1. ~Built /\ ~Built' /\ pc # "count" /\ pc' # "count" /\ ~full
  BY DEF Building, Built, ArrayInv, FullForEver
<1>2. c1 = 1 /\ c2 = 1 /\ c3 = 1 /\ c4 = 0 /\ N5 = count /\ count \in Nat
  BY <1>1, Numbers DEF ArrayInv, Counters
<1>3. N3' = N3 /\ N4' = N4 /\ N5' = N5
  BY DEF N3, N4, N5
<1>4. Counters'
  BY <1>1, <1>3 DEF ArrayInv, Counters
<1>5. EntryThere' /\ SlotsApart' /\ LastFilled' /\ JustStored'
  BY <1>1, <1>2, ArrayAssumption DEF EntryThere, SlotsApart, LastFilled, JustStored, Building
<1>6. FullForEver' /\ FullAtLimit'
  BY <1>1 DEF FullForEver, FullAtLimit, ArrayInv
<1>7. ReaderSeesAll'
  <2>1. N5 = 0
    BY <1>2, ArrayAssumption DEF N3, N4, N5
  <2> QED
    BY <1>2, <2>1 DEF ReaderSeesAll
<1> QED
  BY <1>4, <1>5, <1>6, <1>7 DEF ArrayInv

LEMMA NewSlot ==
  ASSUME IInv, Got(Base), NEW v, v = Piece(Base)
  PROVE  /\ IsSlot(v)' /\ v # NULL /\ v \in [chank : Chanks, from : Nat]
         /\ pieces \subseteq pieces'
         /\ \A a : IsSlot(a) => a # v /\ IsSlot(a)'
<1>1. /\ v \in [chank : Chanks, from : Nat]
      /\ [chank |-> v.chank, from |-> v.from, size |-> Base] \in pieces'
      /\ pieces \subseteq pieces'
      /\ \A q \in pieces : ~(q.chank = v.chank /\ q.from = v.from)
  BY NewPiece, ArrayAssumption
<1>2. IsSlot(v)'
  BY <1>1 DEF IsSlot
<1>3. v # NULL
  BY <1>1, ConstantsAssumption DEF NULL, Chanks
<1>4. ASSUME NEW a, IsSlot(a) PROVE a # v /\ IsSlot(a)'
  <2>1. [chank |-> a.chank, from |-> a.from, size |-> Base] \in pieces
    BY <1>4 DEF IsSlot
  <2>2. a # v
    BY <1>1, <2>1
  <2> QED
    BY <1>1, <1>4, <2>2, SlotStays
<1> QED
  BY <1>1, <1>2, <1>3, <1>4

LEMMA ZeroEntry == 0 % Base = 0 /\ 0 \div Base = 0 /\ 0 \in 0..(Base - 1)
BY ArrayAssumption

LEMMA New1Inv == ASSUME IInv, ArrayInv, New1 PROVE ArrayInv'
<1>0. Building
  BY DEF New1, Building
<1>1. CASE NoSlot
  BY <1>0, <1>1, NoSlotInv
<1>2. CASE Got(Base) /\ pp1' = Piece(Base) /\ pc' = "new2"
           /\ UNCHANGED <<mem, pp2, pp3, pp4, c1, c2, c3, c4, full, count, p, added, bounds>>
  <2>1. PICK v : v = pp1'
    OBVIOUS
  <2>2. IsSlot(pp1)'
    BY <1>2, <2>1, NewSlot DEF IsSlot
  <2>3. Building' /\ pp4' = NULL
    BY <1>0, <1>2 DEF Building, ArrayInv, FirstSlots
  <2>4. FirstSlots'
    BY <1>2, <2>2, <2>3 DEF FirstSlots
  <2> QED
    BY <1>0, <1>2, <2>3, <2>4, StillBuilding
<1> QED
  BY <1>1, <1>2 DEF New1

LEMMA New2Inv == ASSUME IInv, ArrayInv, New2 PROVE ArrayInv'
<1>0. Building /\ pc = "new2"
  BY DEF New2, Building
<1>1. CASE NoSlot
  BY <1>0, <1>1, NoSlotInv
<1>2. CASE Got(Base) /\ pp2' = Piece(Base) /\ mem' = Write(pp1, 0, pp2') /\ pc' = "new3"
           /\ UNCHANGED <<pp1, pp3, pp4, c1, c2, c3, c4, full, count, p, added, bounds>>
  <2>1. PICK v : v = pp2'
    OBVIOUS
  <2>2. IsSlot(pp1)
    BY <1>0 DEF ArrayInv, FirstSlots
  <2>3. IsSlot(v)' /\ pp1 # v /\ IsSlot(pp1)'
    BY <1>2, <2>1, <2>2, NewSlot DEF IsSlot
  <2>4. At(mem', pp1, 0) = v
    BY <1>2, <2>1, WriteOne
  <2>5. Slot2(0)' = v
    BY <1>2, <2>4, ReadIsAtPrime, ZeroEntry
  <2>6. Building' /\ pp4' = NULL
    BY <1>0, <1>2 DEF Building, ArrayInv, FirstSlots
  <2>7. FirstSlots'
    BY <1>2, <2>1, <2>3, <2>5, <2>6 DEF FirstSlots, IsSlot
  <2> QED
    BY <1>0, <1>2, <2>6, <2>7, StillBuilding
<1> QED
  BY <1>1, <1>2 DEF New2

LEMMA New3Inv == ASSUME IInv, ArrayInv, New3 PROVE ArrayInv'
<1>0. Building /\ pc = "new3" /\ PiecesApart
  BY DEF New3, Building, IInv
<1>1. CASE NoSlot
  BY <1>0, <1>1, NoSlotInv
<1>2. CASE Got(Base) /\ pp3' = Piece(Base) /\ mem' = Write(pp2, 0, pp3') /\ pc' = "new4"
           /\ UNCHANGED <<pp1, pp2, pp4, c1, c2, c3, c4, full, count, p, added, bounds>>
  <2>1. PICK v : v = pp3'
    OBVIOUS
  <2>2. IsSlot(pp1) /\ IsSlot(pp2) /\ pp2 # pp1 /\ Slot2(0) = pp2
    BY <1>0 DEF ArrayInv, FirstSlots
  <2>3. IsSlot(v)' /\ v \notin {pp1, pp2} /\ IsSlot(pp1)' /\ IsSlot(pp2)'
    BY <1>2, <2>1, <2>2, NewSlot DEF IsSlot
  <2>4. Word(pp1, 0) # Word(pp2, 0)
    BY <1>0, <2>2, WordsApart, ZeroEntry
  <2>5. At(mem', pp2, 0) = v /\ At(mem', pp1, 0) = At(mem, pp1, 0)
    BY <1>2, <2>1, <2>4, WriteOne
  <2>6. Slot2(0)' = pp2
    BY <1>2, <2>2, <2>5, ReadIsAt, ReadIsAtPrime, ZeroEntry
  <2>7. Slot3(0)' = v
    BY <2>5, <2>6, ReadIsAtPrime, ZeroEntry
  <2>8. Building' /\ pp4' = NULL
    BY <1>0, <1>2 DEF Building, ArrayInv, FirstSlots
  <2>9. FirstSlots'
    BY <1>2, <2>1, <2>2, <2>3, <2>6, <2>7, <2>8 DEF FirstSlots, IsSlot
  <2> QED
    BY <1>0, <1>2, <2>8, <2>9, StillBuilding
<1> QED
  BY <1>1, <1>2 DEF New3

(* With the fourth slot the array is there, with one entry in each slot but *)
(* the last.                                                                *)
LEMMA New4Inv == ASSUME IInv, ArrayInv, New4 PROVE ArrayInv'
<1>0. Building /\ pc = "new4" /\ PiecesApart
  BY DEF New4, Building, IInv
<1>1. CASE NoSlot
  BY <1>0, <1>1, NoSlotInv
<1>2. CASE Got(Base) /\ pp4' = Piece(Base) /\ mem' = Write(pp3, 0, pp4') /\ pc' = "idle"
           /\ UNCHANGED <<pp1, pp2, pp3, c1, c2, c3, c4, full, count, p, added, bounds>>
  <2>1. PICK v : v = pp4'
    OBVIOUS
  <2>2. /\ IsSlot(pp1) /\ IsSlot(pp2) /\ pp2 # pp1 /\ Slot2(0) = pp2
        /\ IsSlot(pp3) /\ pp3 \notin {pp1, pp2} /\ Slot3(0) = pp3
    BY <1>0 DEF ArrayInv, FirstSlots
  <2>3. /\ IsSlot(v)' /\ v \notin {pp1, pp2, pp3} /\ v # NULL
        /\ IsSlot(pp1)' /\ IsSlot(pp2)' /\ IsSlot(pp3)'
    BY <1>2, <2>1, <2>2, NewSlot DEF IsSlot
  <2>4. Word(pp1, 0) # Word(pp3, 0) /\ Word(pp2, 0) # Word(pp3, 0)
    BY <1>0, <2>2, WordsApart, ZeroEntry
  <2>5. /\ At(mem', pp3, 0) = v
        /\ At(mem', pp1, 0) = At(mem, pp1, 0) /\ At(mem', pp2, 0) = At(mem, pp2, 0)
    BY <1>2, <2>1, <2>4, WriteOne
  <2>6. Slot2(0)' = pp2
    BY <1>2, <2>2, <2>5, ReadIsAt, ReadIsAtPrime, ZeroEntry
  <2>7. Slot3(0)' = pp3
    BY <2>2, <2>5, <2>6, ReadIsAt, ReadIsAtPrime, ZeroEntry
  <2>8. Slot4(0)' = v
    BY <2>5, <2>7, ReadIsAtPrime, ZeroEntry
  <2>9. ~Building' /\ Built' /\ ~Built /\ ~full
    BY <1>0, <1>2, <2>1, <2>3 DEF Building, Built, ArrayInv, FullForEver
  <2>10. /\ c1 = 1 /\ c2 = 1 /\ c3 = 1 /\ c4 = 0 /\ N5 = count /\ Counters
         /\ c1' = 1 /\ c2' = 1 /\ c3' = 1 /\ c4' = 0
    BY <1>0, <1>2, <2>9 DEF ArrayInv, Counters
  <2>11. N3' = 1 /\ N4' = 1 /\ N5' = 0 /\ N5 = 0 /\ N3 = 1 /\ N4 = 1
    BY <2>10, ArrayAssumption DEF N3, N4, N5
  <2>12. Counters'
    BY <1>0, <1>2, <2>9, <2>10, <2>11 DEF Counters
  <2>13. EntryThere'
    BY <1>2, <2>10, ArrayAssumption DEF EntryThere
  <2>14. LastFilled'
    BY <1>2, <2>1, <2>6, <2>7, <2>8, <2>10, <2>11 DEF LastFilled
  <2>15. \A l \in 1..4 : Last(l)' = 0
    BY <2>10, <2>11 DEF Last
  <2>16. Slot(1, 0)' = pp1 /\ Slot(2, 0)' = pp2 /\ Slot(3, 0)' = pp3 /\ Slot(4, 0)' = v
    BY <1>2, <2>6, <2>7, <2>8 DEF Slot
  <2>17. SlotsApart'
    <3> SUFFICES ASSUME NEW l \in 1..4, NEW m \in 1..4
                 PROVE  IsSlot(Slot(l, 0))' /\ (Slot(l, 0)' = Slot(m, 0)' => l = m)
      BY <2>15 DEF SlotsApart
    <3>1. IsSlot(Slot(l, 0))'
      <4>1. l \in {1, 2, 3, 4}
        OBVIOUS
      <4>2. PICK a : a = Slot(l, 0)'
        OBVIOUS
      <4>3. a = pp1 \/ a = pp2 \/ a = pp3 \/ a = v
        BY <2>16, <4>1, <4>2
      <4>4. IsSlot(a)'
        BY <1>2, <2>3, <4>3 DEF IsSlot
      <4> QED
        BY <4>2, <4>4 DEF IsSlot
    <3>2. Slot(l, 0)' = Slot(m, 0)' => l = m
      <4>1. l \in {1, 2, 3, 4} /\ m \in {1, 2, 3, 4}
        OBVIOUS
      <4> QED
        BY <2>2, <2>3, <2>16, <4>1
    <3> QED
      BY <3>1, <3>2
  <2>18. FirstSlots' /\ JustStored' /\ FullForEver' /\ FullAtLimit'
    BY <1>2, <2>9 DEF FirstSlots, JustStored, FullForEver, FullAtLimit, ArrayInv
  <2>19. ReaderSeesAll'
    BY <1>2, <2>10, <2>11 DEF ReaderSeesAll
  <2> QED
    BY <2>12, <2>13, <2>14, <2>17, <2>18, <2>19 DEF ArrayInv
<1> QED
  BY <1>1, <1>2 DEF New4

-----------------------------------------------------------------------------
(* A level gets a new slot.                                                 *)

LEMMA Row == ASSUME NEW n \in Nat \ {0} PROVE (n - 1) * Base + Base = n * Base
<1>1. PICK m \in Nat : n = m + 1
  <2>1. n - 1 \in Nat /\ n = (n - 1) + 1
    OBVIOUS
  <2> QED
    BY <2>1
<1>2. (m + 1) * Base = m * Base + Base /\ n - 1 = m
  BY <1>1, Larger
<1> QED
  BY <1>1, <1>2

LEMMA KeptSlots ==
  ASSUME Counters, Kept, pp1' = pp1, NEW m \in 1..4, NEW j \in 0..Last(m)
  PROVE  Slot(m, j)' = Slot(m, j)
<1>1. m \in {1, 2, 3, 4}
  OBVIOUS
<1>2. CASE m = 1
  BY <1>2 DEF Slot
<1>3. CASE m = 2
  <2>1. j \in 0..(c1 - 1) /\ Slot2(j)' = Slot2(j)
    BY <1>3, Levels, Zenon DEF Kept
  <2> QED
    BY <1>3, <2>1 DEF Slot
<1>4. CASE m = 3
  <2>1. j \in 0..(N3 - 1) /\ Slot3(j)' = Slot3(j)
    BY <1>4, Levels, Zenon DEF Kept
  <2> QED
    BY <1>4, <2>1 DEF Slot
<1>5. CASE m = 4
  <2>1. j \in 0..(N4 - 1) /\ Slot4(j)' = Slot4(j)
    BY <1>5, Levels, Zenon DEF Kept
  <2> QED
    BY <1>5, <2>1 DEF Slot
<1> QED
  BY <1>1, <1>2, <1>3, <1>4, <1>5

LEMMA SlotAdded ==
  ASSUME IInv, Counters, SlotsApart, Built, Kept, pp1' = pp1,
         Got(Base), NEW v, v = Piece(Base),
         NEW l \in 1..4, NEW n, n = Last(l) + 1, Slot(l, n)' = v,
         \A m \in 1..4 : Last(m) \in Nat /\ Last(m)' = IF m = l THEN n ELSE Last(m)
  PROVE  SlotsApart'
<1>1. /\ IsSlot(v)' /\ \A a : IsSlot(a) => a # v /\ IsSlot(a)'
  BY NewSlot
<1>2. \A m \in 1..4 : \A j \in 0..Last(m) : Slot(m, j)' = Slot(m, j)
  BY KeptSlots
<1>3. ASSUME NEW m \in 1..4, NEW j \in 0..Last(m)
      PROVE  IsSlot(Slot(m, j))' /\ Slot(m, j)' # v
  <2>1. PICK a : a = Slot(m, j)
    OBVIOUS
  <2>2. IsSlot(a) /\ Slot(m, j)' = a
    BY <1>2, <2>1, SlotFacts
  <2>3. a # v /\ IsSlot(a)'
    BY <1>1, <2>2
  <2> QED
    BY <2>2, <2>3 DEF IsSlot
<1>4. \A m \in 1..4 : \A j \in 0..Last(m)' : j \in 0..Last(m) \/ (m = l /\ j = n)
  OBVIOUS
<1>5. ASSUME NEW m \in 1..4, NEW j \in 0..Last(m)' PROVE IsSlot(Slot(m, j))'
  <2>1. CASE j \in 0..Last(m)
    BY <1>3, <2>1
  <2>2. CASE m = l /\ j = n
    BY <1>1, <2>2 DEF IsSlot
  <2> QED
    BY <1>4, <1>5, <2>1, <2>2
<1>6. ASSUME NEW m \in 1..4, NEW j \in 0..Last(m)', NEW k \in 1..4, NEW i \in 0..Last(k)',
             Slot(m, j)' = Slot(k, i)'
      PROVE  m = k /\ j = i
  <2>1. CASE j \in 0..Last(m) /\ i \in 0..Last(k)
    <3>1. Slot(m, j) = Slot(k, i)
      BY <1>2, <1>6, <2>1
    <3> QED
      BY <2>1, <3>1, SlotFacts
  <2>2. CASE ~(j \in 0..Last(m))
    <3>1. m = l /\ j = n /\ Slot(m, j)' = v
      BY <1>4, <1>6, <2>2
    <3>2. ~(i \in 0..Last(k))
      BY <1>3, <1>6, <3>1
    <3> QED
      BY <1>4, <1>6, <3>1, <3>2
  <2>3. CASE ~(i \in 0..Last(k))
    <3>1. k = l /\ i = n /\ Slot(k, i)' = v
      BY <1>4, <1>6, <2>3
    <3>2. ~(j \in 0..Last(m))
      BY <1>3, <1>6, <3>1
    <3> QED
      BY <1>4, <1>6, <3>1, <3>2
  <2> QED
    BY <2>1, <2>2, <2>3
<1> QED
  BY <1>5, <1>6 DEF SlotsApart

LEMMA GrownRest ==
  ASSUME IInv, ArrayInv, Kept, N5' = N5, Built,
         pc \in {"level2", "level3", "level4"}, pc' \in {"level3", "level4", "store"},
         pp4' # NULL, UNCHANGED <<full, count, p, added>>
  PROVE  /\ Built'
         /\ FirstSlots' /\ JustStored' /\ FullForEver' /\ FullAtLimit' /\ ReaderSeesAll'
<1>1. ~full /\ ~Building /\ ~Building' /\ Built'
  BY InAdd DEF Building, Built
<1>2. FirstSlots' /\ JustStored' /\ FullForEver' /\ FullAtLimit'
  BY <1>1 DEF FirstSlots, JustStored, FullForEver, FullAtLimit, ArrayInv
<1>3. ReaderSeesAll'
  <2>1. N5 = count
    BY DEF ArrayInv, Counters
  <2> QED
    BY <2>1 DEF Kept, ReaderSeesAll, ArrayInv
<1> QED
  BY <1>1, <1>2, <1>3

LEMMA Level2Grows ==
  ASSUME IInv, ArrayInv, pc = "level2", c2 = Base, c1 < Base, Got(Base),
         pp2' = Piece(Base), mem' = Write(pp1, c1, pp2'), c2' = 0, c1' = c1 + 1, pc' = "level3",
         UNCHANGED <<pp1, pp3, pp4, c3, c4, full, count, p, added, bounds>>
  PROVE  ArrayInv'
<1>0. PiecesApart /\ Counters /\ SlotsApart /\ LastFilled /\ EntryThere
  BY DEF IInv, ArrayInv
<1>1. /\ Base \in Nat /\ Base >= 2 /\ c1 \in 1..Base
      /\ c2 \in 0..Base /\ c3 \in 0..Base /\ c4 \in 0..Base
      /\ N3 \in Nat \ {0} /\ N4 \in Nat \ {0} /\ N5 \in Nat
      /\ N3 = (c1 - 1) * Base + c2
  BY <1>0, Numbers
<1>2. Built
  BY InAdd
<1>3. Kept
  BY <1>0, <1>2, Levels, WriteKeeps
<1>4. PICK v : v = pp2'
  OBVIOUS
<1>5. PICK n \in Nat : n = c1
  BY <1>1
<1>6. At(mem', pp1, n) = v /\ n % Base = n /\ n < Base
  <2>1. At(mem', pp1, n) = v
    BY <1>4, <1>5, WriteOne
  <2> QED
    BY <1>1, <1>5, <2>1
<1>7. Slot2(n)' = v
  BY <1>6, ReadIsAtPrime
<1>8. N3' = N3 /\ N4' = N4 /\ N5' = N5
  <2>1. (n - 1) * Base + Base = n * Base /\ n * Base \in Nat
    BY <1>1, <1>5, Row, Products
  <2>2. N3' = (n + 1 - 1) * Base + 0 /\ N3 = (n - 1) * Base + Base
    BY <1>1, <1>5 DEF N3
  <2>3. n + 1 - 1 = n
    OBVIOUS
  <2>4. N3' = N3
    BY <2>1, <2>2, <2>3
  <2> QED
    BY <2>4 DEF N4, N5
<1>9. /\ Built' /\ ~full
      /\ FirstSlots' /\ JustStored' /\ FullForEver' /\ FullAtLimit' /\ ReaderSeesAll'
  <2>1. pp4' # NULL
    BY <1>2 DEF Built
  <2> QED
    BY <1>2, <1>3, <1>8, <2>1, GrownRest, InAdd
<1>10. Counters'
  BY <1>0, <1>1, <1>8, <1>9 DEF Counters
<1>11. EntryThere'
  BY <1>0, <1>1 DEF EntryThere
<1>12. LastFilled'
  <2>1. pp2' = Slot2(n)' /\ c1' - 1 = n
    BY <1>4, <1>5, <1>7
  <2>2. PICK i \in 0..(N3 - 1) : i = N3 - 1
    BY <1>1
  <2>3. PICK j \in 0..(N4 - 1) : j = N4 - 1
    BY <1>1
  <2>4. pp3 = Slot3(i) /\ pp4 = Slot4(j)
    BY <1>0, <1>2, <2>2, <2>3 DEF LastFilled
  <2>5. pp3' = Slot3(i)' /\ pp4' = Slot4(j)'
    BY <1>3, <2>4 DEF Kept
  <2>6. N3' - 1 = i /\ N4' - 1 = j
    BY <1>8, <2>2, <2>3
  <2> QED
    BY <2>1, <2>5, <2>6 DEF LastFilled
<1>13. SlotsApart'
  <2>1. n = Last(2) + 1 /\ Slot(2, n)' = v
    BY <1>1, <1>5, <1>7, Levels DEF Slot
  <2>2. \A m \in 1..4 : Last(m) \in Nat /\ Last(m)' = IF m = 2 THEN n ELSE Last(m)
    BY <1>1, <1>5, <1>8 DEF Last
  <2> QED
    BY <1>0, <1>2, <1>3, <1>4, <2>1, <2>2, SlotAdded
<1> QED
  BY <1>9, <1>10, <1>11, <1>12, <1>13 DEF ArrayInv

LEMMA Level3Grows ==
  ASSUME IInv, ArrayInv, pc = "level3", c3 = Base, Got(Base),
         pp3' = Piece(Base), mem' = Write(pp2, c2, pp3'), c3' = 0, c2' = c2 + 1, pc' = "level4",
         UNCHANGED <<pp1, pp2, pp4, c1, c4, full, count, p, added, bounds>>
  PROVE  ArrayInv'
<1>0. PiecesApart /\ Counters /\ SlotsApart /\ LastFilled /\ EntryThere
  BY DEF IInv, ArrayInv
<1>1. /\ Base \in Nat /\ Base >= 2 /\ c1 \in 1..Base
      /\ c2 \in 0..Base /\ c3 \in 0..Base /\ c4 \in 0..Base
      /\ N3 \in Nat \ {0} /\ N4 \in Nat \ {0} /\ N5 \in Nat
      /\ N3 = (c1 - 1) * Base + c2 /\ N4 = (N3 - 1) * Base + c3
  BY <1>0, Numbers
<1>2. Built /\ c2 < Base
  BY <1>0, InAdd DEF EntryThere
<1>3. pp2 = Slot(2, Last(2)) /\ pp2 = Slot2(c1 - 1)
  BY <1>0, <1>2, Levels DEF LastFilled
<1>4. PICK v : v = pp3'
  OBVIOUS
<1>5. Kept
  BY <1>0, <1>2, <1>3, Levels, WriteKeeps
<1>6. PICK n \in Nat : n = N3
  BY <1>1
<1>7. PICK q \in 0..(c1 - 1) : q = c1 - 1
  BY <1>1
<1>8. n \div Base = q /\ n % Base = c2
  <2>1. q \in Nat /\ c2 \in 0..(Base - 1) /\ n = q * Base + c2
    BY <1>1, <1>2, <1>6, <1>7
  <2> QED
    BY <2>1, Joined
<1>9. Slot3(n)' = v
  <2>1. Slot2(q)' = pp2
    BY <1>3, <1>5, <1>7 DEF Kept
  <2>2. At(mem', pp2, c2) = v
    BY <1>4, WriteOne
  <2> QED
    BY <1>8, <2>1, <2>2, ReadIsAtPrime
<1>10. N3' = n + 1 /\ N4' = N4 /\ N5' = N5
  <2>1. N3' = n + 1
    <3>1. PICK a \in Nat : a = (c1 - 1) * Base
      BY <1>1, <1>7, Products
    <3> QED
      BY <1>1, <1>6, <3>1 DEF N3
  <2>2. (n - 1) * Base + Base = n * Base /\ n * Base \in Nat
    BY <1>1, <1>6, Row, Products
  <2>3. N4' = (n + 1 - 1) * Base + 0 /\ N4 = (n - 1) * Base + Base
    BY <1>1, <1>6, <2>1 DEF N4
  <2>4. n + 1 - 1 = n
    OBVIOUS
  <2>5. N4' = N4
    BY <2>2, <2>3, <2>4
  <2> QED
    BY <2>1, <2>5 DEF N5
<1>11. /\ Built' /\ ~full
       /\ FirstSlots' /\ JustStored' /\ FullForEver' /\ FullAtLimit' /\ ReaderSeesAll'
  <2>1. pp4' # NULL
    BY <1>2 DEF Built
  <2> QED
    BY <1>2, <1>5, <1>10, <2>1, GrownRest, InAdd
<1>12. Counters'
  BY <1>0, <1>1, <1>2, <1>10, <1>11 DEF Counters
<1>13. EntryThere'
  BY <1>0, <1>1, <1>2 DEF EntryThere
<1>14. LastFilled'
  <2>1. pp3' = Slot3(n)' /\ N3' - 1 = n
    BY <1>4, <1>9, <1>10
  <2>2. pp2' = Slot2(q)' /\ c1' - 1 = q
    BY <1>3, <1>5, <1>7 DEF Kept
  <2>3. PICK j \in 0..(N4 - 1) : j = N4 - 1
    BY <1>1
  <2>4. pp4 = Slot4(j)
    BY <1>0, <1>2, <2>3 DEF LastFilled
  <2>5. pp4' = Slot4(j)' /\ N4' - 1 = j
    BY <1>5, <1>10, <2>3, <2>4 DEF Kept
  <2> QED
    BY <2>1, <2>2, <2>5 DEF LastFilled
<1>15. SlotsApart'
  <2>1. n = Last(3) + 1 /\ Slot(3, n)' = v
    BY <1>1, <1>6, <1>9, Levels DEF Slot
  <2>2. \A m \in 1..4 : Last(m) \in Nat /\ Last(m)' = IF m = 3 THEN n ELSE Last(m)
    BY <1>1, <1>6, <1>10 DEF Last
  <2> QED
    BY <1>0, <1>2, <1>4, <1>5, <2>1, <2>2, SlotAdded
<1> QED
  BY <1>11, <1>12, <1>13, <1>14, <1>15 DEF ArrayInv

LEMMA Level4Grows ==
  ASSUME IInv, ArrayInv, pc = "level4", c4 = Base, Got(Base),
         pp4' = Piece(Base), mem' = Write(pp3, c3, pp4'), c4' = 0, c3' = c3 + 1, pc' = "store",
         UNCHANGED <<pp1, pp2, pp3, c1, c2, full, count, p, added, bounds>>
  PROVE  ArrayInv'
<1>0. PiecesApart /\ Counters /\ SlotsApart /\ LastFilled /\ EntryThere
  BY DEF IInv, ArrayInv
<1>1. /\ Base \in Nat /\ Base >= 2 /\ c1 \in 1..Base
      /\ c2 \in 0..Base /\ c3 \in 0..Base /\ c4 \in 0..Base
      /\ N3 \in Nat \ {0} /\ N4 \in Nat \ {0} /\ N5 \in Nat
      /\ N4 = (N3 - 1) * Base + c3 /\ N5 = (N4 - 1) * Base + c4
  BY <1>0, Numbers
<1>2. Built /\ c3 < Base /\ c2 # Base
  BY <1>0, <1>1, InAdd DEF EntryThere
<1>3. pp3 = Slot(3, Last(3)) /\ pp3 = Slot3(N3 - 1)
  BY <1>0, <1>2, Levels DEF LastFilled
<1>4. PICK v : v = pp4'
  OBVIOUS
<1>5. Kept
  BY <1>0, <1>2, <1>3, Levels, WriteKeeps
<1>6. PICK n \in Nat : n = N4
  BY <1>1
<1>7. PICK q \in 0..(N3 - 1) : q = N3 - 1
  BY <1>1
<1>8. n \div Base = q /\ n % Base = c3
  <2>1. q \in Nat /\ c3 \in 0..(Base - 1) /\ n = q * Base + c3
    BY <1>1, <1>2, <1>6, <1>7
  <2> QED
    BY <2>1, Joined
<1>9. Slot4(n)' = v
  <2>1. Slot3(q)' = pp3
    BY <1>3, <1>5, <1>7 DEF Kept
  <2>2. At(mem', pp3, c3) = v
    BY <1>4, WriteOne
  <2> QED
    BY <1>8, <2>1, <2>2, ReadIsAtPrime
<1>10. N3' = N3 /\ N4' = n + 1 /\ N5' = N5
  <2>0. N3' = N3
    BY DEF N3
  <2>1. N4' = n + 1
    <3>1. PICK a \in Nat : a = (N3 - 1) * Base
      BY <1>1, <1>7, Products
    <3> QED
      BY <1>1, <1>6, <2>0, <3>1 DEF N4
  <2>2. (n - 1) * Base + Base = n * Base /\ n * Base \in Nat
    BY <1>1, <1>6, Row, Products
  <2>3. N5' = (n + 1 - 1) * Base + 0 /\ N5 = (n - 1) * Base + Base
    BY <1>1, <1>6, <2>1 DEF N5
  <2>4. n + 1 - 1 = n
    OBVIOUS
  <2> QED
    BY <2>0, <2>1, <2>2, <2>3, <2>4
<1>11. /\ Built' /\ ~full
       /\ FirstSlots' /\ JustStored' /\ FullForEver' /\ FullAtLimit' /\ ReaderSeesAll'
  <2>1. pp4' # NULL
    BY NewSlot
  <2> QED
    BY <1>2, <1>5, <1>10, <2>1, GrownRest, InAdd
<1>12. Counters'
  BY <1>0, <1>1, <1>2, <1>10, <1>11 DEF Counters
<1>13. EntryThere'
  BY <1>0, <1>1, <1>2 DEF EntryThere
<1>14. LastFilled'
  <2>1. pp4' = Slot4(n)' /\ N4' - 1 = n
    BY <1>4, <1>9, <1>10
  <2>2. pp3' = Slot3(q)' /\ N3' - 1 = q
    BY <1>3, <1>5, <1>7, <1>10 DEF Kept
  <2>3. PICK j \in 0..(c1 - 1) : j = c1 - 1
    BY <1>1
  <2>4. pp2 = Slot2(j)
    BY <1>0, <1>2, <2>3 DEF LastFilled
  <2>5. pp2' = Slot2(j)' /\ c1' - 1 = j
    BY <1>5, <2>3, <2>4 DEF Kept
  <2> QED
    BY <2>1, <2>2, <2>5 DEF LastFilled
<1>15. SlotsApart'
  <2>1. n = Last(4) + 1 /\ Slot(4, n)' = v
    BY <1>1, <1>6, <1>9, Levels DEF Slot
  <2>2. \A m \in 1..4 : Last(m) \in Nat /\ Last(m)' = IF m = 4 THEN n ELSE Last(m)
    BY <1>1, <1>6, <1>10 DEF Last
  <2> QED
    BY <1>0, <1>2, <1>4, <1>5, <2>1, <2>2, SlotAdded
<1> QED
  BY <1>11, <1>12, <1>13, <1>14, <1>15 DEF ArrayInv

(* The last entries of all levels are gone at once, one node after the last *)
(* slot of the lowest level was taken.                                      *)
LEMMA CountAtLimit ==
  ASSUME Counters, EntryThere, pc = "level2", c1 = Base, c2 = Base
  PROVE  count = Limit - Base * Base - Base + 2
<1>0. /\ Base \in Nat /\ Base >= 2 /\ c3 = 0 /\ c4 = 2
      /\ N3 = (Base - 1) * Base + Base /\ N4 = (N3 - 1) * Base + 0 /\ N5 = (N4 - 1) * Base + 2
      /\ N3 \in Nat \ {0} /\ N4 \in Nat \ {0} /\ N5 = count
  BY Numbers DEF EntryThere, Counters
<1>1. PICK s \in Nat : s = Base * Base
  BY <1>0
<1>2. N3 = s
  BY <1>0, <1>1, Row
<1>3. PICK t \in Nat : t = s * Base
  BY <1>0, <1>1
<1>4. N4 + Base = t
  <2>1. (N3 - 1) * Base + Base = N3 * Base
    BY <1>0, Row
  <2> QED
    BY <1>0, <1>2, <1>3, <2>1
<1>5. PICK u \in Nat : u = t * Base
  BY <1>0, <1>3
<1>6. PICK n \in Nat \ {0} : n = N4
  BY <1>0
<1>7. n * Base + s = u
  <2>1. (n + Base) * Base = n * Base + Base * Base
    BY <1>0, <1>6
  <2>2. n + Base = t
    BY <1>4, <1>6
  <2> QED
    BY <1>1, <1>5, <2>1, <2>2
<1>8. PICK m \in Nat : m = n * Base
  BY <1>0, <1>6, Products
<1>9. N5 + Base = m + 2
  <2>1. (n - 1) * Base + Base = n * Base
    BY <1>6, Row
  <2>2. PICK k \in Nat : k = (n - 1) * Base
    <3>1. n - 1 \in Nat
      BY <1>6
    <3> QED
      BY <1>0, <3>1, Products
  <2> QED
    BY <1>0, <1>6, <1>8, <2>1, <2>2
<1>10. Limit = u
  BY <1>1, <1>3, <1>5 DEF Limit
<1>11. N5 + Base + s = u + 2
  BY <1>0, <1>1, <1>5, <1>7, <1>8, <1>9
<1>12. count \in Nat
  BY <1>0, Numbers
<1>13. count = u - s - Base + 2
  BY <1>0, <1>11, <1>12
<1> QED
  BY <1>1, <1>10, <1>13

LEMMA Level2Inv == ASSUME IInv, ArrayInv, Level2 PROVE ArrayInv'
<1>0. pc = "level2" /\ Counters /\ EntryThere
  BY DEF Level2, ArrayInv
<1>1. CASE c2 < Base /\ HasEntry("level3")
  BY <1>0, <1>1, HasEntryInv
<1>2. CASE c2 = Base /\ c1 = Base /\ GiveUp /\ UNCHANGED memBuf
  <2>1. count' = Limit - Base * Base - Base + 2 /\ pieces' = pieces
    BY <1>0, <1>2, CountAtLimit DEF GiveUp, memBuf, vars
  <2> QED
    BY <1>0, <1>2, <2>1, GiveUpInv
<1>3. CASE NotGot(Base) /\ GiveUp
  BY <1>0, <1>3, NothingLeft, GiveUpInv
<1>4. CASE /\ c2 = Base /\ c1 < Base /\ Got(Base)
           /\ pp2' = Piece(Base) /\ mem' = Write(pp1, c1, pp2')
           /\ c2' = 0 /\ c1' = c1 + 1
           /\ pc' = "level3"
           /\ UNCHANGED <<pp1, pp3, pp4, c3, c4, full, count, p, added, bounds>>
  BY <1>0, <1>4, Level2Grows
<1> QED
  BY <1>1, <1>2, <1>3, <1>4 DEF Level2

LEMMA Level3Inv == ASSUME IInv, ArrayInv, Level3 PROVE ArrayInv'
<1>0. pc = "level3"
  BY DEF Level3
<1>1. CASE c3 < Base /\ HasEntry("level4")
  BY <1>0, <1>1, HasEntryInv
<1>2. CASE NotGot(Base) /\ GiveUp
  BY <1>0, <1>2, NothingLeft, GiveUpInv
<1>3. CASE /\ c3 = Base /\ Got(Base)
           /\ pp3' = Piece(Base) /\ mem' = Write(pp2, c2, pp3')
           /\ c3' = 0 /\ c2' = c2 + 1
           /\ pc' = "level4"
           /\ UNCHANGED <<pp1, pp2, pp4, c1, c4, full, count, p, added, bounds>>
  BY <1>0, <1>3, Level3Grows
<1> QED
  BY <1>1, <1>2, <1>3 DEF Level3

LEMMA Level4Inv == ASSUME IInv, ArrayInv, Level4 PROVE ArrayInv'
<1>0. pc = "level4"
  BY DEF Level4
<1>1. CASE c4 < Base /\ HasEntry("store")
  BY <1>0, <1>1, HasEntryInv
<1>2. CASE c4 = Base /\ NotGot(Base) /\ GiveUp
  BY <1>0, <1>2, NothingLeft, GiveUpInv
<1>3. CASE /\ c4 = Base /\ Got(Base)
           /\ pp4' = Piece(Base) /\ mem' = Write(pp3, c3, pp4')
           /\ c4' = 0 /\ c3' = c3 + 1
           /\ pc' = "store"
           /\ UNCHANGED <<pp1, pp2, pp3, c1, c2, full, count, p, added, bounds>>
  BY <1>0, <1>3, Level4Grows
<1> QED
  BY <1>1, <1>2, <1>3 DEF Level4

(* The node gets its entry; from now on it is found under its number, and   *)
(* nothing that was found before is lost.                                   *)
LEMMA StoreInv == ASSUME IInv, ArrayInv, Store PROVE ArrayInv'
<1>0. /\ pc = "store" /\ mem' = Write(pp4, c4, p) /\ c4' = c4 + 1 /\ pc' = "count"
      /\ UNCHANGED <<pieces, curChank, chankEnd>>
      /\ UNCHANGED <<pp1, pp2, pp3, pp4, c1, c2, c3, full, count, p, added>>
      /\ PiecesApart /\ Counters /\ SlotsApart /\ LastFilled /\ EntryThere
  BY DEF Store, memBuf, vars, IInv, ArrayInv
<1>1. /\ Base \in Nat /\ Base >= 2 /\ c1 \in 1..Base
      /\ c2 \in 0..Base /\ c3 \in 0..Base /\ c4 \in 0..Base
      /\ N3 \in Nat \ {0} /\ N4 \in Nat \ {0} /\ N5 \in Nat
      /\ N5 = (N4 - 1) * Base + c4 /\ N5 = count
  BY <1>0, Numbers DEF Counters
<1>2. Built /\ ~full /\ ~Building /\ ~Building' /\ c4 < Base
  BY <1>0, InAdd DEF EntryThere, Building
<1>3. pp4 = Slot(4, Last(4)) /\ pp4 = Slot4(N4 - 1)
  BY <1>0, <1>2, Levels DEF LastFilled
<1>4. Built'
  BY <1>0, <1>2 DEF Built
<1>5. Kept
  BY <1>0, <1>2, <1>3, Levels, WriteKeeps
<1>6. PICK q \in 0..(N4 - 1) : q = N4 - 1
  BY <1>1
<1>7. PICK n \in Nat : n = N5
  BY <1>1
<1>8. n \div Base = q /\ n % Base = c4
  <2>1. q \in Nat /\ c4 \in 0..(Base - 1) /\ n = q * Base + c4
    BY <1>1, <1>2, <1>6, <1>7
  <2> QED
    BY <2>1, Joined
<1>9. Get(n)' = p
  <2>1. Slot4(q)' = pp4
    BY <1>3, <1>5, <1>6 DEF Kept
  <2>2. At(mem', pp4, c4) = p
    BY <1>0, WriteOne
  <2> QED
    BY <1>8, <2>1, <2>2, ReadIsAtPrime
<1>10. N3' = N3 /\ N4' = N4 /\ N5' = n + 1
  <2>1. N3' = N3 /\ N4' = N4
    BY <1>0 DEF N3, N4
  <2>2. PICK a \in Nat : a = (N4 - 1) * Base
    BY <1>1, <1>6, Products
  <2>3. N5' = n + 1
    BY <1>0, <1>1, <1>7, <2>1, <2>2 DEF N5
  <2> QED
    BY <2>1, <2>3
<1>11. Counters'
  BY <1>0, <1>1, <1>2, <1>4, <1>7, <1>10 DEF Counters
<1>12. EntryThere'
  BY <1>0, <1>1, <1>2 DEF EntryThere
<1>13. LastFilled'
  <2>1. PICK i \in 0..(N3 - 1) : i = N3 - 1
    BY <1>1
  <2>2. PICK j \in 0..(c1 - 1) : j = c1 - 1
    BY <1>1
  <2>3. pp2' = Slot2(j)' /\ pp3' = Slot3(i)' /\ pp4' = Slot4(q)'
    BY <1>0, <1>2, <1>5, <1>6, <2>1, <2>2 DEF Kept, LastFilled
  <2>4. c1' - 1 = j /\ N3' - 1 = i /\ N4' - 1 = q
    BY <1>0, <1>6, <1>10, <2>1, <2>2
  <2> QED
    BY <2>3, <2>4 DEF LastFilled
<1>14. SlotsApart'
  <2>1. \A m \in 1..4 : Last(m)' = Last(m)
    BY <1>0, <1>10 DEF Last
  <2>2. \A m \in 1..4 : \A j \in 0..Last(m) : Slot(m, j)' = Slot(m, j)
    BY <1>0, <1>5, KeptSlots
  <2>3. ASSUME NEW m \in 1..4, NEW j \in 0..Last(m)
        PROVE  IsSlot(Slot(m, j))'
    <3>1. IsSlot(Slot(m, j))
      BY <1>0, <1>2, SlotFacts
    <3> QED
      BY <1>0, <2>2, <3>1 DEF IsSlot
  <2>4. ASSUME NEW m \in 1..4, NEW j \in 0..Last(m), NEW k \in 1..4, NEW i \in 0..Last(k),
               Slot(m, j)' = Slot(k, i)'
        PROVE  m = k /\ j = i
    BY <1>0, <1>2, <2>2, <2>4, SlotFacts
  <2> QED
    BY <2>1, <2>3, <2>4 DEF SlotsApart
<1>15. JustStored'
  BY <1>0, <1>1, <1>7, <1>9 DEF JustStored, ArrayInv
<1>16. FirstSlots' /\ FullForEver' /\ FullAtLimit'
  BY <1>0, <1>2, <1>4 DEF FirstSlots, FullForEver, FullAtLimit, ArrayInv
<1>17. ReaderSeesAll'
  BY <1>0, <1>1, <1>5 DEF Kept, ReaderSeesAll, ArrayInv
<1> QED
  BY <1>11, <1>12, <1>13, <1>14, <1>15, <1>16, <1>17 DEF ArrayInv

LEMMA CountItInv == ASSUME ArrayInv, CountIt PROVE ArrayInv'
<1>0. /\ pc = "count" /\ count' = count + 1 /\ added' = Append(added, p) /\ pc' = "idle"
      /\ UNCHANGED <<mem, pp1, pp2, pp3, pp4, c1, c2, c3, c4, full, p>>
      /\ UNCHANGED <<pieces, curChank, chankEnd>>
      /\ Counters /\ SlotsApart /\ LastFilled /\ EntryThere /\ ReaderSeesAll /\ JustStored
  BY DEF CountIt, memBuf, vars, ArrayInv
<1>1. Built /\ ~full /\ ~Building /\ ~Building' /\ Built'
  BY <1>0, InAdd DEF Building, Built
<1>2. /\ N3' = N3 /\ N4' = N4 /\ N5' = N5
      /\ \A k : Get(k)' = Get(k)
  BY <1>0, SameTree
<1>3. /\ p \in [chank : Chanks, from : Nat] /\ added \in Seq([chank : Chanks, from : Nat])
      /\ Len(added) = count /\ count \in Nat /\ N5 = count + 1
  BY <1>0 DEF JustStored, Counters
<1>4. /\ added' \in Seq([chank : Chanks, from : Nat]) /\ Len(added') = count + 1
      /\ added'[count + 1] = p
      /\ \A i \in 1..count : added'[i] = added[i]
  BY <1>0, <1>3
<1>5. Counters'
  BY <1>0, <1>1, <1>2, <1>3, <1>4 DEF Counters
<1>6. EntryThere'
  BY <1>0 DEF EntryThere
<1>7. SlotsApart' /\ LastFilled'
  BY <1>0, <1>1, SameSlots
<1>8. FirstSlots' /\ JustStored' /\ FullForEver' /\ FullAtLimit'
  BY <1>0, <1>1 DEF FirstSlots, JustStored, FullForEver, FullAtLimit, ArrayInv
<1>9. ReaderSeesAll'
  <2> SUFFICES ASSUME NEW i \in 0..count PROVE Get(i) = added'[i + 1]
    BY <1>0, <1>2, <1>3 DEF ReaderSeesAll
  <2>1. CASE i = count
    BY <1>0, <1>4, <2>1 DEF JustStored
  <2>2. CASE i \in 0..(count - 1)
    BY <1>0, <1>3, <1>4, <2>2 DEF ReaderSeesAll
  <2> QED
    BY <1>3, <2>1, <2>2
<1> QED
  BY <1>5, <1>6, <1>7, <1>8, <1>9 DEF ArrayInv

-----------------------------------------------------------------------------
(* The array as a whole.                                                    *)

LEMMA InitArrayInv == ArrayInit => IInv /\ ArrayInv
BY InitIInv, FreshInv DEF ArrayInit

LEMMA MemoryStep == ASSUME IInv, [ArrayNext]_allVars PROVE IInv'
<1>1. ASSUME NEW size \in Nat \ {0}, Got(size) \/ NotGot(size) PROVE IInv'
  BY <1>1, AllocIInv, AllocIsEither
<1>2. CASE New1 \/ New2 \/ New3 \/ New4 \/ Level2 \/ Level3 \/ Level4
  <2>1. Got(Base) \/ NotGot(Base) \/ UNCHANGED vars
    BY <1>2 DEF New1, New2, New3, New4, NoSlot, Level2, Level3, Level4, HasEntry, memBuf
  <2> QED
    BY <1>1, <2>1, SameIInv, ArrayAssumption
<1>3. CASE Add
  BY <1>1, <1>3, ArrayAssumption DEF Add
<1>4. CASE Store \/ CountIt \/ UNCHANGED allVars
  BY <1>4, SameIInv DEF Store, CountIt, allVars, memBuf
<1>5. CASE Clear
  BY <1>5, FreeIInv DEF Clear
<1>6. ASSUME NEW size \in Sizes, TakeText(size) PROVE IInv'
  BY <1>6, AllocIInv, ConstantsAssumption DEF TakeText
<1> QED
  BY <1>2, <1>3, <1>4, <1>5, <1>6 DEF ArrayNext, Receiver

LEMMA SameArrayInv == ASSUME ArrayInv, UNCHANGED allVars PROVE ArrayInv'
<1>1. /\ UNCHANGED <<mem, pp1, pp2, pp3, pp4, c1, c2, c3, c4, full, count, pc, p, added>>
      /\ UNCHANGED <<pieces, curChank, chankEnd>>
  BY DEF allVars, array, memBuf, vars
<1>2. (Building' <=> Building) /\ (Built' <=> Built)
  BY <1>1 DEF Building, Built
<1>3. /\ N3' = N3 /\ N4' = N4 /\ N5' = N5
      /\ \A k : Slot2(k)' = Slot2(k) /\ Slot3(k)' = Slot3(k) /\ Get(k)' = Get(k)
  BY <1>1, SameTree
<1>4. Counters' /\ EntryThere' /\ JustStored' /\ ReaderSeesAll'
  BY <1>1, <1>2, <1>3 DEF ArrayInv, Counters, EntryThere, JustStored, ReaderSeesAll
<1>5. SlotsApart' /\ LastFilled'
  BY <1>1, <1>2, SameSlots DEF ArrayInv
<1>6. FirstSlots'
  BY <1>1, <1>2, <1>3 DEF ArrayInv, FirstSlots, IsSlot
<1>7. FullForEver'
  BY <1>1, <1>2 DEF ArrayInv, FullForEver
<1>8. FullAtLimit'
  BY <1>1 DEF ArrayInv, FullAtLimit, Usable
<1> QED
  BY <1>4, <1>5, <1>6, <1>7, <1>8 DEF ArrayInv

LEMMA ArrayStep == ASSUME IInv, ArrayInv, [ArrayNext]_allVars PROVE ArrayInv'
BY New1Inv, New2Inv, New3Inv, New4Inv, AddInv, Level2Inv, Level3Inv, Level4Inv, StoreInv,
   CountItInv, ClearInv, TakeTextInv, SameArrayInv
   DEF ArrayNext, Receiver

LEMMA ArraySafe == ArraySpec => [](IInv /\ ArrayInv)
<1>1. IInv /\ ArrayInv /\ [ArrayNext]_allVars => (IInv /\ ArrayInv)'
  BY MemoryStep, ArrayStep
<1> QED
  BY <1>1, InitArrayInv, PTL DEF ArraySpec

(* A reader finds every node that is counted under its number, whenever it  *)
(* looks, for any size of a slot and whatever is left in the memory.        *)
THEOREM ReaderFindsAll == ArraySpec => []ReaderSeesAll
<1>1. IInv /\ ArrayInv => ReaderSeesAll
  BY DEF ArrayInv
<1> QED
  BY <1>1, ArraySafe, PTL

(* The array gives up only when memory or the indices of four digits are    *)
(* used up, so m_Count never wraps.                                         *)
THEOREM FullOnlyAtLimit == ArraySpec => []FullAtLimit
<1>1. IInv /\ ArrayInv => FullAtLimit
  BY DEF ArrayInv
<1> QED
  BY <1>1, ArraySafe, PTL

(* Nodes, slots and texts of the array never overlap either.                *)
THEOREM NodesApart == ArraySpec => [](PiecesApart /\ BlocksOwned)
<1>1. IInv /\ ArrayInv => PiecesApart /\ BlocksOwned
  BY DEF IInv
<1> QED
  BY <1>1, ArraySafe, PTL

=============================================================================
