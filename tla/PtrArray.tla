------------------------------ MODULE PtrArray ------------------------------
(***************************************************************************)
(* PtrArray (Buffer.h), the array of all nodes of the archive, on top of   *)
(* MemBuf: a tree of slots, four levels deep, that only grows.  Nodes and  *)
(* slots are pieces of the same MemBuf, slots are not cleared, and after   *)
(* Free the first block still holds what was in it before.                 *)
(*                                                                         *)
(* The receiver adds nodes under its lock.  The UI thread calls Count and  *)
(* Get at any moment without it, and takes memory for texts: so the steps  *)
(* of AddPtr are separate here, in the order of the code.  A word of memory *)
(* has the size of a pointer.                                              *)
(***************************************************************************)
EXTENDS MemBuf, Sequences

CONSTANTS
  Base,      \* entries of a slot, 256 in the code; an index has four digits
  NodeSize,  \* words of a node
  MaxTexts,  \* how often other memory is taken (bounds the model)
  MaxClears  \* how often the archive is cleared (bounds the model)

ASSUME ArrayAssumption ==
  Base \in Nat \ {0, 1} /\ NodeSize \in Nat \ {0} /\ MaxTexts \in Nat /\ MaxClears \in Nat

VARIABLES
  mem,             \* the words that were written, in any chunk: pointers to pieces
  pp1, pp2, pp3, pp4,  \* m_pp1 .. m_pp4, the slots that are being filled
  c1, c2, c3, c4,      \* m_c1 .. m_c4, the entry of each that comes next
  full,            \* m_full
  count,           \* m_Count
  pc, p,           \* what Add does next, and the node it adds
  added,           \* history: what Add returned since the last clear
  texts, clears    \* how many texts and clears there were

memBuf == vars
array  == <<mem, pp1, pp2, pp3, pp4, c1, c2, c3, c4, full, count>>
bounds == <<texts, clears>>
allVars == <<memBuf, array, pc, p, added, bounds>>

NULL == [chank |-> 0, from |-> 0]   \* also what a word holds that nobody wrote
Limit == Base * Base * Base * Base  \* 2^32, where m_Count would wrap

(* The receiver gets a piece of that size, or none, and where the piece is. *)
Got(size)    == AllocHere(size) \/ AllocNext(size)
NotGot(size) == AllocFails(size) \/ AllocAtEnd(size) \/ Refused(size)
Piece(size)  == [chank |-> curChank', from |-> chank'[curChank'].used - size]

(* The e-th word of the piece at a.                                         *)
Word(a, e)     == <<a.chank, a.from + e>>
Write(a, e, v) == [w \in DOMAIN mem \cup {Word(a, e)} |-> IF w = Word(a, e) THEN v ELSE mem[w]]
Read(a, e)     == IF Word(a, e) \in DOMAIN mem THEN mem[Word(a, e)] ELSE NULL

ArrayInit ==
  /\ Init
  /\ mem = [w \in {} |-> NULL]
  /\ pp1 = NULL /\ pp2 = NULL /\ pp3 = NULL /\ pp4 = NULL
  /\ c1 = 1 /\ c2 = 1 /\ c3 = 1 /\ c4 = 0
  /\ full = FALSE /\ count = 0
  /\ pc = "new1" /\ p = NULL
  /\ added = <<>> /\ texts = 0 /\ clears = 0

-----------------------------------------------------------------------------
(* The constructor: one slot per level, as long as there is memory.  The    *)
(* other members are set without anybody looking.                          *)

NoSlot ==
  /\ NotGot(Base)
  /\ full' = TRUE
  /\ pc' = "idle"
  /\ UNCHANGED <<mem, pp1, pp2, pp3, pp4, c1, c2, c3, c4, count, p, added, bounds>>

New1 ==
  /\ pc = "new1"
  /\ \/ /\ Got(Base)
        /\ pp1' = Piece(Base)
        /\ pc' = "new2"
        /\ UNCHANGED <<mem, pp2, pp3, pp4, c1, c2, c3, c4, full, count, p, added, bounds>>
     \/ NoSlot
New2 ==
  /\ pc = "new2"
  /\ \/ /\ Got(Base)
        /\ pp2' = Piece(Base) /\ mem' = Write(pp1, 0, pp2')
        /\ pc' = "new3"
        /\ UNCHANGED <<pp1, pp3, pp4, c1, c2, c3, c4, full, count, p, added, bounds>>
     \/ NoSlot
New3 ==
  /\ pc = "new3"
  /\ \/ /\ Got(Base)
        /\ pp3' = Piece(Base) /\ mem' = Write(pp2, 0, pp3')
        /\ pc' = "new4"
        /\ UNCHANGED <<pp1, pp2, pp4, c1, c2, c3, c4, full, count, p, added, bounds>>
     \/ NoSlot
New4 ==
  /\ pc = "new4"
  /\ \/ /\ Got(Base)
        /\ pp4' = Piece(Base) /\ mem' = Write(pp3, 0, pp4')
        /\ pc' = "idle"
        /\ UNCHANGED <<pp1, pp2, pp3, c1, c2, c3, c4, full, count, p, added, bounds>>
     \/ NoSlot

-----------------------------------------------------------------------------
(* Add: memory for the node, then AddPtr.                                   *)

Add ==
  /\ pc = "idle"
  /\ \/ /\ Got(NodeSize)
        /\ p' = Piece(NodeSize)
        /\ pc' = IF full THEN "idle" ELSE "level2"
     \/ /\ NotGot(NodeSize)
        /\ UNCHANGED <<p, pc>>
  /\ UNCHANGED <<array, added, bounds>>

(* AddPtr gives up, now and for ever.                                       *)
GiveUp ==
  /\ full' = TRUE
  /\ pc' = "idle"
  /\ UNCHANGED <<mem, pp1, pp2, pp3, pp4, c1, c2, c3, c4, count, p, added, bounds>>

HasEntry(next) ==
  /\ pc' = next
  /\ UNCHANGED <<memBuf, array, p, added, bounds>>

(* Each level, from the top: a level that has no entry left gets a new slot *)
(* from the level above.  The level below then is full too, or will be.     *)
Wrong_Level2_Early ==   \* the last entry of the top level is not used
  /\ pc = "level2"
  /\ \/ c2 < Base /\ HasEntry("level3")
     \/ c2 = Base /\ c1 = Base - 1 /\ GiveUp /\ UNCHANGED memBuf
     \/ c2 = Base /\ c1 < Base - 1 /\ NotGot(Base) /\ GiveUp
     \/ /\ c2 = Base /\ c1 < Base - 1 /\ Got(Base)
        /\ pp2' = Piece(Base) /\ mem' = Write(pp1, c1, pp2')
        /\ c2' = 0 /\ c1' = c1 + 1
        /\ pc' = "level3"
        /\ UNCHANGED <<pp1, pp3, pp4, c3, c4, full, count, p, added, bounds>>
Level2 ==
  /\ pc = "level2"
  /\ \/ c2 < Base /\ HasEntry("level3")
     \/ c2 = Base /\ c1 = Base /\ GiveUp /\ UNCHANGED memBuf
     \/ c2 = Base /\ c1 < Base /\ NotGot(Base) /\ GiveUp
     \/ /\ c2 = Base /\ c1 < Base /\ Got(Base)
        /\ pp2' = Piece(Base) /\ mem' = Write(pp1, c1, pp2')
        /\ c2' = 0 /\ c1' = c1 + 1
        /\ pc' = "level3"
        /\ UNCHANGED <<pp1, pp3, pp4, c3, c4, full, count, p, added, bounds>>

Level3 ==
  /\ pc = "level3"
  /\ \/ c3 < Base /\ HasEntry("level4")
     \/ c3 = Base /\ NotGot(Base) /\ GiveUp
     \/ /\ c3 = Base /\ Got(Base)
        /\ pp3' = Piece(Base) /\ mem' = Write(pp2, c2, pp3')
        /\ c3' = 0 /\ c2' = c2 + 1
        /\ pc' = "level4"
        /\ UNCHANGED <<pp1, pp2, pp4, c1, c4, full, count, p, added, bounds>>

Wrong_Level4 ==   \* the new slot is put one entry too early
  /\ pc = "level4"
  /\ \/ c4 < Base /\ HasEntry("store")
     \/ c4 = Base /\ NotGot(Base) /\ GiveUp
     \/ /\ c4 = Base /\ Got(Base)
        /\ pp4' = Piece(Base) /\ mem' = Write(pp3, IF c3 = 0 THEN 0 ELSE c3 - 1, pp4')
        /\ c4' = 0 /\ c3' = c3 + 1
        /\ pc' = "store"
        /\ UNCHANGED <<pp1, pp2, pp3, c1, c2, full, count, p, added, bounds>>
Level4 ==
  /\ pc = "level4"
  /\ \/ c4 < Base /\ HasEntry("store")
     \/ c4 = Base /\ NotGot(Base) /\ GiveUp
     \/ /\ c4 = Base /\ Got(Base)
        /\ pp4' = Piece(Base) /\ mem' = Write(pp3, c3, pp4')
        /\ c4' = 0 /\ c3' = c3 + 1
        /\ pc' = "store"
        /\ UNCHANGED <<pp1, pp2, pp3, c1, c2, full, count, p, added, bounds>>

Store ==
  /\ pc = "store"
  /\ mem' = Write(pp4, c4, p)
  /\ c4' = c4 + 1
  /\ pc' = "count"
  /\ UNCHANGED <<memBuf, pp1, pp2, pp3, pp4, c1, c2, c3, full, count, p, added, bounds>>

CountIt ==
  /\ pc = "count"
  /\ count' = count + 1
  /\ added' = Append(added, p)
  /\ pc' = "idle"
  /\ UNCHANGED <<memBuf, mem, pp1, pp2, pp3, pp4, c1, c2, c3, c4, full, p, bounds>>

-----------------------------------------------------------------------------
(* Around the array.                                                        *)

(* Archive::Alloc, for lines that grow and, by the UI thread at any moment, *)
(* for addresses it has resolved.                                           *)
TakeText(size) ==
  /\ texts < MaxTexts
  /\ Alloc(size)
  /\ texts' = texts + 1
  /\ UNCHANGED <<array, pc, p, added, clears>>

(* clearArchive, with no receiver running: the memory is freed and the array*)
(* built anew.                                                             *)
Clear ==
  /\ pc = "idle" /\ clears < MaxClears
  /\ Free
  /\ pp1' = NULL /\ pp2' = NULL /\ pp3' = NULL /\ pp4' = NULL
  /\ c1' = 1 /\ c2' = 1 /\ c3' = 1 /\ c4' = 0
  /\ full' = FALSE /\ count' = 0
  /\ pc' = "new1" /\ p' = NULL /\ added' = <<>>
  /\ clears' = clears + 1
  /\ UNCHANGED <<mem, texts>>

Receiver ==
  \/ New1 \/ New2 \/ New3 \/ New4
  \/ Add \/ Level2 \/ Level3 \/ Level4 \/ Store \/ CountIt
ArrayNext == Receiver \/ Clear \/ \E size \in Sizes : TakeText(size)

ArraySpec == ArrayInit /\ [][ArrayNext]_allVars

-----------------------------------------------------------------------------
(* Get, as the UI calls it at any moment for an index below Count: each      *)
(* level is looked up with a digit of its own.                             *)

Slot2(k) == Read(pp1, k % Base)
Slot3(k) == Read(Slot2(k \div Base), k % Base)
Slot4(k) == Read(Slot3(k \div Base), k % Base)
Get(i)   == Read(Slot4(i \div Base), i % Base)

(* Every node that is counted is found under its number, in the middle of   *)
(* an AddPtr too: no reader follows a word that was never written, or was   *)
(* written before the last clear.                                          *)
ReaderSeesAll == \A i \in 0..(count - 1) : Get(i) = added[i + 1]

(* A level is taken before it is needed, so the array is full some nodes    *)
(* early; but only when no index of four digits, or no memory, is left.     *)
(* In particular m_Count, of 32 bits, never wraps.                         *)
FullAtLimit ==
  full => ~Usable(curChank) \/ count = Limit - Base * Base - Base + 2

-----------------------------------------------------------------------------
(* What makes these two inductive.                                          *)

(* The slots of each level are numbered as their entries are, from left to  *)
(* right; so many are in the levels 3 and 4, and so many nodes below them.   *)
N3 == (c1 - 1) * Base + c2
N4 == (N3 - 1) * Base + c3
N5 == (N4 - 1) * Base + c4

Building == pc \in {"new1", "new2", "new3", "new4"}
Built    == ~Building /\ pp4 # NULL

Counters ==
  /\ c1 \in 1..Base /\ {c2, c3, c4} \subseteq 0..Base
  /\ N3 >= 1 /\ N4 >= 1
  /\ N5 = IF pc = "count" THEN count + 1 ELSE count
  /\ added \in Seq([chank : Chanks, from : Nat]) /\ Len(added) = count
  /\ ~Built => <<c1, c2, c3, c4>> = <<1, 1, 1, 0>>

(* An Add that has come past a level has an entry there, and the levels that *)
(* end together end one node after the other.                              *)
EntryThere ==
  /\ pc \in {"level3"} => c2 < Base
  /\ pc = "level4" => c3 < Base
  /\ pc = "store" => c4 < Base
  /\ c2 = Base => c3 = 0 /\ c4 = IF pc \in {"level4", "store"} THEN 1 ELSE 2
  /\ c3 = Base => c4 = IF pc = "store" THEN 0 ELSE 1

(* A slot is a piece of its own, wherever it is in the array.               *)
IsSlot(a) == /\ a \in [chank : Chanks, from : Nat]
             /\ [chank |-> a.chank, from |-> a.from, size |-> Base] \in pieces
Last(l)    == CASE l = 1 -> 0 [] l = 2 -> c1 - 1 [] l = 3 -> N3 - 1 [] l = 4 -> N4 - 1
Slot(l, k) == CASE l = 1 -> pp1 [] l = 2 -> Slot2(k) [] l = 3 -> Slot3(k) [] l = 4 -> Slot4(k)
SlotsApart ==
  Built => \A l \in 1..4 : \A k \in 0..Last(l) :
             /\ IsSlot(Slot(l, k))
             /\ \A m \in 1..4 : \A j \in 0..Last(m) : Slot(l, k) = Slot(m, j) => l = m /\ k = j

(* The last slot of each level is the one that is being filled.             *)
LastFilled == Built => pp2 = Slot2(c1 - 1) /\ pp3 = Slot3(N3 - 1) /\ pp4 = Slot4(N4 - 1)

FirstSlots ==
  /\ pc \in {"new2", "new3", "new4"} => IsSlot(pp1)
  /\ pc \in {"new3", "new4"} => IsSlot(pp2) /\ pp2 # pp1 /\ Slot2(0) = pp2
  /\ pc = "new4" => IsSlot(pp3) /\ pp3 \notin {pp1, pp2} /\ Slot3(0) = pp3
  /\ Building => pp4 = NULL

JustStored ==
  /\ pc \in {"level2", "level3", "level4", "store", "count"} =>
       p \in [chank : Chanks, from : Nat]
  /\ pc = "count" => Get(count) = p

FullForEver ==
  /\ full \in BOOLEAN
  /\ full => pc = "idle"
  /\ ~Building /\ ~Built => full

ArrayInv ==
  /\ Counters /\ EntryThere /\ SlotsApart /\ LastFilled
  /\ FirstSlots /\ JustStored /\ FullForEver /\ FullAtLimit /\ ReaderSeesAll
=============================================================================
