------------------------- MODULE VisibleListProofs -------------------------
(***************************************************************************)
(* Proofs about VisibleList, for any threads, any contents of nodes and    *)
(* any size of the archive.                                                *)
(***************************************************************************)
EXTENDS VisibleList, SequenceTheorems, WellFoundedInduction, TLAPS

(* There is exactly one way to add up.                                      *)
Adds(g, h, k) == g = [m \in 0..k |-> IF m = 0 THEN 0 ELSE g[m - 1] + h[m]]

LEMMA SumIsChosen ==
  ASSUME NEW h, NEW k
  PROVE  SumTo(h, k) = (CHOOSE g : Adds(g, h, k))[k]
BY Zenon DEF SumTo, Adds

LEMMA LeastNumber ==
  ASSUME NEW T, T \subseteq Nat, T # {} PROVE \E n \in T : \A m \in T : n <= m
<1> DEFINE less == {ss \in Nat \X Nat : ss[1] < ss[2]}
<1>1. IsWellFoundedOn(less, Nat)
  BY NatLessThanWellFounded, Zenon DEF OpToRel
<1>2. PICK n \in T : \A m \in T : <<m, n>> \notin less
  <2> HIDE DEF less
  <2> QED
    BY <1>1, WFMin
<1>3. \A m \in T : ~(m < n)
  BY <1>2
<1> QED
  BY <1>3

(* Two ways to add up agree as far as both go.                              *)
LEMMA AddsAgree ==
  ASSUME NEW h, NEW k \in Nat, NEW l \in Nat, l <= k,
         NEW g, Adds(g, h, k), NEW f, NEW e, Adds(f, e, l),
         \A m \in 1..l : h[m] = e[m]
  PROVE  \A m \in 0..l : g[m] = f[m]
<1> SUFFICES ASSUME NEW n \in 0..l, g[n] # f[n] PROVE FALSE
  OBVIOUS
<1> DEFINE T == {m \in 0..l : g[m] # f[m]}
<1>1. PICK m \in T : \A j \in T : m <= j
  <2>1. T \subseteq Nat /\ T # {}
    OBVIOUS
  <2> HIDE DEF T
  <2> QED
    BY <2>1, LeastNumber
<1>2. /\ g[m] = IF m = 0 THEN 0 ELSE g[m - 1] + h[m]
      /\ f[m] = IF m = 0 THEN 0 ELSE f[m - 1] + e[m]
  <2>1. m \in 0..k /\ m \in 0..l
    OBVIOUS
  <2> QED
    BY <2>1 DEF Adds
<1>3. m # 0
  BY <1>2
<1>4. m - 1 \in 0..l /\ m - 1 \notin T /\ m \in 1..l
  BY <1>1, <1>3
<1> QED
  BY <1>2, <1>3, <1>4

LEMMA AddsMore ==
  ASSUME NEW h, NEW k \in Nat, NEW g, Adds(g, h, k)
  PROVE  \E f : Adds(f, h, k + 1)
<1> DEFINE f == [m \in 0..(k + 1) |-> IF m = k + 1 THEN g[k] + h[k + 1] ELSE g[m]]
<1>1. ASSUME NEW m \in 0..(k + 1)
      PROVE  f[m] = IF m = 0 THEN 0 ELSE f[m - 1] + h[m]
  <2>1. CASE m = k + 1
    BY <2>1
  <2>2. CASE m \in 0..k
    <3>1. g[m] = IF m = 0 THEN 0 ELSE g[m - 1] + h[m]
      BY <2>2 DEF Adds
    <3>2. f[m] = g[m] /\ (m # 0 => f[m - 1] = g[m - 1])
      BY <2>2
    <3> QED
      BY <3>1, <3>2
  <2> QED
    BY <2>1, <2>2
<1>2. f = [m \in 0..(k + 1) |-> f[m]]
  OBVIOUS
<1> HIDE DEF f
<1>3. Adds(f, h, k + 1)
  BY <1>1, <1>2 DEF Adds
<1> QED
  BY <1>3

LEMMA AddsExists ==
  ASSUME NEW h, NEW k \in Nat PROVE \E g : Adds(g, h, k)
<1> SUFFICES ASSUME ~ \E g : Adds(g, h, k) PROVE FALSE
  OBVIOUS
<1> DEFINE T == {m \in Nat : ~ \E g : Adds(g, h, m)}
<1>1. PICK m \in T : \A j \in T : m <= j
  <2>1. T \subseteq Nat /\ T # {}
    OBVIOUS
  <2> HIDE DEF T
  <2> QED
    BY <2>1, LeastNumber
<1>2. m # 0
  <2>1. Adds([j \in 0..0 |-> 0], h, 0)
    BY DEF Adds
  <2> QED
    BY <2>1
<1>3. m - 1 \in Nat /\ m - 1 \notin T
  BY <1>1, <1>2
<1>4. PICK n \in Nat : m = n + 1 /\ n = m - 1
  BY <1>3
<1>5. PICK g : Adds(g, h, n)
  BY <1>3, <1>4
<1>6. \E f : Adds(f, h, n + 1)
  BY <1>5, AddsMore
<1> QED
  BY <1>4, <1>6

LEMMA SumAdds ==
  ASSUME NEW h, NEW k \in Nat
  PROVE  \E g : Adds(g, h, k) /\ SumTo(h, k) = g[k]
<1>1. PICK g : g = CHOOSE f : Adds(f, h, k)
  OBVIOUS
<1>2. Adds(g, h, k)
  BY <1>1, AddsExists, Zenon
<1> QED
  BY <1>1, <1>2, SumIsChosen, Zenon

(* What a sum is.                                                           *)
LEMMA SumZero == ASSUME NEW h PROVE SumTo(h, 0) = 0
BY SumAdds DEF Adds

LEMMA SumNext ==
  ASSUME NEW h, NEW k \in Nat PROVE SumTo(h, k + 1) = SumTo(h, k) + h[k + 1]
<1>1. PICK g : Adds(g, h, k) /\ SumTo(h, k) = g[k]
  BY SumAdds
<1>2. PICK f : Adds(f, h, k + 1) /\ SumTo(h, k + 1) = f[k + 1]
  BY SumAdds
<1>3. f[k + 1] = f[k] + h[k + 1]
  <2>1. k + 1 \in 0..(k + 1) /\ k + 1 # 0 /\ k + 1 - 1 = k
    OBVIOUS
  <2> QED
    BY <1>2, <2>1 DEF Adds
<1>4. f[k] = g[k]
  BY <1>1, <1>2, AddsAgree
<1> QED
  BY <1>1, <1>2, <1>3, <1>4

LEMMA SumSame ==
  ASSUME NEW h, NEW e, NEW k \in Nat, \A m \in 1..k : h[m] = e[m]
  PROVE  SumTo(h, k) = SumTo(e, k)
<1>1. PICK g : Adds(g, h, k) /\ SumTo(h, k) = g[k]
  BY SumAdds
<1>2. PICK f : Adds(f, e, k) /\ SumTo(e, k) = f[k]
  BY SumAdds
<1> QED
  BY <1>1, <1>2, AddsAgree

LEMMA SumIsNat ==
  ASSUME NEW k \in Nat, NEW h, \A m \in 1..k : h[m] \in Nat PROVE SumTo(h, k) \in Nat
<1> SUFFICES ASSUME SumTo(h, k) \notin Nat PROVE FALSE
  OBVIOUS
<1> DEFINE T == {m \in 0..k : SumTo(h, m) \notin Nat}
<1>1. PICK m \in T : \A j \in T : m <= j
  <2>1. T \subseteq Nat /\ T # {}
    OBVIOUS
  <2> HIDE DEF T
  <2> QED
    BY <2>1, LeastNumber
<1>2. m # 0
  BY SumZero
<1>3. PICK n \in Nat : m = n + 1 /\ n \in 0..k /\ n \notin T /\ m \in 1..k
  <2>1. m - 1 \in Nat /\ m = (m - 1) + 1 /\ m - 1 \in 0..k /\ m - 1 \notin T /\ m \in 1..k
    BY <1>1, <1>2
  <2> QED
    BY <2>1
<1>4. SumTo(h, n) \in Nat
  BY <1>3
<1>5. SumTo(h, n + 1) = SumTo(h, n) + h[n + 1]
  BY <1>3, SumNext
<1> QED
  BY <1>3, <1>4, <1>5

LEMMA SumGrows ==
  ASSUME NEW k \in Nat, NEW h, NEW e,
         \A m \in 1..k : h[m] \in Nat /\ e[m] \in Nat /\ h[m] <= e[m]
  PROVE  SumTo(h, k) <= SumTo(e, k)
<1> SUFFICES ASSUME ~(SumTo(h, k) <= SumTo(e, k)) PROVE FALSE
  OBVIOUS
<1> DEFINE T == {m \in 0..k : ~(SumTo(h, m) <= SumTo(e, m))}
<1>1. PICK m \in T : \A j \in T : m <= j
  <2>1. T \subseteq Nat /\ T # {}
    OBVIOUS
  <2> HIDE DEF T
  <2> QED
    BY <2>1, LeastNumber
<1>2. m # 0
  BY SumZero
<1>3. PICK n \in Nat : m = n + 1 /\ n \in 0..k /\ n \notin T /\ m \in 1..k
  <2>1. m - 1 \in Nat /\ m = (m - 1) + 1 /\ m - 1 \in 0..k /\ m - 1 \notin T /\ m \in 1..k
    BY <1>1, <1>2
  <2> QED
    BY <2>1
<1>4. SumTo(h, n) <= SumTo(e, n) /\ SumTo(h, n) \in Nat /\ SumTo(e, n) \in Nat
  BY <1>3, SumIsNat
<1>5. SumTo(h, n + 1) = SumTo(h, n) + h[n + 1] /\ SumTo(e, n + 1) = SumTo(e, n) + e[n + 1]
  BY <1>3, SumNext
<1> QED
  BY <1>3, <1>4, <1>5

-----------------------------------------------------------------------------
(* Matches and lines, and what changes them.                                *)

LEMMA NodesAre ==
  ASSUME NEW nd, nd \in Seq([filled : BOOLEAN, kind : {"app", "flow", "trace"},
                            thread : Threads, hits : Nat, pos : Nat])
  PROVE  /\ Len(nd) \in Nat /\ DOMAIN nd = 1..Len(nd)
         /\ \A n \in 1..Len(nd) :
              /\ nd[n] \in [filled : BOOLEAN, kind : {"app", "flow", "trace"}, thread : Threads,
                            hits : Nat, pos : Nat]
              /\ nd[n].filled \in BOOLEAN /\ nd[n].hits \in Nat /\ nd[n].pos \in Nat
<1> DEFINE R == [filled : BOOLEAN, kind : {"app", "flow", "trace"}, thread : Threads,
                 hits : Nat, pos : Nat]
<1>1. nd \in Seq(R)
  OBVIOUS
<1>2. \A r \in R : r.filled \in BOOLEAN /\ r.hits \in Nat /\ r.pos \in Nat
  OBVIOUS
<1> HIDE DEF R
<1>3. Len(nd) \in Nat /\ DOMAIN nd = 1..Len(nd) /\ \A n \in 1..Len(nd) : nd[n] \in R
  BY <1>1
<1>4. \A n \in 1..Len(nd) :
        nd[n].filled \in BOOLEAN /\ nd[n].hits \in Nat /\ nd[n].pos \in Nat
  BY <1>2, <1>3
<1> QED
  BY <1>3, <1>4 DEF R

LEMMA NodeIs ==
  ASSUME TypeOK
  PROVE  /\ Len(node) \in Nat /\ DOMAIN node = 1..Len(node)
         /\ \A n \in 1..Len(node) :
              /\ node[n] \in [filled : BOOLEAN, kind : {"app", "flow", "trace"}, thread : Threads,
                              hits : Nat, pos : Nat]
              /\ node[n].filled \in BOOLEAN /\ node[n].hits \in Nat /\ node[n].pos \in Nat
BY NodesAre DEF TypeOK

LEMMA MatchesAre ==
  ASSUME TypeOK
  PROVE  /\ Matches(0) = 0
         /\ \A k \in 0..Len(node) : Matches(k) \in Nat
         /\ \A k \in 0..(Len(node) - 1) :
              Matches(k + 1) = Matches(k) + (IF Visible(k + 1) THEN node[k + 1].hits ELSE 0)
<1> DEFINE h == [n \in Nodes |-> IF Visible(n) THEN node[n].hits ELSE 0]
<1>1. \A k : Matches(k) = SumTo(h, k)
  BY DEF Matches
<1>2. Len(node) \in Nat /\ \A n \in Nodes : node[n].hits \in Nat
  BY NodeIs DEF Nodes
<1>3. \A n \in Nodes : h[n] = (IF Visible(n) THEN node[n].hits ELSE 0) /\ h[n] \in Nat
  BY <1>2
<1> HIDE DEF h
<1>4. ASSUME NEW k \in 0..Len(node) PROVE SumTo(h, k) \in Nat
  <2>1. k \in Nat /\ \A m \in 1..k : h[m] \in Nat
    BY <1>2, <1>3 DEF Nodes
  <2> QED
    BY <2>1, SumIsNat
<1>5. ASSUME NEW k \in 0..(Len(node) - 1)
      PROVE  SumTo(h, k + 1) = SumTo(h, k) + (IF Visible(k + 1) THEN node[k + 1].hits ELSE 0)
  <2>1. k \in Nat /\ k + 1 \in Nodes
    BY <1>2 DEF Nodes
  <2>2. SumTo(h, k + 1) = SumTo(h, k) + h[k + 1]
    BY <2>1, SumNext
  <2> QED
    BY <1>3, <2>1, <2>2
<1> QED
  BY <1>1, <1>4, <1>5, SumZero

LEMMA LinesAre ==
  ASSUME TypeOK
  PROVE  /\ Lines(0) = 0
         /\ \A k \in 0..Len(node) : Lines(k) \in Nat
         /\ \A k \in 0..(Len(node) - 1) :
              Lines(k + 1) = Lines(k) + (IF Shown(k + 1) THEN 1 ELSE 0)
<1> DEFINE h == [n \in Nodes |-> IF Shown(n) THEN 1 ELSE 0]
<1>1. \A k : Lines(k) = SumTo(h, k)
  BY DEF Lines
<1>2. Len(node) \in Nat
  BY NodeIs
<1>3. \A n \in Nodes : h[n] = (IF Shown(n) THEN 1 ELSE 0) /\ h[n] \in Nat
  OBVIOUS
<1> HIDE DEF h
<1>4. ASSUME NEW k \in 0..Len(node) PROVE SumTo(h, k) \in Nat
  <2>1. k \in Nat /\ \A m \in 1..k : h[m] \in Nat
    BY <1>2, <1>3 DEF Nodes
  <2> QED
    BY <2>1, SumIsNat
<1>5. ASSUME NEW k \in 0..(Len(node) - 1)
      PROVE  SumTo(h, k + 1) = SumTo(h, k) + (IF Shown(k + 1) THEN 1 ELSE 0)
  <2>1. k \in Nat /\ k + 1 \in Nodes
    BY <1>2 DEF Nodes
  <2>2. SumTo(h, k + 1) = SumTo(h, k) + h[k + 1]
    BY <2>1, SumNext
  <2> QED
    BY <1>3, <2>1, <2>2
<1> QED
  BY <1>1, <1>4, <1>5, SumZero

(* The first l nodes look the same before and after, up to what the search   *)
(* notes in them.                                                          *)
SameUpTo(l) ==
  /\ l \in 0..Len(node) /\ l \in 0..Len(node)'
  /\ shown' = shown /\ (flowsHidden' <=> flowsHidden)
  /\ \A n \in 1..l : /\ node'[n].filled <=> node[n].filled
                     /\ node'[n].kind = node[n].kind /\ node'[n].thread = node[n].thread
                     /\ node'[n].hits = node[n].hits

LEMMA SameNodes ==
  ASSUME NEW l, SameUpTo(l), NEW n \in 1..l
  PROVE  /\ Visible(n)' <=> Visible(n)
         /\ Match(n)' <=> Match(n)
         /\ (filterOn' <=> filterOn) => (Shown(n)' <=> Shown(n))
         /\ n \in Nodes /\ n \in Nodes'
         /\ node'[n].hits = node[n].hits
<1>1. /\ node'[n].filled <=> node[n].filled
      /\ node'[n].kind = node[n].kind /\ node'[n].thread = node[n].thread
      /\ node'[n].hits = node[n].hits
      /\ shown' = shown /\ (flowsHidden' <=> flowsHidden)
      /\ l \in 0..Len(node) /\ l \in 0..Len(node)'
  BY DEF SameUpTo
<1>2. Visible(n)' <=> Visible(n)
  BY <1>1 DEF Visible
<1>3. n \in Nodes /\ n \in Nodes'
  BY <1>1 DEF Nodes
<1> QED
  BY <1>1, <1>2, <1>3 DEF Match, Shown

LEMMA SameMatches ==
  ASSUME NEW l, SameUpTo(l), NEW k \in 0..l PROVE Matches(k)' = Matches(k)
<1> DEFINE h == [n \in Nodes |-> IF Visible(n) THEN node[n].hits ELSE 0]
<1>1. ASSUME NEW n \in 1..k PROVE h'[n] = h[n]
  <2>1. n \in 1..l
    BY DEF SameUpTo
  <2> QED
    BY <2>1, SameNodes
<1>2. Matches(k) = SumTo(h, k) /\ Matches(k)' = SumTo(h', k) /\ k \in Nat
  BY DEF Matches
<1> HIDE DEF h
<1> QED
  BY <1>1, <1>2, SumSame

LEMMA SameLines ==
  ASSUME NEW l, SameUpTo(l), filterOn' <=> filterOn, NEW k \in 0..l PROVE Lines(k)' = Lines(k)
<1> DEFINE h == [n \in Nodes |-> IF Shown(n) THEN 1 ELSE 0]
<1>1. ASSUME NEW n \in 1..k PROVE h'[n] = h[n]
  <2>1. n \in 1..l
    BY DEF SameUpTo
  <2> QED
    BY <2>1, SameNodes
<1>2. Lines(k) = SumTo(h, k) /\ Lines(k)' = SumTo(h', k) /\ k \in Nat
  BY DEF Lines
<1> HIDE DEF h
<1> QED
  BY <1>1, <1>2, SumSame

LEMMA MatchesLater ==
  ASSUME TypeOK', NEW k \in 0..Len(node)' PROVE Matches(k)' \in Nat
<1> DEFINE h == [n \in Nodes |-> IF Visible(n) THEN node[n].hits ELSE 0]
<1>1. Len(node)' \in Nat /\ \A n \in 1..Len(node)' : node'[n].hits \in Nat
  BY NodesAre DEF TypeOK
<1>2. ASSUME NEW n \in 1..k PROVE h'[n] \in Nat
  <2>1. n \in Nodes' /\ node'[n].hits \in Nat
    BY <1>1 DEF Nodes
  <2> QED
    BY <2>1
<1>3. Matches(k)' = SumTo(h', k) /\ k \in Nat
  BY <1>1 DEF Matches
<1> HIDE DEF h
<1> QED
  BY <1>2, <1>3, SumIsNat

LEMMA MatchesGrow ==
  ASSUME TypeOK, TypeOK', Len(node)' = Len(node),
         \A n \in 1..Len(node) : Visible(n) => Visible(n)' /\ node[n].hits <= node'[n].hits,
         NEW k \in 0..Len(node)
  PROVE  Matches(k) <= Matches(k)'
<1> DEFINE h == [n \in Nodes |-> IF Visible(n) THEN node[n].hits ELSE 0]
<1>1. /\ Len(node) \in Nat /\ \A n \in 1..Len(node) : node[n].hits \in Nat
      /\ \A n \in 1..Len(node)' : node'[n].hits \in Nat
  <2>1. \A n \in 1..Len(node)' : node'[n].hits \in Nat
    BY NodesAre DEF TypeOK
  <2> QED
    BY <2>1, NodeIs
<1>2. ASSUME NEW n \in 1..k PROVE h[n] \in Nat /\ h'[n] \in Nat /\ h[n] <= h'[n]
  <2>1. n \in 1..Len(node) /\ n \in Nodes /\ n \in Nodes'
    BY <1>1 DEF Nodes
  <2> QED
    BY <1>1, <2>1
<1>3. Matches(k) = SumTo(h, k) /\ Matches(k)' = SumTo(h', k) /\ k \in Nat
  BY <1>1 DEF Matches
<1> HIDE DEF h
<1> QED
  BY <1>2, <1>3, SumGrows

-----------------------------------------------------------------------------
(* The steps, grouped by what they do to the list and the search.           *)

(* A refresh goes on where the last one ended, or starts anew.              *)
Resumes ==
  /\ Idle /\ pc' = "search"
  /\ node' = node /\ listed' = listed /\ listCount' = listCount /\ passed' = passed
  /\ search' = search /\ working' \in BOOLEAN
  /\ searching' = searching /\ filterOn' = filterOn
  /\ flowsHidden' = flowsHidden /\ shown' = shown
  /\ calm' = (calm /\ search.archiveCount = listCount)
  /\ job' = [reset |-> FALSE, listToo |-> TRUE, count |-> Len(node), i |-> search.archiveCount,
             j |-> Len(listed), selected |-> Selected]

Restarts(listToo) ==
  /\ Idle /\ pc' = "search"
  /\ node' = node /\ listed' = listed /\ listCount' = listCount /\ passed' = passed
  /\ search' = Cleared /\ working' = working
  /\ searching' \in BOOLEAN /\ filterOn' \in BOOLEAN
  /\ flowsHidden' \in BOOLEAN /\ shown' \subseteq Threads
  /\ ~listToo => ~filterOn /\ ~filterOn' /\ flowsHidden' = flowsHidden /\ shown' = shown
  /\ calm' = (calm \/ listToo)
  /\ job' = [reset |-> TRUE, listToo |-> listToo, count |-> Len(node), i |-> 0, j |-> 0,
             selected |-> Selected]

(* Only the current match moves, or the receiver is started.                *)
Rests ==
  /\ node' = node /\ listed' = listed /\ listCount' = listCount /\ passed' = passed
  /\ working' \in BOOLEAN
  /\ searching' = searching /\ filterOn' = filterOn
  /\ flowsHidden' = flowsHidden /\ shown' = shown
  /\ pc' = pc /\ job' = job /\ calm' = calm
  /\ \/ search' = search
     \/ /\ Idle
        /\ \E line \in Nat : search' = [search EXCEPT !.curLine = line]

LEMMA StartsAnew ==
  ASSUME TypeOK, OnTimer \/ OnPause \/ OnUpdateFilter \/ OnSearchFilter \/ OnSearchRefresh
  PROVE  Resumes \/ \E listToo \in BOOLEAN : Restarts(listToo)
<1> USE DEF Refresh
<1>1. ASSUME OnTimer \/ OnPause PROVE Resumes
  BY <1>1 DEF TypeOK, OnTimer, OnPause, Resumes
<1>2. ASSUME OnUpdateFilter \/ OnSearchFilter PROVE Restarts(TRUE)
  <2>1. filterOn \in BOOLEAN /\ flowsHidden \in BOOLEAN /\ shown \subseteq Threads
    BY DEF TypeOK
  <2>2. search' = Cleared => search'.archiveCount = 0
    BY DEF Cleared
  <2> QED
    BY <1>2, <2>1, <2>2 DEF OnUpdateFilter, OnSearchFilter, Restarts
<1>3. ASSUME OnSearchRefresh PROVE Restarts(filterOn) /\ filterOn \in BOOLEAN
  <2>1. filterOn \in BOOLEAN /\ flowsHidden \in BOOLEAN /\ shown \subseteq Threads
    BY DEF TypeOK
  <2>2. search' = Cleared => search'.archiveCount = 0
    BY DEF Cleared
  <2> QED
    BY <1>3, <2>1, <2>2 DEF OnSearchRefresh, Restarts
<1> QED
  BY <1>1, <1>2, <1>3

LEMMA RestsAre ==
  ASSUME TypeOK, OnStart \/ Navigate \/ UNCHANGED vars
  PROVE  Rests
<1>1. CASE OnStart
  BY <1>1 DEF OnStart, Rests, filters, Idle
<1>2. CASE UNCHANGED vars
  BY <1>2 DEF vars, filters, Rests, TypeOK
<1>3. CASE Navigate
  <2>1. PICK line \in {search.firstLine, search.lastLine}
               \cup {k - 1 : k \in {k \in DOMAIN listed : node[listed[k]].pos # 0}} :
          search' = [search EXCEPT !.curLine = line]
    BY <1>3 DEF Navigate
  <2>2. line \in Nat
    BY SMTT(30), <2>1 DEF TypeOK
  <2> QED
    BY <1>3, <2>1, <2>2 DEF Navigate, Rests, filters, TypeOK
<1> QED
  BY <1>1, <1>2, <1>3

LEMMA Steps ==
  ASSUME TypeOK, [Next]_vars
  PROVE  \/ Publish \/ Fill \/ Grow
         \/ Resumes \/ \E listToo \in BOOLEAN : Restarts(listToo)
         \/ Rests \/ \E restart \in BOOLEAN : ClearLog(restart)
         \/ SearchNode \/ SearchDone \/ ListNode \/ ListDone
BY StartsAnew, RestsAre DEF Next, Receiver, Ui

-----------------------------------------------------------------------------
(* Types.                                                                   *)

NodeRecs      == [filled : BOOLEAN, kind : {"app", "flow", "trace"}, thread : Threads,
                  hits : Nat, pos : Nat]
SearchRecs(m) == [archiveCount : 0..m, firstLine : Nat, lastLine : Nat, total : Nat,
                  curLine : Nat \cup {NoLine}]
JobRecs(m)    == [reset : BOOLEAN, listToo : BOOLEAN, count : 0..m, i : 0..m, j : Nat,
                  selected : (1..m) \cup {NoNode}]

LEMMA TypeIs ==
  ASSUME TypeOK
  PROVE  /\ node \in Seq(NodeRecs) /\ Len(node) \in Nat /\ DOMAIN node = 1..Len(node)
         /\ \A n \in 1..Len(node) : node[n] \in NodeRecs
         /\ listed \in Seq(1..Len(node)) /\ Len(listed) \in Nat /\ DOMAIN listed = 1..Len(listed)
         /\ \A k \in 1..Len(listed) : listed[k] \in 1..Len(node)
         /\ listCount \in 0..Len(node)
         /\ search \in SearchRecs(Len(node)) /\ search.archiveCount \in 0..Len(node)
         /\ search.firstLine \in Nat /\ search.lastLine \in Nat /\ search.total \in Nat
         /\ search.curLine \in Nat \cup {NoLine}
         /\ job \in JobRecs(Len(node)) /\ job.reset \in BOOLEAN /\ job.listToo \in BOOLEAN
         /\ job.count \in 0..Len(node) /\ job.i \in 0..Len(node) /\ job.j \in Nat
         /\ job.selected \in (1..Len(node)) \cup {NoNode}
         /\ searching \in BOOLEAN /\ filterOn \in BOOLEAN /\ flowsHidden \in BOOLEAN
         /\ calm \in BOOLEAN /\ working \in BOOLEAN
         /\ shown \subseteq Threads /\ passed \subseteq 1..Len(node)
         /\ pc \in {"idle", "search", "list"}
<1>1. /\ node \in Seq(NodeRecs) /\ listed \in Seq(1..Len(node)) /\ listCount \in 0..Len(node)
      /\ search \in SearchRecs(Len(node)) /\ job \in JobRecs(Len(node))
      /\ searching \in BOOLEAN /\ filterOn \in BOOLEAN /\ flowsHidden \in BOOLEAN
      /\ calm \in BOOLEAN /\ working \in BOOLEAN
      /\ shown \subseteq Threads /\ passed \subseteq 1..Len(node)
      /\ pc \in {"idle", "search", "list"}
  BY DEF TypeOK, NodeRecs, SearchRecs, JobRecs, Nodes
<1>2. /\ Len(node) \in Nat /\ DOMAIN node = 1..Len(node)
      /\ \A n \in 1..Len(node) : node[n] \in NodeRecs
      /\ Len(listed) \in Nat /\ DOMAIN listed = 1..Len(listed)
      /\ \A k \in 1..Len(listed) : listed[k] \in 1..Len(node)
  BY <1>1
<1>3. /\ search.archiveCount \in 0..Len(node)
      /\ search.firstLine \in Nat /\ search.lastLine \in Nat /\ search.total \in Nat
      /\ search.curLine \in Nat \cup {NoLine}
  BY <1>1 DEF SearchRecs
<1>4. /\ job.reset \in BOOLEAN /\ job.listToo \in BOOLEAN
      /\ job.count \in 0..Len(node) /\ job.i \in 0..Len(node) /\ job.j \in Nat
      /\ job.selected \in (1..Len(node)) \cup {NoNode}
  BY <1>1 DEF JobRecs
<1> QED
  BY <1>1, <1>2, <1>3, <1>4

LEMMA TypeNext ==
  ASSUME node' \in Seq(NodeRecs), NEW m, m = Len(node)', listed' \in Seq(1..m), listCount' \in 0..m,
         search' \in SearchRecs(m), job' \in JobRecs(m),
         searching' \in BOOLEAN, filterOn' \in BOOLEAN, flowsHidden' \in BOOLEAN,
         calm' \in BOOLEAN, working' \in BOOLEAN,
         shown' \subseteq Threads, passed' \subseteq 1..m, pc' \in {"idle", "search", "list"}
  PROVE  TypeOK'
BY DEF TypeOK, NodeRecs, SearchRecs, JobRecs, Nodes

LEMMA Widen ==
  ASSUME NEW m \in Nat, NEW l \in Nat, m <= l
  PROVE  /\ SearchRecs(m) \subseteq SearchRecs(l) /\ JobRecs(m) \subseteq JobRecs(l)
         /\ Seq(1..m) \subseteq Seq(1..l)
BY DEF SearchRecs, JobRecs

LEMMA Records ==
  ASSUME NEW m
  PROVE  /\ \A r \in NodeRecs, x \in Nat :
              [r EXCEPT !.pos = x] \in NodeRecs /\ [r EXCEPT !.hits = x] \in NodeRecs
         /\ \A r \in JobRecs(m), i \in 0..m, j \in Nat :
              /\ [r EXCEPT !.i = i] \in JobRecs(m)
              /\ [r EXCEPT !.i = i, !.j = j] \in JobRecs(m)
         /\ \A r \in JobRecs(m), c, i \in 0..m : [r EXCEPT !.count = c, !.i = i] \in JobRecs(m)
         /\ \A r \in SearchRecs(m), c \in 0..m : [r EXCEPT !.archiveCount = c] \in SearchRecs(m)
         /\ \A r \in SearchRecs(m), f, l, t \in Nat, c \in Nat \cup {NoLine} :
              [r EXCEPT !.firstLine = f, !.lastLine = l, !.total = t, !.curLine = c] \in SearchRecs(m)
<1>1. \A r \in NodeRecs, x \in Nat :
        [r EXCEPT !.pos = x] \in NodeRecs /\ [r EXCEPT !.hits = x] \in NodeRecs
  BY DEF NodeRecs
<1>2. \A r \in JobRecs(m), i \in 0..m, j \in Nat :
        /\ [r EXCEPT !.i = i] \in JobRecs(m)
        /\ [r EXCEPT !.i = i, !.j = j] \in JobRecs(m)
  BY DEF JobRecs
<1>3. \A r \in JobRecs(m), c, i \in 0..m : [r EXCEPT !.count = c, !.i = i] \in JobRecs(m)
  BY DEF JobRecs
<1>4. \A r \in SearchRecs(m), c \in 0..m : [r EXCEPT !.archiveCount = c] \in SearchRecs(m)
  BY DEF SearchRecs
<1>5. \A r \in SearchRecs(m), f, l, t \in Nat, c \in Nat \cup {NoLine} :
        [r EXCEPT !.firstLine = f, !.lastLine = l, !.total = t, !.curLine = c] \in SearchRecs(m)
  BY DEF SearchRecs
<1> QED
  BY <1>1, <1>2, <1>3, <1>4, <1>5

LEMMA FoundIs ==
  ASSUME TypeOK, NEW n, NEW h \in Nat
  PROVE  /\ Found(n, h) \in SearchRecs(Len(node))
         /\ Found(n, h).archiveCount = search.archiveCount
         /\ Found(n, h).total = search.total + h
<1> DEFINE f == IF search.firstLine = 0 /\ search.total = 0 THEN job.j ELSE search.firstLine
           c == IF job.reset /\ n = job.selected THEN job.j ELSE search.curLine
<1>1. /\ search \in SearchRecs(Len(node)) /\ f \in Nat /\ job.j \in Nat /\ search.total + h \in Nat
      /\ c \in Nat \cup {NoLine} /\ search.total + 0 = search.total
  BY SMTT(30), TypeIs
<1>2. h = 0 => Found(n, h) = search
  BY DEF Found
<1>3. h # 0 => Found(n, h) = [search EXCEPT !.firstLine = f, !.lastLine = job.j,
                                            !.total = search.total + h, !.curLine = c]
  BY DEF Found
<1> HIDE DEF f, c
<1>4. [search EXCEPT !.firstLine = f, !.lastLine = job.j, !.total = search.total + h, !.curLine = c]
        \in SearchRecs(Len(node))
  BY <1>1, Records
<1>5. LET s == [search EXCEPT !.firstLine = f, !.lastLine = job.j, !.total = search.total + h,
                              !.curLine = c]
      IN s.archiveCount = search.archiveCount /\ s.total = search.total + h
  BY <1>1 DEF SearchRecs
<1> QED
  BY <1>1, <1>2, <1>3, <1>4, <1>5

LEMMA NoJobIs == ASSUME NEW m \in Nat PROVE NoJob \in JobRecs(m)
BY DEF NoJob, JobRecs

LEMMA SelectedIs ==
  ASSUME TypeOK PROVE Selected \in (1..Len(node)) \cup {NoNode}
BY TypeIs DEF Selected, NodeAt

LEMMA TypeStep ==
  ASSUME TypeOK, JobFits, [Next]_vars
  PROVE  TypeOK'
<1> USE TypeIs
<1> DEFINE m == Len(node)
<1>1. CASE Publish
  <2>1. node' = Append(node, Root) /\ Root \in NodeRecs
    BY <1>1, ConstantsAssumption DEF Publish, Root, NodeRecs
  <2>2. node' \in Seq(NodeRecs) /\ Len(node)' = m + 1
    BY <2>1
  <2>3. /\ SearchRecs(m) \subseteq SearchRecs(m + 1) /\ JobRecs(m) \subseteq JobRecs(m + 1)
        /\ Seq(1..m) \subseteq Seq(1..(m + 1))
    BY Widen
  <2> QED
    BY <1>1, <2>2, <2>3, TypeNext DEF Publish, filters
<1>2. CASE Fill
  <2>1. PICK c \in Contents :
          node' = [node EXCEPT ![m] = [filled |-> TRUE, kind |-> c.kind, thread |-> c.thread,
                                       hits |-> c.hits, pos |-> node[m].pos]]
    BY <1>2 DEF Fill
  <2>2. m \in 1..m /\ node[m].pos \in Nat
    BY <1>2, NodeIs DEF Fill
  <2>3. [filled |-> TRUE, kind |-> c.kind, thread |-> c.thread, hits |-> c.hits,
         pos |-> node[m].pos] \in NodeRecs
    BY <2>2, ConstantsAssumption DEF NodeRecs
  <2>4. node' \in Seq(NodeRecs) /\ Len(node)' = m
    BY <2>1, <2>2, <2>3, ExceptSeq
  <2> QED
    BY <1>2, <2>4, TypeNext DEF Fill, filters
<1>3. CASE Grow
  <2>1. PICK n \in 1..m : node' = [node EXCEPT ![n].hits = @ + 1]
    BY <1>3 DEF Grow, Nodes
  <2>2. node[n] \in NodeRecs /\ node[n].hits + 1 \in Nat
    BY SMTT(30), NodeIs
  <2>3. [node[n] EXCEPT !.hits = @ + 1] \in NodeRecs
    BY <2>2, Records
  <2>4. node' \in Seq(NodeRecs) /\ Len(node)' = m
    BY <2>1, <2>3, ExceptSeq
  <2> QED
    BY <1>3, <2>4, TypeNext DEF Grow, filters
<1>4. CASE Resumes
  <2>1. job' \in JobRecs(m)
    BY <1>4, SelectedIs DEF Resumes, JobRecs
  <2> QED
    BY <1>4, <2>1, TypeNext DEF Resumes
<1>5. ASSUME NEW listToo \in BOOLEAN, Restarts(listToo) PROVE TypeOK'
  <2>1. job' \in JobRecs(m)
    BY <1>5, SelectedIs DEF Restarts, JobRecs
  <2>2. search' \in SearchRecs(m)
    BY <1>5 DEF Restarts, Cleared, SearchRecs, NoLine
  <2> QED
    BY <1>5, <2>1, <2>2, TypeNext DEF Restarts
<1>6. CASE Rests
  <2>1. search' \in SearchRecs(m)
    BY <1>6 DEF Rests, SearchRecs
  <2> QED
    BY <1>6, <2>1, TypeNext DEF Rests
<1>7. ASSUME NEW restart \in BOOLEAN, ClearLog(restart) PROVE TypeOK'
  <2>1. node' = <<Root>> /\ Root \in NodeRecs
    BY <1>7, ConstantsAssumption DEF ClearLog, Root, NodeRecs
  <2>2. node' \in Seq(NodeRecs) /\ Len(node)' = 1
    BY <2>1
  <2>3. search' \in SearchRecs(1) /\ job' \in JobRecs(1) /\ job' = NoJob
    BY <1>7 DEF ClearLog, Cleared, SearchRecs, NoLine, JobFits, Idle, NoJob, JobRecs, NoNode
  <2>4. /\ listed' \in Seq(1..1) /\ listCount' \in 0..1 /\ passed' \subseteq 1..1
        /\ working' \in BOOLEAN /\ calm' \in BOOLEAN /\ pc' = pc /\ pc = "idle"
        /\ searching' = searching /\ filterOn' = filterOn
        /\ flowsHidden' = flowsHidden /\ shown' = shown
    BY <1>7 DEF ClearLog, filters, Idle
  <2> QED
    BY <2>2, <2>3, <2>4, TypeNext
<1>8. CASE SearchNode
  <2> DEFINE n == job.i + 1
             h == node[n].hits
  <2>1. n \in 1..m /\ node[n] \in NodeRecs /\ h \in Nat
    <3>1. job.i < job.count /\ job.i \in 0..m /\ job.count \in 0..m /\ m \in Nat
      BY <1>8 DEF SearchNode
    <3>2. n \in 1..m
      BY ONLY <3>1
    <3> QED
      BY <3>2, NodeIs
  <2>2. /\ working' = working /\ listed' = listed /\ listCount' = listCount
        /\ searching' = searching /\ filterOn' = filterOn
        /\ flowsHidden' = flowsHidden /\ shown' = shown
        /\ pc' = pc /\ passed' = passed /\ calm' = calm
    BY <1>8 DEF SearchNode, filters
  <2>3. CASE Visible(n)
    <3>1. /\ node' = [node EXCEPT ![n].pos = FirstMatch(h)] /\ search' = Found(n, h)
          /\ job' = [job EXCEPT !.i = n, !.j = NextLine(h)]
      BY <1>8, <2>3 DEF SearchNode
    <3>2. FirstMatch(h) \in Nat /\ NextLine(h) \in Nat
      <4>1. search.total \in Nat /\ job.j \in Nat
        OBVIOUS
      <4> QED
        BY ONLY <4>1 DEF FirstMatch, NextLine
    <3>3. [node[n] EXCEPT !.pos = FirstMatch(h)] \in NodeRecs
      BY <2>1, <3>2, Records
    <3>4. node' = [node EXCEPT ![n] = [node[n] EXCEPT !.pos = FirstMatch(h)]]
      BY <3>1
    <3>5. node' \in Seq(NodeRecs) /\ Len(node)' = m
      BY <2>1, <3>3, <3>4, ExceptSeq
    <3>6. search' \in SearchRecs(m)
      BY <2>1, <3>1, FoundIs
    <3>7. job' \in JobRecs(m)
      <4>1. job \in JobRecs(m) /\ n \in 0..m
        BY <2>1
      <4> QED
        BY <3>1, <3>2, <4>1, Records
    <3> QED
      BY <2>2, <3>5, <3>6, <3>7, TypeNext
  <2>4. CASE ~Visible(n)
    <3>1. node' = node /\ search' = search /\ job' = [job EXCEPT !.i = n]
      BY <1>8, <2>4 DEF SearchNode
    <3>2. job' \in JobRecs(m)
      <4>1. job \in JobRecs(m) /\ n \in 0..m
        BY <2>1
      <4> QED
        BY <3>1, <4>1, Records
    <3> QED
      BY <2>2, <3>1, <3>2, TypeNext
  <2> QED
    BY <2>3, <2>4
<1>9. CASE SearchDone
  <2>1. search' \in SearchRecs(m)
    BY <1>9 DEF SearchDone, SearchRecs
  <2>2. /\ node' = node /\ working' = working /\ calm' = calm
        /\ searching' = searching /\ filterOn' = filterOn
        /\ flowsHidden' = flowsHidden /\ shown' = shown
    BY <1>9 DEF SearchDone, filters
  <2>3. CASE ~job.listToo
    <3>1. job' \in JobRecs(m)
      BY <1>9, <2>3, NoJobIs DEF SearchDone
    <3> QED
      BY <1>9, <2>1, <2>2, <2>3, <3>1, TypeNext DEF SearchDone
  <2>4. CASE job.listToo
    <3>1. job' = [job EXCEPT !.count = m, !.i = IF job.reset THEN 0 ELSE listCount]
      BY <1>9, <2>4 DEF SearchDone
    <3>2. job' \in JobRecs(m)
      <4>1. job \in JobRecs(m) /\ m \in 0..m /\ (IF job.reset THEN 0 ELSE listCount) \in 0..m
        OBVIOUS
      <4> QED
        BY <3>1, <4>1, Records
    <3>3. /\ listed' = (IF job.reset THEN <<>> ELSE listed)
          /\ listCount' = (IF job.reset THEN 0 ELSE listCount)
          /\ passed' = (IF job.reset THEN {} ELSE passed) /\ pc' = "list"
      BY <1>9, <2>4 DEF SearchDone
    <3>4. listed' \in Seq(1..m) /\ listCount' \in 0..m /\ passed' \subseteq 1..m
      <4>1. listed \in Seq(1..m) /\ <<>> \in Seq(1..m) /\ listCount \in 0..m /\ 0 \in 0..m
        OBVIOUS
      <4>2. passed \subseteq 1..m
        OBVIOUS
      <4> QED
        BY ONLY <3>3, <4>1, <4>2
    <3> QED
      BY <2>1, <2>2, <3>2, <3>3, <3>4, TypeNext
  <2> QED
    BY <2>3, <2>4
<1>10. CASE ListNode
  <2>1. job.i + 1 \in 1..m /\ job' = [job EXCEPT !.i = job.i + 1]
    BY SMTT(30), <1>10 DEF ListNode
  <2>2. job' \in JobRecs(m)
    <3>1. job \in JobRecs(m) /\ job.i + 1 \in 0..m
      BY <2>1
    <3> QED
      BY <2>1, <3>1, Records
  <2>3. listed' \in Seq(1..m) /\ passed' \subseteq 1..m
    <3>1. /\ listed' = listed \/ listed' = Append(listed, job.i + 1)
          /\ passed' = passed \/ passed' = passed \cup {job.i + 1}
      BY <1>10 DEF ListNode
    <3>2. listed \in Seq(1..m) /\ Append(listed, job.i + 1) \in Seq(1..m)
      BY <2>1
    <3>3. passed \subseteq 1..m
      OBVIOUS
    <3> QED
      BY ONLY <2>1, <3>1, <3>2, <3>3
  <2> QED
    BY <1>10, <2>2, <2>3, TypeNext DEF ListNode, filters
<1>11. CASE ListDone
  <2>1. job' \in JobRecs(m)
    BY <1>11, NoJobIs DEF ListDone
  <2> QED
    BY <1>11, <2>1, TypeNext DEF ListDone, filters
<1> QED
  BY Steps, <1>1, <1>2, <1>3, <1>4, <1>5, <1>6, <1>7, <1>8, <1>9, <1>10, <1>11

-----------------------------------------------------------------------------
(* What a step leaves behind, field by field.                               *)

FiltersSame == searching' = searching /\ filterOn' = filterOn
               /\ flowsHidden' = flowsHidden /\ shown' = shown

LEMMA StillSame ==
  ASSUME TypeOK, node' = node, flowsHidden' = flowsHidden, shown' = shown
  PROVE  SameUpTo(Len(node))
BY NodeIs DEF SameUpTo

LEMMA PublishDoes ==
  ASSUME TypeOK, Publish
  PROVE  /\ Len(node)' = Len(node) + 1 /\ SameUpTo(Len(node))
         /\ \A n \in 1..Len(node) : node'[n] = node[n]
         /\ node'[Len(node) + 1].pos = 0 /\ ~node'[Len(node) + 1].filled
         /\ listed' = listed /\ listCount' = listCount /\ passed' = passed
         /\ search' = search /\ job' = job /\ pc' = pc /\ FiltersSame
         /\ calm' => calm /\ pc = "idle"
<1>1. node' = Append(node, Root) /\ Root.pos = 0 /\ ~Root.filled
  BY DEF Publish, Root
<1>2. /\ Len(node)' = Len(node) + 1 /\ Len(node) \in Nat
      /\ \A n \in 1..Len(node) : node'[n] = node[n]
      /\ node'[Len(node) + 1] = Root
  BY <1>1, NodeIs DEF TypeOK
<1>3. /\ listed' = listed /\ listCount' = listCount /\ passed' = passed
      /\ search' = search /\ job' = job /\ pc' = pc /\ FiltersSame
      /\ calm' => calm /\ pc = "idle"
  BY DEF Publish, filters, InRefresh, FiltersSame
<1>4. SameUpTo(Len(node))
  BY <1>2, <1>3 DEF SameUpTo, FiltersSame
<1> QED
  BY <1>1, <1>2, <1>3, <1>4

LEMMA FillDoes ==
  ASSUME TypeOK, Fill
  PROVE  /\ Len(node)' = Len(node) /\ Len(node) > 1 /\ SameUpTo(Len(node) - 1)
         /\ \A n \in 1..(Len(node) - 1) : node'[n] = node[n]
         /\ node'[Len(node)].pos = node[Len(node)].pos /\ ~node[Len(node)].filled
         /\ node'[Len(node)].filled
         /\ listed' = listed /\ listCount' = listCount /\ passed' = passed
         /\ search' = search /\ job' = job /\ pc' = pc /\ FiltersSame
         /\ calm' => /\ calm /\ pc = "idle"
                     /\ Len(node) > listCount /\ Len(node) > search.archiveCount
<1> DEFINE m == Len(node)
<1>1. PICK c \in Contents :
        node' = [node EXCEPT ![m] = [filled |-> TRUE, kind |-> c.kind, thread |-> c.thread,
                                     hits |-> c.hits, pos |-> node[m].pos]]
  BY DEF Fill
<1>2. m \in Nat /\ m > 1 /\ ~node[m].filled /\ DOMAIN node = 1..m
  BY NodeIs DEF Fill
<1>3. /\ Len(node)' = m
      /\ \A n \in 1..(m - 1) : node'[n] = node[n]
      /\ node'[m] = [filled |-> TRUE, kind |-> c.kind, thread |-> c.thread,
                     hits |-> c.hits, pos |-> node[m].pos]
  <2>1. node \in Seq(NodeRecs) /\ m \in 1..m /\ node[m].pos \in Nat
    BY <1>2, TypeIs, NodeIs
  <2>2. [filled |-> TRUE, kind |-> c.kind, thread |-> c.thread, hits |-> c.hits,
         pos |-> node[m].pos] \in NodeRecs
    BY <2>1, ConstantsAssumption DEF NodeRecs
  <2>3. Len(node)' = m
    BY <1>1, <2>1, <2>2, ExceptSeq
  <2> QED
    <3> DEFINE r == [filled |-> TRUE, kind |-> c.kind, thread |-> c.thread, hits |-> c.hits,
                     pos |-> node[m].pos]
    <3>1. node' = [node EXCEPT ![m] = r]
      BY <1>1
    <3> HIDE DEF r
    <3>2. m \in DOMAIN node /\ \A n \in 1..(m - 1) : n \in DOMAIN node /\ n # m
      <4> HIDE DEF m
      <4> QED
        BY ONLY <1>2
    <3>3. (\A n \in 1..(m - 1) : node'[n] = node[n]) /\ node'[m] = r
      BY ONLY <3>1, <3>2
    <3> QED
      BY <2>3, <3>3 DEF r
<1>4. /\ listed' = listed /\ listCount' = listCount /\ passed' = passed
      /\ search' = search /\ job' = job /\ pc' = pc /\ FiltersSame
      /\ calm' => calm /\ pc = "idle" /\ m > listCount /\ m > search.archiveCount
  BY DEF Fill, filters, InRefresh, FiltersSame
<1>5. SameUpTo(m - 1)
  BY <1>2, <1>3, <1>4 DEF SameUpTo, FiltersSame
<1> QED
  BY <1>2, <1>3, <1>4, <1>5

LEMMA GrowDoes ==
  ASSUME TypeOK, Grow
  PROVE  \E n \in 1..Len(node) :
           /\ Len(node)' = Len(node) /\ SameUpTo(n - 1)
           /\ \A k \in 1..Len(node) : /\ node'[k].filled = node[k].filled
                                      /\ node'[k].kind = node[k].kind
                                      /\ node'[k].thread = node[k].thread
                                      /\ node'[k].pos = node[k].pos
                                      /\ node[k].hits <= node'[k].hits
           /\ listed' = listed /\ listCount' = listCount /\ passed' = passed
           /\ search' = search /\ job' = job /\ pc' = pc /\ FiltersSame
           /\ calm' => calm /\ pc = "idle" /\ n > search.archiveCount
<1>1. PICK n \in 1..Len(node) : /\ node' = [node EXCEPT ![n].hits = @ + 1]
                                /\ calm' = (calm /\ ~InRefresh /\ n > search.archiveCount)
  BY DEF Grow, Nodes
<1>2. Len(node)' = Len(node) /\ Len(node) \in Nat /\ DOMAIN node = 1..Len(node)
  <2>1. node \in Seq(NodeRecs)
    BY TypeIs
  <2> QED
    BY <1>1, <2>1
<1>3. ASSUME NEW k \in 1..Len(node)
      PROVE  /\ node'[k].filled = node[k].filled /\ node'[k].kind = node[k].kind
             /\ node'[k].thread = node[k].thread /\ node'[k].pos = node[k].pos
             /\ node[k].hits <= node'[k].hits /\ (k # n => node'[k].hits = node[k].hits)
  <2>1. CASE k # n
    <3>1. node'[k] = node[k] /\ node[k].hits \in Nat
      BY <1>1, <2>1, NodeIs
    <3> QED
      BY <2>1, <3>1
  <2>2. CASE k = n
    <3>1. node'[k] = [node[k] EXCEPT !.hits = node[k].hits + 1] /\ node[k].hits \in Nat
      BY <1>1, <1>2, <2>2, NodeIs
    <3>2. node[k] \in NodeRecs
      BY TypeIs
    <3> QED
      BY <2>2, <3>1, <3>2 DEF NodeRecs
  <2> QED
    BY <2>1, <2>2
<1>4. /\ listed' = listed /\ listCount' = listCount /\ passed' = passed
      /\ search' = search /\ job' = job /\ pc' = pc /\ FiltersSame
      /\ calm' => calm /\ pc = "idle" /\ n > search.archiveCount
  BY <1>1 DEF Grow, filters, InRefresh, FiltersSame
<1>5. SameUpTo(n - 1)
  BY <1>2, <1>3, <1>4 DEF SameUpTo, FiltersSame
<1> QED
  BY <1>2, <1>3, <1>4, <1>5

(* The search looks at node n, the list at node n.                         *)
Searches(n) ==
  /\ n = job.i + 1 /\ n \in 1..Len(node) /\ n <= job.count /\ pc = "search" /\ pc' = "search" /\ searching
  /\ Len(node)' = Len(node) /\ SameUpTo(Len(node))
  /\ \A k \in 1..Len(node) : /\ node'[k].filled = node[k].filled
                             /\ k # n => node'[k].pos = node[k].pos
  /\ listed' = listed /\ listCount' = listCount /\ passed' = passed /\ calm' = calm
  /\ FiltersSame
  /\ job'.reset = job.reset /\ job'.listToo = job.listToo /\ job'.count = job.count
  /\ job'.selected = job.selected /\ job'.i = n
  /\ search'.archiveCount = search.archiveCount
  /\ Visible(n) => /\ node'[n].pos = FirstMatch(node[n].hits)
                   /\ search' = Found(n, node[n].hits)
                   /\ job'.j = NextLine(node[n].hits)
  /\ ~Visible(n) => node'[n].pos = node[n].pos /\ search' = search /\ job'.j = job.j

LEMMA SearchNodeDoes == ASSUME TypeOK, SearchNode PROVE \E n : Searches(n)
<1> DEFINE n == job.i + 1
<1> DEFINE h == node[n].hits
<1>1. /\ pc = "search" /\ searching /\ job.i < job.count
      /\ pc' = pc /\ listed' = listed /\ listCount' = listCount /\ passed' = passed /\ calm' = calm
      /\ FiltersSame
      /\ Visible(n) => /\ node' = [node EXCEPT ![n].pos = FirstMatch(h)]
                       /\ search' = Found(n, h)
                       /\ job' = [job EXCEPT !.i = n, !.j = NextLine(h)]
      /\ ~Visible(n) => job' = [job EXCEPT !.i = n] /\ node' = node /\ search' = search
  BY DEF SearchNode, filters, FiltersSame
<1>2. n \in 1..Len(node) /\ n <= job.count /\ h \in Nat
  <2>1. n \in 1..Len(node) /\ n <= job.count
    BY SMTT(30), <1>1, TypeIs
  <2> QED
    BY <2>1, NodeIs
<1>3. /\ job'.reset = job.reset /\ job'.listToo = job.listToo /\ job'.count = job.count
      /\ job'.selected = job.selected /\ job'.i = n
      /\ Visible(n) => job'.j = NextLine(h)
      /\ ~Visible(n) => job'.j = job.j
  <2>1. job \in JobRecs(Len(node))
    BY TypeIs
  <2> QED
    BY <1>1, <2>1 DEF JobRecs
<1>4. search'.archiveCount = search.archiveCount
  BY <1>1, <1>2, FoundIs
<1>5. Len(node)' = Len(node)
  <2>1. node \in Seq(NodeRecs)
    BY TypeIs
  <2> QED
    BY <1>1, <2>1
<1>6. ASSUME NEW k \in 1..Len(node)
      PROVE  /\ node'[k].filled = node[k].filled /\ node'[k].kind = node[k].kind
             /\ node'[k].thread = node[k].thread /\ node'[k].hits = node[k].hits
             /\ k # n => node'[k].pos = node[k].pos
             /\ k = n /\ Visible(n) => node'[n].pos = FirstMatch(h)
             /\ ~Visible(n) => node'[n].pos = node[n].pos
  <2>1. node[k] \in NodeRecs /\ DOMAIN node = 1..Len(node)
    BY TypeIs
  <2>2. CASE ~Visible(n) \/ k # n
    BY <1>1, <2>1, <2>2
  <2>3. CASE Visible(n) /\ k = n
    <3>1. node'[k] = [node[k] EXCEPT !.pos = FirstMatch(h)]
      BY <1>1, <2>1, <2>3
    <3> QED
      BY <2>1, <2>3, <3>1 DEF NodeRecs
  <2> QED
    BY <2>2, <2>3
<1>7. SameUpTo(Len(node))
  BY <1>1, <1>5, <1>6, NodeIs DEF SameUpTo, FiltersSame
<1> HIDE DEF h
<1>8. n = job.i + 1
  OBVIOUS
<1> HIDE DEF n
<1> QED
  BY <1>1, <1>2, <1>3, <1>4, <1>5, <1>6, <1>7, <1>8 DEF Searches, h

LEMMA SearchDoneDoes ==
  ASSUME TypeOK, SearchDone
  PROVE  /\ pc = "search" /\ (searching => job.i = job.count)
         /\ node' = node /\ SameUpTo(Len(node)) /\ calm' = calm /\ FiltersSame
         /\ search'.archiveCount = job.count /\ search'.total = search.total
         /\ search'.firstLine = search.firstLine /\ search'.lastLine = search.lastLine
         /\ search'.curLine = search.curLine
         /\ ~job.listToo => /\ pc' = "idle" /\ job' = NoJob
                            /\ listed' = listed /\ listCount' = listCount /\ passed' = passed
         /\ job.listToo => /\ pc' = "list"
                           /\ job'.count = Len(node) /\ job'.reset = job.reset
                           /\ job'.selected = job.selected
         /\ job.listToo /\ job.reset => /\ job'.i = 0 /\ listed' = <<>> /\ listCount' = 0
                                        /\ passed' = {}
         /\ job.listToo /\ ~job.reset => /\ job'.i = listCount /\ listed' = listed
                                         /\ listCount' = listCount /\ passed' = passed
<1>1. /\ pc = "search" /\ (searching => job.i = job.count)
      /\ node' = node /\ calm' = calm /\ FiltersSame
      /\ search' = [search EXCEPT !.archiveCount = job.count]
  BY DEF SearchDone, filters, FiltersSame
<1>2. SameUpTo(Len(node))
  BY <1>1, StillSame DEF FiltersSame
<1>3. /\ search'.archiveCount = job.count /\ search'.total = search.total
      /\ search'.firstLine = search.firstLine /\ search'.lastLine = search.lastLine
      /\ search'.curLine = search.curLine
  <2>1. search \in SearchRecs(Len(node))
    BY TypeIs
  <2> QED
    BY <1>1, <2>1 DEF SearchRecs
<1>4. ASSUME ~job.listToo
      PROVE  /\ pc' = "idle" /\ job' = NoJob
             /\ listed' = listed /\ listCount' = listCount /\ passed' = passed
  BY <1>4 DEF SearchDone
<1>5. ASSUME job.listToo
      PROVE  /\ pc' = "list"
             /\ job'.count = Len(node) /\ job'.reset = job.reset /\ job'.selected = job.selected
             /\ job.reset => job'.i = 0 /\ listed' = <<>> /\ listCount' = 0 /\ passed' = {}
             /\ ~job.reset => /\ job'.i = listCount /\ listed' = listed
                              /\ listCount' = listCount /\ passed' = passed
  <2>1. /\ pc' = "list"
        /\ job' = [job EXCEPT !.count = Len(node), !.i = IF job.reset THEN 0 ELSE listCount]
        /\ listed' = (IF job.reset THEN <<>> ELSE listed)
        /\ listCount' = (IF job.reset THEN 0 ELSE listCount)
        /\ passed' = (IF job.reset THEN {} ELSE passed)
    BY <1>5 DEF SearchDone
  <2>2. job \in JobRecs(Len(node))
    BY TypeIs
  <2>3. /\ job'.count = Len(node) /\ job'.reset = job.reset /\ job'.selected = job.selected
        /\ job'.i = IF job.reset THEN 0 ELSE listCount
    BY <2>1, <2>2 DEF JobRecs
  <2> QED
    BY <2>1, <2>3
<1> QED
  BY <1>1, <1>2, <1>3, <1>4, <1>5

Lists(n) ==
  /\ n = job.i + 1 /\ n \in 1..Len(node) /\ n <= job.count /\ pc = "list" /\ pc' = "list"
  /\ node' = node /\ SameUpTo(Len(node)) /\ listCount' = listCount
  /\ search' = search /\ calm' = calm /\ FiltersSame
  /\ job'.reset = job.reset /\ job'.count = job.count
  /\ job'.selected = job.selected /\ job'.i = n
  /\ \/ /\ Visible(n) /\ (node[n].pos # 0 \/ ~filterOn)
        /\ listed' = Append(listed, n) /\ passed' = passed
     \/ /\ ~(Visible(n) /\ (node[n].pos # 0 \/ ~filterOn))
        /\ listed' = listed
        /\ passed' = IF n > 1 /\ (~node[n].filled \/ n > search.archiveCount)
                     THEN passed \cup {n} ELSE passed

LEMMA ListNodeDoes == ASSUME TypeOK, ListNode PROVE \E n : Lists(n)
<1> DEFINE n == job.i + 1
<1>1. /\ pc = "list" /\ job.i < job.count /\ pc' = pc
      /\ node' = node /\ listCount' = listCount
      /\ search' = search /\ calm' = calm /\ FiltersSame
      /\ job' = [job EXCEPT !.i = n]
      /\ \/ /\ Visible(n) /\ (node[n].pos # 0 \/ ~filterOn)
            /\ listed' = Append(listed, n) /\ passed' = passed
         \/ /\ ~(Visible(n) /\ (node[n].pos # 0 \/ ~filterOn))
            /\ listed' = listed
            /\ passed' = IF n > 1 /\ (~node[n].filled \/ n > search.archiveCount)
                         THEN passed \cup {n} ELSE passed
  BY DEF ListNode, filters, FiltersSame
<1>2. n \in 1..Len(node) /\ n <= job.count
  BY SMTT(30), <1>1, TypeIs
<1>3. /\ job'.reset = job.reset /\ job'.count = job.count
      /\ job'.selected = job.selected /\ job'.i = n
  <2>1. job \in JobRecs(Len(node))
    BY TypeIs
  <2> QED
    BY <1>1, <2>1 DEF JobRecs
<1>4. SameUpTo(Len(node))
  BY <1>1, StillSame DEF FiltersSame
<1>5. n = job.i + 1
  OBVIOUS
<1> HIDE DEF n
<1> QED
  BY <1>1, <1>2, <1>3, <1>4, <1>5 DEF Lists

LEMMA ResumesDoes ==
  ASSUME TypeOK, Resumes
  PROVE  /\ pc = "idle" /\ pc' = "search" /\ node' = node /\ SameUpTo(Len(node))
         /\ listed' = listed /\ listCount' = listCount /\ passed' = passed
         /\ search' = search /\ FiltersSame
         /\ calm' => calm /\ search.archiveCount = listCount
         /\ ~job'.reset /\ job'.listToo /\ job'.count = Len(node)
         /\ job'.i = search.archiveCount /\ job'.j = Len(listed)
         /\ job'.selected \in (1..Len(node)) \cup {NoNode}
<1>1. /\ pc = "idle" /\ pc' = "search" /\ node' = node
      /\ listed' = listed /\ listCount' = listCount /\ passed' = passed
      /\ search' = search /\ FiltersSame
      /\ calm' => calm /\ search.archiveCount = listCount
      /\ ~job'.reset /\ job'.listToo /\ job'.count = Len(node)
      /\ job'.i = search.archiveCount /\ job'.j = Len(listed) /\ job'.selected = Selected
  BY DEF Resumes, FiltersSame, Idle
<1> QED
  BY <1>1, StillSame, SelectedIs DEF FiltersSame

LEMMA RestartsDoes ==
  ASSUME TypeOK, NEW listToo \in BOOLEAN, Restarts(listToo)
  PROVE  /\ pc = "idle" /\ pc' = "search" /\ node' = node
         /\ listed' = listed /\ listCount' = listCount /\ passed' = passed
         /\ search'.archiveCount = 0 /\ search'.firstLine = 0 /\ search'.total = 0
         /\ search'.curLine = NoLine
         /\ job'.reset /\ (job'.listToo <=> listToo) /\ job'.count = Len(node)
         /\ job'.i = 0 /\ job'.j = 0
         /\ job'.selected \in (1..Len(node)) \cup {NoNode}
         /\ ~listToo => /\ ~filterOn /\ ~filterOn' /\ flowsHidden' = flowsHidden
                        /\ shown' = shown /\ SameUpTo(Len(node)) /\ (calm' => calm)
<1>1. /\ pc = "idle" /\ pc' = "search" /\ node' = node
      /\ listed' = listed /\ listCount' = listCount /\ passed' = passed
      /\ search' = Cleared
      /\ job'.reset /\ (job'.listToo <=> listToo) /\ job'.count = Len(node)
      /\ job'.i = 0 /\ job'.j = 0 /\ job'.selected = Selected
      /\ ~listToo => ~filterOn /\ ~filterOn' /\ flowsHidden' = flowsHidden /\ shown' = shown
      /\ ~listToo => (calm' => calm)
  BY DEF Restarts, Idle
<1>2. /\ search'.archiveCount = 0 /\ search'.firstLine = 0 /\ search'.total = 0
      /\ search'.curLine = NoLine
  BY <1>1 DEF Cleared
<1> QED
  BY <1>1, <1>2, StillSame, SelectedIs

LEMMA RestsDoes ==
  ASSUME TypeOK, Rests
  PROVE  /\ node' = node /\ SameUpTo(Len(node))
         /\ listed' = listed /\ listCount' = listCount /\ passed' = passed
         /\ pc' = pc /\ job' = job /\ calm' = calm /\ FiltersSame
         /\ search'.archiveCount = search.archiveCount /\ search'.total = search.total
         /\ search'.firstLine = search.firstLine /\ search'.lastLine = search.lastLine
         /\ pc # "idle" => search' = search
<1>1. /\ node' = node /\ listed' = listed /\ listCount' = listCount /\ passed' = passed
      /\ pc' = pc /\ job' = job /\ calm' = calm /\ FiltersSame
      /\ \/ search' = search
         \/ pc = "idle" /\ \E line \in Nat : search' = [search EXCEPT !.curLine = line]
  BY DEF Rests, FiltersSame, Idle
<1>2. /\ search'.archiveCount = search.archiveCount /\ search'.total = search.total
      /\ search'.firstLine = search.firstLine /\ search'.lastLine = search.lastLine
  <2>1. search \in SearchRecs(Len(node))
    BY TypeIs
  <2> QED
    BY <1>1, <2>1 DEF SearchRecs
<1> QED
  BY <1>1, <1>2, StillSame DEF FiltersSame

LEMMA ClearLogDoes ==
  ASSUME TypeOK, NEW restart, ClearLog(restart)
  PROVE  /\ pc = "idle" /\ pc' = "idle" /\ job' = job
         /\ Len(node)' = 1 /\ ~node'[1].filled /\ node'[1].pos = 0
         /\ listed' = <<>> /\ listCount' = 0 /\ passed' = {}
         /\ search'.archiveCount = 0 /\ search'.firstLine = 0 /\ search'.total = 0
         /\ FiltersSame
<1>1. /\ pc = "idle" /\ pc' = "idle" /\ job' = job
      /\ node' = <<Root>>
      /\ listed' = <<>> /\ listCount' = 0 /\ passed' = {}
      /\ search' = Cleared /\ FiltersSame
  BY DEF ClearLog, filters, FiltersSame, Idle
<1> QED
  BY <1>1 DEF Root, Cleared

-----------------------------------------------------------------------------
(* What always holds: each part of ListInv, kept by every step.             *)

LEMMA FitsStep ==
  ASSUME TypeOK, JobFits, [Next]_vars
  PROVE  JobFits'
<1>1. /\ Len(node) \in Nat /\ Len(node) >= 1 /\ ~node[1].filled
      /\ pc = "idle" => job = NoJob
      /\ pc # "idle" => job.i <= job.count
      /\ pc = "search" => search.archiveCount <= job.i /\ job.selected <= job.count
      /\ pc = "search" => job.listToo \/ (job.reset /\ ~filterOn)
      /\ pc = "list" => job.selected <= search.archiveCount
      /\ search.archiveCount \in 0..Len(node) /\ listCount \in 0..Len(node)
      /\ job.count \in 0..Len(node) /\ job.i \in 0..Len(node)
      /\ pc \in {"idle", "search", "list"}
  BY TypeIs DEF JobFits
<1>2. CASE Publish
  <2>1. node'[1] = node[1]
    BY <1>1, <1>2, PublishDoes
  <2> QED
    BY <1>1, <1>2, <2>1, PublishDoes DEF JobFits, FiltersSame
<1>3. CASE Fill
  <2>1. node'[1] = node[1]
    BY <1>1, <1>3, FillDoes
  <2> QED
    BY <1>1, <1>3, <2>1, FillDoes DEF JobFits, FiltersSame
<1>4. CASE Grow
  BY <1>1, <1>4, GrowDoes DEF JobFits, FiltersSame
<1>5. CASE Resumes
  BY <1>1, <1>5, ResumesDoes DEF JobFits, NoNode
<1>6. ASSUME NEW listToo \in BOOLEAN, Restarts(listToo) PROVE JobFits'
  BY <1>1, <1>6, RestartsDoes DEF JobFits, NoNode
<1>7. CASE Rests
  BY <1>1, <1>7, RestsDoes DEF JobFits, FiltersSame
<1>8. ASSUME NEW restart \in BOOLEAN, ClearLog(restart) PROVE JobFits'
  BY <1>1, <1>8, ClearLogDoes DEF JobFits
<1>9. CASE SearchNode
  <2>1. PICK n : Searches(n)
    BY <1>9, SearchNodeDoes
  <2> QED
    BY <1>1, <2>1 DEF JobFits, Searches, FiltersSame
<1>10. CASE SearchDone
  <2>1. /\ node' = node /\ search'.archiveCount = job.count /\ pc' \in {"idle", "list"}
        /\ pc' = "idle" => job' = NoJob
        /\ pc' = "list" => job'.selected = job.selected /\ job'.count = Len(node)
        /\ pc' = "list" => job'.i \in {0, listCount}
        /\ pc = "search"
    BY <1>10, SearchDoneDoes
  <2>2. pc' = "list" => job'.i <= job'.count /\ job'.selected <= search'.archiveCount
    BY <1>1, <2>1
  <2>3. Len(node)' >= 1 /\ ~node'[1].filled
    BY <1>1, <2>1
  <2> QED
    BY ONLY <2>1, <2>2, <2>3 DEF JobFits
<1>11. CASE ListNode
  <2>1. PICK n : Lists(n)
    BY <1>11, ListNodeDoes
  <2> QED
    BY <1>1, <2>1 DEF JobFits, Lists
<1>12. CASE ListDone
  BY <1>1, <1>12 DEF ListDone, JobFits
<1> QED
  BY Steps, <1>2, <1>3, <1>4, <1>5, <1>6, <1>7, <1>8, <1>9, <1>10, <1>11, <1>12

LEMMA NotedStep ==
  ASSUME TypeOK, JobFits, NotNoted, [Next]_vars
  PROVE  NotNoted'
<1> DEFINE reach == IF pc = "search" THEN job.count ELSE search.archiveCount
<1>1. /\ Len(node) \in Nat /\ reach \in 0..Len(node)
      /\ \A n \in 1..Len(node) : n > reach => node[n].pos = 0
      /\ search.archiveCount \in 0..Len(node) /\ job.count \in 0..Len(node) /\ job.i \in 0..Len(node)
      /\ pc = "search" => search.archiveCount <= job.i /\ job.i <= job.count
  BY TypeIs DEF NotNoted, Nodes, JobFits
<1>2. ASSUME NEW r, r = reach', \A n \in 1..Len(node)' : n > r => node'[n].pos = 0
      PROVE  NotNoted'
  BY <1>2 DEF NotNoted, Nodes
<1>3. CASE Publish
  BY <1>1, <1>2, <1>3, PublishDoes
<1>4. CASE Fill
  <2>1. /\ Len(node)' = Len(node) /\ reach' = reach
        /\ \A n \in 1..(Len(node) - 1) : node'[n].pos = node[n].pos
        /\ node'[Len(node)].pos = node[Len(node)].pos
    BY <1>4, FillDoes
  <2>2. \A n \in 1..Len(node) : node'[n].pos = node[n].pos
    BY <1>1, <2>1
  <2> QED
    BY <1>1, <1>2, <2>1, <2>2
<1>5. CASE Grow
  BY <1>1, <1>2, <1>5, GrowDoes
<1>6. CASE Resumes
  BY <1>1, <1>2, <1>6, ResumesDoes
<1>7. ASSUME NEW listToo \in BOOLEAN, Restarts(listToo) PROVE NotNoted'
  BY <1>1, <1>2, <1>7, RestartsDoes
<1>8. CASE Rests
  BY <1>1, <1>2, <1>8, RestsDoes
<1>9. ASSUME NEW restart \in BOOLEAN, ClearLog(restart) PROVE NotNoted'
  BY <1>1, <1>2, <1>9, ClearLogDoes
<1>10. CASE SearchNode
  <2>1. PICK n : Searches(n)
    BY <1>10, SearchNodeDoes
  <2> QED
    BY <1>1, <1>2, <2>1 DEF Searches
<1>11. CASE SearchDone
  BY <1>1, <1>2, <1>11, SearchDoneDoes
<1>12. CASE ListNode
  <2>1. PICK n : Lists(n)
    BY <1>12, ListNodeDoes
  <2> QED
    BY <1>1, <1>2, <2>1 DEF Lists
<1>13. CASE ListDone
  BY <1>1, <1>2, <1>13 DEF ListDone
<1> QED
  BY Steps, <1>3, <1>4, <1>5, <1>6, <1>7, <1>8, <1>9, <1>10, <1>11, <1>12, <1>13

LEMMA ListedKept ==
  ASSUME ListedSoFar, ~Outdated, listed' = listed, passed' = passed,
         Position \in Nat, Position' = Position, filterOn' <=> filterOn,
         search.archiveCount \in Nat, search'.archiveCount \in Nat,
         search.archiveCount <= search'.archiveCount \/ ~filterOn,
         \A n \in 1..Position :
           \/ n \in passed
           \/ /\ Visible(n)' <=> Visible(n)
              /\ node'[n].filled <=> node[n].filled
              /\ node'[n].pos = node[n].pos \/ ~filterOn \/ ~Visible(n)
  PROVE  ListedSoFar'
<1>1. InOrder /\ Range(listed) = {n \in 1..Position : Passes(n)}
      /\ NotListed /\ passed \subseteq 1..Position
  BY DEF ListedSoFar
<1>2. InOrder'
  BY <1>1 DEF InOrder
<1>3. \A n \in 1..Position : Passes(n)' <=> Passes(n)
  BY DEF Passes
<1>4. Range(listed') = {n \in 1..Position : Passes(n)'}
  BY <1>1, <1>3
<1>5. NotListed'
  BY <1>1 DEF NotListed
<1> QED
  BY <1>1, <1>2, <1>4, <1>5 DEF ListedSoFar

LEMMA InOrderAppend ==
  ASSUME TypeOK, InOrder, NEW P, Range(listed) = P, NEW n, \A m \in P : m < n,
         NEW s, s = Append(listed, n)
  PROVE  /\ Range(s) = P \cup {n}
         /\ \A k, l \in DOMAIN s : k < l => s[k] < s[l]
<1>1. /\ Len(listed) \in Nat /\ DOMAIN listed = 1..Len(listed) /\ listed \in Seq(1..Len(node))
      /\ \A k, l \in 1..Len(listed) : k < l => listed[k] < listed[l]
      /\ \A k \in 1..Len(listed) : listed[k] \in P
      /\ P = {listed[k] : k \in 1..Len(listed)}
  <2>1. /\ Len(listed) \in Nat /\ DOMAIN listed = 1..Len(listed) /\ listed \in Seq(1..Len(node))
    BY TypeIs
  <2> QED
    BY <2>1 DEF InOrder, Range
<1>2. /\ Len(s) = Len(listed) + 1 /\ DOMAIN s = 1..(Len(listed) + 1) /\ s[Len(listed) + 1] = n
      /\ \A k \in 1..Len(listed) : s[k] = listed[k]
  BY <1>1
<1>3. Range(s) = P \cup {n}
  <2>1. Range(s) = {s[k] : k \in 1..(Len(listed) + 1)}
    BY <1>2 DEF Range
  <2>2. ASSUME NEW x \in Range(s) PROVE x \in P \cup {n}
    <3>1. PICK k \in 1..(Len(listed) + 1) : x = s[k]
      BY <2>1, <2>2
    <3> QED
      BY <1>1, <1>2, <3>1
  <2>3. n \in Range(s)
    BY <1>1, <1>2, <2>1
  <2>4. ASSUME NEW x \in P PROVE x \in Range(s)
    <3>1. PICK k \in 1..Len(listed) : x = listed[k]
      BY <1>1, <2>4
    <3>2. k \in 1..(Len(listed) + 1) /\ s[k] = x
      BY <1>1, <1>2, <3>1
    <3> QED
      BY <2>1, <3>2
  <2> QED
    BY <2>2, <2>3, <2>4
<1>4. ASSUME NEW k \in DOMAIN s, NEW l \in DOMAIN s, k < l PROVE s[k] < s[l]
  <2>1. k \in 1..Len(listed) /\ (l \in 1..Len(listed) \/ l = Len(listed) + 1)
    BY <1>1, <1>2, <1>4
  <2> QED
    BY <1>1, <1>2, <1>4, <2>1
<1> QED
  BY <1>3, <1>4

LEMMA ListedStep ==
  ASSUME TypeOK, TypeOK', JobFits, NotNoted, ListedSoFar, [Next]_vars
  PROVE  ListedSoFar'
<1> SUFFICES ASSUME ~Outdated' PROVE ListedSoFar'
  BY DEF ListedSoFar
<1>1. /\ Len(node) \in Nat /\ Position \in 0..Len(node) /\ listCount \in 0..Len(node)
      /\ search.archiveCount \in 0..Len(node)
      /\ job.count \in 0..Len(node) /\ job.i \in 0..Len(node)
      /\ pc = "search" => search.archiveCount <= job.i /\ job.i <= job.count
      /\ pc = "search" => job.listToo \/ (job.reset /\ ~filterOn)
      /\ search'.archiveCount \in Nat
      /\ Len(node) >= 1 /\ ~node[1].filled
  <2>1. search'.archiveCount \in Nat
    BY DEF TypeOK
  <2> QED
    BY <2>1, TypeIs DEF Position, JobFits
<1>2. CASE Publish
  <2>1. ~Outdated /\ Position' = Position
    BY <1>2, PublishDoes DEF Outdated, Position
  <2>2. \A n \in 1..Position : /\ Visible(n)' <=> Visible(n)
                               /\ node'[n].filled <=> node[n].filled
                               /\ node'[n].pos = node[n].pos
    BY SMTT(30), <1>1, <1>2, PublishDoes, SameNodes
  <2>3. /\ listed' = listed /\ passed' = passed /\ (filterOn' <=> filterOn)
        /\ search'.archiveCount = search.archiveCount
    BY <1>2, PublishDoes DEF FiltersSame
  <2> QED
    BY <1>1, <2>1, <2>2, <2>3, ListedKept
<1>3. CASE Fill
  <2>1. ~Outdated /\ Position' = Position
    BY <1>3, FillDoes DEF Outdated, Position
  <2>2. ASSUME NEW n \in 1..Position
        PROVE  \/ n \in passed
               \/ /\ Visible(n)' <=> Visible(n)
                  /\ node'[n].filled <=> node[n].filled
                  /\ node'[n].pos = node[n].pos
    <3>1. CASE n = Len(node)
      <4>1. n \in 2..Position /\ ~node[n].filled
        BY <1>1, <1>3, <3>1, FillDoes
      <4> QED
        BY <2>1, <4>1 DEF ListedSoFar, NotListed
    <3>2. CASE n # Len(node)
      <4>1. n \in 1..(Len(node) - 1)
        BY <1>1, <3>2
      <4> QED
        BY <1>3, <4>1, FillDoes, SameNodes
    <3> QED
      BY <3>1, <3>2
  <2> QED
    BY <1>1, <1>3, <2>1, <2>2, FillDoes, ListedKept DEF FiltersSame
<1>4. CASE Grow
  <2>1. ~Outdated /\ Position' = Position
    BY <1>4, GrowDoes DEF Outdated, Position
  <2>2. \A n \in 1..Position : /\ Visible(n)' <=> Visible(n)
                               /\ node'[n].filled <=> node[n].filled
                               /\ node'[n].pos = node[n].pos
    BY <1>1, <1>4, GrowDoes DEF Visible, FiltersSame
  <2> QED
    BY <1>1, <1>4, <2>1, <2>2, GrowDoes, ListedKept DEF FiltersSame
<1>5. CASE Resumes
  <2>1. ~Outdated /\ Position' = Position
    BY <1>5, ResumesDoes DEF Outdated, Position
  <2>2. \A n \in 1..Position : Visible(n)' <=> Visible(n)
    BY <1>1, <1>5, ResumesDoes, SameNodes
  <2> QED
    BY <1>1, <1>5, <2>1, <2>2, ResumesDoes, ListedKept DEF FiltersSame
<1>6. ASSUME NEW listToo \in BOOLEAN, Restarts(listToo) PROVE ListedSoFar'
  <2>1. ~listToo /\ ~Outdated /\ Position' = Position
    BY <1>6, RestartsDoes DEF Outdated, Position
  <2>2. \A n \in 1..Position : Visible(n)' <=> Visible(n)
    BY <1>1, <1>6, <2>1, RestartsDoes, SameNodes
  <2> QED
    BY <1>1, <1>6, <2>1, <2>2, RestartsDoes, ListedKept
<1>7. CASE Rests
  <2>1. ~Outdated /\ Position' = Position
    BY <1>7, RestsDoes DEF Outdated, Position
  <2>2. \A n \in 1..Position : Visible(n)' <=> Visible(n)
    BY <1>1, <1>7, RestsDoes, SameNodes
  <2> QED
    BY <1>1, <1>7, <2>1, <2>2, RestsDoes, ListedKept DEF FiltersSame
<1>8. ASSUME NEW restart \in BOOLEAN, ClearLog(restart) PROVE ListedSoFar'
  <2>1. Position' = 0 /\ listed' = <<>> /\ passed' = {}
    BY <1>8, ClearLogDoes DEF Position
  <2> QED
    BY <2>1 DEF ListedSoFar, InOrder, Range, NotListed
<1>9. CASE SearchNode
  <2>1. PICK n : Searches(n)
    BY <1>9, SearchNodeDoes
  <2>2. ~Outdated /\ Position' = Position /\ Position = listCount
    BY <2>1 DEF Outdated, Position, Searches
  <2>3. ASSUME NEW k \in 1..Position
        PROVE  \/ k \in passed
               \/ /\ Visible(k)' <=> Visible(k)
                  /\ node'[k].filled <=> node[k].filled
                  /\ node'[k].pos = node[k].pos \/ ~filterOn \/ ~Visible(k)
    <3>1. (Visible(k)' <=> Visible(k)) /\ (node'[k].filled <=> node[k].filled)
      BY <1>1, <2>1, SameNodes DEF Searches
    <3>2. CASE k # n
      BY <1>1, <2>1, <3>1, <3>2 DEF Searches
    <3>3. CASE k = n /\ k = 1
      BY <1>1, <3>1, <3>3 DEF Visible
    <3>4. CASE k = n /\ k # 1
      <4>1. k \in 2..Position /\ k > search.archiveCount
        BY <1>1, <2>1, <3>4 DEF Searches
      <4>2. k \in passed \/ ~(filterOn /\ k > search.archiveCount /\ Visible(k))
        BY <2>2, <4>1 DEF ListedSoFar, NotListed
      <4> QED
        BY <3>1, <4>1, <4>2
    <3> QED
      BY <3>2, <3>3, <3>4
  <2>4. /\ listed' = listed /\ passed' = passed /\ (filterOn' <=> filterOn)
        /\ search'.archiveCount = search.archiveCount
    BY <2>1 DEF Searches, FiltersSame
  <2> QED
    BY <1>1, <2>2, <2>3, <2>4, ListedKept
<1>10. CASE SearchDone
  <2>1. CASE Outdated
    <3>1. Position' = 0 /\ listed' = <<>> /\ passed' = {}
      BY <1>10, <2>1, SearchDoneDoes DEF Position, Outdated
    <3> QED
      BY <3>1 DEF ListedSoFar, InOrder, Range, NotListed
  <2>2. CASE ~Outdated
    <3>1. Position' = Position /\ listed' = listed /\ passed' = passed
      BY <1>10, <2>2, SearchDoneDoes DEF Position, Outdated
    <3>2. \A n \in 1..Position : Visible(n)' <=> Visible(n)
      BY <1>1, <1>10, SearchDoneDoes, SameNodes
    <3>3. node' = node /\ (filterOn' <=> filterOn) /\ search.archiveCount <= search'.archiveCount
      BY <1>1, <1>10, SearchDoneDoes DEF FiltersSame
    <3> QED
      BY <1>1, <2>2, <3>1, <3>2, <3>3, ListedKept
  <2> QED
    BY <2>1, <2>2
<1>11. CASE ListNode
  <2>1. PICK n : Lists(n)
    BY <1>11, ListNodeDoes
  <2>2. /\ n \in 1..Len(node) /\ n = Position + 1 /\ Position' = n /\ ~Outdated /\ pc = "list"
        /\ search' = search /\ node' = node /\ (filterOn' <=> filterOn)
    BY <2>1 DEF Lists, Position, Outdated, FiltersSame
  <2>3. InOrder /\ Range(listed) = {k \in 1..Position : Passes(k)}
        /\ NotListed /\ passed \subseteq 1..Position
    BY <2>2 DEF ListedSoFar
  <2>4. \A k \in 1..n : Visible(k)' <=> Visible(k)
    BY <2>1, <2>2, SameNodes DEF Lists
  <2>5. passed' = passed \/ passed' = passed \cup {n}
    BY <2>1 DEF Lists
  <2>6. \A k \in 1..Position : Passes(k)' <=> Passes(k)
    BY <1>1, <2>2, <2>4, <2>5 DEF Passes
  <2>7. passed' \subseteq 1..n
    <3>1. 1..Position \subseteq 1..n /\ n \in 1..n
      BY <1>1, <2>2
    <3> QED
      BY <2>3, <2>5, <3>1, Zenon
  <2>8. InOrder' /\ Range(listed') = {k \in 1..n : Passes(k)'}
    <3>1. CASE Visible(n) /\ (node[n].pos # 0 \/ ~filterOn)
      <4>1. listed' = Append(listed, n) /\ passed' = passed
        BY <2>1, <3>1 DEF Lists
      <4>2. Passes(n)'
        BY <1>1, <2>2, <2>3, <2>4, <3>1, <4>1 DEF Passes
      <4>3. {k \in 1..n : Passes(k)'} = {k \in 1..Position : Passes(k)} \cup {n}
        BY <1>1, <2>2, <2>6, <4>2
      <4>4. \A k \in {k \in 1..Position : Passes(k)} : k < n
        BY <1>1, <2>2
      <4>5. /\ Range(listed') = {k \in 1..Position : Passes(k)} \cup {n}
            /\ \A k, l \in DOMAIN listed' : k < l => listed'[k] < listed'[l]
        BY <2>3, <4>1, <4>4, InOrderAppend
      <4> QED
        BY <4>3, <4>5 DEF InOrder
    <3>2. CASE ~(Visible(n) /\ (node[n].pos # 0 \/ ~filterOn))
      <4>1. listed' = listed
        BY <2>1, <3>2 DEF Lists
      <4>2. ~Passes(n)'
        BY <2>2, <2>4, <3>2 DEF Passes
      <4>3. {k \in 1..n : Passes(k)'} = {k \in 1..Position : Passes(k)}
        BY <1>1, <2>2, <2>6, <4>2
      <4> QED
        BY <2>3, <4>1, <4>3 DEF InOrder
    <3> QED
      BY <3>1, <3>2
  <2>9. NotListed'
    <3> SUFFICES ASSUME NEW k \in 2..n, k \notin passed'
                 PROVE  node[k].filled /\ ~(filterOn /\ k > search.archiveCount /\ Visible(k))
      BY <2>2, <2>4 DEF NotListed
    <3>1. CASE k \in 2..Position
      BY <2>3, <2>5, <3>1 DEF NotListed
    <3>2. CASE k = n
      <4>1. CASE Visible(n) /\ (node[n].pos # 0 \/ ~filterOn)
        <5>1. n > search.archiveCount => node[n].pos = 0
          BY <2>2 DEF NotNoted, Nodes
        <5> QED
          BY <3>2, <4>1, <5>1 DEF Visible
      <4>2. CASE ~(Visible(n) /\ (node[n].pos # 0 \/ ~filterOn))
        <5>1. ~(n > 1 /\ (~node[n].filled \/ n > search.archiveCount))
          BY <2>1, <3>2, <4>2 DEF Lists
        <5> QED
          BY <3>2, <5>1
      <4> QED
        BY <4>1, <4>2
    <3> QED
      BY <1>1, <2>2, <3>1, <3>2
  <2> QED
    BY <2>2, <2>7, <2>8, <2>9 DEF ListedSoFar
<1>12. CASE ListDone
  <2>1. /\ Position' = Position /\ listed' = listed /\ passed' = passed /\ ~Outdated
        /\ search' = search /\ node' = node /\ (filterOn' <=> filterOn)
        /\ (flowsHidden' <=> flowsHidden) /\ shown' = shown
    BY <1>12 DEF ListDone, Position, Outdated, filters
  <2>2. \A n \in 1..Position : Visible(n)' <=> Visible(n)
    BY <2>1 DEF Visible
  <2> QED
    BY <1>1, <2>1, <2>2, ListedKept
<1> QED
  BY Steps, <1>2, <1>3, <1>4, <1>5, <1>6, <1>7, <1>8, <1>9, <1>10, <1>11, <1>12

LEMMA CountedKept ==
  ASSUME Counted, Searched' = Searched, searching' <=> searching, search'.total = search.total,
         search.total \in Nat, NEW a \in Nat, a = Matches(Searched), NEW b \in Nat, b = Matches(Searched)',
         a <= b, calm' => calm /\ a = b
  PROVE  Counted'
<1>1. searching => search.total <= a /\ (calm => search.total = a)
  BY DEF Counted
<1>2. searching' => search'.total <= b /\ (calm' => search'.total = b)
  BY <1>1
<1> QED
  BY <1>2 DEF Counted

LEMMA CountedStep ==
  ASSUME TypeOK, TypeOK', JobFits, Counted, [Next]_vars
  PROVE  Counted'
<1>1. /\ Len(node) \in Nat /\ Searched \in 0..Len(node)
      /\ search.archiveCount \in 0..Len(node)
      /\ job.count \in 0..Len(node) /\ job.i \in 0..Len(node)
      /\ search.total \in Nat
      /\ \A k \in 0..Len(node) : Matches(k) \in Nat
  BY TypeIs, MatchesAre DEF Searched
<1>2. ASSUME SameUpTo(Len(node)), Searched' = Searched, FiltersSame, calm' => calm,
             search'.total = search.total
      PROVE  Counted'
  <2>1. Matches(Searched)' = Matches(Searched)
    BY <1>1, <1>2, SameMatches
  <2> QED
    BY <1>1, <1>2, <2>1, CountedKept DEF FiltersSame
<1>3. CASE Publish
  BY <1>2, <1>3, PublishDoes DEF Searched
<1>4. ASSUME Len(node)' = Len(node), Searched' = Searched, FiltersSame,
             search' = search,
             \A n \in 1..Len(node) : Visible(n) => Visible(n)' /\ node[n].hits <= node'[n].hits,
             NEW l \in 1..Len(node), SameUpTo(l - 1), calm' => calm /\ Searched < l
      PROVE  Counted'
  <2>1. Matches(Searched) <= Matches(Searched)'
    BY <1>1, <1>4, MatchesGrow
  <2>2. Matches(Searched)' \in Nat
    BY <1>1, <1>4, MatchesLater
  <2>3. calm' => Matches(Searched)' = Matches(Searched)
    BY <1>1, <1>4, SameMatches
  <2> QED
    BY <1>1, <1>4, <2>1, <2>2, <2>3, CountedKept DEF FiltersSame
<1>5. CASE Fill
  <2>1. /\ Len(node)' = Len(node) /\ Len(node) \in 1..Len(node) /\ SameUpTo(Len(node) - 1)
        /\ search' = search /\ Searched' = Searched /\ FiltersSame
        /\ calm' => calm /\ Searched < Len(node)
    BY <1>1, <1>5, FillDoes DEF Searched
  <2>2. ASSUME NEW n \in 1..Len(node), Visible(n)
        PROVE  Visible(n)' /\ node[n].hits <= node'[n].hits
    <3>1. n # Len(node)
      <4>1. ~node[Len(node)].filled /\ node[n].filled
        BY <1>5, <2>2, FillDoes DEF Visible
      <4> QED
        BY <4>1
    <3>2. n \in 1..(Len(node) - 1) /\ node[n].hits \in Nat
      <4>1. PICK m \in Nat : m = Len(node)
        BY <1>1
      <4>2. n \in 1..m /\ n # m /\ node[n].hits \in Nat
        BY <3>1, <4>1, NodeIs
      <4>3. n \in 1..(m - 1)
        BY ONLY m \in Nat, <4>2
      <4> QED
        BY <4>1, <4>2, <4>3
    <3> QED
      BY <2>1, <2>2, <3>2, SameNodes
  <2> QED
    BY <1>4, <2>1, <2>2
<1>6. CASE Grow
  <2>1. PICK n \in 1..Len(node) :
           /\ Len(node)' = Len(node) /\ SameUpTo(n - 1)
           /\ \A k \in 1..Len(node) : /\ node'[k].filled = node[k].filled
                                      /\ node'[k].kind = node[k].kind
                                      /\ node'[k].thread = node[k].thread
                                      /\ node[k].hits <= node'[k].hits
           /\ search' = search /\ job' = job /\ pc' = pc /\ FiltersSame
           /\ calm' => calm /\ pc = "idle" /\ n > search.archiveCount
    BY <1>6, GrowDoes
  <2>2. \A k \in 1..Len(node) : Visible(k) => Visible(k)' /\ node[k].hits <= node'[k].hits
    BY <2>1 DEF Visible, FiltersSame
  <2>3. Searched' = Searched /\ (calm' => calm /\ Searched < n)
    BY <1>1, <2>1 DEF Searched
  <2> QED
    BY <1>4, <2>1, <2>2, <2>3
<1>7. CASE Resumes
  BY <1>2, <1>7, ResumesDoes DEF Searched
<1>8. ASSUME Searched' = 0, search'.total = 0 PROVE Counted'
  <2>1. Matches(0)' = 0
    BY SumZero DEF Matches
  <2> QED
    BY <1>8, <2>1 DEF Counted
<1>9. ASSUME NEW listToo \in BOOLEAN, Restarts(listToo) PROVE Counted'
  BY <1>8, <1>9, RestartsDoes DEF Searched
<1>10. CASE Rests
  BY <1>2, <1>10, RestsDoes DEF Searched
<1>11. ASSUME NEW restart \in BOOLEAN, ClearLog(restart) PROVE Counted'
  BY <1>8, <1>11, ClearLogDoes DEF Searched
<1>12. CASE SearchNode
  <2>1. PICK n : Searches(n)
    BY <1>12, SearchNodeDoes
  <2>2. /\ n \in 1..Len(node) /\ n = Searched + 1 /\ Searched' = n /\ Searched \in 0..(Len(node) - 1)
        /\ searching /\ calm' = calm
    BY <1>1, <2>1 DEF Searches, Searched
  <2>3. Matches(n)' = Matches(n)
    BY <1>1, <2>1, <2>2, SameMatches DEF Searches
  <2>4. Matches(n) = Matches(Searched) + (IF Visible(n) THEN node[n].hits ELSE 0)
    BY <2>2, MatchesAre
  <2>5. search'.total = search.total + (IF Visible(n) THEN node[n].hits ELSE 0) /\ node[n].hits \in Nat
    <3>1. node[n].hits \in Nat
      BY <2>2, NodeIs
    <3>2. CASE Visible(n)
      BY <2>1, <3>1, <3>2, FoundIs DEF Searches
    <3>3. CASE ~Visible(n)
      BY <1>1, <2>1, <3>1, <3>3 DEF Searches
    <3> QED
      BY <3>1, <3>2, <3>3
  <2>6. search.total <= Matches(Searched) /\ (calm => search.total = Matches(Searched))
    BY <2>2 DEF Counted
  <2>7. PICK a \in Nat : a = Matches(Searched)
    BY <1>1
  <2>8. PICK d \in Nat : d = IF Visible(n) THEN node[n].hits ELSE 0
    BY <2>5
  <2>9. Matches(Searched)' = a + d /\ search'.total = search.total + d
    BY <2>2, <2>3, <2>4, <2>5, <2>7, <2>8
  <2>10. search'.total <= a + d /\ (calm' => search'.total = a + d)
    BY <1>1, <2>2, <2>6, <2>7, <2>9
  <2> QED
    BY <2>9, <2>10 DEF Counted
<1>13. CASE SearchDone
  <2>1. CASE ~searching
    BY <1>13, <2>1, SearchDoneDoes DEF Counted, FiltersSame
  <2>2. CASE searching
    <3>1. Searched' = Searched
      BY <1>1, <1>13, <2>2, SearchDoneDoes DEF Searched
    <3> QED
      BY <1>2, <1>13, <3>1, SearchDoneDoes
  <2> QED
    BY <2>1, <2>2
<1>14. CASE ListNode
  <2>1. PICK n : Lists(n)
    BY <1>14, ListNodeDoes
  <2> QED
    BY <1>2, <2>1 DEF Lists, Searched
<1>15. CASE ListDone
  <2>1. /\ search' = search /\ node' = node /\ FiltersSame /\ calm' = calm /\ Searched' = Searched
    BY <1>15 DEF ListDone, filters, FiltersSame, Searched
  <2> QED
    BY <1>2, <2>1, StillSame DEF FiltersSame
<1> QED
  BY Steps, <1>3, <1>5, <1>6, <1>7, <1>9, <1>10, <1>11, <1>12, <1>13, <1>14, <1>15

-----------------------------------------------------------------------------
(* What holds as long as it is calm.                                        *)

LEMMA CalmFitsStep ==
  ASSUME TypeOK, JobFits, CalmInv, [Next]_vars, calm'
  PROVE  CalmFits'
<1>1. /\ Len(node) \in Nat /\ listCount \in 0..Len(node)
      /\ search.archiveCount \in 0..Len(node)
      /\ job.count \in 0..Len(node) /\ job.i \in 0..Len(node)
      /\ pc \in {"idle", "search", "list"}
  BY TypeIs
<1>2. /\ calm /\ pc = "idle" => listCount <= search.archiveCount
      /\ calm /\ pc = "search" => /\ job.count = Len(node)
                                  /\ ~job.reset => search.archiveCount = listCount
      /\ calm /\ pc = "list" => job.count = Len(node) /\ job.count = search.archiveCount
  BY DEF CalmInv, CalmFits
<1>3. CASE Publish
  BY <1>2, <1>3, PublishDoes DEF CalmFits
<1>4. CASE Fill
  BY <1>2, <1>4, FillDoes DEF CalmFits
<1>5. CASE Grow
  BY <1>2, <1>5, GrowDoes DEF CalmFits
<1>6. CASE Resumes
  BY <1>6, ResumesDoes DEF CalmFits
<1>7. ASSUME NEW listToo \in BOOLEAN, Restarts(listToo) PROVE CalmFits'
  BY <1>7, RestartsDoes DEF CalmFits
<1>8. CASE Rests
  BY <1>2, <1>8, RestsDoes DEF CalmFits
<1>9. ASSUME NEW restart \in BOOLEAN, ClearLog(restart) PROVE CalmFits'
  BY <1>9, ClearLogDoes DEF CalmFits
<1>10. CASE SearchNode
  <2>1. PICK n : Searches(n)
    BY <1>10, SearchNodeDoes
  <2> QED
    BY <1>2, <2>1 DEF CalmFits, Searches
<1>11. CASE SearchDone
  <2>1. /\ pc = "search" /\ calm /\ node' = node /\ search'.archiveCount = job.count
        /\ job.listToo => pc' = "list" /\ job'.count = Len(node)
        /\ ~job.listToo => pc' = "idle" /\ listCount' = listCount
    BY <1>11, SearchDoneDoes
  <2> QED
    BY <1>1, <1>2, <2>1 DEF CalmFits
<1>12. CASE ListNode
  <2>1. PICK n : Lists(n)
    BY <1>12, ListNodeDoes
  <2> QED
    BY <1>2, <2>1 DEF CalmFits, Lists
<1>13. CASE ListDone
  BY <1>1, <1>2, <1>13 DEF CalmFits, ListDone
<1> QED
  BY Steps, <1>3, <1>4, <1>5, <1>6, <1>7, <1>8, <1>9, <1>10, <1>11, <1>12, <1>13

LEMMA ListLinesKept ==
  ASSUME TypeOK, ListLines, NEW l, SameUpTo(l), filterOn' <=> filterOn,
         Position \in 0..l, Position' = Position, listed' = listed,
         (searching' \/ ~filterOn) /\ ~Outdated' => (searching \/ ~filterOn) /\ ~Outdated
  PROVE  ListLines'
<1> SUFFICES ASSUME (searching' \/ ~filterOn) /\ ~Outdated'
             PROVE  /\ Len(listed') = Lines(Position)'
                    /\ \A n \in 1..Position :
                         Shown(n)' => /\ Lines(n - 1)' + 1 \in DOMAIN listed'
                                      /\ listed'[Lines(n - 1)' + 1] = n
  BY DEF ListLines
<1>1. /\ Len(listed) = Lines(Position)
      /\ \A n \in 1..Position :
           Shown(n) => Lines(n - 1) + 1 \in DOMAIN listed /\ listed[Lines(n - 1) + 1] = n
  BY DEF ListLines
<1>2. l \in Nat
  BY NodeIs DEF SameUpTo
<1>3. Lines(Position)' = Lines(Position)
  BY SameLines
<1>4. ASSUME NEW n \in 1..Position
      PROVE  Lines(n - 1)' = Lines(n - 1) /\ (Shown(n)' <=> Shown(n))
  <2>1. n \in 1..l /\ n - 1 \in 0..l
    BY <1>2
  <2> QED
    BY <2>1, SameLines, SameNodes
<1> QED
  BY <1>1, <1>3, <1>4

LEMMA ListLinesStep ==
  ASSUME TypeOK, JobFits, NotNoted, ListedSoFar, CalmInv, [Next]_vars, calm'
  PROVE  ListLines'
<1>1. /\ Len(node) \in Nat /\ listCount \in 0..Len(node) /\ Position \in 0..Len(node)
      /\ search.archiveCount \in 0..Len(node)
      /\ job.count \in 0..Len(node) /\ job.i \in 0..Len(node)
      /\ pc \in {"idle", "search", "list"}
  BY TypeIs DEF Position
<1>2. /\ calm => ListLines
      /\ calm /\ pc = "idle" => listCount <= search.archiveCount
      /\ calm /\ pc = "list" => job.count = search.archiveCount
      /\ calm /\ searching => PosTells
  BY DEF CalmInv, CalmFits
<1>3. CASE Publish
  <2>1. /\ calm /\ SameUpTo(Len(node)) /\ (filterOn' <=> filterOn) /\ (searching' <=> searching)
        /\ Position' = Position /\ listed' = listed /\ (Outdated' <=> Outdated)
    BY <1>3, PublishDoes DEF FiltersSame, Position, Outdated
  <2> QED
    BY <1>1, <1>2, <2>1, ListLinesKept
<1>4. CASE Fill
  <2>1. PICK m \in Nat : m = Len(node)
    BY <1>1
  <2>2. /\ calm /\ SameUpTo(m - 1) /\ (filterOn' <=> filterOn) /\ (searching' <=> searching)
        /\ Position' = Position /\ listed' = listed /\ (Outdated' <=> Outdated)
        /\ m > Position
    BY <1>4, <2>1, FillDoes DEF FiltersSame, Position, Outdated
  <2>3. Position \in 0..(m - 1)
    BY <1>1, <2>1, <2>2
  <2> QED
    BY <1>2, <2>2, <2>3, ListLinesKept
<1>5. CASE Grow
  <2>1. PICK n \in 1..Len(node) :
           /\ SameUpTo(n - 1) /\ listed' = listed /\ listCount' = listCount
           /\ job' = job /\ pc' = pc /\ FiltersSame
           /\ calm /\ pc = "idle" /\ n > search.archiveCount
    BY <1>5, GrowDoes
  <2>2. /\ (filterOn' <=> filterOn) /\ (searching' <=> searching)
        /\ Position' = Position /\ (Outdated' <=> Outdated)
    BY <2>1 DEF FiltersSame, Position, Outdated
  <2>3. Position \in 0..(n - 1)
    BY <1>1, <1>2, <2>1 DEF Position
  <2> QED
    BY <1>2, <2>1, <2>2, <2>3, ListLinesKept
<1>6. CASE Resumes
  <2>1. /\ calm /\ SameUpTo(Len(node)) /\ (filterOn' <=> filterOn) /\ (searching' <=> searching)
        /\ Position' = Position /\ listed' = listed /\ ~Outdated
    BY <1>6, ResumesDoes DEF FiltersSame, Position, Outdated
  <2> QED
    BY <1>1, <1>2, <2>1, ListLinesKept
<1>7. ASSUME NEW listToo \in BOOLEAN, Restarts(listToo) PROVE ListLines'
  <2>1. CASE listToo
    BY <1>7, <2>1, RestartsDoes DEF ListLines, Outdated
  <2>2. CASE ~listToo
    <3>1. /\ calm /\ SameUpTo(Len(node)) /\ (filterOn' <=> filterOn) /\ ~filterOn
          /\ Position' = Position /\ listed' = listed /\ ~Outdated
      BY <1>7, <2>2, RestartsDoes DEF Position, Outdated
    <3> QED
      BY <1>1, <1>2, <3>1, ListLinesKept
  <2> QED
    BY <2>1, <2>2
<1>8. CASE Rests
  <2>1. /\ SameUpTo(Len(node)) /\ FiltersSame /\ listed' = listed /\ listCount' = listCount
        /\ pc' = pc /\ job' = job /\ calm' = calm
    BY <1>8, RestsDoes
  <2>2. /\ calm /\ (filterOn' <=> filterOn) /\ (searching' <=> searching)
        /\ Position' = Position /\ (Outdated' <=> Outdated)
    BY <2>1 DEF FiltersSame, Position, Outdated
  <2> QED
    BY <1>1, <1>2, <2>1, <2>2, ListLinesKept
<1>9. ASSUME listed' = <<>>, Position' = 0 PROVE ListLines'
  <2>1. Lines(0)' = 0
    BY SumZero DEF Lines
  <2> QED
    BY <1>9, <2>1 DEF ListLines
<1>10. ASSUME NEW restart \in BOOLEAN, ClearLog(restart) PROVE ListLines'
  BY <1>9, <1>10, ClearLogDoes DEF Position
<1>11. CASE SearchNode
  <2>1. PICK n : Searches(n)
    BY <1>11, SearchNodeDoes
  <2>2. /\ calm /\ SameUpTo(Len(node)) /\ (filterOn' <=> filterOn) /\ (searching' <=> searching)
        /\ Position' = Position /\ listed' = listed /\ (Outdated' <=> Outdated)
    BY <2>1 DEF Searches, FiltersSame, Position, Outdated
  <2> QED
    BY <1>1, <1>2, <2>2, ListLinesKept
<1>12. CASE SearchDone
  <2>1. CASE Outdated
    BY <1>9, <1>12, <2>1, SearchDoneDoes DEF Position, Outdated
  <2>2. CASE ~Outdated
    <3>1. /\ SameUpTo(Len(node)) /\ FiltersSame /\ calm' = calm /\ pc = "search"
          /\ listed' = listed /\ listCount' = listCount
          /\ job.listToo => pc' = "list" /\ job'.i = listCount
          /\ ~job.listToo => pc' = "idle"
      BY <1>12, <2>2, SearchDoneDoes DEF Outdated
    <3>2. /\ calm /\ (filterOn' <=> filterOn) /\ (searching' <=> searching) /\ Position' = Position
      BY <3>1 DEF FiltersSame, Position
    <3> QED
      BY <1>1, <1>2, <2>2, <3>1, <3>2, ListLinesKept
  <2> QED
    BY <2>1, <2>2
<1>13. CASE ListNode
  <2>1. PICK n : Lists(n)
    BY <1>13, ListNodeDoes
  <2>2. /\ n \in 1..Len(node) /\ n = Position + 1 /\ Position' = n /\ ~Outdated /\ pc = "list"
        /\ n <= search.archiveCount /\ Position \in 0..(Len(node) - 1)
        /\ node' = node /\ SameUpTo(Len(node)) /\ calm
        /\ (filterOn' <=> filterOn) /\ (searching' <=> searching)
    BY <1>1, <1>2, <2>1 DEF Lists, Position, Outdated, FiltersSame
  <2> SUFFICES ASSUME searching \/ ~filterOn
               PROVE  /\ Len(listed') = Lines(n)'
                      /\ \A k \in 1..n :
                           Shown(k)' => /\ Lines(k - 1)' + 1 \in DOMAIN listed'
                                        /\ listed'[Lines(k - 1)' + 1] = k
    BY <2>2 DEF ListLines
  <2>3. /\ Len(listed) = Lines(Position)
        /\ \A k \in 1..Position :
             Shown(k) => Lines(k - 1) + 1 \in DOMAIN listed /\ listed[Lines(k - 1) + 1] = k
    BY <1>2, <2>2 DEF ListLines
  <2>4. Visible(n) => (filterOn => (node[n].pos # 0 <=> node[n].hits # 0))
    <3>1. ASSUME filterOn PROVE n \in 1..Searched /\ PosTells
      BY <1>2, <2>2, <3>1 DEF Searched
    <3> QED
      BY <3>1 DEF PosTells
  <2>5. Shown(n) <=> Visible(n) /\ (node[n].pos # 0 \/ ~filterOn)
    BY <2>4 DEF Shown
  <2>6. Lines(n)' = Lines(Position) + (IF Shown(n) THEN 1 ELSE 0)
    <3>1. Lines(n)' = Lines(n)
      BY <1>1, <2>2, SameLines
    <3>2. Lines(Position + 1) = Lines(Position) + (IF Shown(Position + 1) THEN 1 ELSE 0)
      BY <2>2, LinesAre
    <3> QED
      BY <2>2, <3>1, <3>2
  <2>7. Len(listed) \in Nat /\ DOMAIN listed = 1..Len(listed)
    BY TypeIs
  <2>8. ASSUME NEW k \in 1..n
        PROVE  (Shown(k)' <=> Shown(k)) /\ Lines(k - 1)' = Lines(k - 1)
    <3>1. k \in 1..Len(node) /\ k - 1 \in 0..Len(node)
      BY <1>1, <2>2
    <3> QED
      BY <2>2, <3>1, SameNodes, SameLines
  <2>9. CASE Shown(n)
    <3>1. listed' = Append(listed, n)
      BY <2>1, <2>5, <2>9 DEF Lists
    <3>2. /\ Len(listed') = Len(listed) + 1 /\ DOMAIN listed' = 1..(Len(listed) + 1)
          /\ listed'[Len(listed) + 1] = n
          /\ \A x \in 1..Len(listed) : listed'[x] = listed[x]
      <4>1. listed \in Seq(1..Len(node))
        BY TypeIs
      <4> QED
        BY <2>7, <3>1, <4>1
    <3>3. Lines(n - 1) = Len(listed)
      <4>1. n - 1 = Position
        BY <1>1, <2>2
      <4> QED
        BY <2>3, <4>1
    <3>4. ASSUME NEW k \in 1..n, Shown(k)
          PROVE  Lines(k - 1) + 1 \in DOMAIN listed' /\ listed'[Lines(k - 1) + 1] = k
      <4>1. CASE k = n
        BY <2>7, <3>2, <3>3, <4>1
      <4>2. CASE k # n
        <5>1. k \in 1..Position
          BY <1>1, <2>2, <4>2
        <5>2. Lines(k - 1) + 1 \in 1..Len(listed) /\ listed[Lines(k - 1) + 1] = k
          BY <2>3, <2>7, <3>4, <5>1
        <5> QED
          BY <2>7, <3>2, <5>2
      <4> QED
        BY <4>1, <4>2
    <3> QED
      BY <2>3, <2>6, <2>8, <2>9, <3>2, <3>4
  <2>10. CASE ~Shown(n)
    <3>1. listed' = listed
      BY <2>1, <2>5, <2>10 DEF Lists
    <3>2. Lines(n)' = Len(listed)
      BY <2>3, <2>6, <2>7, <2>10
    <3>3. ASSUME NEW k \in 1..n, Shown(k) PROVE k \in 1..Position
      BY <1>1, <2>2, <2>10, <3>3
    <3> QED
      BY <2>3, <2>8, <3>1, <3>2, <3>3
  <2> QED
    BY <2>9, <2>10
<1>14. CASE ListDone
  <2>1. /\ calm /\ node' = node /\ FiltersSame /\ Position' = Position /\ listed' = listed
        /\ (Outdated' <=> Outdated)
    BY <1>14 DEF ListDone, filters, FiltersSame, Position, Outdated
  <2> QED
    BY <1>1, <1>2, <2>1, StillSame, ListLinesKept DEF FiltersSame
<1> QED
  BY Steps, <1>3, <1>4, <1>5, <1>6, <1>7, <1>8, <1>10, <1>11, <1>12, <1>13, <1>14

LEMMA PosKept ==
  ASSUME PosTells, NEW l, SameUpTo(l), Searched \in 0..l, Searched' = Searched,
         \A n \in 1..Searched : node'[n].pos = node[n].pos
  PROVE  PosTells'
<1>1. \A n \in 1..Searched : Visible(n) => (node[n].pos # 0 <=> node[n].hits # 0)
  BY DEF PosTells
<1>2. ASSUME NEW n \in 1..Searched
      PROVE  (Visible(n)' <=> Visible(n)) /\ node'[n].hits = node[n].hits
  <2>1. n \in 1..l
    BY DEF SameUpTo
  <2> QED
    BY <2>1, SameNodes
<1>3. \A n \in 1..Searched : Visible(n)' => (node'[n].pos # 0 <=> node'[n].hits # 0)
  BY <1>1, <1>2
<1> QED
  BY <1>3 DEF PosTells

LEMMA EndsKept ==
  ASSUME EndsKnown, NEW l, SameUpTo(l), filterOn' <=> filterOn,
         Searched \in 0..l, Searched' = Searched, search'.total = search.total,
         search'.firstLine = search.firstLine, search'.lastLine = search.lastLine
  PROVE  EndsKnown'
<1>1. /\ search.total = 0 => search.firstLine = 0 /\ \A n \in 1..Searched : ~Match(n)
      /\ search.total # 0 =>
           \E a, b \in 1..Searched :
             /\ Match(a) /\ Match(b)
             /\ \A n \in 1..Searched : Match(n) => a <= n /\ n <= b
             /\ search.firstLine = Lines(a - 1) /\ search.lastLine = Lines(b - 1)
  BY DEF EndsKnown
<1>2. ASSUME NEW n \in 1..Searched
      PROVE  (Match(n)' <=> Match(n)) /\ Lines(n - 1)' = Lines(n - 1)
  <2>1. n \in 1..l /\ n - 1 \in 0..l
    BY DEF SameUpTo
  <2> QED
    BY <2>1, SameNodes, SameLines
<1>3. CASE search.total = 0
  BY <1>1, <1>2, <1>3 DEF EndsKnown
<1>4. CASE search.total # 0
  <2>1. PICK a \in 1..Searched, b \in 1..Searched :
          /\ Match(a) /\ Match(b)
          /\ \A n \in 1..Searched : Match(n) => a <= n /\ n <= b
          /\ search.firstLine = Lines(a - 1) /\ search.lastLine = Lines(b - 1)
    BY <1>1, <1>4
  <2>2. /\ Match(a)' /\ Match(b)'
        /\ \A n \in 1..Searched : Match(n)' => a <= n /\ n <= b
        /\ search'.firstLine = Lines(a - 1)' /\ search'.lastLine = Lines(b - 1)'
    BY <1>2, <2>1
  <2> QED
    BY <1>4, <2>2 DEF EndsKnown
<1> QED
  BY <1>3, <1>4

(* What the search knows of the nodes it has looked at.                      *)
Known == PosTells /\ EndsKnown /\ LineKnown /\ CurrentKnown

LEMMA CurrentLater ==
  ASSUME pc' # "idle" /\ job'.reset /\ job'.selected # NoNode =>
           \A n : n = job'.selected =>
             search'.curLine = IF n <= Searched' /\ Match(n)' THEN Lines(n - 1)' ELSE NoLine
  PROVE  CurrentKnown'
BY DEF CurrentKnown, Match, Visible, Lines, Searched

LEMMA KnownKept ==
  ASSUME Known, NEW l, SameUpTo(l), FiltersSame, Searched \in 0..l, Searched' = Searched,
         \A n \in 1..Searched : node'[n].pos = node[n].pos,
         search'.total = search.total,
         search'.firstLine = search.firstLine, search'.lastLine = search.lastLine,
         pc' = "search" => pc = "search" /\ job' = job,
         pc' # "idle" => /\ pc # "idle" /\ search'.curLine = search.curLine
                         /\ (job'.reset <=> job.reset) /\ job'.selected = job.selected,
         pc = "search" => Searched = job.i,
         pc # "idle" => job.selected \in 0..l
  PROVE  Known'
<1>1. PosTells'
  BY PosKept DEF Known
<1>2. EndsKnown'
  BY EndsKept DEF Known, FiltersSame
<1>3. LineKnown'
  <2> SUFFICES ASSUME pc' = "search" PROVE job'.j = Lines(job.i)' /\ job' = job
    BY DEF LineKnown
  <2>1. job.j = Lines(job.i) /\ job.i \in 0..l
    BY DEF Known, LineKnown
  <2> QED
    BY <2>1, SameLines DEF FiltersSame
<1>4. CurrentKnown'
  <2> SUFFICES ASSUME pc' # "idle", job'.reset, job'.selected # NoNode,
                      NEW n, n = job'.selected
               PROVE  search'.curLine = IF n <= Searched' /\ Match(n)'
                                        THEN Lines(n - 1)' ELSE NoLine
    BY CurrentLater
  <2>1. n = job.selected
    OBVIOUS
  <2>2. search.curLine = IF n <= Searched /\ Match(n) THEN Lines(n - 1) ELSE NoLine
    BY <2>1 DEF Known, CurrentKnown
  <2>3. n \in 1..l /\ n - 1 \in 0..l
    BY <2>1 DEF NoNode, SameUpTo
  <2>4. (Match(n)' <=> Match(n)) /\ Lines(n - 1)' = Lines(n - 1)
    BY <2>3, SameNodes, SameLines DEF FiltersSame
  <2>5. search'.curLine = search.curLine
    OBVIOUS
  <2> QED
    BY <2>2, <2>4, <2>5
<1> QED
  BY <1>1, <1>2, <1>3, <1>4 DEF Known

LEMMA LineKept ==
  ASSUME TypeOK, LineKnown, NEW n, Searches(n)
  PROVE  LineKnown'
<1>1. /\ Len(node) \in Nat /\ job.i \in 0..(Len(node) - 1) /\ n = job.i + 1 /\ n \in 1..Len(node)
      /\ job'.i = n /\ pc = "search" /\ job.j \in Nat
      /\ SameUpTo(Len(node)) /\ (filterOn' <=> filterOn)
  BY TypeIs DEF Searches, FiltersSame
<1>2. job.j = Lines(job.i)
  BY <1>1 DEF LineKnown
<1>3. Lines(n)' = Lines(job.i) + (IF Shown(n) THEN 1 ELSE 0)
  <2>1. Lines(n)' = Lines(n)
    BY <1>1, SameLines
  <2>2. Lines(job.i + 1) = Lines(job.i) + (IF Shown(job.i + 1) THEN 1 ELSE 0)
    BY <1>1, LinesAre
  <2> QED
    BY <1>1, <2>1, <2>2
<1>4. job'.j = job.j + (IF Shown(n) THEN 1 ELSE 0)
  <2>1. CASE Visible(n)
    BY <1>1, <2>1 DEF Searches, NextLine, Shown
  <2>2. CASE ~Visible(n)
    BY <1>1, <2>2 DEF Searches, Shown
  <2> QED
    BY <2>1, <2>2
<1> QED
  BY <1>1, <1>2, <1>3, <1>4 DEF LineKnown

LEMMA KnownAnew ==
  ASSUME Searched' = 0, search'.total = 0, search'.firstLine = 0,
         pc' = "search" => job'.i = 0 /\ job'.j = 0,
         pc' # "idle" => /\ search'.curLine = NoLine
                         /\ job'.selected # NoNode => job'.selected \in Nat /\ job'.selected > 0
  PROVE  Known'
<1>1. PosTells'
  BY DEF PosTells
<1>2. EndsKnown'
  BY DEF EndsKnown
<1>3. LineKnown'
  <2>1. Lines(0)' = 0
    BY SumZero DEF Lines
  <2> QED
    BY <2>1 DEF LineKnown
<1>4. CurrentKnown'
  BY CurrentLater
<1> QED
  BY <1>1, <1>2, <1>3, <1>4 DEF Known

LEMMA KnownSearches ==
  ASSUME TypeOK, JobFits, Known, NEW n, Searches(n)
  PROVE  Known'
<1>1. /\ Len(node) \in Nat /\ job.i \in 0..Len(node) /\ n = job.i + 1 /\ n \in 1..Len(node)
      /\ Searched = job.i /\ Searched' = n /\ job'.i = n /\ pc = "search" /\ pc' = "search"
      /\ SameUpTo(Len(node)) /\ FiltersSame /\ (filterOn' <=> filterOn)
      /\ search.total \in Nat /\ job.j \in Nat
  BY TypeIs DEF Searches, Searched, FiltersSame
<1>2. PICK h : h = node[n].hits
  OBVIOUS
<1>3. h \in Nat /\ node'[n].hits = h
  BY <1>1, <1>2, NodeIs, SameNodes
<1>4. ASSUME NEW k \in 1..n
      PROVE  /\ Visible(k)' <=> Visible(k)
             /\ Match(k)' <=> Match(k)
             /\ Lines(k - 1)' = Lines(k - 1)
  <2>1. k \in 1..Len(node) /\ k - 1 \in 0..Len(node)
    BY <1>1
  <2> QED
    BY <1>1, <2>1, SameNodes, SameLines
<1>5. job.j = Lines(n - 1)
  <2>1. n - 1 = job.i
    BY <1>1
  <2> QED
    BY <1>1, <2>1 DEF Known, LineKnown
<1>6. PosTells'
  <2> SUFFICES ASSUME NEW k \in 1..n, Visible(k)'
               PROVE  node'[k].pos # 0 <=> node'[k].hits # 0
    BY <1>1 DEF PosTells
  <2>1. CASE k = n
    <3>1. node'[n].pos = FirstMatch(h)
      BY <1>2, <1>4, <2>1 DEF Searches
    <3>2. FirstMatch(h) # 0 <=> h # 0
      BY <1>1 DEF FirstMatch
    <3> QED
      BY <1>3, <2>1, <3>1, <3>2
  <2>2. CASE k # n
    <3>1. k \in 1..Searched /\ k \in 1..Len(node)
      BY <1>1, <2>2
    <3>2. node[k].pos # 0 <=> node[k].hits # 0
      BY <1>4, <3>1 DEF Known, PosTells
    <3>3. node'[k].pos = node[k].pos
      BY <2>2, <3>1 DEF Searches
    <3>4. node'[k].hits = node[k].hits
      BY <1>1, <3>1, SameNodes
    <3> QED
      BY <3>2, <3>3, <3>4
  <2> QED
    BY <2>1, <2>2
<1>7. CASE ~Match(n)
  <2>1. search' = search
    BY <1>2, <1>7 DEF Searches, Match, Found
  <2>2. EndsKnown'
    <3>1. CASE search.total = 0
      <4>1. search.firstLine = 0 /\ \A k \in 1..Searched : ~Match(k)
        BY <3>1 DEF Known, EndsKnown
      <4>2. \A k \in 1..n : ~Match(k)'
        BY <1>1, <1>4, <1>7, <4>1
      <4> QED
        BY <1>1, <2>1, <3>1, <4>1, <4>2 DEF EndsKnown
    <3>2. CASE search.total # 0
      <4>1. PICK a \in 1..Searched, b \in 1..Searched :
              /\ Match(a) /\ Match(b)
              /\ \A k \in 1..Searched : Match(k) => a <= k /\ k <= b
              /\ search.firstLine = Lines(a - 1) /\ search.lastLine = Lines(b - 1)
        BY <3>2 DEF Known, EndsKnown
      <4>2. a \in 1..n /\ b \in 1..n
        BY <1>1
      <4>3. /\ Match(a)' /\ Match(b)'
            /\ search'.firstLine = Lines(a - 1)' /\ search'.lastLine = Lines(b - 1)'
        BY <1>4, <2>1, <4>1, <4>2
      <4>4. \A k \in 1..n : Match(k)' => a <= k /\ k <= b
        BY <1>1, <1>4, <1>7, <4>1
      <4> QED
        BY <1>1, <2>1, <3>2, <4>2, <4>3, <4>4 DEF EndsKnown
    <3> QED
      BY <3>1, <3>2
  <2>3. CurrentKnown'
    <3> SUFFICES ASSUME job'.reset, job'.selected # NoNode, NEW x, x = job'.selected
                 PROVE  search'.curLine = IF x <= n /\ Match(x)' THEN Lines(x - 1)' ELSE NoLine
      BY <1>1, CurrentLater
    <3>1. /\ x = job.selected /\ x \in 1..Len(node)
          /\ search.curLine = IF x <= Searched /\ Match(x) THEN Lines(x - 1) ELSE NoLine
      BY <1>1, TypeIs DEF Searches, Known, CurrentKnown
    <3>2. CASE x <= n
      <4>1. x \in 1..n /\ (Match(x) => x <= Searched)
        BY <1>1, <1>7, <3>1, <3>2
      <4>2. (Match(x)' <=> Match(x)) /\ Lines(x - 1)' = Lines(x - 1)
        BY <1>4, <4>1
      <4> QED
        BY <1>1, <2>1, <3>1, <3>2, <4>1, <4>2
    <3>3. CASE ~(x <= n)
      BY <1>1, <2>1, <3>1, <3>3
    <3> QED
      BY <3>2, <3>3
  <2> QED
    BY <1>6, <2>2, <2>3, LineKept DEF Known
<1>8. CASE Match(n)
  <2>1. Visible(n) /\ h # 0 /\ search' = Found(n, h)
    BY <1>2, <1>8 DEF Searches, Match
  <2>2. /\ search'.firstLine = IF search.firstLine = 0 /\ search.total = 0 THEN job.j
                               ELSE search.firstLine
        /\ search'.lastLine = job.j /\ search'.total = search.total + h
        /\ search'.curLine = IF job.reset /\ n = job.selected THEN job.j ELSE search.curLine
    <3>1. search \in SearchRecs(Len(node))
      BY TypeIs
    <3> QED
      BY <2>1, <3>1 DEF Found, SearchRecs
  <2>3. EndsKnown'
    <3>1. CASE search.total = 0
      <4>1. search.firstLine = 0 /\ \A k \in 1..Searched : ~Match(k)
        BY <3>1 DEF Known, EndsKnown
      <4>2. search'.total # 0 /\ search'.firstLine = Lines(n - 1)' /\ search'.lastLine = Lines(n - 1)'
        BY <1>1, <1>3, <1>4, <1>5, <2>1, <2>2, <3>1, <4>1
      <4>3. Match(n)' /\ \A k \in 1..n : Match(k)' => n <= k /\ k <= n
        BY <1>1, <1>4, <1>8, <4>1
      <4> QED
        BY <1>1, <4>2, <4>3 DEF EndsKnown
    <3>2. CASE search.total # 0
      <4>1. PICK a \in 1..Searched, b \in 1..Searched :
              /\ Match(a) /\ Match(b)
              /\ \A k \in 1..Searched : Match(k) => a <= k /\ k <= b
              /\ search.firstLine = Lines(a - 1) /\ search.lastLine = Lines(b - 1)
        BY <3>2 DEF Known, EndsKnown
      <4>2. a \in 1..n /\ n \in 1..n
        BY <1>1
      <4>3. /\ Match(a)' /\ Match(n)' /\ search'.total # 0
            /\ search'.firstLine = Lines(a - 1)' /\ search'.lastLine = Lines(n - 1)'
        BY SMTT(30), <1>1, <1>3, <1>4, <1>5, <1>8, <2>2, <3>2, <4>1, <4>2
      <4>4. \A k \in 1..n : Match(k)' => a <= k /\ k <= n
        BY <1>1, <1>4, <4>1
      <4> QED
        BY <1>1, <4>2, <4>3, <4>4 DEF EndsKnown
    <3> QED
      BY <3>1, <3>2
  <2>4. CurrentKnown'
    <3> SUFFICES ASSUME job'.reset, job'.selected # NoNode, NEW x, x = job'.selected
                 PROVE  search'.curLine = IF x <= n /\ Match(x)' THEN Lines(x - 1)' ELSE NoLine
      BY <1>1, CurrentLater
    <3>1. /\ x = job.selected /\ x \in 1..Len(node) /\ job.reset
          /\ search.curLine = IF x <= Searched /\ Match(x) THEN Lines(x - 1) ELSE NoLine
      BY <1>1, TypeIs DEF Searches, Known, CurrentKnown
    <3>2. CASE x = n
      BY <1>1, <1>4, <1>5, <1>8, <2>2, <3>1, <3>2
    <3>3. CASE x # n /\ x <= n
      <4>1. x \in 1..n /\ x <= Searched
        BY <1>1, <3>1, <3>3
      <4>2. (Match(x)' <=> Match(x)) /\ Lines(x - 1)' = Lines(x - 1)
        BY <1>4, <4>1
      <4> QED
        BY <2>2, <3>1, <3>3, <4>1, <4>2
    <3>4. CASE ~(x <= n)
      BY <1>1, <2>2, <3>1, <3>4
    <3> QED
      BY <3>2, <3>3, <3>4
  <2> QED
    BY <1>6, <2>3, <2>4, LineKept DEF Known
<1> QED
  BY <1>7, <1>8

LEMMA KnownStep ==
  ASSUME TypeOK, JobFits, CalmInv, [Next]_vars, calm', searching'
  PROVE  Known'
<1>1. /\ Len(node) \in Nat /\ Searched \in 0..Len(node) /\ listCount \in 0..Len(node)
      /\ search.archiveCount \in 0..Len(node)
      /\ job.count \in 0..Len(node) /\ job.i \in 0..Len(node)
      /\ job.selected \in (1..Len(node)) \cup {NoNode} /\ job.selected \in 0..Len(node)
      /\ pc = "search" => Searched = job.i
      /\ pc # "search" => Searched = search.archiveCount
  BY TypeIs DEF Searched, NoNode
<1>2. calm /\ searching => Known /\ ListLines /\ CalmFits
  BY DEF CalmInv, Known
<1>3. CASE Publish
  <2>1. /\ calm /\ searching /\ SameUpTo(Len(node)) /\ FiltersSame /\ Searched' = Searched
        /\ \A n \in 1..Len(node) : node'[n] = node[n]
        /\ search' = search /\ job' = job /\ pc' = "idle" /\ pc = "idle"
    BY <1>3, PublishDoes DEF FiltersSame, Searched
  <2> QED
    BY <1>1, <1>2, <2>1, KnownKept
<1>4. CASE Fill
  <2>1. PICK m \in Nat : m = Len(node)
    BY <1>1
  <2>2. /\ calm /\ searching /\ SameUpTo(m - 1) /\ FiltersSame /\ Searched' = Searched
        /\ \A n \in 1..(m - 1) : node'[n] = node[n]
        /\ search' = search /\ job' = job /\ pc' = "idle" /\ pc = "idle"
        /\ m > search.archiveCount
    BY <1>4, <2>1, FillDoes DEF FiltersSame, Searched
  <2>3. Searched \in 0..(m - 1)
    BY SMTT(30), <1>1, <2>1, <2>2
  <2> QED
    BY <1>1, <1>2, <2>1, <2>2, <2>3, KnownKept
<1>5. CASE Grow
  <2>1. PICK m \in 1..Len(node) :
          /\ SameUpTo(m - 1) /\ FiltersSame
          /\ \A k \in 1..Len(node) : node'[k].pos = node[k].pos
          /\ search' = search /\ job' = job /\ pc' = pc
          /\ calm /\ pc = "idle" /\ m > search.archiveCount
    BY <1>5, GrowDoes
  <2>2. searching /\ Searched' = Searched /\ Searched \in 0..(m - 1)
    BY <1>1, <2>1 DEF FiltersSame, Searched
  <2> QED
    BY <1>1, <1>2, <2>1, <2>2, KnownKept
<1>6. CASE Resumes
  <2>0. /\ calm /\ SameUpTo(Len(node)) /\ FiltersSame /\ node' = node /\ search' = search
        /\ pc = "idle" /\ pc' = "search" /\ ~job'.reset /\ search.archiveCount = listCount
        /\ job'.i = search.archiveCount /\ job'.j = Len(listed)
    BY <1>6, ResumesDoes
  <2>1. /\ searching /\ (filterOn' <=> filterOn) /\ Searched' = Searched /\ job'.i = listCount
    BY <2>0 DEF FiltersSame, Searched
  <2>2. PosTells'
    BY <1>1, <1>2, <2>0, <2>1, PosKept DEF Known
  <2>3. EndsKnown'
    BY <1>1, <1>2, <2>0, <2>1, EndsKept DEF Known
  <2>4. LineKnown'
    <3>1. Len(listed) = Lines(listCount)
      BY <1>2, <2>0, <2>1 DEF ListLines, Outdated, Position
    <3>2. PICK k \in 0..Len(node) : k = listCount
      BY <1>1
    <3>3. Lines(k)' = Lines(k)
      BY <2>0, <2>1, SameLines
    <3> QED
      BY <2>0, <2>1, <3>1, <3>2, <3>3 DEF LineKnown
  <2>5. CurrentKnown'
    BY <2>0 DEF CurrentKnown
  <2> QED
    BY <2>2, <2>3, <2>4, <2>5 DEF Known
<1>7. ASSUME NEW listToo \in BOOLEAN, Restarts(listToo) PROVE Known'
  <2>1. /\ Searched' = 0 /\ search'.total = 0 /\ search'.firstLine = 0 /\ search'.curLine = NoLine
        /\ job'.i = 0 /\ job'.j = 0 /\ job'.selected \in (1..Len(node)) \cup {NoNode}
    BY <1>7, RestartsDoes DEF Searched
  <2> QED
    BY <1>1, <2>1, KnownAnew
<1>8. CASE Rests
  <2>1. /\ SameUpTo(Len(node)) /\ FiltersSame /\ node' = node /\ calm' = calm
        /\ job' = job /\ pc' = pc
        /\ search'.archiveCount = search.archiveCount /\ search'.total = search.total
        /\ search'.firstLine = search.firstLine /\ search'.lastLine = search.lastLine
        /\ pc # "idle" => search' = search
    BY <1>8, RestsDoes
  <2>2. calm /\ searching /\ Searched' = Searched
    BY <2>1 DEF FiltersSame, Searched
  <2> QED
    BY <1>1, <1>2, <2>1, <2>2, KnownKept
<1>9. ASSUME NEW restart \in BOOLEAN, ClearLog(restart) PROVE Known'
  <2>1. Searched' = 0 /\ search'.total = 0 /\ search'.firstLine = 0 /\ pc' = "idle"
    BY <1>9, ClearLogDoes DEF Searched
  <2> QED
    BY <2>1, KnownAnew
<1>10. CASE SearchNode
  <2>1. PICK n : Searches(n)
    BY <1>10, SearchNodeDoes
  <2>2. calm /\ searching
    BY <2>1 DEF Searches
  <2> QED
    BY <1>2, <2>1, <2>2, KnownSearches
<1>11. CASE SearchDone
  <2>1. /\ pc = "search" /\ (searching => job.i = job.count)
        /\ node' = node /\ SameUpTo(Len(node)) /\ calm' = calm /\ FiltersSame
        /\ search'.archiveCount = job.count /\ search'.total = search.total
        /\ search'.firstLine = search.firstLine /\ search'.lastLine = search.lastLine
        /\ search'.curLine = search.curLine
        /\ pc' \in {"idle", "list"}
        /\ pc' = "list" => job'.reset = job.reset /\ job'.selected = job.selected
    BY <1>11, SearchDoneDoes
  <2>2. calm /\ searching /\ Searched' = Searched
    BY <1>1, <2>1 DEF FiltersSame, Searched
  <2> QED
    BY <1>1, <1>2, <2>1, <2>2, KnownKept
<1>12. CASE ListNode
  <2>1. PICK n : Lists(n)
    BY <1>12, ListNodeDoes
  <2>2. /\ pc = "list" /\ pc' = "list" /\ node' = node /\ SameUpTo(Len(node)) /\ FiltersSame
        /\ search' = search /\ calm' = calm
        /\ job'.reset = job.reset /\ job'.selected = job.selected
    BY <2>1 DEF Lists
  <2>3. calm /\ searching /\ Searched' = Searched
    BY <2>2 DEF FiltersSame, Searched
  <2> QED
    BY <1>1, <1>2, <2>2, <2>3, KnownKept
<1>13. CASE ListDone
  <2>1. /\ pc = "list" /\ pc' = "idle" /\ node' = node /\ FiltersSame
        /\ search' = search /\ calm' = calm
    BY <1>13 DEF ListDone, filters, FiltersSame
  <2>2. calm /\ searching /\ Searched' = Searched /\ SameUpTo(Len(node))
    BY <2>1, StillSame DEF FiltersSame, Searched
  <2> QED
    BY <1>1, <1>2, <2>1, <2>2, KnownKept
<1> QED
  BY Steps, <1>3, <1>4, <1>5, <1>6, <1>7, <1>8, <1>9, <1>10, <1>11, <1>12, <1>13

-----------------------------------------------------------------------------
(* The inductive invariant.                                                 *)

IInv == ListInv /\ CalmInv

LEMMA InitIInv == Init => IInv
<1> SUFFICES ASSUME Init PROVE IInv
  OBVIOUS
<1>1. /\ node = <<Root>> /\ listed = <<>> /\ listCount = 0 /\ search = Cleared /\ job = NoJob
      /\ working /\ ~searching /\ ~filterOn /\ flowsHidden \in BOOLEAN /\ shown = Threads
      /\ pc = "idle" /\ passed = {} /\ calm /\ working \in BOOLEAN /\ searching \in BOOLEAN
      /\ filterOn \in BOOLEAN /\ calm \in BOOLEAN
  BY DEF Init
<1>2. /\ Len(node) = 1 /\ node[1] = Root /\ Root \in NodeRecs /\ ~Root.filled /\ Root.pos = 0
      /\ node \in Seq(NodeRecs)
  <2>1. Root \in NodeRecs /\ ~Root.filled /\ Root.pos = 0
    BY ConstantsAssumption DEF Root, NodeRecs
  <2> QED
    BY <1>1, <2>1
<1>3. /\ search \in SearchRecs(1) /\ search.archiveCount = 0 /\ search.total = 0
      /\ job \in JobRecs(1)
  BY <1>1, NoJobIs DEF Cleared, SearchRecs, NoLine
<1>4. TypeOK
  BY <1>1, <1>2, <1>3 DEF TypeOK, NodeRecs, SearchRecs, JobRecs, Nodes
<1>5. JobFits /\ NotNoted
  BY <1>1, <1>2, <1>3 DEF JobFits, NotNoted, Nodes
<1>6. Position = 0 /\ Searched = 0
  BY <1>1, <1>3 DEF Position, Searched
<1>7. ListedSoFar
  BY <1>1, <1>6 DEF ListedSoFar, InOrder, Range, NotListed
<1>8. Counted
  BY <1>1 DEF Counted
<1>9. CalmFits
  BY <1>1, <1>3 DEF CalmFits
<1>10. ListLines
  BY <1>1, <1>4, <1>6, LinesAre DEF ListLines
<1> QED
  BY <1>1, <1>4, <1>5, <1>7, <1>8, <1>9, <1>10 DEF IInv, ListInv, CalmInv

LEMMA NextIInv == IInv /\ [Next]_vars => IInv'
<1> SUFFICES ASSUME IInv, [Next]_vars PROVE IInv'
  OBVIOUS
<1>1. TypeOK /\ JobFits /\ NotNoted /\ ListedSoFar /\ Counted /\ CalmInv
  BY DEF IInv, ListInv
<1>2. TypeOK'
  BY <1>1, TypeStep
<1>3. JobFits' /\ NotNoted'
  BY <1>1, FitsStep, NotedStep
<1>4. ListedSoFar' /\ Counted'
  BY <1>1, <1>2, ListedStep, CountedStep
<1>5. CalmInv'
  <2>1. calm' => CalmFits' /\ ListLines'
    BY <1>1, CalmFitsStep, ListLinesStep
  <2>2. calm' /\ searching' => Known'
    BY <1>1, KnownStep
  <2> QED
    BY <2>1, <2>2 DEF CalmInv, Known
<1> QED
  BY <1>2, <1>3, <1>4, <1>5 DEF IInv, ListInv

LEMMA AlwaysIInv == Spec => []IInv
BY InitIInv, NextIInv, PTL DEF Spec

-----------------------------------------------------------------------------
(* The theorems.                                                            *)

(* Between two refreshes of the list view (UpdateNodes and UpdateList ended) *)
(* the rows are, in order and once, the nodes that pass the filters, of     *)
(* those updateList has looked at, but for those it looked at too early.    *)
THEOREM ListIsExact == Spec => []ListExact
<1>1. IInv => ListExact
  BY DEF IInv, ListInv, ListedSoFar, ListExact, Idle, Outdated, Position
<1> QED
  BY <1>1, AlwaysIInv, PTL

(* The total of a search never exceeds the matches in the lines that were   *)
(* searched, and is their number if the receiver was quiet during every     *)
(* refresh and lengthened no line that was searched.                        *)
THEOREM MatchesAreCounted == Spec => []MatchesCounted
<1>1. IInv => MatchesCounted
  BY DEF IInv, ListInv, Counted, MatchesCounted, Idle, Searched
<1> QED
  BY <1>1, AlwaysIInv, PTL

(* The keys for the first and the last match go to lines of the list that   *)
(* show the first and the last node with a match.                           *)
THEOREM EndsAreFound == Spec => []EndsFound
<1>1. ASSUME IInv PROVE EndsFound
  <2> SUFFICES ASSUME Idle, searching, calm, search.archiveCount = listCount, search.total > 0
               PROVE  NodeAt(search.firstLine) = Min(Matched) /\ NodeAt(search.lastLine) = Max(Matched)
    BY DEF EndsFound
  <2>1. TypeOK /\ ListLines /\ PosTells /\ EndsKnown
    BY <1>1 DEF IInv, ListInv, CalmInv
  <2>2. /\ Searched = listCount /\ Position = listCount /\ ~Outdated /\ listCount \in Nat
        /\ search.total # 0 /\ search.archiveCount = listCount
    BY <2>1, TypeIs DEF Idle, Searched, Position, Outdated
  <2>3. PICK a \in 1..listCount, b \in 1..listCount :
          /\ Match(a) /\ Match(b)
          /\ \A n \in 1..listCount : Match(n) => a <= n /\ n <= b
          /\ search.firstLine = Lines(a - 1) /\ search.lastLine = Lines(b - 1)
    BY <2>1, <2>2 DEF EndsKnown
  <2>4. \A n \in 1..listCount : n \in Matched <=> Match(n)
    BY <2>1, <2>2 DEF Matched, Match, PosTells
  <2>5. Matched \subseteq 1..listCount
    BY <2>2 DEF Matched
  <2>6. ASSUME NEW n \in 1..listCount, Match(n) PROVE NodeAt(Lines(n - 1)) = n
    <3>1. Shown(n)
      BY <2>6 DEF Match, Shown
    <3>2. Lines(n - 1) + 1 \in DOMAIN listed /\ listed[Lines(n - 1) + 1] = n
      BY <2>1, <2>2, <3>1 DEF ListLines
    <3> QED
      BY <3>2 DEF NodeAt
  <2>7. Min(Matched) = a
    <3>1. a \in Matched /\ \A y \in Matched : a <= y
      BY <2>3, <2>4, <2>5
    <3>2. \A x \in Matched : (\A y \in Matched : x <= y) => x = a
      BY <2>2, <2>5, <3>1
    <3> QED
      BY <3>1, <3>2 DEF Min
  <2>8. Max(Matched) = b
    <3>1. b \in Matched /\ \A y \in Matched : b >= y
      BY <2>3, <2>4, <2>5
    <3>2. \A x \in Matched : (\A y \in Matched : x >= y) => x = b
      BY <2>2, <2>5, <3>1
    <3> QED
      BY <3>1, <3>2 DEF Max
  <2> QED
    BY <2>3, <2>6, <2>7, <2>8
<1> QED
  BY <1>1, AlwaysIInv, PTL

(* A refresh from the start leaves the current match of a search at the     *)
(* node it was at, and gives it up only if that node no longer matches or   *)
(* is no longer shown.                                                      *)
THEOREM SelectionIsKept == Spec => SelectionKept
<1> DEFINE Kept ==
      Idle' /\ InRefresh /\ job.reset /\ calm /\ search'.archiveCount = listCount'
      /\ job.selected # NoNode /\ searching =>
        IF Visible(job.selected) /\ node[job.selected].hits > 0
          THEN NodeAt(search.curLine) = job.selected
          ELSE search.curLine = NoLine
<1>1. ASSUME IInv, [Next]_vars PROVE Kept
  <2> SUFFICES ASSUME Idle', InRefresh, job.reset, calm, search'.archiveCount = listCount',
                      job.selected # NoNode, searching
               PROVE  IF Visible(job.selected) /\ node[job.selected].hits > 0
                        THEN NodeAt(search.curLine) = job.selected
                        ELSE search.curLine = NoLine
    OBVIOUS
  <2>1. TypeOK /\ JobFits /\ CalmFits /\ ListLines /\ CurrentKnown
    BY <1>1 DEF IInv, ListInv, CalmInv
  <2>2. PICK n \in 1..Len(node) : n = job.selected
    BY <2>1, TypeIs
  <2>3. search.curLine = IF n <= Searched /\ Match(n) THEN Lines(n - 1) ELSE NoLine
    BY <2>1, <2>2 DEF CurrentKnown, InRefresh
  <2>4. n <= Searched /\ n <= Position /\ ~Outdated
    <3>1. SearchDone \/ ListDone
      <4>1. pc # "idle" /\ pc' = "idle"
        BY DEF Idle, InRefresh
      <4>2. CASE SearchNode
        BY <4>1, <4>2 DEF SearchNode
      <4>3. CASE ListNode
        BY <4>1, <4>3 DEF ListNode
      <4>4. CASE Publish \/ Fill \/ Grow \/ Resumes \/ Rests
        BY <2>1, <4>1, <4>4 DEF Publish, Fill, Grow, Resumes, Rests
      <4>5. ASSUME NEW listToo \in BOOLEAN, Restarts(listToo) PROVE FALSE
        BY <4>1, <4>5 DEF Restarts
      <4>6. ASSUME NEW restart \in BOOLEAN, ClearLog(restart) PROVE FALSE
        BY <4>1, <4>6 DEF ClearLog, Idle
      <4> QED
        BY <1>1, <2>1, <4>2, <4>3, <4>4, <4>5, <4>6, Steps
    <3>2. CASE SearchDone
      <4>1. /\ pc = "search" /\ job.i = job.count /\ ~job.listToo
            /\ search'.archiveCount = job.count /\ listCount' = listCount
        BY <2>1, <3>2, SearchDoneDoes DEF Idle
      <4> QED
        BY <2>1, <2>2, <4>1 DEF JobFits, Searched, Position, Outdated
    <3>3. CASE ListDone
      <4>1. pc = "list" /\ job.i = job.count
        BY <3>3 DEF ListDone
      <4> QED
        BY <2>1, <2>2, <4>1 DEF JobFits, CalmFits, Searched, Position, Outdated
    <3> QED
      BY <3>1, <3>2, <3>3
  <2>5. Match(n) <=> Visible(n) /\ node[n].hits > 0
    BY <2>1, NodeIs DEF Match
  <2>6. CASE Match(n)
    <3>1. Shown(n) /\ n \in 1..Position
      BY <2>4, <2>6, TypeIs DEF Match, Shown
    <3>2. Lines(n - 1) + 1 \in DOMAIN listed /\ listed[Lines(n - 1) + 1] = n
      BY <2>1, <2>4, <3>1 DEF ListLines
    <3> QED
      BY <2>2, <2>3, <2>4, <2>5, <2>6, <3>2 DEF NodeAt
  <2>7. CASE ~Match(n)
    BY <2>2, <2>3, <2>5, <2>7
  <2> QED
    BY <2>6, <2>7
<1>2. Spec => [][Kept]_vars
  BY <1>1, AlwaysIInv, PTL DEF Spec
<1> QED
  BY <1>2 DEF SelectionKept

=============================================================================
