------------------------- MODULE ArchiveIndexProofs -------------------------
(***************************************************************************)
(* Proofs about ArchiveIndex, for any sources, listings and sizes: the      *)
(* index has one node for a process and for a thread of it, records are     *)
(* shown at their nodes, and what ps tells reaches every node it is about.  *)
(***************************************************************************)
EXTENDS ArchiveIndex, SequenceTheorems, WellFoundedInduction, TLAPS

Node == [id : Int, app : 1..MaxNodes, name : Names, psNN : Int]

(* Nodes that are indexed as they should be.                                *)
Indexed(ns) ==
  ns \in Seq(Node) /\ Len(ns) <= MaxNodes /\ Rooted(ns) /\ OneNodeEach(ns)

-----------------------------------------------------------------------------
(* The walk from lastChild, which Latest stands for.                        *)

LEMMA LessIsWellFounded == IsWellFoundedOn({ss \in Nat \X Nat : ss[1] < ss[2]}, Nat)
BY NatLessThanWellFounded, Zenon DEF OpToRel

LEMMA MaxIsIn ==
  ASSUME NEW n \in Nat, NEW S \in SUBSET (1..n), S # {}
  PROVE  Max(S) \in S
<1> DEFINE below == {n - x : x \in S}
           less  == {ss \in Nat \X Nat : ss[1] < ss[2]}
<1>1. below \subseteq Nat /\ below # {}
  <2>1. \A x \in S : n - x \in Nat
    OBVIOUS
  <2> QED
    BY <2>1
<1>2. IsWellFoundedOn(less, Nat)
  BY LessIsWellFounded
<1>3. PICK m \in below : \A y \in below : <<y, m>> \notin less
  <2> HIDE DEF less, below
  <2> QED
    BY <1>1, <1>2, WFMin
<1>4. \A y \in below : ~(y < m)
  BY <1>1, <1>3
<1>5. PICK x \in S : m = n - x
  BY <1>3
<1>6. ASSUME NEW y \in S PROVE x >= y
  <2>1. n - y \in below
    OBVIOUS
  <2>2. ~(n - y < n - x)
    BY <2>1, <1>4, <1>5
  <2> QED
    BY <2>2, <1>5
<1> QED
  BY <1>5, <1>6 DEF Max

LEMMA LatestIsOne ==
  ASSUME NEW n \in Nat, NEW S \in SUBSET (1..n)
  PROVE  /\ S = {} => Latest(S) = NULL
         /\ S # {} => Latest(S) \in S /\ Latest(S) # NULL
<1>1. CASE S = {}
  BY <1>1 DEF Latest
<1>2. CASE S # {}
  <2>1. Max(S) \in S
    BY <1>2, MaxIsIn
  <2>2. Latest(S) = Max(S)
    BY <1>2 DEF Latest
  <2>3. \A x \in S : x # NULL
    BY DEF NULL
  <2> QED
    BY <1>2, <2>1, <2>2, <2>3
<1> QED
  BY <1>1, <1>2

LEMMA AppsLatest ==
  ASSUME NEW ns \in Seq(Node), NEW pid
  PROVE  LET a == Latest(Apps(ns, pid)) IN
         /\ a = NULL => \A n \in DOMAIN ns : ns[n].app = n => ns[n].id # pid
         /\ a # NULL => IsApp(ns, a) /\ ns[a].id = pid
<1>1. DOMAIN ns = 1..Len(ns) /\ Len(ns) \in Nat
  BY LenProperties
<1>2. Apps(ns, pid) \in SUBSET (1..Len(ns))
  BY <1>1 DEF Apps
<1> QED
  BY <1>1, <1>2, LatestIsOne DEF Apps, IsApp

LEMMA ThreadsLatest ==
  ASSUME NEW ns \in Seq(Node), NEW a, NEW tid
  PROVE  LET t == Latest(Threads(ns, a, tid)) IN
         /\ t = NULL => \A n \in DOMAIN ns : n # a /\ ns[n].app = a => ns[n].id # tid
         /\ t # NULL => t \in DOMAIN ns /\ t # a /\ ns[t].app = a /\ ns[t].id = tid
<1>1. DOMAIN ns = 1..Len(ns) /\ Len(ns) \in Nat
  BY LenProperties
<1>2. Threads(ns, a, tid) \in SUBSET (1..Len(ns))
  BY <1>1 DEF Threads
<1> QED
  BY <1>1, <1>2, LatestIsOne DEF Threads

-----------------------------------------------------------------------------
(* Nodes that are changed, and nodes that are added.                        *)

(* ms has the nodes of ns, with other names and numbers of runs.            *)
SameNodes(ns, ms) ==
  /\ ms \in Seq(Node) /\ Len(ms) = Len(ns)
  /\ \A n \in DOMAIN ns : ms[n].id = ns[n].id /\ ms[n].app = ns[n].app

(* ms has one node more.                                                    *)
OneMore(ns, ms, node) ==
  /\ ms \in Seq(Node) /\ Len(ms) = Len(ns) + 1
  /\ \A n \in DOMAIN ns : ms[n] = ns[n]
  /\ ms[Len(ns) + 1] = node

LEMMA ChangedNode ==
  ASSUME NEW ns \in Seq(Node), NEW a \in DOMAIN ns, NEW e \in Node,
         e.id = ns[a].id, e.app = ns[a].app,
         NEW ms, ms = [ns EXCEPT ![a] = e]
  PROVE  /\ SameNodes(ns, ms)
         /\ \A n \in DOMAIN ns \ {a} : ms[n] = ns[n]
         /\ ms[a] = e
<1>1. DOMAIN ns = 1..Len(ns) /\ a \in 1..Len(ns)
  BY LenProperties
<1>2. /\ ms \in Seq(Node)
      /\ Len(ms) = Len(ns)
      /\ \A j \in 1 .. Len(ns) : ms[j] = IF j = a THEN e ELSE ns[j]
  BY <1>1, ExceptSeq
<1> QED
  BY <1>1, <1>2 DEF SameNodes

LEMMA AppendedNode ==
  ASSUME NEW ns \in Seq(Node), NEW node \in Node
  PROVE  OneMore(ns, Append(ns, node), node)
BY AppendProperties, LenProperties DEF OneMore

LEMMA SameNodesIndexed ==
  ASSUME NEW ns, NEW ms, Indexed(ns), SameNodes(ns, ms)
  PROVE  Indexed(ms) /\ DOMAIN ms = DOMAIN ns /\ \A n : IsApp(ms, n) <=> IsApp(ns, n)
<1>1. DOMAIN ns = 1..Len(ns) /\ DOMAIN ms = 1..Len(ns)
  BY LenProperties DEF Indexed, SameNodes
<1>2. \A n : IsApp(ms, n) <=> IsApp(ns, n)
  BY <1>1 DEF IsApp, SameNodes
<1> QED
  BY <1>1, <1>2 DEF Indexed, SameNodes, Rooted, OneNodeEach

(* A new application, or a new thread, that was not there before.           *)
New(ns, node) ==
  IF node.app = Len(ns) + 1
  THEN \A n \in DOMAIN ns : ns[n].app = n => ns[n].id # node.id
  ELSE /\ IsApp(ns, node.app)
       /\ \A n \in DOMAIN ns : n # node.app /\ ns[n].app = node.app => ns[n].id # node.id

LEMMA OneMoreIndexed ==
  ASSUME NEW ns, NEW ms, NEW node \in Node, Indexed(ns), OneMore(ns, ms, node),
         Len(ns) < MaxNodes, New(ns, node), MaxNodes \in Nat
  PROVE  /\ Indexed(ms) /\ DOMAIN ms = DOMAIN ns \cup {Len(ns) + 1}
         /\ \A n \in DOMAIN ns : IsApp(ms, n) <=> IsApp(ns, n)
         /\ IsApp(ms, Len(ns) + 1) <=> node.app = Len(ns) + 1
<1> DEFINE last == Len(ns) + 1
<1>1. /\ Len(ns) \in Nat /\ DOMAIN ns = 1..Len(ns) /\ DOMAIN ms = 1..last
      /\ \A n \in DOMAIN ns : ns[n].app \in Nat
  <2>1. Len(ns) \in Nat /\ DOMAIN ns = 1..Len(ns) /\ DOMAIN ms = 1..last
    BY LenProperties DEF Indexed, OneMore
  <2>2. \A n \in DOMAIN ns : ns[n] \in Node
    BY <2>1, ElementOfSeq DEF Indexed
  <2> QED
    BY <2>1, <2>2 DEF Node
<1>2. \A n \in DOMAIN ns : IsApp(ms, n) <=> IsApp(ns, n)
  BY <1>1 DEF IsApp, OneMore
<1>3. IsApp(ms, last) <=> node.app = last
  BY <1>1 DEF IsApp, OneMore
<1>4. Rooted(ms)
  <2> SUFFICES ASSUME NEW n \in DOMAIN ms
               PROVE  ms[n].app <= n /\ IsApp(ms, ms[n].app)
    BY DEF Rooted
  <2>1. CASE n \in DOMAIN ns
    <3>1. ms[n] = ns[n] /\ ns[n].app <= n /\ IsApp(ns, ns[n].app)
      BY <2>1 DEF OneMore, Indexed, Rooted
    <3> QED
      BY <3>1, <1>2 DEF IsApp
  <2>2. CASE n = last
    <3>1. ms[n] = node
      BY <2>2 DEF OneMore
    <3>2. CASE node.app = last
      BY <3>1, <3>2, <2>2, <1>3, <1>1
    <3>3. CASE node.app # last
      <4>1. IsApp(ns, node.app) /\ node.app \in DOMAIN ns
        BY <3>3 DEF New, IsApp
      <4> QED
        BY <4>1, <3>1, <2>2, <1>1, <1>2
    <3> QED
      BY <3>2, <3>3
  <2> QED
    BY <1>1, <2>1, <2>2
<1>5. OneNodeEach(ms)
  <2> SUFFICES ASSUME NEW n \in DOMAIN ms, NEW m \in DOMAIN ms,
                      ms[n].id = ms[m].id,
                      ms[n].app = ms[m].app \/ (IsApp(ms, n) /\ IsApp(ms, m)),
                      IsApp(ms, n) <=> IsApp(ms, m), n # m
               PROVE  FALSE
    BY DEF OneNodeEach
  <2>1. CASE n \in DOMAIN ns /\ m \in DOMAIN ns
    <3>1. ms[n] = ns[n] /\ ms[m] = ns[m]
      BY <2>1 DEF OneMore
    <3> QED
      BY <2>1, <3>1, <1>2 DEF Indexed, OneNodeEach
  <2>2. ASSUME NEW k \in DOMAIN ns,
               ns[k].id = node.id,
               ns[k].app = node.app \/ (IsApp(ns, k) /\ node.app = last),
               IsApp(ns, k) <=> node.app = last
        PROVE  FALSE
    <3>1. ns[k].app <= k /\ k < last
      BY <1>1 DEF Indexed, Rooted
    <3>2. CASE node.app = last
      BY <2>2, <3>2 DEF New, IsApp
    <3>3. CASE node.app # last
      BY <2>2, <3>3 DEF New, IsApp
    <3> QED
      BY <3>2, <3>3
  <2>3. ms[last] = node /\ \A k \in DOMAIN ns : ms[k] = ns[k]
    BY DEF OneMore
  <2>4. CASE n = last
    <3>1. m \in DOMAIN ns
      BY <2>4, <1>1
    <3> QED
      BY <3>1, <2>2, <2>3, <2>4, <1>2, <1>3
  <2>5. CASE m = last
    <3>1. n \in DOMAIN ns
      BY <2>5, <1>1
    <3> QED
      BY <3>1, <2>2, <2>3, <2>5, <1>2, <1>3
  <2> QED
    BY <1>1, <2>1, <2>4, <2>5
<1>6. Len(ms) <= MaxNodes /\ ms \in Seq(Node)
  BY <1>1 DEF OneMore
<1> QED
  BY <1>1, <1>2, <1>3, <1>4, <1>5, <1>6 DEF Indexed

-----------------------------------------------------------------------------
(* What a record does to the nodes.                                        *)

(* ps has a row for this process.                                           *)
InTable(pid) == \E i \in DOMAIN psInfo.rows : psInfo.rows[i].pid = pid

(* Nodes stay where they are, keep their numbers and a name they have; an   *)
(* application that is added without a name is not in the table of ps.      *)
Grown(ns, ms) ==
  /\ DOMAIN ns \subseteq DOMAIN ms
  /\ \A n \in DOMAIN ns :
       /\ ms[n].id = ns[n].id /\ ms[n].app = ns[n].app /\ ms[n].psNN = ns[n].psNN
       /\ ns[n].name # Unknown => ms[n].name = ns[n].name
  /\ \A n \in DOMAIN ms \ DOMAIN ns :
       ms[n].psNN = 0 /\ (ms[n].app = n /\ ms[n].name = Unknown => ~InTable(ms[n].id))

LEMMA GrownTwice ==
  ASSUME NEW ns, NEW ms, NEW ks, Grown(ns, ms), Grown(ms, ks),
         \A n \in DOMAIN ms \ DOMAIN ns : ks[n].name = ms[n].name
  PROVE  Grown(ns, ks)
BY DEF Grown

LEMMA FindAppIs ==
  ASSUME TypeOK, NEW pid
  PROVE  /\ FindApp(pid) = NULL => \A n \in DOMAIN nodes : nodes[n].app = n => nodes[n].id # pid
         /\ FindApp(pid) # NULL => IsApp(nodes, FindApp(pid)) /\ nodes[FindApp(pid)].id = pid
<1>1. nodes \in Seq(Node)
  BY DEF TypeOK, Node
<1>2. CASE IsApp(nodes, curApp) /\ nodes[curApp].id = pid
  <2>1. curApp # NULL
    BY <1>1, <1>2, LenProperties DEF IsApp, NULL
  <2> QED
    BY <1>2, <2>1 DEF FindApp
<1>3. CASE ~(IsApp(nodes, curApp) /\ nodes[curApp].id = pid)
  <2>1. FindApp(pid) = Latest(Apps(nodes, pid))
    BY <1>3 DEF FindApp
  <2> QED
    BY <1>1, <2>1, AppsLatest
<1> QED
  BY <1>2, <1>3

(* Some record's application: found, added, or without memory for it.       *)
AppFound(ns, pid, a) ==
  a # NULL => IsApp(ns, a) /\ ns[a].id = pid

LEMMA GetAppIs ==
  ASSUME TypeOK, IndexSound, ConstantsAssumption, NEW s \in Sources
  PROVE  LET ns == GetApp(s.pid, s.name)
             a  == AppAfter(s.pid) IN
         /\ Indexed(ns) /\ Grown(nodes, ns) /\ AppFound(ns, s.pid, a)
         /\ \A n \in DOMAIN ns \ DOMAIN nodes : n = a
         /\ \A n \in DOMAIN nodes : IsApp(ns, n) <=> IsApp(nodes, n)
<1> DEFINE ns   == GetApp(s.pid, s.name)
           a    == FindApp(s.pid)
           name == ResolveName(s.pid, s.name)
           node == [id |-> s.pid, app |-> Len(nodes) + 1, name |-> name, psNN |-> 0]
<1>1. /\ nodes \in Seq(Node) /\ Len(nodes) <= MaxNodes /\ Indexed(nodes)
      /\ Len(nodes) \in Nat /\ DOMAIN nodes = 1..Len(nodes)
  BY LenProperties DEF TypeOK, Node, IndexSound, Indexed
<1>2. /\ s.pid \in Int /\ s.name \in Names /\ MaxNodes \in Nat
      /\ name \in Names
      /\ name = Unknown => ~InTable(s.pid)
  BY DEF ConstantsAssumption, ResolveName, InTable, Names, Unknown
<1>3. CASE a = NULL /\ HasRoom(nodes)
  <2>1. ns = Append(nodes, node) /\ AppAfter(s.pid) = Len(nodes) + 1
    BY <1>3 DEF GetApp, AppAfter
  <2>2. node \in Node
    BY <1>1, <1>2, <1>3 DEF Node, HasRoom
  <2>3. OneMore(nodes, ns, node)
    BY <1>1, <2>1, <2>2, AppendedNode
  <2>4. New(nodes, node)
    BY <1>3, FindAppIs DEF New
  <2>5. /\ Indexed(ns) /\ DOMAIN ns = DOMAIN nodes \cup {Len(nodes) + 1}
        /\ \A n \in DOMAIN nodes : IsApp(ns, n) <=> IsApp(nodes, n)
        /\ IsApp(ns, Len(nodes) + 1)
    <3>1. Len(nodes) < MaxNodes /\ node.app = Len(nodes) + 1
      BY <1>3 DEF HasRoom
    <3> HIDE DEF ns, node
    <3> QED
      BY <1>1, <1>2, <2>2, <2>3, <2>4, <3>1, OneMoreIndexed
  <2>6. Grown(nodes, ns)
    BY <1>1, <1>2, <2>3, <2>5 DEF Grown, OneMore
  <2>7. ns[Len(nodes) + 1].id = s.pid
    BY <2>3 DEF OneMore
  <2> QED
    BY <2>1, <2>5, <2>6, <2>7 DEF AppFound
<1>4. CASE a = NULL /\ ~HasRoom(nodes)
  <2>1. ns = nodes /\ AppAfter(s.pid) = NULL
    BY <1>4 DEF GetApp, AppAfter
  <2> QED
    BY <1>1, <2>1 DEF Grown, AppFound
<1>5. CASE a # NULL
  <2>1. IsApp(nodes, a) /\ nodes[a].id = s.pid /\ a \in DOMAIN nodes
    BY <1>5, FindAppIs DEF IsApp
  <2>2. nodes[a] \in Node
    BY <1>1, <2>1, ElementOfSeq
  <2> DEFINE after == IF nodes[a].name = Unknown /\ s.name # Unknown
                      THEN s.name ELSE nodes[a].name
  <2> DEFINE e == [nodes[a] EXCEPT !.name = after]
  <2>3. /\ e \in Node /\ e.id = nodes[a].id /\ e.app = nodes[a].app
        /\ e.psNN = nodes[a].psNN
        /\ nodes[a].name # Unknown => e.name = nodes[a].name
    BY <1>2, <2>2 DEF Node
  <2>4. AppAfter(s.pid) = a /\ ns = [nodes EXCEPT ![a] = e]
    BY <1>5 DEF GetApp, AppAfter
  <2> HIDE DEF ns, a, e
  <2>7. /\ SameNodes(nodes, ns)
        /\ \A n \in DOMAIN nodes \ {a} : ns[n] = nodes[n]
        /\ ns[a] = e
    BY <1>1, <2>1, <2>3, <2>4, ChangedNode
  <2>8. Indexed(ns) /\ DOMAIN ns = DOMAIN nodes /\ \A n : IsApp(ns, n) <=> IsApp(nodes, n)
    BY <1>1, <2>7, SameNodesIndexed
  <2>9. Grown(nodes, ns)
    BY <2>3, <2>7, <2>8 DEF Grown, SameNodes
  <2>10. AppFound(ns, s.pid, a)
    BY <2>1, <2>7, <2>8 DEF AppFound, SameNodes
  <2> QED
    BY <2>4, <2>8, <2>9, <2>10 DEF ns, a
<1> QED
  BY <1>3, <1>4, <1>5

LEMMA FindThreadIs ==
  ASSUME NEW ns \in Seq(Node), NEW a, NEW tid
  PROVE  LET t == FindThread(ns, a, tid) IN
         /\ t = NULL => \A n \in DOMAIN ns : n # a /\ ns[n].app = a => ns[n].id # tid
         /\ t # NULL => /\ IsThread(ns, t) /\ ns[t].id = tid
                        /\ ns[t].app = a \/ ns[a].id = tid
<1>1. CASE CacheHits(ns, a, tid)
  <2>1. /\ FindThread(ns, a, tid) = curThread
        /\ IsThread(ns, curThread) /\ ns[curThread].id = tid /\ ns[a].id = tid
    BY <1>1 DEF FindThread, CacheHits
  <2>2. curThread # NULL
    BY <2>1, LenProperties DEF IsThread, NULL
  <2> QED
    BY <2>1, <2>2
<1>2. CASE ~CacheHits(ns, a, tid)
  <2>1. FindThread(ns, a, tid) = Latest(Threads(ns, a, tid))
    BY <1>2 DEF FindThread
  <2> QED
    BY <2>1, ThreadsLatest DEF IsThread
<1> QED
  BY <1>1, <1>2

(* The thread of a record: found, added, or without memory for it.          *)
ThreadFound(ms, a, tid, t) ==
  t # NULL => /\ IsThread(ms, t) /\ ms[t].id = tid
              /\ ms[t].app = a \/ ms[a].id = tid

LEMMA GetThreadIs ==
  ASSUME NEW ns, Indexed(ns), ConstantsAssumption, NEW a, IsApp(ns, a), NEW tid \in Int
  PROVE  LET ms == GetThread(ns, a, tid)
             t  == ThreadAfter(ns, a, tid) IN
         /\ Indexed(ms) /\ Grown(ns, ms)
         /\ \A n \in DOMAIN ns : ms[n] = ns[n] /\ (IsApp(ms, n) <=> IsApp(ns, n))
         /\ \A n \in DOMAIN ms \ DOMAIN ns : n = t /\ ms[n].app = a /\ a \in DOMAIN ns
         /\ ThreadFound(ms, a, tid, t)
<1> DEFINE ms   == GetThread(ns, a, tid)
           t    == FindThread(ns, a, tid)
           node == [id |-> tid, app |-> a, name |-> Unknown, psNN |-> 0]
<1>1. /\ ns \in Seq(Node) /\ Len(ns) \in Nat /\ DOMAIN ns = 1..Len(ns)
      /\ MaxNodes \in Nat /\ a \in 1..Len(ns) /\ ns[a].app = a /\ Len(ns) <= MaxNodes
  BY LenProperties DEF Indexed, ConstantsAssumption, IsApp
<1>2. CASE t = NULL /\ HasRoom(ns)
  <2>1. ms = Append(ns, node) /\ ThreadAfter(ns, a, tid) = Len(ns) + 1
    BY <1>2 DEF GetThread, ThreadAfter
  <2>2. node \in Node
    BY <1>1 DEF Node, Names
  <2>3. OneMore(ns, ms, node)
    BY <1>1, <2>1, <2>2, AppendedNode
  <2>4. Len(ns) < MaxNodes /\ node.app # Len(ns) + 1 /\ node.app = a /\ node.id = tid
        /\ node.psNN = 0
    BY <1>1, <1>2 DEF HasRoom
  <2>5. New(ns, node)
    BY <1>1, <1>2, <2>4, FindThreadIs DEF New
  <2>6. /\ Indexed(ms) /\ DOMAIN ms = DOMAIN ns \cup {Len(ns) + 1}
        /\ \A n \in DOMAIN ns : IsApp(ms, n) <=> IsApp(ns, n)
        /\ ~IsApp(ms, Len(ns) + 1)
    <3> HIDE DEF ms, node
    <3> QED
      BY <1>1, <2>2, <2>3, <2>4, <2>5, OneMoreIndexed
  <2>7. /\ \A n \in DOMAIN ns : ms[n] = ns[n]
        /\ ms[Len(ns) + 1] = node
    BY <2>3 DEF OneMore
  <2> HIDE DEF ms, node, t
  <2>8. Grown(ns, ms)
    BY <2>4, <2>6, <2>7 DEF Grown, IsApp
  <2>9. ThreadFound(ms, a, tid, Len(ns) + 1)
    BY <2>4, <2>6, <2>7 DEF ThreadFound, IsThread, IsApp
  <2>10. \A n \in DOMAIN ms \ DOMAIN ns : n = Len(ns) + 1 /\ ms[n].app = a
    BY <2>4, <2>6, <2>7
  <2> QED
    BY <1>1, <2>1, <2>6, <2>7, <2>8, <2>9, <2>10 DEF ms
<1>3. CASE t = NULL /\ ~HasRoom(ns)
  <2>1. ms = ns /\ ThreadAfter(ns, a, tid) = NULL
    BY <1>3 DEF GetThread, ThreadAfter
  <2> QED
    BY <1>1, <2>1 DEF Grown, ThreadFound
<1>4. CASE t # NULL
  <2>1. ms = ns /\ ThreadAfter(ns, a, tid) = t
    BY <1>4 DEF GetThread, ThreadAfter
  <2>2. ThreadFound(ns, a, tid, t)
    BY <1>1, <1>4, FindThreadIs DEF ThreadFound
  <2> QED
    BY <1>1, <2>1, <2>2 DEF Grown
<1> QED
  BY <1>2, <1>3, <1>4

(* What a record leaves behind, apart from what the walk makes of it.       *)
LEMMA RecordStep ==
  ASSUME TypeOK, IndexSound, ConstantsAssumption, NEW s \in Sources, AppendRec(s)
  PROVE  /\ Indexed(nodes') /\ Grown(nodes, nodes') /\ UNCHANGED psVars
         /\ \A n \in DOMAIN nodes : IsApp(nodes', n) <=> IsApp(nodes, n)
         /\ curApp' # NULL => IsApp(nodes', curApp')
         /\ curThread' # NULL => IsThread(nodes', curThread')
         /\ AtHome(s, curApp', curThread')
<1> DEFINE a  == AppAfter(s.pid)
           ns == GetApp(s.pid, s.name)
           ms == GetThread(ns, a, s.tid)
           t  == ThreadAfter(ns, a, s.tid)
<1>1. /\ UNCHANGED psVars /\ curApp' = a
      /\ a = NULL => nodes' = ns /\ curThread' = curThread
      /\ a # NULL => nodes' = ms /\ curThread' = t
  BY DEF AppendRec
<1>2. /\ Indexed(ns) /\ Grown(nodes, ns) /\ AppFound(ns, s.pid, a)
      /\ \A n \in DOMAIN ns \ DOMAIN nodes : n = a
      /\ \A n \in DOMAIN nodes : IsApp(ns, n) <=> IsApp(nodes, n)
  BY GetAppIs
<1>3. s.pid \in Int /\ s.tid \in Int
  BY DEF ConstantsAssumption
<1>4. CASE a = NULL
  <2> HIDE DEF a, ns, ms, t
  <2>1. curThread # NULL => IsThread(ns, curThread)
    BY <1>2 DEF IndexSound, IsThread, Grown
  <2> QED
    BY <1>1, <1>2, <1>4, <2>1 DEF AtHome
<1>5. CASE a # NULL
  <2>1. IsApp(ns, a) /\ ns[a].id = s.pid /\ a \in DOMAIN ns
    BY <1>2, <1>5 DEF AppFound, IsApp
  <2>2. /\ Indexed(ms) /\ Grown(ns, ms)
        /\ \A n \in DOMAIN ns : ms[n] = ns[n] /\ (IsApp(ms, n) <=> IsApp(ns, n))
        /\ \A n \in DOMAIN ms \ DOMAIN ns : n = t /\ ms[n].app = a /\ a \in DOMAIN ns
        /\ ThreadFound(ms, a, s.tid, t)
    <3> HIDE DEF a, ns
    <3> QED
      BY <1>2, <1>3, <2>1, GetThreadIs
  <2> HIDE DEF a, ns, ms, t
  <2>3. Grown(nodes, ms)
    BY <1>2, <2>2, GrownTwice
  <2>4. \A n \in DOMAIN nodes : IsApp(ms, n) <=> IsApp(nodes, n)
    BY <1>2, <2>2 DEF Grown
  <2>5. IsApp(ms, a) /\ ms[a].id = s.pid
    BY <2>1, <2>2
  <2>6. AtHome(s, a, t)
    BY <1>1, <1>5, <2>2, <2>5 DEF AtHome, ThreadFound
  <2> QED
    BY <1>1, <1>5, <2>2, <2>3, <2>4, <2>5, <2>6 DEF ThreadFound
<1> QED
  BY <1>4, <1>5

(* Growing disturbs neither the types nor the index.                        *)
LEMMA GrownKeeps ==
  ASSUME IndInv, Indexed(nodes'), Grown(nodes, nodes'), UNCHANGED psVars,
         curApp' # NULL => IsApp(nodes', curApp'),
         curThread' # NULL => IsThread(nodes', curThread')
  PROVE  TypeOK' /\ IndexSound' /\ TableOfRun'
<1>1. IndexSound'
  BY DEF IndexSound, Indexed
<1>2. TableOfRun'
  BY DEF IndInv, TableOfRun, psVars
<1>3. {curApp', curThread', psApp'} \subseteq {NULL} \cup DOMAIN nodes'
  BY DEF IsApp, IsThread, Grown, psVars, IndInv, TypeOK
<1>4. old' \subseteq DOMAIN nodes'
  BY DEF Grown, psVars, IndInv, TypeOK
<1>5. nodes' \in Seq([id : Int, app : 1..MaxNodes, name : Names, psNN : Int])
      /\ Len(nodes') <= MaxNodes
  BY DEF Indexed, Node
<1>6. /\ psInfo'.haveTID \in BOOLEAN /\ Len(psInfo'.rows) \in Nat
      /\ psNN' \in 0..MaxRounds /\ row' \in Nat
      /\ logging' \in BOOLEAN
      /\ ps' \in {"sleep", "rows", "main", "threads"}
  BY DEF IndInv, TypeOK, psVars
<1> QED
  BY <1>1, <1>2, <1>3, <1>4, <1>5, <1>6 DEF TypeOK

LEMMA GrownWalk ==
  ASSUME IndInv, Grown(nodes, nodes'), UNCHANGED psVars, Indexed(nodes'),
         \A n \in DOMAIN nodes : IsApp(nodes', n) <=> IsApp(nodes, n)
  PROVE  WalkInv'
<1> USE DEF psVars, Rows, Count
<1>1. /\ old \subseteq DOMAIN nodes /\ psNN \in Nat
      /\ \A n \in DOMAIN nodes : nodes[n].app \in DOMAIN nodes
  BY DEF IndInv, TypeOK, IndexSound, Rooted, IsApp
<1>2. \A n \in DOMAIN nodes : Met(n) => Met(n)'
  BY DEF Met, Known, Grown
<1>3. InProcess'
  <2>1. ps \in {"main", "threads"} => IsApp(nodes, psApp) /\ psApp \in DOMAIN nodes
    BY DEF IndInv, WalkInv, InProcess, IsApp
  <2>2. ps \in {"main", "threads"} => Met(psApp)'
    BY <1>2, <2>1 DEF IndInv, WalkInv, InProcess
  <2>3. \A j : psApp \in DOMAIN nodes /\ RowOf(j, psApp) => RowOf(j, psApp)'
    BY DEF RowOf, Grown
  <2>4. psApp \in DOMAIN nodes /\ AmongItsRows => AmongItsRows'
    BY <2>3 DEF AmongItsRows, Grown
  <2> QED
    BY <2>1, <2>2, <2>4 DEF IndInv, WalkInv, InProcess
<1>4. RowsPassed'
  <2> SUFFICES ASSUME NEW i \in 1..Count, i <= Through
               PROVE  RowPassed(i)'
    BY DEF RowsPassed, Through
  <2>1. RowPassed(i)
    BY DEF IndInv, WalkInv, RowsPassed
  <2>2. Overlooked(i) => Overlooked(i)'
    <3>1. \A pid : Apps(nodes, pid) # {} => Apps(nodes', pid) # {}
      BY <1>1 DEF Apps, Grown
    <3> QED
      BY <3>1 DEF Overlooked
  <2>3. ASSUME ~Overlooked(i), NEW n \in old, IsApp(nodes', n), RowOf(i, n)'
        PROVE  Met(n)'
    <3>1. n \in DOMAIN nodes /\ IsApp(nodes, n) /\ RowOf(i, n)
      BY <1>1, <2>3 DEF RowOf, Grown
    <3> QED
      BY <1>2, <2>1, <2>3, <3>1 DEF RowPassed
  <2> QED
    BY <2>2, <2>3 DEF RowPassed
<1>5. LaterNamed'
  <2> SUFFICES ASSUME NEW n \in DOMAIN nodes' \ old, IsApp(nodes', n),
                      NEW i \in 1..Count, Rows[i].pid = nodes'[n].id
               PROVE  nodes'[n].name # Unknown
    BY DEF LaterNamed, Listed
  <2>1. CASE n \in DOMAIN nodes
    <3>1. IsApp(nodes, n) /\ i \in Listed(n)
      BY <2>1 DEF Listed, Grown
    <3>2. nodes[n].name # Unknown
      BY <2>1, <3>1 DEF IndInv, WalkInv, LaterNamed
    <3> QED
      BY <2>1, <3>2 DEF Grown
  <2>2. CASE n \notin DOMAIN nodes
    <3>1. nodes'[n].name = Unknown => ~InTable(nodes'[n].id)
      BY <2>2 DEF Grown, IsApp
    <3>2. i \in DOMAIN psInfo.rows
      BY LenProperties DEF IndInv, TableOfRun
    <3> QED
      BY <3>1, <3>2 DEF InTable
  <2> QED
    BY <2>1, <2>2
<1>6. MarkedByRun'
  <2> SUFFICES ASSUME NEW n \in DOMAIN nodes'
               PROVE  MarkedByRun!(n)'
    BY DEF MarkedByRun
  <2>1. CASE n \in DOMAIN nodes
    <3>1. /\ nodes'[n].psNN = nodes[n].psNN /\ nodes'[n].app = nodes[n].app
          /\ nodes'[nodes[n].app].id = nodes[nodes[n].app].id
      BY <1>1, <2>1 DEF Grown
    <3>2. Listed(nodes[n].app)' = Listed(nodes[n].app)
      BY <3>1 DEF Listed
    <3> QED
      BY <2>1, <3>1, <3>2 DEF IndInv, WalkInv, MarkedByRun
  <2>2. CASE n \notin DOMAIN nodes
    <3>1. nodes'[n].psNN = 0
      BY <2>2 DEF Grown
    <3> QED
      BY <1>1, <3>1
  <2> QED
    BY <2>1, <2>2
<1>7. UnlistedClosed'
  <2> SUFFICES ASSUME ps = "sleep", psNN > 0, NEW n \in old,
                      nodes'[nodes'[n].app].id > 0, nodes'[n].id > 0,
                      {i \in 1..Count : Rows[i].pid = nodes'[nodes'[n].app].id} = {}
               PROVE  nodes'[n].psNN < 0 \/ (nodes'[n].psNN = psNN /\ psNN \in ImportedNN)
    BY DEF UnlistedClosed, Listed
  <2>1. /\ nodes'[n].psNN = nodes[n].psNN /\ nodes'[n].app = nodes[n].app
        /\ nodes'[n].id = nodes[n].id
        /\ nodes'[nodes[n].app].id = nodes[nodes[n].app].id
    BY <1>1 DEF Grown
  <2>2. Listed(nodes[n].app) = {}
    BY <2>1 DEF Listed
  <2> QED
    BY <2>1, <2>2 DEF IndInv, WalkInv, UnlistedClosed
<1> QED
  BY <1>3, <1>4, <1>5, <1>6, <1>7 DEF WalkInv

-----------------------------------------------------------------------------
(* What a step of the walk does to the nodes.                              *)

(* Nodes keep the names they have, but <pre-initialized>, and get the       *)
(* number of the run only if their application is in the table.             *)
Marks(ms) ==
  /\ SameNodes(nodes, ms)
  /\ \A n \in DOMAIN nodes :
       /\ nodes[n].name # Unknown => ms[n].name # Unknown
       /\ Known(nodes[n].name) => Known(ms[n].name)
       /\ \/ ms[n].psNN = nodes[n].psNN
          \/ ms[n].psNN = psNN /\ Listed(nodes[n].app) # {}

(* The walk goes on, to the same table.                                     *)
WalkStep ==
  /\ UNCHANGED <<cacheVars, psInfo, psNN, logging, old>>
  /\ Marks(nodes')
  /\ ps \in {"rows", "main", "threads"} /\ ps' \in {"rows", "main", "threads"}
  /\ row' \in Nat \ {0}
  /\ psApp' \in {NULL} \cup DOMAIN nodes
  /\ ps' = "rows" => psApp' = NULL

LEMMA WalkKeeps ==
  ASSUME IndInv, WalkStep
  PROVE  TypeOK' /\ IndexSound' /\ TableOfRun'
<1>1. Indexed(nodes) /\ SameNodes(nodes, nodes')
  BY DEF IndInv, TypeOK, IndexSound, Indexed, Node, WalkStep, Marks
<1>2. Indexed(nodes') /\ DOMAIN nodes' = DOMAIN nodes /\ \A n : IsApp(nodes', n) <=> IsApp(nodes, n)
  BY <1>1, SameNodesIndexed
<1>3. IndexSound'
  <2>1. curThread' # NULL => IsThread(nodes', curThread')
    BY <1>1, <1>2 DEF IndInv, IndexSound, IsThread, WalkStep, cacheVars, SameNodes
  <2>2. curApp' # NULL => IsApp(nodes', curApp')
    BY <1>2 DEF IndInv, IndexSound, WalkStep, cacheVars
  <2> QED
    BY <1>2, <2>1, <2>2 DEF IndexSound, Indexed
<1>4. TableOfRun'
  BY DEF IndInv, TableOfRun, WalkStep
<1>5. /\ {curApp', curThread', psApp'} \subseteq {NULL} \cup DOMAIN nodes'
      /\ old' \subseteq DOMAIN nodes'
  BY <1>2 DEF WalkStep, cacheVars, IndInv, TypeOK
<1>6. nodes' \in Seq([id : Int, app : 1..MaxNodes, name : Names, psNN : Int])
      /\ Len(nodes') <= MaxNodes
  BY <1>2 DEF Indexed, Node
<1>7. /\ psInfo'.haveTID \in BOOLEAN /\ Len(psInfo'.rows) \in Nat
      /\ psNN' \in 0..MaxRounds /\ row' \in Nat
      /\ logging' \in BOOLEAN
      /\ ps' \in {"sleep", "rows", "main", "threads"}
  BY DEF IndInv, TypeOK, WalkStep
<1> QED
  BY <1>3, <1>4, <1>5, <1>6, <1>7 DEF TypeOK

LEMMA WalkMarks ==
  ASSUME IndInv, WalkStep
  PROVE  /\ LaterNamed' /\ MarkedByRun' /\ UnlistedClosed'
         /\ \A n \in DOMAIN nodes : Met(n) => Met(n)'
         /\ \A i \in 1..Count : RowPassed(i) => RowPassed(i)'
<1> USE DEF Rows, Count
<1>1. /\ DOMAIN nodes' = DOMAIN nodes /\ \A n : IsApp(nodes', n) <=> IsApp(nodes, n)
      /\ \A n \in DOMAIN nodes : nodes'[n].id = nodes[n].id /\ nodes'[n].app = nodes[n].app
      /\ \A n \in DOMAIN nodes : nodes[n].app \in DOMAIN nodes
  <2>1. Indexed(nodes) /\ SameNodes(nodes, nodes')
    BY DEF IndInv, TypeOK, IndexSound, Indexed, Node, WalkStep, Marks
  <2>2. \A n \in DOMAIN nodes : nodes[n].app \in DOMAIN nodes
    BY DEF IndInv, IndexSound, Rooted, IsApp
  <2> QED
    BY <2>1, <2>2, SameNodesIndexed DEF SameNodes
<1>2. UNCHANGED <<psInfo, psNN, old>> /\ old \subseteq DOMAIN nodes /\ psNN \in Nat
  BY DEF WalkStep, IndInv, TypeOK
<1>3. ASSUME NEW n \in DOMAIN nodes PROVE Listed(n)' = Listed(n)
  BY <1>1, <1>2 DEF Listed
<1>4. LaterNamed'
  BY <1>1, <1>2, <1>3 DEF LaterNamed, IndInv, WalkInv, WalkStep, Marks
<1>5. MarkedByRun'
  <2> SUFFICES ASSUME NEW n \in DOMAIN nodes
               PROVE  MarkedByRun!(n)'
    BY <1>1 DEF MarkedByRun
  <2>1. MarkedByRun!(n)
    BY DEF IndInv, WalkInv, MarkedByRun
  <2>2. Listed(nodes[n].app)' = Listed(nodes[n].app)
    BY <1>1, <1>2 DEF Listed
  <2>3. CASE nodes'[n].psNN = nodes[n].psNN
    BY <1>1, <1>2, <2>1, <2>2, <2>3
  <2>4. CASE nodes'[n].psNN = psNN /\ Listed(nodes[n].app) # {}
    <3>1. PICK i \in 1..Count : Rows[i].pid = nodes[nodes[n].app].id
      BY <2>4 DEF Listed
    <3>2. Rows[i] \in [pid : Nat, tid : Nat, ppid : Nat]
      BY ElementOfSeq DEF IndInv, TableOfRun
    <3>3. ~(nodes[nodes[n].app].id < 0)
      BY <3>1, <3>2
    <3> QED
      BY <1>1, <1>2, <2>2, <2>4, <3>3
  <2> QED
    BY <2>3, <2>4 DEF WalkStep, Marks
<1>6. UnlistedClosed'
  BY DEF UnlistedClosed, WalkStep
<1>7. \A n \in DOMAIN nodes : Met(n) => Met(n)'
  BY <1>2 DEF Met, WalkStep, Marks
<1>8. ASSUME NEW i \in 1..Count, RowPassed(i) PROVE RowPassed(i)'
  <2>1. \A pid : Apps(nodes', pid) = Apps(nodes, pid)
    BY <1>1 DEF Apps
  <2>2. Overlooked(i) => Overlooked(i)'
    BY <1>2, <2>1 DEF Overlooked
  <2>3. ASSUME NEW n \in old, IsApp(nodes', n), RowOf(i, n)' PROVE IsApp(nodes, n) /\ RowOf(i, n)
    BY <1>1, <1>2, <2>3 DEF RowOf
  <2> QED
    BY <1>2, <1>7, <1>8, <2>2, <2>3 DEF RowPassed
<1> QED
  BY <1>4, <1>5, <1>6, <1>7, <1>8

-----------------------------------------------------------------------------
(* The steps of the walk, one by one.                                      *)

LEMMA NothingMarked ==
  ASSUME IndInv
  PROVE  Marks(nodes)
BY DEF IndInv, TypeOK, Marks, SameNodes, Node

LEMMA NameAppMarks ==
  ASSUME IndInv, NEW a, IsApp(nodes, a), Listed(a) # {}, nodes' = NameApp(a, "ps"), psNN' = psNN
  PROVE  Marks(nodes') /\ Met(a)'
<1> DEFINE e == [nodes[a] EXCEPT !.name = IF Known(@) THEN @ ELSE "ps", !.psNN = psNN]
<1>1. nodes \in Seq(Node) /\ a \in DOMAIN nodes /\ a \in 1..Len(nodes) /\ nodes[a].app = a
  BY LenProperties DEF IndInv, TypeOK, Node, IsApp
<1>2. nodes[a] \in Node /\ psNN \in Int
  BY <1>1, ElementOfSeq DEF IndInv, TypeOK
<1>3. /\ e \in Node /\ e.id = nodes[a].id /\ e.app = nodes[a].app
      /\ Known(e.name) /\ e.name # Unknown /\ e.psNN = psNN
  BY <1>2 DEF Node, Names, Known, Unknown, PreInitialized
<1>4. nodes' = [nodes EXCEPT ![a] = e]
  BY <1>1, <1>2 DEF NameApp
<1> HIDE DEF e
<1>5. /\ SameNodes(nodes, nodes')
      /\ \A n \in DOMAIN nodes \ {a} : nodes'[n] = nodes[n]
      /\ nodes'[a] = e
  BY <1>1, <1>3, <1>4, ChangedNode
<1> QED
  BY <1>1, <1>3, <1>5 DEF Marks, Met

LEMMA NameThreadMarks ==
  ASSUME IndInv, NEW tid, Listed(psApp) # {}, NameThread(tid)
  PROVE  Marks(nodes')
<1> DEFINE t == Latest(Threads(nodes, psApp, tid))
           e == [nodes[t] EXCEPT !.name = IF @ = Unknown THEN "ps" ELSE @, !.psNN = psNN]
<1>1. nodes \in Seq(Node)
  BY DEF IndInv, TypeOK, Node
<1>2. CASE t = NULL
  BY <1>2, NothingMarked DEF NameThread
<1>3. CASE t # NULL
  <2>1. t \in DOMAIN nodes /\ t \in 1..Len(nodes) /\ nodes[t].app = psApp
    BY <1>1, <1>3, ThreadsLatest, LenProperties
  <2>2. nodes[t] \in Node /\ psNN \in Int
    BY <1>1, <2>1, ElementOfSeq DEF IndInv, TypeOK
  <2>3. nodes' = [nodes EXCEPT ![t] = e]
    BY <1>3, <2>1, <2>2 DEF NameThread
  <2> HIDE DEF t
  <2>4. /\ e \in Node /\ e.id = nodes[t].id /\ e.app = nodes[t].app
        /\ nodes[t].name # Unknown => e.name = nodes[t].name
        /\ e.psNN = psNN
    BY <2>2 DEF Node, Names
  <2> HIDE DEF e
  <2>5. /\ SameNodes(nodes, nodes')
        /\ \A n \in DOMAIN nodes \ {t} : nodes'[n] = nodes[n]
        /\ nodes'[t] = e
    BY <1>1, <2>1, <2>3, <2>4, ChangedNode
  <2> QED
    BY <2>1, <2>4, <2>5 DEF Marks, Known
<1> QED
  BY <1>2, <1>3

(* Where the walk is in the rows of an application, it has met it.          *)
LEMMA AtProcess ==
  ASSUME IndInv, ps \in {"main", "threads"}
  PROVE  /\ IsApp(nodes, psApp) /\ Met(psApp) /\ psApp \in DOMAIN nodes
         /\ Listed(psApp) # {} /\ AmongItsRows
<1>1. IsApp(nodes, psApp) /\ Met(psApp) /\ AmongItsRows
  BY DEF IndInv, WalkInv, InProcess
<1>2. \E j : RowOf(j, psApp)
  BY <1>1 DEF AmongItsRows
<1> QED
  BY <1>1, <1>2 DEF RowOf, Listed, IsApp

(* A row of an application that is met, or one the walk passes over.        *)
LEMMA RowIsPassed ==
  ASSUME IndInv, WalkStep, NEW a \in DOMAIN nodes, IsApp(nodes, a), Met(a)',
         NEW i \in 1..Count, Rows[i].pid = nodes[a].id
  PROVE  RowPassed(i)'
<1>1. \A n \in old : IsApp(nodes', n) /\ RowOf(i, n)' => n = a
  <2>1. Indexed(nodes) /\ SameNodes(nodes, nodes') /\ old \subseteq DOMAIN nodes
    BY DEF IndInv, TypeOK, IndexSound, Indexed, Node, WalkStep, Marks
  <2>2. \A n : IsApp(nodes', n) <=> IsApp(nodes, n)
    BY <2>1, SameNodesIndexed
  <2>3. UNCHANGED psInfo
    BY DEF WalkStep
  <2> QED
    BY <2>1, <2>2, <2>3 DEF RowOf, Rows, Indexed, OneNodeEach, SameNodes
<1>2. UNCHANGED old
  BY DEF WalkStep
<1> QED
  BY <1>1, <1>2 DEF RowPassed

LEMMA RowIsOverlooked ==
  ASSUME IndInv, WalkStep, NEW a \in DOMAIN nodes, IsApp(nodes, a),
         NEW i \in 1..Count, Rows[i].pid # nodes[a].id,
         NEW j \in 1..(i - 1), Rows[j].pid = nodes[a].id,
         IF psInfo.haveTID THEN j = i - 1 ELSE Rows[i].ppid = Rows[j].pid
  PROVE  RowPassed(i)'
<1>1. a \in Apps(nodes, Rows[j].pid)
  BY DEF Apps, IsApp
<1>2. Overlooked(i)
  BY <1>1 DEF Overlooked
<1>3. RowPassed(i)
  BY <1>2 DEF RowPassed
<1> QED
  BY <1>3, WalkMarks

(* One row more is passed, or none.                                         *)
LEMMA OneRowMore ==
  ASSUME IndInv, WalkStep, Through' \in Int, Through \in Int,
         Through' <= Through + 1,
         \A k \in 1..Count : k = Through' /\ k = Through + 1 => RowPassed(k)'
  PROVE  RowsPassed'
<1>1. UNCHANGED psInfo
  BY DEF WalkStep
<1> SUFFICES ASSUME NEW i \in 1..Count, i <= Through'
             PROVE  RowPassed(i)'
  BY <1>1 DEF RowsPassed, Count, Rows
<1>2. CASE i <= Through
  <2>1. RowPassed(i)
    BY <1>2 DEF IndInv, WalkInv, RowsPassed
  <2> QED
    BY <2>1, WalkMarks
<1>3. CASE ~(i <= Through)
  <2>1. i \in Int
    OBVIOUS
  <2>2. i = Through' /\ Through' = Through + 1
    BY <1>3, <2>1
  <2> QED
    BY <2>2
<1> QED
  BY <1>2, <1>3

LEMMA ListAppStep ==
  ASSUME IndInv, ListApp
  PROVE  WalkStep /\ InProcess' /\ RowsPassed'
<1> USE DEF Rows, Count, Here
<1>1. /\ ps = "rows" /\ row \in Nat \ {0} /\ row <= Count /\ psApp = NULL
      /\ UNCHANGED <<cacheVars, psInfo, psNN, logging, old>>
      /\ Count \in Nat /\ row \in 1..Count
  BY DEF ListApp, IndInv, TableOfRun, TypeOK
<1>2. nodes \in Seq(Node) /\ Indexed(nodes) /\ old \subseteq DOMAIN nodes
  BY DEF IndInv, TypeOK, Node, IndexSound, Indexed
<1>0. PICK a : a = Latest(Apps(nodes, Here.pid))
  OBVIOUS
<1>3. CASE a = NULL
  <2>1. row' = row + 1 /\ UNCHANGED <<nodes, ps, psApp>>
    BY <1>0, <1>3 DEF ListApp
  <2>2. WalkStep
    BY <1>1, <2>1, NothingMarked DEF WalkStep
  <2>3. InProcess'
    BY <1>1, <2>1 DEF InProcess
  <2>4. Through = row - 1 /\ Through' = row
    BY <1>1, <2>1 DEF Through
  <2>5. \A n \in old : ~(IsApp(nodes, n) /\ RowOf(row, n))
    BY <1>0, <1>2, <1>3, AppsLatest DEF RowOf, IsApp
  <2>6. RowPassed(row)
    BY <2>5 DEF RowPassed
  <2>7. \A k \in 1..Count : k = row => RowPassed(k)'
    BY <2>2, <2>6, WalkMarks
  <2> HIDE DEF Rows, Count, Here
  <2>8. RowsPassed'
    BY <1>1, <2>2, <2>4, <2>7, OneRowMore
  <2> QED
    BY <2>2, <2>3, <2>8
<1>4. CASE a # NULL
  <2>1. /\ IsApp(nodes, a) /\ nodes[a].id = Here.pid /\ a \in DOMAIN nodes
    BY <1>0, <1>2, <1>4, AppsLatest DEF IsApp
  <2>2. /\ nodes' = NameApp(a, "ps") /\ psApp' = a /\ UNCHANGED row
        /\ ps' = IF psInfo.haveTID THEN "threads" ELSE "main"
    BY <1>0, <1>4 DEF ListApp
  <2>3. Listed(a) # {}
    BY <1>1, <2>1 DEF Listed
  <2>4. Marks(nodes') /\ Met(a)'
    BY <1>1, <2>1, <2>2, <2>3, NameAppMarks
  <2>5. WalkStep
    BY <1>1, <2>1, <2>2, <2>4 DEF WalkStep
  <2>6. \A n : IsApp(nodes', n) <=> IsApp(nodes, n)
    BY <1>2, <2>4, SameNodesIndexed DEF Marks
  <2>7. RowOf(row, a)'
    BY <1>1, <2>1, <2>2, <2>4 DEF RowOf, Marks, SameNodes
  <2>8. AmongItsRows'
    <3>1. CASE psInfo.haveTID
      BY <1>1, <2>2, <2>7, <3>1 DEF AmongItsRows
    <3>2. CASE ~psInfo.haveTID
      <4>1. (row + 1)..row = {}
        BY <1>1
      <4> QED
        BY <1>1, <2>2, <2>7, <3>2, <4>1 DEF AmongItsRows
    <3> QED
      BY <3>1, <3>2
  <2>9. InProcess'
    <3>1. Met(psApp)'
      BY <2>2, <2>4 DEF Met
    <3> QED
      BY <2>1, <2>2, <2>6, <2>8, <3>1 DEF InProcess
  <2>10. /\ Through = row - 1
         /\ Through' = IF psInfo.haveTID THEN row - 1 ELSE row
    BY <1>1, <2>2 DEF Through
  <2>11. \A k \in 1..Count : k = row => RowPassed(k)'
    BY <2>1, <2>4, <2>5, RowIsPassed
  <2> HIDE DEF Rows, Count, Here
  <2>12. RowsPassed'
    BY <1>1, <2>5, <2>10, <2>11, OneRowMore
  <2> QED
    BY <2>5, <2>9, <2>12
<1> QED
  BY <1>3, <1>4

(* As long as the walk stays with an application, it has met it.            *)
LEMMA StillMet ==
  ASSUME IndInv, WalkStep, NEW a, IsApp(nodes, a), Met(a), psApp' = a
  PROVE  IsApp(nodes', a) /\ Met(a)' /\ Met(psApp)' /\ (\A j : RowOf(j, a) => RowOf(j, psApp)')
<1>1. Indexed(nodes) /\ SameNodes(nodes, nodes') /\ a \in DOMAIN nodes /\ UNCHANGED psInfo
  BY DEF IndInv, TypeOK, IndexSound, Indexed, Node, WalkStep, Marks, IsApp
<1>2. IsApp(nodes', a)
  BY <1>1, SameNodesIndexed
<1>3. Met(a)'
  BY <1>1, WalkMarks
<1>4. Met(psApp)'
  BY <1>3 DEF Met
<1>5. \A j : RowOf(j, a) => RowOf(j, psApp)'
  BY <1>1 DEF RowOf, Rows, Count, SameNodes
<1> QED
  BY <1>2, <1>3, <1>4, <1>5

LEMMA ListThreadStep ==
  ASSUME IndInv, ListThread
  PROVE  WalkStep /\ InProcess' /\ RowsPassed'
<1> USE DEF Rows, Count, Here
<1>1. /\ ps = "threads" /\ psInfo.haveTID /\ row \in 1..Count
      /\ Rows[row].pid = nodes[psApp].id /\ NameThread(Here.tid) /\ row' = row + 1
      /\ UNCHANGED <<cacheVars, psInfo, psNN, logging, old, ps, psApp>>
  BY DEF ListThread, IsThreadRow, IndInv, TableOfRun, TypeOK
<1>2. PICK a : a = psApp
  OBVIOUS
<1>3. IsApp(nodes, a) /\ Met(a) /\ a \in DOMAIN nodes /\ Listed(psApp) # {}
  BY <1>1, <1>2, AtProcess
<1>4. WalkStep
  <2>1. Marks(nodes')
    BY <1>1, <1>3, NameThreadMarks
  <2> QED
    BY <1>1, <1>2, <1>3, <2>1 DEF WalkStep
<1>5. IsApp(nodes', a) /\ Met(a)' /\ Met(psApp)' /\ (\A j : RowOf(j, a) => RowOf(j, psApp)')
  BY <1>1, <1>2, <1>3, <1>4, StillMet
<1>6. AmongItsRows'
  <2>1. RowOf(row, a)
    BY <1>1, <1>2 DEF RowOf
  <2>2. row' - 1 = row
    BY <1>1
  <2>3. row \in 1..Count' /\ Rows'[row].pid = nodes'[psApp'].id
    BY <1>5, <2>1 DEF RowOf
  <2> QED
    BY <1>1, <2>2, <2>3 DEF AmongItsRows, RowOf
<1>7. InProcess'
  BY <1>1, <1>2, <1>5, <1>6 DEF InProcess
<1>8. Through = row - 1 /\ Through' = row
  BY <1>1 DEF Through
<1>9. \A k \in 1..Count : k = row => RowPassed(k)'
  BY <1>1, <1>2, <1>3, <1>4, <1>5, RowIsPassed
<1>10. RowsPassed'
  <2> HIDE DEF Rows, Count, Here
  <2> QED
    BY <1>1, <1>4, <1>8, <1>9, OneRowMore
<1> QED
  BY <1>4, <1>7, <1>10

LEMMA AppDoneStep ==
  ASSUME IndInv, AppDone
  PROVE  WalkStep /\ InProcess' /\ RowsPassed'
<1> USE DEF Rows, Count, Here
<1>1. /\ ps = "threads" /\ psInfo.haveTID /\ row \in Nat \ {0} /\ Count \in Nat
      /\ row <= Count => Rows[row].pid # nodes[psApp].id
      /\ row' = row + 1 /\ ps' = "rows" /\ psApp' = NULL
      /\ UNCHANGED <<nodes, cacheVars, psInfo, psNN, logging, old>>
  BY DEF AppDone, IsThreadRow, IndInv, TableOfRun, TypeOK
<1>2. PICK a : a = psApp
  OBVIOUS
<1>3. IsApp(nodes, a) /\ a \in DOMAIN nodes /\ AmongItsRows
  BY <1>1, <1>2, AtProcess
<1>4. WalkStep
  BY <1>1, NothingMarked DEF WalkStep
<1>5. InProcess'
  BY <1>1 DEF InProcess
<1>6. Through = row - 1 /\ Through' = row
  BY <1>1 DEF Through
<1>7. \A k \in 1..Count : k = row => RowPassed(k)'
  <2> SUFFICES ASSUME row \in 1..Count, NEW k \in 1..Count, k = row
               PROVE  RowPassed(k)'
    OBVIOUS
  <2>1. row - 1 \in 1..Count /\ Rows[row - 1].pid = nodes[a].id /\ Rows[row].pid # nodes[a].id
    BY <1>1, <1>2, <1>3 DEF AmongItsRows, RowOf
  <2>2. k - 1 \in 1..(k - 1) /\ Rows[k].pid # nodes[a].id /\ Rows[k - 1].pid = nodes[a].id
    BY <2>1
  <2> HIDE DEF Rows, Count, Here
  <2> QED
    BY <1>1, <1>3, <1>4, <2>2, RowIsOverlooked
<1>8. RowsPassed'
  <2> HIDE DEF Rows, Count, Here
  <2> QED
    BY <1>1, <1>4, <1>6, <1>7, OneRowMore
<1> QED
  BY <1>4, <1>5, <1>8

LEMMA ListMainStep ==
  ASSUME IndInv, ListMain
  PROVE  WalkStep /\ InProcess' /\ RowsPassed'
<1> USE DEF Rows, Count, Here
<1>1. /\ ps = "main" /\ ps' = "threads" /\ row \in Nat \ {0} /\ Count \in Nat
      /\ NameThread(Here.pid)
      /\ UNCHANGED <<cacheVars, psInfo, psNN, logging, row, psApp, old>>
  BY DEF ListMain, IndInv, TableOfRun, TypeOK
<1>2. PICK a : a = psApp
  OBVIOUS
<1>3. IsApp(nodes, a) /\ Met(a) /\ a \in DOMAIN nodes /\ Listed(psApp) # {} /\ AmongItsRows
  BY <1>1, <1>2, AtProcess
<1>4. WalkStep
  <2>1. Marks(nodes')
    BY <1>1, <1>3, NameThreadMarks
  <2> QED
    BY <1>1, <1>2, <1>3, <2>1 DEF WalkStep
<1>5. IsApp(nodes', a) /\ Met(psApp)' /\ (\A j : RowOf(j, a) => RowOf(j, psApp)')
  BY <1>1, <1>2, <1>3, <1>4, StillMet
<1>6. ~psInfo.haveTID
  BY <1>1, <1>3 DEF AmongItsRows
<1>7. AmongItsRows'
  <2>1. PICK j \in 1..row : RowOf(j, a) /\ \A i \in (j + 1)..row : Rows[i].ppid = nodes[a].id
    BY <1>2, <1>3, <1>6 DEF AmongItsRows
  <2>2. nodes'[a].id = nodes[a].id
    BY <1>3, <1>4 DEF WalkStep, Marks, SameNodes
  <2>3. RowOf(j, psApp)' /\ row <= Count
    BY <1>3, <1>5, <1>6, <2>1 DEF AmongItsRows
  <2> QED
    BY <1>1, <1>2, <1>6, <2>1, <2>2, <2>3 DEF AmongItsRows
<1>8. InProcess'
  BY <1>1, <1>2, <1>5, <1>7 DEF InProcess
<1>9. Through = row /\ Through' = row
  BY <1>1, <1>6 DEF Through
<1>10. RowsPassed'
  <2> HIDE DEF Rows, Count, Here
  <2> QED
    BY <1>1, <1>4, <1>9, OneRowMore
<1> QED
  BY <1>4, <1>8, <1>10

LEMMA ListChildStep ==
  ASSUME IndInv, ListChild
  PROVE  WalkStep /\ InProcess' /\ RowsPassed'
<1> USE DEF Rows, Count, Here
<1>1. /\ ps = "threads" /\ ~psInfo.haveTID /\ row \in Nat \ {0} /\ Count \in Nat
      /\ row < Count /\ Rows[row + 1].ppid = nodes[psApp].id
      /\ NameThread(Rows[row + 1].pid) /\ row' = row + 1
      /\ UNCHANGED <<cacheVars, psInfo, psNN, logging, old, ps, psApp>>
  BY DEF ListChild, IsChildRow, IndInv, TableOfRun, TypeOK
<1>2. PICK a : a = psApp
  OBVIOUS
<1>3. IsApp(nodes, a) /\ Met(a) /\ a \in DOMAIN nodes /\ Listed(psApp) # {} /\ AmongItsRows
  BY <1>1, <1>2, AtProcess
<1>4. WalkStep
  <2>1. Marks(nodes')
    BY <1>1, <1>3, NameThreadMarks
  <2> QED
    BY <1>1, <1>2, <1>3, <2>1 DEF WalkStep
<1>5. /\ IsApp(nodes', a) /\ Met(a)' /\ Met(psApp)' /\ (\A j : RowOf(j, a) => RowOf(j, psApp)')
      /\ nodes'[a].id = nodes[a].id
  <2>1. nodes'[a].id = nodes[a].id
    BY <1>3, <1>4 DEF WalkStep, Marks, SameNodes
  <2> QED
    BY <1>1, <1>2, <1>3, <1>4, <2>1, StillMet
<1>6. PICK j \in 1..row : RowOf(j, a) /\ \A i \in (j + 1)..row : Rows[i].ppid = nodes[a].id
  BY <1>1, <1>2, <1>3 DEF AmongItsRows
<1>7. AmongItsRows'
  <2>1. \A i \in (j + 1)..(row + 1) : Rows[i].ppid = nodes[a].id
    <3>1. \A i \in (j + 1)..(row + 1) : i \in (j + 1)..row \/ i = row + 1
      BY <1>1
    <3> QED
      BY <1>1, <1>2, <1>6, <3>1
  <2>2. j \in 1..(row + 1) /\ row + 1 <= Count
    BY <1>1
  <2>3. RowOf(j, psApp)'
    BY <1>5, <1>6
  <2> QED
    BY <1>1, <1>2, <1>5, <2>1, <2>2, <2>3 DEF AmongItsRows
<1>8. InProcess'
  BY <1>1, <1>2, <1>5, <1>7 DEF InProcess
<1>9. Through = row /\ Through' = row + 1
  BY <1>1 DEF Through
<1>10. \A k \in 1..Count : k = row + 1 => RowPassed(k)'
  <2> SUFFICES ASSUME NEW k \in 1..Count, k = row + 1
               PROVE  RowPassed(k)'
    OBVIOUS
  <2>1. j \in 1..(k - 1) /\ Rows[j].pid = nodes[a].id /\ Rows[k].ppid = Rows[j].pid
    BY <1>1, <1>2, <1>6 DEF RowOf
  <2>2. CASE Rows[k].pid = nodes[a].id
    <3> HIDE DEF Rows, Count, Here
    <3> QED
      BY <1>3, <1>4, <1>5, <2>2, RowIsPassed
  <2>3. CASE Rows[k].pid # nodes[a].id
    <3> HIDE DEF Rows, Count, Here
    <3> QED
      BY <1>1, <1>3, <1>4, <2>1, <2>3, RowIsOverlooked
  <2> QED
    BY <2>2, <2>3
<1>11. RowsPassed'
  <2> HIDE DEF Rows, Count, Here
  <2> QED
    BY <1>1, <1>4, <1>9, <1>10, OneRowMore
<1> QED
  BY <1>4, <1>8, <1>11

LEMMA ChildrenDoneStep ==
  ASSUME IndInv, ChildrenDone
  PROVE  WalkStep /\ InProcess' /\ RowsPassed'
<1>1. /\ ps = "threads" /\ ~psInfo.haveTID /\ row \in Nat \ {0}
      /\ row' = row + 1 /\ ps' = "rows" /\ psApp' = NULL
      /\ UNCHANGED <<nodes, cacheVars, psInfo, psNN, logging, old>>
  BY DEF ChildrenDone, IndInv, TableOfRun
<1>2. WalkStep
  BY <1>1, NothingMarked DEF WalkStep
<1>3. InProcess'
  BY <1>1 DEF InProcess
<1>4. Through = row /\ Through' = row
  BY <1>1 DEF Through
<1>5. RowsPassed'
  BY <1>1, <1>2, <1>4, OneRowMore
<1> QED
  BY <1>2, <1>3, <1>5

LEMMA WalkSteps ==
  ASSUME IndInv,
         ListApp \/ ListThread \/ AppDone \/ ListMain \/ ListChild \/ ChildrenDone
  PROVE  IndInv'
<1>1. WalkStep /\ InProcess' /\ RowsPassed'
  BY ListAppStep, ListThreadStep, AppDoneStep, ListMainStep, ListChildStep, ChildrenDoneStep
<1> QED
  BY <1>1, WalkKeeps, WalkMarks DEF IndInv, WalkInv

-----------------------------------------------------------------------------
(* The end of the walk, and the copying of the next table.                 *)

LEMMA SeqOfFunction ==
  ASSUME NEW S, NEW n \in Nat, NEW f \in [1..n -> S]
  PROVE  f \in Seq(S) /\ Len(f) = n
<1>1. f \in Seq(S)
  BY SeqDef
<1>2. Len(f) \in Nat /\ 1..Len(f) = 1..n
  BY <1>1, LenProperties
<1> QED
  BY <1>1, <1>2

LEMMA CloseMissedStep ==
  ASSUME IndInv, CloseMissed
  PROVE  IndInv'
<1> USE DEF Rows, Count
<1> DEFINE closes(n) == nodes[nodes[n].app].id > 0 /\ nodes[n].id > 0 /\ Missed(n)
<1>1. /\ ps = "rows" /\ row > Count /\ ps' = "sleep" /\ row' = 1 /\ psApp = NULL
      /\ UNCHANGED <<cacheVars, psInfo, psNN, logging, psApp, old>>
      /\ psNN \in 0..MaxRounds /\ psNN > 0 /\ logging /\ old \subseteq DOMAIN nodes
      /\ Count \in Nat /\ row \in Nat
  BY DEF CloseMissed, IndInv, TableOfRun, TypeOK
<1>2. /\ nodes \in Seq(Node) /\ Indexed(nodes) /\ DOMAIN nodes = 1..Len(nodes)
      /\ Len(nodes) \in Nat
      /\ \A n \in DOMAIN nodes : nodes[n] \in Node /\ nodes[n].app \in DOMAIN nodes
  BY LenProperties, ElementOfSeq DEF IndInv, TypeOK, Node, IndexSound, Indexed, Rooted, IsApp
<1>3. nodes' = [n \in DOMAIN nodes |->
                  IF closes(n) THEN [nodes[n] EXCEPT !.psNN = -psNN] ELSE nodes[n]]
  BY DEF CloseMissed
<1>4. ASSUME NEW n \in DOMAIN nodes
      PROVE  /\ nodes'[n] \in Node
             /\ nodes'[n].id = nodes[n].id /\ nodes'[n].app = nodes[n].app
             /\ nodes'[n].name = nodes[n].name
             /\ nodes'[n].psNN = IF closes(n) THEN -psNN ELSE nodes[n].psNN
  <2>1. nodes[n] \in Node /\ -psNN \in Int
    BY <1>1, <1>2
  <2>2. CASE closes(n)
    <3>1. nodes'[n] = [nodes[n] EXCEPT !.psNN = -psNN]
      BY <1>3, <2>2
    <3> QED
      BY <2>1, <2>2, <3>1 DEF Node
  <2>3. CASE ~closes(n)
    BY <1>3, <2>1, <2>3
  <2> QED
    BY <2>2, <2>3
<1> HIDE DEF closes
<1>5. SameNodes(nodes, nodes')
  <2>1. nodes' \in [1..Len(nodes) -> Node]
    BY <1>2, <1>3, <1>4
  <2> QED
    BY <1>2, <1>4, <2>1, SeqOfFunction DEF SameNodes
<1>6. /\ Indexed(nodes') /\ DOMAIN nodes' = DOMAIN nodes
      /\ \A n : IsApp(nodes', n) <=> IsApp(nodes, n)
  BY <1>2, <1>5, SameNodesIndexed
<1>7. IndexSound'
  <2>1. curThread' # NULL => IsThread(nodes', curThread')
    BY <1>1, <1>4, <1>6 DEF IndInv, IndexSound, IsThread, cacheVars
  <2>2. curApp' # NULL => IsApp(nodes', curApp')
    BY <1>1, <1>6 DEF IndInv, IndexSound, cacheVars
  <2> QED
    BY <1>6, <2>1, <2>2 DEF IndexSound, Indexed
<1>8. TableOfRun'
  BY <1>1 DEF IndInv, TableOfRun
<1>9. TypeOK'
  <2>1. /\ {curApp', curThread', psApp'} \subseteq {NULL} \cup DOMAIN nodes'
        /\ old' \subseteq DOMAIN nodes'
    BY <1>1, <1>6 DEF cacheVars, IndInv, TypeOK
  <2>2. nodes' \in Seq([id : Int, app : 1..MaxNodes, name : Names, psNN : Int])
        /\ Len(nodes') <= MaxNodes
    BY <1>6 DEF Indexed, Node
  <2>3. /\ psInfo'.haveTID \in BOOLEAN /\ Len(psInfo'.rows) \in Nat
        /\ psNN' \in 0..MaxRounds /\ row' \in Nat
        /\ logging' \in BOOLEAN
        /\ ps' \in {"sleep", "rows", "main", "threads"}
    BY <1>1 DEF IndInv, TypeOK
  <2> QED
    BY <2>1, <2>2, <2>3 DEF TypeOK
<1>10. InProcess'
  BY <1>1 DEF InProcess
<1>11. RowsPassed'
  <2>1. ASSUME NEW i \in 1..Count PROVE RowPassed(i)'
    <3>1. i <= Through
      BY <1>1 DEF Through
    <3>2. RowPassed(i)
      BY <3>1 DEF IndInv, WalkInv, RowsPassed
    <3>3. \A n \in DOMAIN nodes : Met(n) => Met(n)'
      <4>1. ASSUME NEW n \in DOMAIN nodes, Met(n) PROVE Met(n)'
        <5>1. ~closes(n)
          BY <4>1 DEF closes, Missed, Met
        <5> QED
          BY <1>1, <1>4, <4>1, <5>1 DEF Met
      <4> QED
        BY <4>1
    <3>4. \A pid : Apps(nodes', pid) = Apps(nodes, pid)
      BY <1>4, <1>6 DEF Apps
    <3>5. Overlooked(i) => Overlooked(i)'
      BY <1>1, <3>4 DEF Overlooked
    <3>6. ASSUME NEW n \in old, IsApp(nodes', n), RowOf(i, n)'
          PROVE  IsApp(nodes, n) /\ RowOf(i, n)
      BY <1>1, <1>4, <1>6, <3>6 DEF RowOf
    <3> QED
      BY <1>1, <3>2, <3>3, <3>5, <3>6 DEF RowPassed
  <2> QED
    BY <1>1, <2>1 DEF RowsPassed
<1>12. ASSUME NEW n \in DOMAIN nodes
       PROVE  Listed(n)' = Listed(n)
  BY <1>1, <1>4 DEF Listed
<1>13. LaterNamed'
  BY <1>1, <1>4, <1>6, <1>12 DEF LaterNamed, IndInv, WalkInv
<1>14. MarkedByRun'
  <2> SUFFICES ASSUME NEW n \in DOMAIN nodes
               PROVE  MarkedByRun!(n)'
    BY <1>6 DEF MarkedByRun
  <2>1. MarkedByRun!(n)
    BY DEF IndInv, WalkInv, MarkedByRun
  <2>2. Listed(nodes[n].app)' = Listed(nodes[n].app)
    BY <1>1, <1>2, <1>4 DEF Listed
  <2>3. nodes'[n].app = nodes[n].app /\ nodes'[nodes[n].app].id = nodes[nodes[n].app].id
    BY <1>2, <1>4
  <2>4. CASE closes(n)
    <3>1. nodes'[n].psNN < psNN /\ ~(nodes[nodes[n].app].id < 0)
      <4>1. nodes'[n].psNN = -psNN
        BY <1>4, <2>4
      <4>2. nodes[nodes[n].app].id > 0 /\ nodes[nodes[n].app].id \in Int
        BY <1>2, <2>4 DEF closes, Node
      <4> QED
        BY <1>1, <4>1, <4>2
    <3> QED
      BY <1>1, <2>3, <3>1
  <2>5. CASE ~closes(n)
    BY <1>1, <1>4, <2>1, <2>2, <2>3, <2>5
  <2> QED
    BY <2>4, <2>5
<1>15. UnlistedClosed'
  <2> SUFFICES ASSUME NEW n \in old,
                      nodes'[nodes'[n].app].id > 0, nodes'[n].id > 0,
                      {i \in 1..Count : Rows[i].pid = nodes'[nodes'[n].app].id} = {}
               PROVE  nodes'[n].psNN < 0 \/ (nodes'[n].psNN = psNN /\ psNN \in ImportedNN)
    BY <1>1 DEF UnlistedClosed, Listed
  <2>1. /\ n \in DOMAIN nodes /\ nodes[n].app \in DOMAIN nodes /\ nodes[n] \in Node
        /\ nodes[nodes[n].app].id > 0 /\ nodes[n].id > 0
    BY <1>1, <1>2, <1>4
  <2>2. Listed(nodes[n].app) = {}
    BY <1>1, <1>4, <2>1 DEF Listed
  <2>3. CASE Missed(n)
    <3>1. nodes'[n].psNN = -psNN
      BY <1>4, <2>1, <2>3 DEF closes
    <3> QED
      BY <1>1, <3>1
  <2>4. CASE ~Missed(n)
    <3>1. nodes'[n].psNN = nodes[n].psNN
      BY <1>4, <2>1, <2>4 DEF closes
    <3>2. nodes[n].psNN < 0 \/ nodes[n].psNN = psNN
      BY <2>1, <2>4 DEF Missed, Node
    <3>3. \/ nodes[n].psNN < psNN \/ nodes[n].psNN \in ImportedNN
          \/ nodes[n].psNN = psNN /\ (psNN = 0 \/ Listed(nodes[n].app) # {})
      BY <2>1 DEF IndInv, WalkInv, MarkedByRun
    <3> QED
      BY <1>1, <2>2, <3>1, <3>2, <3>3
  <2> QED
    BY <2>3, <2>4
<1> QED
  BY <1>7, <1>8, <1>9, <1>10, <1>11, <1>13, <1>14, <1>15 DEF IndInv, WalkInv

LEMMA CopyTableStep ==
  ASSUME IndInv, ConstantsAssumption, CopyTable
  PROVE  IndInv'
<1> USE DEF Rows, Count
<1>0. PICK l \in Listings : \E c \in 0..Len(l.rows) :
        psInfo' = [haveTID |-> l.haveTID, rows |-> SubSeq(l.rows, 1, c)]
  BY DEF CopyTable
<1>1. PICK c \in 0..Len(l.rows) :
        psInfo' = [haveTID |-> l.haveTID, rows |-> SubSeq(l.rows, 1, c)]
  BY <1>0
<1>2. /\ logging /\ psNN' = psNN + 1 /\ ps' = "rows" /\ row' = 1 /\ old' = DOMAIN nodes
      /\ UNCHANGED <<nodes, cacheVars, logging, psApp>>
      /\ ps = "sleep" /\ psApp = NULL /\ psNN \in Nat /\ psNN' \in 0..MaxRounds
  BY DEF CopyTable, IndInv, TypeOK, TableOfRun, ConstantsAssumption
<1>3. psInfo' \in [haveTID : BOOLEAN, rows : Seq([pid : Nat, tid : Nat, ppid : Nat])]
  <2> DEFINE Rec == [pid : Nat, tid : Nat, ppid : Nat]
  <2>1. l.haveTID \in BOOLEAN /\ l.rows \in Seq(Rec)
    <3>1. l \in [haveTID : BOOLEAN, rows : Seq(Rec)]
      BY Zenon DEF ConstantsAssumption
    <3> QED
      BY <3>1
  <2> HIDE DEF Rec
  <2>2. Len(l.rows) \in Nat /\ c \in Int /\ \A i \in 1..c : i \in 1..Len(l.rows)
    BY <2>1, LenProperties
  <2>3. SubSeq(l.rows, 1, c) \in Seq(Rec)
    BY <2>1, <2>2, ElementOfSeq, SubSeqProperties
  <2> QED
    BY <1>1, <2>1, <2>3 DEF Rec
<1>4. TableOfRun'
  BY <1>2, <1>3 DEF TableOfRun
<1>5. IndexSound'
  BY <1>2 DEF IndInv, IndexSound, cacheVars
<1>6. TypeOK'
  <2>1. psInfo'.haveTID \in BOOLEAN /\ Len(psInfo'.rows) \in Nat
    BY <1>3, LenProperties
  <2> QED
    BY <1>2, <2>1 DEF IndInv, TypeOK, cacheVars
<1>7. InProcess' /\ LaterNamed' /\ UnlistedClosed'
  BY <1>2 DEF InProcess, LaterNamed, UnlistedClosed
<1>8. RowsPassed'
  <2>1. Through' = 0
    BY <1>2 DEF Through
  <2> QED
    BY <2>1 DEF RowsPassed
<1>9. MarkedByRun'
  <2> SUFFICES ASSUME NEW n \in DOMAIN nodes
               PROVE  /\ nodes[n].psNN < psNN' \/ nodes[n].psNN \in ImportedNN
                      /\ nodes[nodes[n].app].id < 0 => nodes[n].psNN = 0
    BY <1>2 DEF MarkedByRun
  <2>1. nodes[n] \in Node
    BY LenProperties, ElementOfSeq DEF IndInv, TypeOK, Node
  <2>2. nodes[n].psNN \in Int
    BY <2>1 DEF Node
  <2> QED
    <3>1. MarkedByRun!(n)
      BY DEF IndInv, WalkInv, MarkedByRun
    <3>2. psNN < psNN' /\ \A k \in Int : k < psNN => k < psNN'
      BY <1>2
    <3> QED
      BY <2>2, <3>1, <3>2
<1> QED
  BY <1>4, <1>5, <1>6, <1>7, <1>8, <1>9 DEF IndInv, WalkInv

-----------------------------------------------------------------------------
(* Imports: nothing was listed since the last clear.                       *)

LEMMA ImportedNodes ==
  ASSUME IndInv, BeforeLogging, UNCHANGED psVars, Indexed(nodes'),
         DOMAIN nodes \subseteq DOMAIN nodes',
         \A n \in DOMAIN nodes : nodes'[n] = nodes[n],
         \A n \in DOMAIN nodes' \ DOMAIN nodes :
           nodes'[n].psNN \in ImportedNN /\ nodes'[nodes'[n].app].id > 0,
         curApp' # NULL => IsApp(nodes', curApp'),
         curThread' # NULL => IsThread(nodes', curThread')
  PROVE  IndInv'
<1> USE DEF psVars, Rows, Count
<1>1. /\ ~logging /\ psNN = 0 /\ ps = "sleep" /\ psInfo.rows = << >> /\ psApp = NULL
      /\ \A i \in 1..Count : FALSE
  <2>1. ~logging /\ psNN = 0 /\ ps = "sleep" /\ psInfo.rows = << >> /\ psApp = NULL
    BY DEF BeforeLogging, IndInv, TableOfRun, TypeOK
  <2> QED
    BY <2>1
<1>2. IndexSound'
  BY DEF IndexSound, Indexed
<1>3. TableOfRun'
  BY DEF IndInv, TableOfRun
<1>4. TypeOK'
  <2>1. {curApp', curThread', psApp'} \subseteq {NULL} \cup DOMAIN nodes'
    BY <1>1 DEF IsApp, IsThread
  <2>2. old' \subseteq DOMAIN nodes'
    BY DEF IndInv, TypeOK
  <2>3. nodes' \in Seq([id : Int, app : 1..MaxNodes, name : Names, psNN : Int])
        /\ Len(nodes') <= MaxNodes
    BY DEF Indexed, Node
  <2>4. /\ psInfo'.haveTID \in BOOLEAN /\ Len(psInfo'.rows) \in Nat
        /\ psNN' \in 0..MaxRounds /\ row' \in Nat
        /\ logging' \in BOOLEAN
        /\ ps' \in {"sleep", "rows", "main", "threads"}
    BY DEF IndInv, TypeOK
  <2> QED
    BY <2>1, <2>2, <2>3, <2>4 DEF TypeOK
<1>5. InProcess' /\ UnlistedClosed'
  BY <1>1 DEF InProcess, UnlistedClosed
<1>6. RowsPassed' /\ LaterNamed'
  BY <1>1 DEF RowsPassed, LaterNamed, Listed
<1>7. MarkedByRun'
  <2> SUFFICES ASSUME NEW n \in DOMAIN nodes'
               PROVE  MarkedByRun!(n)'
    BY DEF MarkedByRun
  <2>1. CASE n \in DOMAIN nodes
    <3>1. nodes[n].app \in DOMAIN nodes
      BY <2>1 DEF IndInv, IndexSound, Rooted, IsApp
    <3>2. nodes'[n] = nodes[n] /\ nodes'[nodes[n].app] = nodes[nodes[n].app]
      BY <2>1, <3>1
    <3> QED
      BY <1>1, <2>1, <3>2 DEF IndInv, WalkInv, MarkedByRun
  <2>2. CASE n \notin DOMAIN nodes
    <3>1. nodes'[n].psNN \in ImportedNN /\ nodes'[nodes'[n].app].id > 0
      BY <2>2
    <3>2. nodes'[nodes'[n].app] \in Node
      <4>1. nodes'[n].app \in DOMAIN nodes'
        BY DEF Indexed, Rooted, IsApp
      <4> QED
        BY <4>1, LenProperties, ElementOfSeq DEF Indexed
    <3>3. ~(nodes'[nodes'[n].app].id < 0)
      BY <3>1, <3>2 DEF Node
    <3> QED
      BY <3>1, <3>3
  <2> QED
    BY <2>1, <2>2
<1> QED
  BY <1>2, <1>3, <1>4, <1>5, <1>6, <1>7 DEF IndInv, WalkInv

LEMMA ImportAppStep ==
  ASSUME IndInv, ConstantsAssumption, NEW s \in Sources, s.pid > 0,
         NEW nn \in ImportedNN, ImportApp(s, nn)
  PROVE  IndInv'
<1>1. /\ FindApp(s.pid) = NULL /\ BeforeLogging /\ UNCHANGED psVars
      /\ curApp' = AppAfter(s.pid) /\ curThread' = curThread
  BY DEF ImportApp
<1>2. /\ nodes \in Seq(Node) /\ Indexed(nodes) /\ DOMAIN nodes = 1..Len(nodes)
      /\ Len(nodes) \in Nat /\ TypeOK /\ IndexSound
  BY LenProperties DEF IndInv, TypeOK, Node, IndexSound, Indexed
<1>3. CASE ~HasRoom(nodes)
  <2>1. curApp' = NULL /\ nodes' = nodes
    BY <1>1, <1>3 DEF AppAfter, ImportApp
  <2>2. curThread' # NULL => IsThread(nodes', curThread')
    BY <1>1, <1>2, <2>1 DEF IndexSound
  <2> QED
    BY <1>1, <1>2, <2>1, <2>2, ImportedNodes
<1>4. CASE HasRoom(nodes)
  <2> DEFINE ns   == GetApp(s.pid, s.name)
             a    == Len(nodes) + 1
             node == [id |-> s.pid, app |-> a, name |-> ResolveName(s.pid, s.name), psNN |-> 0]
             e    == [node EXCEPT !.psNN = nn]
  <2>1. /\ Indexed(ns) /\ AppFound(ns, s.pid, AppAfter(s.pid)) /\ AppAfter(s.pid) = a
        /\ AppAfter(s.pid) # NULL /\ ns = Append(nodes, node)
    <3>1. AppAfter(s.pid) = a /\ ns = Append(nodes, node)
      BY <1>1, <1>4 DEF AppAfter, GetApp
    <3>2. a # NULL
      BY <1>2 DEF NULL
    <3> HIDE DEF ns, a
    <3> QED
      BY <1>2, <3>1, <3>2, GetAppIs DEF ns
  <2>2. ns \in Seq(Node) /\ IsApp(ns, a) /\ ns[a].id = s.pid /\ a \in DOMAIN ns
    BY <2>1 DEF Indexed, AppFound, IsApp
  <2>3. /\ \A n \in DOMAIN nodes : ns[n] = nodes[n]
        /\ ns[a] = node /\ DOMAIN ns = DOMAIN nodes \cup {a}
    <3>1. node \in Node
      BY <1>2, <1>4 DEF ConstantsAssumption, Node, HasRoom, ResolveName, Names
    <3> HIDE DEF node
    <3>2. OneMore(nodes, ns, node)
      BY <1>2, <2>1, <3>1, AppendedNode
    <3>3. DOMAIN ns = 1..Len(ns)
      BY <2>2, LenProperties
    <3> HIDE DEF ns
    <3> QED
      BY <1>2, <3>2, <3>3 DEF OneMore
  <2>4. ns[a] \in Node
    BY <2>2, LenProperties, ElementOfSeq
  <2> HIDE DEF node
  <2>5. e \in Node /\ e.id = ns[a].id /\ e.app = ns[a].app /\ e.psNN = nn
    BY <2>3, <2>4 DEF Node, ImportedNN
  <2>6. nodes' = [ns EXCEPT ![a] = e]
    BY <1>1, <2>1, <2>3 DEF ImportApp
  <2> HIDE DEF ns, a, e
  <2>7. /\ SameNodes(ns, nodes')
        /\ \A n \in DOMAIN ns \ {a} : nodes'[n] = ns[n]
        /\ nodes'[a] = e
    BY <2>2, <2>5, <2>6, ChangedNode
  <2>8. /\ Indexed(nodes') /\ DOMAIN nodes' = DOMAIN ns
        /\ \A n : IsApp(nodes', n) <=> IsApp(ns, n)
    BY <2>1, <2>7, SameNodesIndexed
  <2>9. a \notin DOMAIN nodes
    BY <1>2 DEF a
  <2>10. \A n \in DOMAIN nodes : nodes'[n] = nodes[n]
    BY <2>3, <2>7, <2>9
  <2>11. nodes'[a].psNN = nn /\ nodes'[a].app = a /\ nodes'[a].id = s.pid
    BY <2>2, <2>5, <2>7, <2>8 DEF IsApp
  <2>12. curThread' # NULL => IsThread(nodes', curThread')
    BY <1>1, <1>2, <2>3, <2>8, <2>10 DEF IndexSound, IsThread
  <2>13. curApp' = a /\ IsApp(nodes', curApp')
    BY <1>1, <2>1, <2>2, <2>8
  <2>14. \A n \in DOMAIN nodes' \ DOMAIN nodes :
           nodes'[n].psNN \in ImportedNN /\ nodes'[nodes'[n].app].id > 0
    BY <2>3, <2>8, <2>11
  <2> QED
    BY <1>1, <2>3, <2>8, <2>10, <2>12, <2>13, <2>14, ImportedNodes
<1> QED
  BY <1>3, <1>4

LEMMA ImportThreadStep ==
  ASSUME IndInv, ConstantsAssumption, NEW s \in Sources, s.pid > 0,
         NEW nn \in ImportedNN, ImportThread(s, nn)
  PROVE  IndInv'
<1> DEFINE a  == AppAfter(s.pid)
           ns == GetThread(nodes, a, s.tid)
           t  == ThreadAfter(nodes, a, s.tid)
           e  == [ns[t] EXCEPT !.psNN = nn, !.name = "own"]
<1>1. /\ FindApp(s.pid) # NULL /\ FindThread(nodes, a, s.tid) = NULL
      /\ BeforeLogging /\ UNCHANGED psVars /\ curApp' = a /\ curThread' = t
      /\ nodes' = IF t = NULL THEN ns ELSE [ns EXCEPT ![t].psNN = nn, ![t].name = "own"]
  BY DEF ImportThread
<1>2. /\ nodes \in Seq(Node) /\ Indexed(nodes) /\ DOMAIN nodes = 1..Len(nodes)
      /\ Len(nodes) \in Nat /\ TypeOK /\ s.tid \in Int
  BY LenProperties DEF IndInv, TypeOK, Node, IndexSound, Indexed, ConstantsAssumption
<1>3. IsApp(nodes, a) /\ nodes[a].id = s.pid
  BY <1>1, <1>2, FindAppIs DEF AppAfter
<1>4. /\ Indexed(ns)
      /\ \A n \in DOMAIN nodes : ns[n] = nodes[n] /\ (IsApp(ns, n) <=> IsApp(nodes, n))
      /\ \A n \in DOMAIN ns \ DOMAIN nodes : n = t /\ ns[n].app = a
      /\ ThreadFound(ns, a, s.tid, t) /\ DOMAIN nodes \subseteq DOMAIN ns
  <2>1. /\ Indexed(ns) /\ Grown(nodes, ns)
        /\ \A n \in DOMAIN nodes : ns[n] = nodes[n] /\ (IsApp(ns, n) <=> IsApp(nodes, n))
        /\ \A n \in DOMAIN ns \ DOMAIN nodes : n = t /\ ns[n].app = a /\ a \in DOMAIN nodes
        /\ ThreadFound(ns, a, s.tid, t)
    <3> HIDE DEF a
    <3> QED
      BY <1>2, <1>3, ConstantsAssumption, GetThreadIs
  <2> HIDE DEF a, ns, t
  <2> QED
    BY <2>1 DEF Grown
<1>5. t # NULL => t \notin DOMAIN nodes
  BY <1>1, <1>2 DEF ThreadAfter
<1>6. t = NULL => ns = nodes
  <2>1. t = NULL => ~HasRoom(nodes)
    BY <1>1, <1>2 DEF ThreadAfter, NULL
  <2> QED
    BY <1>1, <2>1 DEF GetThread
<1>7. CASE t = NULL
  BY <1>1, <1>2, <1>3, <1>6, <1>7, ImportedNodes
<1>8. CASE t # NULL
  <2> HIDE DEF a, ns, t
  <2>1. t \in DOMAIN ns /\ ns \in Seq(Node) /\ IsThread(ns, t) /\ a \in DOMAIN nodes
    BY <1>3, <1>4, <1>8 DEF ThreadFound, IsThread, IsApp, Indexed
  <2>2. ns[t] \in Node
    BY <2>1, LenProperties, ElementOfSeq
  <2>3. e \in Node /\ e.id = ns[t].id /\ e.app = ns[t].app /\ e.psNN = nn
    <3>1. nn \in Int /\ "own" \in Names
      BY DEF ImportedNN, Names
    <3> QED
      BY <2>2, <3>1 DEF Node
  <2>4. nodes' = [ns EXCEPT ![t] = e]
    BY <1>1, <1>8, <2>1, <2>2
  <2> HIDE DEF e
  <2>5. /\ SameNodes(ns, nodes')
        /\ \A n \in DOMAIN ns \ {t} : nodes'[n] = ns[n]
        /\ nodes'[t] = e
    BY <2>1, <2>3, <2>4, ChangedNode
  <2>6. /\ Indexed(nodes') /\ DOMAIN nodes' = DOMAIN ns
        /\ \A n : IsApp(nodes', n) <=> IsApp(ns, n)
    BY <1>4, <2>5, SameNodesIndexed
  <2>7. \A n \in DOMAIN nodes : nodes'[n] = nodes[n]
    BY <1>4, <1>5, <1>8, <2>5
  <2>8. nodes'[t].psNN = nn /\ nodes'[t].app = a /\ nodes'[a].id = s.pid
    BY <1>3, <1>4, <1>5, <1>8, <2>1, <2>3, <2>5, <2>7
  <2>9. \A n \in DOMAIN nodes' \ DOMAIN nodes :
          nodes'[n].psNN \in ImportedNN /\ nodes'[nodes'[n].app].id > 0
    BY <1>4, <2>6, <2>8
  <2>10. IsApp(nodes', curApp')
    BY <1>1, <1>3, <1>4, <2>1, <2>6
  <2>11. IsThread(nodes', curThread')
    BY <1>1, <2>1, <2>5, <2>6 DEF IsThread, SameNodes
  <2> QED
    BY <1>1, <1>4, <2>6, <2>7, <2>9, <2>10, <2>11, ImportedNodes
<1> QED
  BY <1>7, <1>8

-----------------------------------------------------------------------------
(* The inductive invariant.                                                *)

LEMMA UiSteps ==
  ASSUME IndInv, Ui
  PROVE  IndInv'
<1> USE DEF Rows, Count
<1>1. CASE StartLogging \/ Pause
  <2>1. UNCHANGED <<nodes, cacheVars, psInfo, psNN, ps, row, psApp, old>> /\ logging' \in BOOLEAN
    BY <1>1 DEF StartLogging, Pause
  <2>2. TypeOK' /\ IndexSound'
    BY <2>1 DEF IndInv, TypeOK, IndexSound, cacheVars
  <2>3. TableOfRun'
    <3>1. ps # "sleep" => logging'
      BY <1>1 DEF StartLogging, Pause
    <3> QED
      BY <2>1, <3>1 DEF IndInv, TableOfRun
  <2>4. InProcess'
    BY <2>1 DEF IndInv, WalkInv, InProcess, Met, AmongItsRows, RowOf
  <2>5. RowsPassed'
    BY <2>1 DEF IndInv, WalkInv, RowsPassed, RowPassed, Through, Overlooked, Met, RowOf
  <2>6. LaterNamed' /\ MarkedByRun' /\ UnlistedClosed'
    BY <2>1 DEF IndInv, WalkInv, LaterNamed, MarkedByRun, UnlistedClosed, Listed
  <2> QED
    BY <2>2, <2>3, <2>4, <2>5, <2>6 DEF IndInv, WalkInv
<1>2. CASE ClearArchive
  <2>1. /\ nodes' = << >> /\ curApp' = NULL /\ curThread' = NULL /\ old' = {}
        /\ psInfo' = NoListing /\ psNN' = 0 /\ UNCHANGED <<logging, ps, row, psApp>>
        /\ ps = "sleep" /\ psApp = NULL /\ row \in Nat \ {0} /\ logging \in BOOLEAN
    BY <1>2 DEF ClearArchive, IndInv, TableOfRun, TypeOK
  <2>2. DOMAIN nodes' = {} /\ Count' = 0 /\ Rows' = << >>
    BY <2>1 DEF NoListing
  <2>3. TypeOK'
    <3>1. /\ nodes' \in Seq([id : Int, app : 1..MaxNodes, name : Names, psNN : Int])
          /\ Len(nodes') = 0
      BY <2>1, EmptySeq
    <3>2. MaxNodes \in Nat /\ MaxRounds \in Nat
      BY ConstantsAssumption DEF ConstantsAssumption
    <3> QED
      BY <2>1, <2>2, <3>1, <3>2 DEF TypeOK, NoListing
  <2>4. IndexSound'
    BY <2>1, <2>2 DEF IndexSound, Rooted, OneNodeEach
  <2>5. TableOfRun'
    <3>1. psInfo' \in [haveTID : BOOLEAN, rows : Seq([pid : Nat, tid : Nat, ppid : Nat])]
      BY <2>1, EmptySeq DEF NoListing
    <3> QED
      BY <2>1, <3>1 DEF TableOfRun, NoListing
  <2>6. InProcess' /\ LaterNamed' /\ MarkedByRun' /\ UnlistedClosed'
    BY <2>1, <2>2 DEF InProcess, LaterNamed, MarkedByRun, UnlistedClosed
  <2>7. RowsPassed'
    BY <2>2 DEF RowsPassed
  <2> QED
    BY <2>3, <2>4, <2>5, <2>6, <2>7 DEF IndInv, WalkInv
<1> QED
  BY <1>1, <1>2 DEF Ui

LEMMA IndInvInit == Init => IndInv
<1> SUFFICES ASSUME Init PROVE IndInv
  OBVIOUS
<1> USE DEF Rows, Count
<1>1. /\ nodes = << >> /\ curApp = NULL /\ curThread = NULL /\ old = {}
      /\ psInfo = NoListing /\ psNN = 0 /\ ps = "sleep" /\ psApp = NULL /\ row = 1
      /\ logging = FALSE
  BY DEF Init
<1>2. DOMAIN nodes = {} /\ Count = 0 /\ Rows = << >>
  BY <1>1 DEF NoListing
<1>3. TypeOK
  <2>1. /\ nodes \in Seq([id : Int, app : 1..MaxNodes, name : Names, psNN : Int])
        /\ Len(nodes) = 0
    BY <1>1, EmptySeq
  <2>2. MaxNodes \in Nat /\ MaxRounds \in Nat
    BY ConstantsAssumption DEF ConstantsAssumption
  <2>3. /\ {curApp, curThread, psApp} \subseteq {NULL} \cup DOMAIN nodes
        /\ psInfo.haveTID \in BOOLEAN /\ Len(psInfo.rows) \in Nat
    BY <1>1, <1>2 DEF NoListing
  <2>4. /\ Len(nodes) <= MaxNodes /\ psNN \in 0..MaxRounds /\ row \in Nat
        /\ ps \in {"sleep", "rows", "main", "threads"} /\ old \subseteq DOMAIN nodes
    BY <1>1, <1>2, <2>1, <2>2
  <2>5. logging \in BOOLEAN
    BY <1>1, Zenon
  <2> QED
    BY <2>1, <2>3, <2>4, <2>5, Zenon DEF TypeOK
<1>4. IndexSound
  BY <1>1, <1>2 DEF IndexSound, Rooted, OneNodeEach
<1>5. TableOfRun
  <2>1. psInfo \in [haveTID : BOOLEAN, rows : Seq([pid : Nat, tid : Nat, ppid : Nat])]
    BY <1>1, EmptySeq DEF NoListing
  <2> QED
    BY <1>1, <2>1 DEF TableOfRun, NoListing
<1>6. InProcess /\ LaterNamed /\ MarkedByRun /\ UnlistedClosed
  BY <1>1, <1>2 DEF InProcess, LaterNamed, MarkedByRun, UnlistedClosed
<1>7. RowsPassed
  BY <1>2 DEF RowsPassed
<1> QED
  BY <1>3, <1>4, <1>5, <1>6, <1>7 DEF IndInv, WalkInv

LEMMA IndInvNext == IndInv /\ [Next]_vars => IndInv'
<1> SUFFICES ASSUME IndInv, [Next]_vars PROVE IndInv'
  OBVIOUS
<1>1. CASE Receiver
  <2>1. PICK s \in Sources : AppendRec(s)
    BY <1>1 DEF Receiver
  <2>2. /\ Indexed(nodes') /\ Grown(nodes, nodes') /\ UNCHANGED psVars
        /\ \A n \in DOMAIN nodes : IsApp(nodes', n) <=> IsApp(nodes, n)
        /\ curApp' # NULL => IsApp(nodes', curApp')
        /\ curThread' # NULL => IsThread(nodes', curThread')
    BY <2>1, RecordStep, ConstantsAssumption DEF IndInv
  <2> QED
    BY <2>2, GrownKeeps, GrownWalk DEF IndInv
<1>2. CASE Import
  <2>1. PICK s \in Sources, nn \in ImportedNN :
          s.pid > 0 /\ (ImportApp(s, nn) \/ ImportThread(s, nn))
    BY <1>2 DEF Import
  <2> QED
    BY <2>1, ConstantsAssumption, ImportAppStep, ImportThreadStep
<1>3. CASE PsThread
  BY <1>3, ConstantsAssumption, CopyTableStep, WalkSteps, CloseMissedStep DEF PsThread
<1>4. CASE Ui
  BY <1>4, UiSteps
<1>5. CASE UNCHANGED vars
  <2> USE DEF Rows, Count
  <2>1. UNCHANGED <<nodes, curApp, curThread, psInfo, psNN, logging, ps, row, psApp, old>>
    BY <1>5 DEF vars, cacheVars, psVars
  <2>2. TypeOK' /\ IndexSound' /\ TableOfRun'
    BY <2>1 DEF IndInv, TypeOK, IndexSound, TableOfRun
  <2>3. InProcess'
    BY <2>1 DEF IndInv, WalkInv, InProcess, Met, AmongItsRows, RowOf
  <2>4. RowsPassed'
    BY <2>1 DEF IndInv, WalkInv, RowsPassed, RowPassed, Through, Overlooked, Met, RowOf
  <2>5. LaterNamed' /\ MarkedByRun' /\ UnlistedClosed'
    BY <2>1 DEF IndInv, WalkInv, LaterNamed, MarkedByRun, UnlistedClosed, Listed
  <2> QED
    BY <2>2, <2>3, <2>4, <2>5 DEF IndInv, WalkInv
<1> QED
  BY <1>1, <1>2, <1>3, <1>4, <1>5 DEF Next

LEMMA IndInvAlways == Spec => []IndInv
BY IndInvInit, IndInvNext, PTL DEF Spec

-----------------------------------------------------------------------------
(* The theorems.                                                           *)

(* getApp and addApp, getThread and addThread: however records, imports,     *)
(* runs of ps and clears follow each other, a process has one node, and a    *)
(* thread has one node in it, and the two caches are nodes of the archive.  *)
THEOREM IndexIsSound == Spec => []IndexSound
<1>1. IndInv => IndexSound
  BY DEF IndInv
<1> QED
  BY <1>1, IndInvAlways, PTL

(* appendRec: a record goes to the node of its process and of its thread,    *)
(* but for main threads that the cache of getThread mistakes.               *)
THEOREM RecordsAreAtHome == Spec => RecordAtHome
<1>1. IndInv /\ [Next]_vars => [RecordsAtHome]_vars
  <2>1. IndInv => RecordsAtHome
    BY RecordStep, ConstantsAssumption DEF IndInv, RecordsAtHome
  <2> QED
    BY <2>1
<1> QED
  BY <1>1, IndInvAlways, PTL DEF Spec, RecordAtHome

(* resolveAppName and setPsInfo, which runs beside the receivers: between    *)
(* the table of ps and the walk over it no application of the table stays   *)
(* without a name.                                                         *)
THEOREM NamesReachAll == Spec => []NoNameMissed
<1>1. IndInv => NoNameMissed
  <2> SUFFICES ASSUME IndInv, ps = "sleep", NEW n \in DOMAIN nodes, IsApp(nodes, n),
                      NEW i \in Listed(n), n \notin old \/ ~Overlooked(i)
               PROVE  IF n \in old THEN Known(nodes[n].name) ELSE nodes[n].name # Unknown
    BY DEF NoNameMissed
  <2>1. i \in 1..Count /\ Rows[i].pid = nodes[n].id
    BY DEF Listed
  <2>2. CASE n \notin old
    BY <2>2 DEF IndInv, WalkInv, LaterNamed
  <2>3. CASE n \in old
    <3>1. i <= Through
      BY <2>1 DEF Through
    <3>2. Met(n)
      BY <2>1, <2>3, <3>1 DEF IndInv, WalkInv, RowsPassed, RowPassed, RowOf
    <3> QED
      BY <2>3, <3>2 DEF Met
  <2> QED
    BY <2>2, <2>3
<1> QED
  BY <1>1, IndInvAlways, PTL

(* The end of setPsInfo: after a run of ps the nodes it did not find are      *)
(* shown as closed and those it found are not, whatever runs, imports and   *)
(* records there were before.                                              *)
THEOREM ClosedIsExact == Spec => []ClosedExact
<1>1. IndInv => ClosedExact
  <2> SUFFICES ASSUME IndInv, ps = "sleep", psNN > 0, NEW n \in old
               PROVE  /\ IsApp(nodes, n) /\ (\E i \in Listed(n) : ~Overlooked(i)) =>
                           nodes[n].psNN >= 0
                      /\ nodes[nodes[n].app].id > 0 /\ nodes[n].id > 0
                           /\ Listed(nodes[n].app) = {} =>
                           nodes[n].psNN < 0 \/ (nodes[n].psNN = psNN /\ psNN \in ImportedNN)
                      /\ nodes[nodes[n].app].id < 0 => nodes[n].psNN = 0
    BY DEF ClosedExact
  <2>1. n \in DOMAIN nodes /\ psNN \in Nat
    BY DEF IndInv, TypeOK
  <2>2. ASSUME IsApp(nodes, n), NEW i \in Listed(n), ~Overlooked(i)
        PROVE  nodes[n].psNN >= 0
    <3>1. i \in 1..Count /\ Rows[i].pid = nodes[n].id
      BY DEF Listed
    <3>2. i <= Through
      BY <3>1 DEF Through
    <3>3. Met(n)
      BY <2>2, <3>1, <3>2 DEF IndInv, WalkInv, RowsPassed, RowPassed, RowOf
    <3> QED
      BY <2>1, <3>3 DEF Met
  <2>3. nodes[nodes[n].app].id < 0 => nodes[n].psNN = 0
    BY <2>1 DEF IndInv, WalkInv, MarkedByRun
  <2>4. nodes[nodes[n].app].id > 0 /\ nodes[n].id > 0 /\ Listed(nodes[n].app) = {} =>
          nodes[n].psNN < 0 \/ (nodes[n].psNN = psNN /\ psNN \in ImportedNN)
    BY DEF IndInv, WalkInv, UnlistedClosed
  <2> QED
    BY <2>2, <2>3, <2>4
<1> QED
  BY <1>1, IndInvAlways, PTL
=============================================================================
