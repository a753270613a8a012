---------------------------- MODULE ArchiveIndex ----------------------------
(***************************************************************************)
(* How a record finds its application and thread, and what `ps' tells of   *)
(* them: Archive::getApp, addApp, resolveAppName, getThread, addThread and  *)
(* the records of an import that only name a node (appendRec); and          *)
(* Archive::setPsInfo with setAppName and setThreadName, which the thread   *)
(* of LogcatPsCommand runs beside the receivers.                           *)
(*                                                                         *)
(* Records are appended under the lock of the receivers, one at a time.     *)
(* setPsInfo takes that lock only to copy the table of ps, so applications  *)
(* and threads may be added between any two of its steps.                  *)
(*                                                                         *)
(* A node is the number of its slot, so a larger number is a later node and *)
(* the walk from lastChild along prevSibling meets the largest one first.   *)
(***************************************************************************)
EXTENDS Integers, Sequences, FiniteSetsExt

CONSTANTS
  Sources,     \* what records say of who logs: [pid, tid, name]
  Listings,    \* what ps may print: [haveTID, rows], a row is [pid, tid, ppid]
  MaxNodes,    \* nodes the archive has memory for
  MaxRounds    \* runs of ps between two clears (bounds the model)

NULL == 0

(* What an application or a record is called: not at all, as Android calls  *)
(* a process it has just forked, by a name of its own, or as ps says.       *)
Unknown == "*"
PreInitialized == "<pre-initialized>"
Names == {Unknown, PreInitialized, "own", "ps"}

(* psNN of a record of an import is what the exporting viewer had in the    *)
(* node: the number of a run of ps, negative if that run missed it.         *)
ImportedNN == {-1, 1}

ASSUME ConstantsAssumption ==
  /\ Sources \subseteq [pid : Int, tid : Int, name : Names]
  /\ Listings \subseteq [haveTID : BOOLEAN, rows : Seq([pid : Nat, tid : Nat, ppid : Nat])]
  /\ {MaxNodes, MaxRounds} \subseteq Nat

VARIABLES
  nodes,      \* the APP_NODEs and THREAD_NODEs of m_pNodes, as they were added
  curApp, curThread,   \* Archive::curApp, curThread
  psInfo,     \* Archive::psInfo, cPsInfo long
  psNN,       \* Archive::m_psNN
  logging,    \* the receivers and the ps thread are started
  ps,         \* where setPsInfo is
  row,        \* its i
  psApp,      \* its app
  old         \* the nodes that were there when the table was copied (history)

cacheVars == <<curApp, curThread>>
psVars    == <<psInfo, psNN, logging, ps, row, psApp, old>>
vars      == <<nodes, cacheVars, psVars>>

NoListing == [haveTID |-> FALSE, rows |-> << >>]

Init ==
  /\ nodes = << >>
  /\ curApp = NULL /\ curThread = NULL
  /\ psInfo = NoListing /\ psNN = 0
  /\ logging = FALSE
  /\ ps = "sleep" /\ row = 1 /\ psApp = NULL
  /\ old = {}

-----------------------------------------------------------------------------
(* Nodes.                                                                  *)

IsApp(ns, n)    == n \in DOMAIN ns /\ ns[n].app = n
IsThread(ns, n) == n \in DOMAIN ns /\ ns[n].app # n

Apps(ns, pid)     == {n \in DOMAIN ns : ns[n].app = n /\ ns[n].id = pid}
Threads(ns, a, t) == {n \in DOMAIN ns \ {a} : ns[n].app = a /\ ns[n].id = t}

(* The first of these nodes on the walk from lastChild.                     *)
Latest(S) == IF S = {} THEN NULL ELSE Max(S)

HasRoom(ns) == Len(ns) < MaxNodes
Known(name) == name \notin {Unknown, PreInitialized}

(* Some definitions below have a variant named Wrong_..., with a mistake     *)
(* that would be easy to make in the code; it shows which property notices  *)
(* that mistake.                                                           *)

(* resolveAppName: the name in the record, else the one of the table.       *)
Wrong_ResolveName(pid, name) == name   \* the table is left to setPsInfo
ResolveName(pid, name) ==
  IF name = Unknown /\ \E i \in DOMAIN psInfo.rows : psInfo.rows[i].pid = pid
  THEN "ps" ELSE name

(* getApp and addApp: the nodes and curApp after a record of process pid    *)
(* with this name, Unknown if it has none.                                 *)
FindApp(pid) ==
  IF IsApp(nodes, curApp) /\ nodes[curApp].id = pid
  THEN curApp ELSE Latest(Apps(nodes, pid))

GetApp(pid, name) ==
  LET a == FindApp(pid) IN
  IF a = NULL
  THEN IF HasRoom(nodes)
       THEN Append(nodes, [id |-> pid, app |-> Len(nodes) + 1,
                           name |-> ResolveName(pid, name), psNN |-> 0])
       ELSE nodes
  ELSE [nodes EXCEPT ![a].name = IF @ = Unknown /\ name # Unknown THEN name ELSE @]
AppAfter(pid) ==
  IF FindApp(pid) # NULL THEN FindApp(pid)
  ELSE IF HasRoom(nodes) THEN Len(nodes) + 1 ELSE NULL

(* getThread and addThread: the cache is taken for main threads only, and   *)
(* is not asked whose thread it is.                                        *)
Wrong_CacheHits(ns, a, tid) ==   \* the process is not compared
  IsThread(ns, curThread) /\ ns[curThread].id = tid
CacheHits(ns, a, tid) ==
  IsThread(ns, curThread) /\ ns[curThread].id = tid /\ ns[a].id = tid

FindThread(ns, a, tid) ==
  IF CacheHits(ns, a, tid) THEN curThread ELSE Latest(Threads(ns, a, tid))

GetThread(ns, a, tid) ==
  IF FindThread(ns, a, tid) = NULL /\ HasRoom(ns)
  THEN Append(ns, [id |-> tid, app |-> a, name |-> Unknown, psNN |-> 0])
  ELSE ns
ThreadAfter(ns, a, tid) ==
  IF FindThread(ns, a, tid) # NULL THEN FindThread(ns, a, tid)
  ELSE IF HasRoom(ns) THEN Len(ns) + 1 ELSE NULL

-----------------------------------------------------------------------------
(* appendRec, as far as applications and threads go.                       *)

(* A flow or text record.                                                   *)
AppendRec(s) ==
  LET a  == AppAfter(s.pid)
      ns == GetApp(s.pid, s.name)
      t  == ThreadAfter(ns, a, s.tid) IN
  /\ logging
  /\ curApp' = a
  /\ IF a = NULL
     THEN nodes' = ns /\ UNCHANGED curThread
     ELSE nodes' = GetThread(ns, a, s.tid) /\ curThread' = t
  /\ UNCHANGED psVars

(* LOG_TYPE_APP and LOG_TYPE_THREAD: an export has one for every node, an   *)
(* application before its threads.  Imports run with logging stopped.       *)
(* Nothing was logged since the clear an import begins with.               *)
BeforeLogging == ~logging /\ psNN = 0 /\ \A n \in DOMAIN nodes : nodes[n].psNN # 0

ImportApp(s, nn) ==
  LET a == AppAfter(s.pid) IN
  /\ BeforeLogging
  /\ FindApp(s.pid) = NULL
  /\ curApp' = a
  /\ nodes' = IF a = NULL THEN nodes
              ELSE [GetApp(s.pid, s.name) EXCEPT ![a].psNN = nn]
  /\ UNCHANGED <<curThread, psVars>>

ImportThread(s, nn) ==
  LET a  == AppAfter(s.pid)
      ns == GetThread(nodes, a, s.tid)
      t  == ThreadAfter(nodes, a, s.tid) IN
  /\ BeforeLogging
  /\ FindApp(s.pid) # NULL /\ FindThread(nodes, a, s.tid) = NULL
  /\ curApp' = a /\ curThread' = t
  /\ nodes' = IF t = NULL THEN ns ELSE [ns EXCEPT ![t].psNN = nn, ![t].name = "own"]
  /\ UNCHANGED psVars

-----------------------------------------------------------------------------
(* setPsInfo.                                                              *)

Rows    == psInfo.rows
Count   == Len(Rows)
Here    == Rows[row]

(* The table is copied, whole or cut off: the connection may break and a    *)
(* pause ends the listing at once.                                         *)
CopyTable ==
  /\ logging /\ ps = "sleep" /\ psNN < MaxRounds
  /\ \E l \in Listings : \E c \in 0..Len(l.rows) :
       psInfo' = [haveTID |-> l.haveTID, rows |-> SubSeq(l.rows, 1, c)]
  /\ psNN' = psNN + 1
  /\ ps' = "rows" /\ row' = 1
  /\ old' = DOMAIN nodes
  /\ UNCHANGED <<nodes, cacheVars, logging, psApp>>

(* setAppName for the process of a row.                                     *)
NameApp(a, name) ==
  [nodes EXCEPT ![a].name = IF Known(@) THEN @ ELSE name, ![a].psNN = psNN]

ListApp ==
  /\ ps = "rows" /\ row <= Count
  /\ LET a == Latest(Apps(nodes, Here.pid)) IN
     IF a = NULL
     THEN row' = row + 1 /\ UNCHANGED <<nodes, ps, psApp>>
     ELSE /\ nodes' = NameApp(a, "ps")
          /\ psApp' = a
          /\ ps' = IF psInfo.haveTID THEN "threads" ELSE "main"
          /\ UNCHANGED row
  /\ UNCHANGED <<cacheVars, psInfo, psNN, logging, old>>

(* setThreadName for a thread of the application just named.                *)
NameThread(tid) ==
  LET t == Latest(Threads(nodes, psApp, tid)) IN
  nodes' = IF t = NULL THEN nodes
           ELSE [nodes EXCEPT ![t].name = IF @ = Unknown THEN "ps" ELSE @, ![t].psNN = psNN]

(* With thread ids: the rows of the process, one per thread.                *)
IsThreadRow == row <= Count /\ Here.pid = nodes[psApp].id
ListThread ==
  /\ ps = "threads" /\ psInfo.haveTID
  /\ IsThreadRow
  /\ NameThread(Here.tid)
  /\ row' = row + 1
  /\ UNCHANGED <<cacheVars, psInfo, psNN, logging, ps, psApp, old>>

(* The loop over the threads has left i behind the rows of the process, and *)
(* the loop over the rows counts it up once more.                          *)
AppDone ==
  /\ ps = "threads" /\ psInfo.haveTID
  /\ ~IsThreadRow
  /\ row' = row + 1
  /\ ps' = "rows" /\ psApp' = NULL
  /\ UNCHANGED <<nodes, cacheVars, psInfo, psNN, logging, old>>

(* Without thread ids the row of a process is that of its main thread, and  *)
(* the rows behind it whose parent it is are its other threads.             *)
ListMain ==
  /\ ps = "main"
  /\ NameThread(Here.pid)
  /\ ps' = "threads"
  /\ UNCHANGED <<cacheVars, psInfo, psNN, logging, row, psApp, old>>

IsChildRow == row < Count /\ Rows[row + 1].ppid = nodes[psApp].id
ListChild ==
  /\ ps = "threads" /\ ~psInfo.haveTID
  /\ IsChildRow
  /\ NameThread(Rows[row + 1].pid)
  /\ row' = row + 1
  /\ UNCHANGED <<cacheVars, psInfo, psNN, logging, ps, psApp, old>>

ChildrenDone ==
  /\ ps = "threads" /\ ~psInfo.haveTID
  /\ ~IsChildRow
  /\ row' = row + 1
  /\ ps' = "rows" /\ psApp' = NULL
  /\ UNCHANGED <<nodes, cacheVars, psInfo, psNN, logging, old>>

(* What the rows did not have is closed.  The walk starts at the latest     *)
(* node; what is added meanwhile is not met any more.                      *)
Missed(n) == nodes[n].psNN >= 0 /\ nodes[n].psNN # psNN
Wrong_CloseMissed ==   \* the threads of a closed application are not looked at
  /\ ps = "rows" /\ row > Count
  /\ nodes' = [n \in DOMAIN nodes |->
                 IF nodes[n].app = n /\ nodes[n].id > 0 /\ Missed(n)
                 THEN [nodes[n] EXCEPT !.psNN = -psNN] ELSE nodes[n]]
  /\ ps' = "sleep" /\ row' = 1
  /\ UNCHANGED <<cacheVars, psInfo, psNN, logging, psApp, old>>
CloseMissed ==
  /\ ps = "rows" /\ row > Count
  /\ nodes' = [n \in DOMAIN nodes |->
                 IF nodes[nodes[n].app].id > 0 /\ nodes[n].id > 0 /\ Missed(n)
                 THEN [nodes[n] EXCEPT !.psNN = -psNN] ELSE nodes[n]]
  /\ ps' = "sleep" /\ row' = 1
  /\ UNCHANGED <<cacheVars, psInfo, psNN, logging, psApp, old>>

-----------------------------------------------------------------------------
(* Starting, pausing and clearing; stop() has ended the ps thread, which is *)
(* blocked nowhere in setPsInfo.                                           *)
StartLogging ==
  /\ ~logging
  /\ logging' = TRUE
  /\ UNCHANGED <<nodes, cacheVars, psInfo, psNN, ps, row, psApp, old>>

Pause ==
  /\ logging /\ ps = "sleep"
  /\ logging' = FALSE
  /\ UNCHANGED <<nodes, cacheVars, psInfo, psNN, ps, row, psApp, old>>

Wrong_ClearArchive ==   \* curThread is left where it was
  /\ ~logging
  /\ nodes' = << >>
  /\ curApp' = NULL
  /\ psInfo' = NoListing /\ psNN' = 0
  /\ old' = {}
  /\ UNCHANGED <<curThread, logging, ps, row, psApp>>
ClearArchive ==
  /\ ~logging
  /\ nodes' = << >>
  /\ curApp' = NULL /\ curThread' = NULL
  /\ psInfo' = NoListing /\ psNN' = 0
  /\ old' = {}
  /\ UNCHANGED <<logging, ps, row, psApp>>

Receiver == \E s \in Sources : AppendRec(s)
Import   == \E s \in {s \in Sources : s.pid > 0}, nn \in ImportedNN :
              ImportApp(s, nn) \/ ImportThread(s, nn)
PsThread ==
  \/ CopyTable \/ ListApp \/ ListThread \/ AppDone \/ ListMain \/ ListChild
  \/ ChildrenDone \/ CloseMissed
Ui == StartLogging \/ Pause \/ ClearArchive

Next == Receiver \/ Import \/ PsThread \/ Ui

Spec == Init /\ [][Next]_vars

-----------------------------------------------------------------------------
(* Properties.                                                             *)

TypeOK ==
  /\ nodes \in Seq([id : Int, app : 1..MaxNodes, name : Names, psNN : Int])
  /\ Len(nodes) <= MaxNodes
  /\ {curApp, curThread, psApp} \subseteq {NULL} \cup DOMAIN nodes
  /\ psInfo.haveTID \in BOOLEAN /\ Len(psInfo.rows) \in Nat
  /\ psNN \in 0..MaxRounds /\ row \in Nat
  /\ logging \in BOOLEAN
  /\ ps \in {"sleep", "rows", "main", "threads"}
  /\ old \subseteq DOMAIN nodes

(* Every node hangs below an application, which was added before it.        *)
Rooted(ns) == \A n \in DOMAIN ns : ns[n].app <= n /\ IsApp(ns, ns[n].app)

(* No two applications have the same number, no two threads of one either.  *)
OneNodeEach(ns) ==
  \A n, m \in DOMAIN ns :
    /\ ns[n].id = ns[m].id
    /\ ns[n].app = ns[m].app \/ (IsApp(ns, n) /\ IsApp(ns, m))
    /\ IsApp(ns, n) <=> IsApp(ns, m)
    => n = m

(* The index has one node for a process and one for a thread of it, and the *)
(* caches point to nodes of this archive, also after a clear.               *)
IndexSound ==
  /\ Rooted(nodes) /\ OneNodeEach(nodes)
  /\ curApp # NULL => IsApp(nodes, curApp)
  /\ curThread # NULL => IsThread(nodes, curThread)

(* A record is shown under its process and its thread.  The cache of        *)
(* getThread makes one exception: the main thread of a process whose number *)
(* a thread of another process has or had.                                 *)
AtHome(s, app, thread) ==
  app # NULL /\ thread # NULL =>
    /\ nodes'[app].id = s.pid /\ nodes'[thread].id = s.tid
    /\ nodes'[thread].app = app \/ s.tid = s.pid
RecordsAtHome == \A s \in Sources : AppendRec(s) => AtHome(s, curApp', curThread')
RecordAtHome  == [][RecordsAtHome]_vars

Listed(n) == {i \in 1..Count : Rows[i].pid = nodes[n].id}

(* The rows setPsInfo may pass over: it takes the row behind those of a     *)
(* known process for read, or for a thread of that process.                *)
Overlooked(i) ==
  \E j \in 1..(i - 1) :
    /\ Apps(nodes, Rows[j].pid) # {} /\ Rows[j].pid # Rows[i].pid
    /\ IF psInfo.haveTID THEN j = i - 1 ELSE Rows[i].ppid = Rows[j].pid

(* No name falls between the table and the walk: an application that was    *)
(* there when the table was copied is named by the walk, one that came      *)
(* later by the table, and both once the walk is over.  (One that came      *)
(* later as <pre-initialized> waits for the next table.)                   *)
NoNameMissed ==
  ps = "sleep" /\ logging => \A n \in DOMAIN nodes :
    IsApp(nodes, n) /\ (\E i \in Listed(n) : n \notin old \/ ~Overlooked(i)) =>
      IF n \in old THEN Known(nodes[n].name) ELSE nodes[n].name # Unknown

(* An application is shown as closed exactly if the latest table does not   *)
(* have it, and its threads with it; this is exact for what was there when  *)
(* the table was copied, and for rows that are not overlooked.  An import   *)
(* may bring the number of the first run with it.                          *)
ClosedExact ==
  ps = "sleep" /\ psNN > 0 => \A n \in old :
    LET a == nodes[n].app IN
    /\ IsApp(nodes, n) /\ (\E i \in Listed(n) : ~Overlooked(i)) => nodes[n].psNN >= 0
    /\ nodes[a].id > 0 /\ nodes[n].id > 0 /\ Listed(a) = {} =>
         nodes[n].psNN < 0 \/ (nodes[n].psNN = psNN /\ psNN \in ImportedNN)
    /\ nodes[a].id < 0 => nodes[n].psNN = 0

-----------------------------------------------------------------------------
(* What makes these properties inductive.                                  *)

(* The table and the number of the run that copied it belong together.      *)
TableOfRun ==
  /\ psInfo \in [haveTID : BOOLEAN, rows : Seq([pid : Nat, tid : Nat, ppid : Nat])]
  /\ psNN = 0 => psInfo.rows = << >>
  /\ row \in Nat \ {0}
  /\ ps # "sleep" => logging /\ psNN > 0
  /\ ps \in {"sleep", "rows"} => psApp = NULL

(* The walk has met the application in this table: named, and not closed.   *)
Met(n) == Known(nodes[n].name) /\ nodes[n].psNN = psNN

(* In the rows of an application the walk knows which row it found it in,    *)
(* or, with thread ids, that the row here or the one before is one of its.  *)
RowOf(j, a) == j \in 1..Count /\ Rows[j].pid = nodes[a].id
AmongItsRows ==
  IF psInfo.haveTID
  THEN ps = "threads" /\ (RowOf(row - 1, psApp) \/ RowOf(row, psApp))
  ELSE row <= Count /\ \E j \in 1..row :
         RowOf(j, psApp) /\ \A i \in (j + 1)..row : Rows[i].ppid = nodes[psApp].id
InProcess ==
  ps \in {"main", "threads"} =>
    IsApp(nodes, psApp) /\ Met(psApp) /\ AmongItsRows

(* The rows the walk is through with are overlooked, or their applications   *)
(* are met, those that were there when the table was copied.                *)
Through ==
  CASE ps = "sleep" -> Count
    [] ps = "rows" -> row - 1
    [] OTHER -> IF psInfo.haveTID THEN row - 1 ELSE row
RowPassed(i) ==
  Overlooked(i) \/ \A n \in old : IsApp(nodes, n) /\ RowOf(i, n) => Met(n)
RowsPassed == \A i \in 1..Count : i <= Through => RowPassed(i)

LaterNamed ==
  \A n \in DOMAIN nodes \ old : IsApp(nodes, n) /\ Listed(n) # {} => nodes[n].name # Unknown

(* A node has the number of the latest run only if that run listed its       *)
(* application, or an import brought it along.                              *)
MarkedByRun ==
  \A n \in DOMAIN nodes :
    /\ \/ nodes[n].psNN < psNN \/ nodes[n].psNN \in ImportedNN
       \/ nodes[n].psNN = psNN /\ (psNN = 0 \/ Listed(nodes[n].app) # {})
    /\ nodes[nodes[n].app].id < 0 => nodes[n].psNN = 0

UnlistedClosed ==
  ps = "sleep" /\ psNN > 0 => \A n \in old :
    nodes[nodes[n].app].id > 0 /\ nodes[n].id > 0 /\ Listed(nodes[n].app) = {} =>
      nodes[n].psNN < 0 \/ (nodes[n].psNN = psNN /\ psNN \in ImportedNN)

WalkInv == InProcess /\ RowsPassed /\ LaterNamed /\ MarkedByRun /\ UnlistedClosed

IndInv == TypeOK /\ IndexSound /\ TableOfRun /\ WalkInv
=============================================================================
