------------------------------ MODULE FlowTree ------------------------------
(***************************************************************************)
(* The archive of FlowTrace as a tree: Archive::addThread, addFlow and     *)
(* addTrace (Archive.cpp) with FLOW_NODE::addToTree (LogData.cpp) and      *)
(* add_thread_child/add_child (LogData.h).                                 *)
(*                                                                         *)
(* Records of many threads arrive one at a time, under the lock of the     *)
(* receiver.  An ENTER or EXIT record becomes a FLOW_NODE; the viewer      *)
(* rebuilds the calls of the thread by pairing an EXIT with the nearest    *)
(* open ENTER of its function above `curentFlow'.  A TRACE record becomes  *)
(* one or more pieces of text that either continue the latest line of the  *)
(* thread or start a new TRACE_NODE.                                       *)
(*                                                                         *)
(* A node is the number of its slot in m_pNodes, so a larger number is a   *)
(* later node.  Thread nodes are nodes too; the root and the application   *)
(* above them are not modelled here.                                       *)
(***************************************************************************)
EXTENDS Naturals, Sequences, FiniteSets

CONSTANTS
  Fns,          \* function addresses (this_fn)
  MaxNodes,     \* nodes the archive has memory for
  MaxThreads,   \* threads that log (bounds the model, not the code)
  MaxLogLen,    \* MAX_LOG_LEN, 1600 in the code
  TraceRecs     \* what one TRACE record is cut into: sequences of pieces

NULL   == 0
NodeId == 1..MaxNodes
Kinds  == {"free", "thread", "enter", "exit", "trace"}

(* One call of addTrace: `len' characters, `nl' if a line break followed    *)
(* them.  addTraceLoop never passes more than MaxLogLen, break included.   *)
Piece == {p \in [len : 0..MaxLogLen, nl : BOOLEAN] : p.nl => p.len < MaxLogLen}

ASSUME ConstantsAssumption ==
  /\ MaxNodes \in Nat
  /\ MaxThreads \in Nat
  /\ MaxLogLen \in Nat \ {0}
  /\ TraceRecs \subseteq Seq(Piece)

VARIABLES
  cNodes,       \* PtrArray::Count of m_pNodes
  kind,         \* data_type and log_type of a node
  thread,       \* LOG_NODE::threadNode (of a thread node: itself)
  fn,           \* FLOW_NODE::this_fn
  parent,       \* LOG_NODE::parent
  peer,         \* FLOW_NODE::peer
  path,         \* the nodes a walk along `parent' visits, the node included
  childCount,   \* LOG_NODE::childCount
  curentFlow,   \* THREAD_NODE::curentFlow
  latestTrace,  \* THREAD_NODE::latestTrace
  cbTrace,      \* INFO_NODE::cb_trace of a trace node
  hasNewLine,   \* LOG_NODE::hasNewLine of a trace node
  record        \* the TRACE record being added and its pieces still to add

nodeVars  == <<cNodes, kind, thread>>
treeVars  == <<fn, parent, peer, path, childCount, curentFlow>>
lineVars  == <<latestTrace, cbTrace, hasNewLine>>
vars      == <<nodeVars, treeVars, lineVars, record>>

Idle == [thread |-> NULL, alone |-> FALSE, rest |-> << >>]

TypeOK ==
  /\ cNodes \in 0..MaxNodes
  /\ kind \in [NodeId -> Kinds]
  /\ thread \in [NodeId -> NodeId \cup {NULL}]
  /\ fn \in [NodeId -> Fns \cup {NULL}]
  /\ parent \in [NodeId -> NodeId \cup {NULL}]
  /\ peer \in [NodeId -> NodeId \cup {NULL}]
  /\ path \in [NodeId -> SUBSET NodeId]
  /\ childCount \in [NodeId -> Nat]
  /\ curentFlow \in [NodeId -> NodeId \cup {NULL}]
  /\ latestTrace \in [NodeId -> NodeId \cup {NULL}]
  /\ cbTrace \in [NodeId -> 0..MaxLogLen]
  /\ hasNewLine \in [NodeId -> BOOLEAN]
  /\ record \in [thread : NodeId \cup {NULL}, alone : BOOLEAN, rest : Seq(Piece)]
  /\ record.rest # << >> => record.thread \in NodeId

Threads   == {t \in NodeId : kind[t] = "thread"}
FlowNodes == {n \in NodeId : kind[n] \in {"enter", "exit"}}
Traces    == {n \in NodeId : kind[n] = "trace"}

(* A call that was entered and has not returned (FLOW_NODE::isOpenEnter).   *)
IsOpenEnter(n) == kind[n] = "enter" /\ peer[n] = NULL

Init ==
  /\ cNodes = 0
  /\ kind = [n \in NodeId |-> "free"]
  /\ thread = [n \in NodeId |-> NULL]
  /\ fn = [n \in NodeId |-> NULL]
  /\ parent = [n \in NodeId |-> NULL]
  /\ peer = [n \in NodeId |-> NULL]
  /\ path = [n \in NodeId |-> {}]
  /\ childCount = [n \in NodeId |-> 0]
  /\ curentFlow = [n \in NodeId |-> NULL]
  /\ latestTrace = [n \in NodeId |-> NULL]
  /\ cbTrace = [n \in NodeId |-> 0]
  /\ hasNewLine = [n \in NodeId |-> FALSE]
  /\ record = Idle

(* Some definitions have a variant named Wrong_..., with a mistake that      *)
(* would be easy to make in the code.  No specification uses them; they     *)
(* show which property notices the mistake.                                *)

(* m_pNodes->Add: the next slot, or no node at all when memory is used up.  *)
HasRoom == cNodes < MaxNodes
NewNode(n, k, t) ==
  /\ HasRoom
  /\ n = cNodes + 1
  /\ cNodes' = n
  /\ kind' = [kind EXCEPT ![n] = k]
  /\ thread' = [thread EXCEPT ![n] = t]

-----------------------------------------------------------------------------
(* Threads and clearing.                                                   *)

AddThread ==
  LET n == cNodes + 1 IN
  /\ record.rest = << >>
  /\ Cardinality(Threads) < MaxThreads
  /\ NewNode(n, "thread", n)
  /\ path' = [path EXCEPT ![n] = {n}]
  /\ UNCHANGED <<fn, parent, peer, childCount, curentFlow, lineVars, record>>

(* clearArchive: a new, empty m_pNodes.                                     *)
ClearArchive ==
  /\ record.rest = << >>
  /\ cNodes' = 0
  /\ kind' = [n \in NodeId |-> "free"]
  /\ thread' = [n \in NodeId |-> NULL]
  /\ fn' = [n \in NodeId |-> NULL]
  /\ parent' = [n \in NodeId |-> NULL]
  /\ peer' = [n \in NodeId |-> NULL]
  /\ path' = [n \in NodeId |-> {}]
  /\ childCount' = [n \in NodeId |-> 0]
  /\ curentFlow' = [n \in NodeId |-> NULL]
  /\ latestTrace' = [n \in NodeId |-> NULL]
  /\ cbTrace' = [n \in NodeId |-> 0]
  /\ hasNewLine' = [n \in NodeId |-> FALSE]
  /\ record' = Idle

-----------------------------------------------------------------------------
(* Flow records.                                                           *)

(* add_thread_child: p is the thread node (ROOT_CHILD) or curentFlow       *)
(* (LATEST_CHILD); add_child counts the new node at every ancestor.        *)
Wrong_AddThreadChild_CountsOnce(n, t, p) ==   \* add_child does not walk up
  /\ parent' = [parent EXCEPT ![n] = p]
  /\ path' = [path EXCEPT ![n] = {n} \cup path[p]]
  /\ childCount' = [childCount EXCEPT ![p] = @ + 1]
  /\ curentFlow' = [curentFlow EXCEPT ![t] = n]
AddThreadChild(n, t, p) ==
  /\ parent' = [parent EXCEPT ![n] = p]
  /\ path' = [path EXCEPT ![n] = {n} \cup path[p]]
  /\ childCount' = [m \in NodeId |-> childCount[m] + IF m \in path[p] THEN 1 ELSE 0]
  /\ curentFlow' = [curentFlow EXCEPT ![t] = n]

(* What the new node becomes a child of when it is an ENTER.                *)
Wrong_EnterParent(t) ==   \* isOpenEnter is not asked
  IF curentFlow[t] # NULL THEN curentFlow[t] ELSE t
EnterParent(t) ==
  IF curentFlow[t] # NULL /\ IsOpenEnter(curentFlow[t]) THEN curentFlow[t] ELSE t

Enter(t, f) ==
  LET n == cNodes + 1 IN
  /\ record.rest = << >>
  /\ NewNode(n, "enter", t)
  /\ fn' = [fn EXCEPT ![n] = f]
  /\ AddThreadChild(n, t, EnterParent(t))
  /\ UNCHANGED <<peer, lineVars, record>>

(* The open calls of f that the walk up from curentFlow passes.             *)
Wrong_Matches(t, f) ==    \* a call that has returned matches, too
  IF curentFlow[t] = NULL THEN {}
  ELSE {m \in path[curentFlow[t]] : kind[m] = "enter" /\ fn[m] = f}
Matches(t, f) ==
  IF curentFlow[t] = NULL THEN {}
  ELSE {m \in path[curentFlow[t]] : IsOpenEnter(m) /\ fn[m] = f}

(* The walk stops at the first match.  A matched call at the root of the    *)
(* thread leaves curentFlow where the walk started.                        *)
Wrong_PairWith_OneWay(m, n, t) ==    \* only the ENTER learns its peer
  /\ peer' = [peer EXCEPT ![m] = n]
  /\ curentFlow' = IF parent[m] # t THEN [curentFlow EXCEPT ![t] = parent[m]]
                   ELSE curentFlow
  /\ UNCHANGED <<parent, path, childCount>>
Wrong_PairWith_AtExit(m, n, t) ==    \* curentFlow moves to the EXIT
  /\ peer' = [peer EXCEPT ![m] = n, ![n] = m]
  /\ curentFlow' = [curentFlow EXCEPT ![t] = n]
  /\ UNCHANGED <<parent, path, childCount>>
Wrong_PairWith_StaysDeep(m, n, t) == \* curentFlow does not move up
  /\ peer' = [peer EXCEPT ![m] = n, ![n] = m]
  /\ UNCHANGED <<parent, path, childCount, curentFlow>>
PairWith(m, n, t) ==
  /\ peer' = [peer EXCEPT ![m] = n, ![n] = m]
  /\ curentFlow' = IF parent[m] # t THEN [curentFlow EXCEPT ![t] = parent[m]]
                   ELSE curentFlow
  /\ UNCHANGED <<parent, path, childCount>>

Wrong_ExitPaired(t, f) ==   \* the outermost match, not the nearest
  LET n == cNodes + 1 IN
  /\ record.rest = << >>
  /\ NewNode(n, "exit", t)
  /\ fn' = [fn EXCEPT ![n] = f]
  /\ \E m \in Matches(t, f) :
       /\ \A k \in Matches(t, f) : m <= k
       /\ PairWith(m, n, t)
  /\ UNCHANGED <<lineVars, record>>
ExitPaired(t, f) ==
  LET n == cNodes + 1 IN
  /\ record.rest = << >>
  /\ NewNode(n, "exit", t)
  /\ fn' = [fn EXCEPT ![n] = f]
  /\ \E m \in Matches(t, f) :
       /\ \A k \in Matches(t, f) : k <= m
       /\ PairWith(m, n, t)
  /\ UNCHANGED <<lineVars, record>>

(* No match.  The code then asks isEnter() of the THREAD_NODE, which has no *)
(* log_type: it reads a byte of another field, so either parent can come    *)
(* out.  A thread without curentFlow takes the node at its root.            *)
ExitParents(t) == IF curentFlow[t] = NULL THEN {t} ELSE {t, curentFlow[t]}

ExitUnpaired(t, f) ==
  LET n == cNodes + 1 IN
  /\ record.rest = << >>
  /\ Matches(t, f) = {}
  /\ NewNode(n, "exit", t)
  /\ fn' = [fn EXCEPT ![n] = f]
  /\ \E p \in ExitParents(t) : AddThreadChild(n, t, p)
  /\ UNCHANGED <<peer, lineVars, record>>

-----------------------------------------------------------------------------
(* Trace records.                                                          *)

(* A record of ADB or of an import is `alone': it never continues a line.   *)
BeginTrace(t, alone, pieces) ==
  /\ record.rest = << >>
  /\ record' = [thread |-> t, alone |-> alone, rest |-> pieces]
  /\ UNCHANGED <<nodeVars, treeVars, lineVars>>

(* The line that the next piece may continue, whether it still fits there,  *)
(* and whether the piece closes the line.                                  *)
Wrong_LineOpen ==   \* hasNewLine is not looked at
  latestTrace[record.thread] # NULL /\ ~record.alone
LineOpen == LET last == latestTrace[record.thread] IN
            last # NULL /\ ~record.alone /\ ~hasNewLine[last]
Wrong_Fits(p) == p.len < MaxLogLen   \* what the line holds is not added
Fits(p) == cbTrace[latestTrace[record.thread]] + p.len < MaxLogLen
AfterPiece(p) ==
  IF LineOpen /\ (~Fits(p) \/ p.nl)
  THEN [hasNewLine EXCEPT ![latestTrace[record.thread]] = TRUE]
  ELSE hasNewLine

TakePiece(p) ==
  /\ record.rest # << >>
  /\ p = Head(record.rest)
  /\ record' = [record EXCEPT !.rest = Tail(@)]

(* Only a line break, or nothing.                                           *)
EmptyPiece(p) ==
  /\ TakePiece(p)
  /\ p.len = 0
  /\ hasNewLine' = AfterPiece(p)
  /\ UNCHANGED <<nodeVars, treeVars, latestTrace, cbTrace>>

(* The piece is appended as a chunk; its allocation can fail when the       *)
(* archive is out of memory, and then the text is lost.                     *)
ContinueLine(p) ==
  LET last == latestTrace[record.thread] IN
  /\ TakePiece(p)
  /\ p.len > 0 /\ LineOpen /\ Fits(p)
  /\ hasNewLine' = AfterPiece(p)
  /\ \/ cbTrace' = [cbTrace EXCEPT ![last] = @ + p.len]
     \/ ~HasRoom /\ UNCHANGED cbTrace
  /\ UNCHANGED <<nodeVars, treeVars, latestTrace>>

(* A new TRACE_NODE, under the current call if that is still open.          *)
NewLine(p) ==
  LET n == cNodes + 1
      t == record.thread IN
  /\ TakePiece(p)
  /\ p.len > 0 /\ ~(LineOpen /\ Fits(p))
  /\ NewNode(n, "trace", t)
  /\ parent' = [parent EXCEPT ![n] = EnterParent(t)]
  /\ latestTrace' = [latestTrace EXCEPT ![t] = n]
  /\ cbTrace' = [cbTrace EXCEPT ![n] = p.len]
  /\ hasNewLine' = [AfterPiece(p) EXCEPT ![n] = p.nl]
  /\ UNCHANGED <<fn, peer, path, childCount, curentFlow>>

(* No memory for the node: the piece is dropped, the old line stays closed. *)
NewLineDropped(p) ==
  /\ TakePiece(p)
  /\ p.len > 0 /\ ~(LineOpen /\ Fits(p))
  /\ ~HasRoom
  /\ hasNewLine' = AfterPiece(p)
  /\ UNCHANGED <<nodeVars, treeVars, latestTrace, cbTrace>>

-----------------------------------------------------------------------------
FlowStep(t, f)  == Enter(t, f) \/ ExitPaired(t, f) \/ ExitUnpaired(t, f)
PieceStep(p)    == EmptyPiece(p) \/ ContinueLine(p) \/ NewLine(p) \/ NewLineDropped(p)

Next ==
  \/ AddThread
  \/ ClearArchive
  \/ \E t \in Threads, f \in Fns : FlowStep(t, f)
  \/ \E t \in Threads, alone \in BOOLEAN, pieces \in TraceRecs :
       BeginTrace(t, alone, pieces)
  \/ \E p \in Piece : PieceStep(p)

Spec == Init /\ [][Next]_vars

-----------------------------------------------------------------------------
(* Properties.                                                             *)

(* Pairing: peers point at each other, the earlier one is an ENTER, the     *)
(* later one an EXIT, of the same function in the same thread.              *)
PeersMatch ==
  \A n \in NodeId : peer[n] # NULL =>
    /\ peer[n] # n
    /\ peer[peer[n]] = n
    /\ kind[n] = IF n < peer[n] THEN "enter" ELSE "exit"
    /\ fn[n] = fn[peer[n]]
    /\ thread[n] = thread[peer[n]]

(* The parent links of every thread form one tree rooted at its node: a     *)
(* parent is an earlier node of the same thread, and only an EXIT that was  *)
(* paired has none.  So every walk along `parent' ends at the thread node.  *)
TreeWellFormed ==
  \A n \in FlowNodes \cup Traces :
    IF kind[n] = "exit" /\ peer[n] # NULL THEN parent[n] = NULL
    ELSE /\ parent[n] \in 1..(n - 1)
         /\ thread[parent[n]] = thread[n]
         /\ kind[parent[n]] # "trace"
         /\ parent[n] # thread[n] => parent[parent[n]] # NULL

(* The walk up from curentFlow is well defined: curentFlow is a flow node   *)
(* of its own thread that is in the tree, never a paired EXIT.              *)
CurrentFlowInTree ==
  \A t \in Threads : curentFlow[t] # NULL =>
    /\ curentFlow[t] \in FlowNodes
    /\ thread[curentFlow[t]] = t
    /\ parent[curentFlow[t]] # NULL

(* The calls of one function never cross: a call that was entered inside    *)
(* another call of that function and has returned, returned inside it,      *)
(* whatever records were lost, repeated or reordered on the way.            *)
SameFnCallsNest ==
  \A a, b \in FlowNodes :
    /\ kind[a] = "enter" /\ kind[b] = "enter"
    /\ peer[a] # NULL /\ peer[b] # NULL
    /\ thread[a] = thread[b] /\ fn[a] = fn[b]
    /\ a < b /\ b < peer[a]
    => peer[b] < peer[a]

(* A call below another call does not outlive it unless that other call is  *)
(* at the root of the thread: returning from it forgets the calls inside.   *)
InnerCallsNest ==
  \A a, b \in FlowNodes :
    /\ kind[a] = "enter" /\ kind[b] = "enter"
    /\ peer[a] # NULL /\ peer[b] # NULL
    /\ a \in path[b] /\ a # b /\ parent[a] # thread[a]
    => peer[b] < peer[a]


(* `path' is what it says: one step along parent, then the path from there. *)
PathFollowsParents ==
  \A n \in NodeId :
    path[n] = CASE kind[n] = "thread" -> {n}
                [] n \in FlowNodes /\ parent[n] # NULL -> {n} \cup path[parent[n]]
                [] OTHER -> {}

(* childCount, which the tree view takes for the size of a subtree, is the  *)
(* number of flow nodes from which a walk along parent comes by the node.   *)
ChildCountExact ==
  /\ PathFollowsParents
  /\ \A n \in NodeId : kind[n] # "trace" =>
       childCount[n] = Cardinality({m \in FlowNodes : n \in path[m] /\ n # m})

(* A line of text is never shown under a call that had returned before the  *)
(* line was started, nor under another thread.                             *)
TraceInsideOpenCall ==
  \A n \in Traces :
    \/ parent[n] = thread[n]
    \/ /\ kind[parent[n]] = "enter"
       /\ thread[parent[n]] = thread[n]
       /\ peer[parent[n]] # NULL => n < peer[parent[n]]

(* The parts that make PeersMatch and TreeWellFormed inductive: a slot is    *)
(* used in order, a thread node is its own thread, a path stays within the  *)
(* thread and goes back in time, a thread writes lines of its own, and a    *)
(* record is added to a thread that exists.                                *)
SlotsInOrder ==
  \A n \in NodeId :
    IF n <= cNodes THEN kind[n] # "free" /\ thread[n] \in 1..n /\ kind[thread[n]] = "thread"
    ELSE /\ kind[n] = "free" /\ parent[n] = NULL /\ peer[n] = NULL
         /\ curentFlow[n] = NULL /\ latestTrace[n] = NULL /\ path[n] = {}
ThreadNodes ==
  \A t \in Threads : thread[t] = t /\ peer[t] = NULL /\ parent[t] = NULL
PathsInThread ==
  \A n \in NodeId : \A m \in path[n] :
    /\ m <= n
    /\ thread[m] = thread[n]
    /\ kind[m] \in {"thread", "enter", "exit"}
LinesOfThread ==
  \A t \in Threads : latestTrace[t] # NULL =>
    latestTrace[t] \in Traces /\ thread[latestTrace[t]] = t
RecordOfThread == record.rest # << >> => record.thread \in Threads

IInv ==
  /\ TypeOK
  /\ SlotsInOrder
  /\ ThreadNodes
  /\ PathsInThread
  /\ LinesOfThread
  /\ RecordOfThread
  /\ PeersMatch
  /\ TreeWellFormed
  /\ CurrentFlowInTree

(* What the nesting of the calls rests on: the path of a node holds the      *)
(* paths of the nodes on it, and the walk up from curentFlow comes neither   *)
(* by a call that has returned below another call, nor by an open call that  *)
(* a call of the same function has returned around.                         *)
PathsNest == \A n \in NodeId : \A m \in path[n] : path[m] \subseteq path[n]
Reach(t)  == IF curentFlow[t] = NULL THEN {}
             ELSE {m \in path[curentFlow[t]] : kind[m] = "enter"}
ReturnedLeft ==
  \A t \in Threads : \A a \in Reach(t) : parent[a] # t => peer[a] = NULL
SkippedLeft ==
  \A t \in Threads : \A a \in FlowNodes : \A b \in Reach(t) :
    /\ kind[a] = "enter" /\ peer[a] # NULL /\ thread[a] = t
    /\ peer[b] = NULL /\ fn[a] = fn[b] /\ a < b
    => peer[a] < b

NestInv ==
  /\ IInv
  /\ PathsNest
  /\ ReturnedLeft
  /\ SkippedLeft
  /\ SameFnCallsNest
  /\ InnerCallsNest
  /\ TraceInsideOpenCall
  /\ ChildCountExact

(* Once a call is paired it stays paired with the same EXIT, and a node is  *)
(* never moved in the tree, until the archive is cleared.                   *)
NodeSettled(n) == /\ peer[n] # NULL => peer'[n] = peer[n]
                  /\ parent'[n] = parent[n]
PairingKept == cNodes' = 0 \/ \A n \in 1..cNodes : NodeSettled(n)
PairingIsFinal == [][PairingKept]_vars

(* Text is only ever added to the line its thread is writing, while that    *)
(* line is open; a closed line never changes again.                         *)
LineMayGrow(n) == /\ record.rest # << >> /\ record.thread = thread[n]
                  /\ latestTrace[thread[n]] = n /\ ~hasNewLine[n]
LinesKept ==
  \/ cNodes' = 0
  \/ \A n \in Traces : \/ LineMayGrow(n)
                       \/ cbTrace'[n] = cbTrace[n] /\ hasNewLine'[n] = hasNewLine[n]
ClosedLinesFrozen == [][LinesKept]_vars
=============================================================================
