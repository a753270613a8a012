--------------------------- MODULE FlowTreeProofs ---------------------------
(***************************************************************************)
(* Proofs about FlowTree, for any set of functions, any capacity of the    *)
(* archive, any line length and any trace records.  The second part is     *)
(* about how the rebuilt calls nest, where lines of text are shown, what   *)
(* the counters of the tree view hold, and what no step ever changes again.*)
(*                                                                         *)
(* The last part is about TracedProgram: the tree built from a complete     *)
(* record of a program is the tree of its calls (CallTree), for any         *)
(* program, any number of threads and of calls running when a thread is     *)
(* first seen, and any capacity of the archive.                            *)
(***************************************************************************)
EXTENDS TracedProgram, FiniteSetTheorems, FunctionTheorems, SequenceTheorems, TLAPS

LEMMA NodeIds == NodeId \subseteq Nat /\ NULL \notin NodeId
  BY ConstantsAssumption DEF NodeId, NULL

(* The slot that NewNode takes is a node that was not in use.               *)
LEMMA NextSlot ==
  ASSUME TypeOK, NEW n, NEW k, NEW t, NewNode(n, k, t)
  PROVE  /\ n \in NodeId
         /\ n = cNodes + 1
         /\ cNodes' = n
         /\ cNodes' \in 0..MaxNodes
  BY ConstantsAssumption DEF NewNode, HasRoom, NodeId, TypeOK

LEMMA InitTypeOK == Init => TypeOK
<1> SUFFICES ASSUME Init PROVE TypeOK
  OBVIOUS
<1>1. cNodes \in 0..MaxNodes
  BY ConstantsAssumption DEF Init
<1>2. record \in [thread : NodeId \cup {NULL}, alone : BOOLEAN, rest : Seq(Piece)]
  BY DEF Init, Idle
<1>3. record.rest = << >>
  BY DEF Init, Idle
<1>4. 0 \in 0..MaxLogLen
  BY ConstantsAssumption
<1> QED
  BY <1>1, <1>2, <1>3, <1>4 DEF Init, TypeOK, Kinds, NULL

LEMMA StepTypeOK == TypeOK /\ [Next]_vars => TypeOK'
<1> SUFFICES ASSUME TypeOK, [Next]_vars PROVE TypeOK'
  OBVIOUS
<1> USE NodeIds
<1>1. CASE AddThread
  <2> DEFINE n == cNodes + 1
  <2>1. NewNode(n, "thread", n) /\ n \in NodeId /\ cNodes' \in 0..MaxNodes
    BY <1>1, NextSlot DEF AddThread
  <2>2. /\ kind' \in [NodeId -> Kinds] /\ thread' \in [NodeId -> NodeId \cup {NULL}]
        /\ path' \in [NodeId -> SUBSET NodeId]
    BY <1>1, <2>1 DEF AddThread, NewNode, TypeOK, Kinds
  <2> QED
    BY <1>1, <2>1, <2>2 DEF AddThread, TypeOK, lineVars
<1>2. CASE ClearArchive
  <2>1. cNodes' \in 0..MaxNodes /\ 0 \in 0..MaxLogLen
    BY <1>2, ConstantsAssumption DEF ClearArchive
  <2> QED
    BY <1>2, <2>1 DEF ClearArchive, TypeOK, Kinds, Idle
<1>3. ASSUME NEW t \in Threads, NEW f \in Fns, FlowStep(t, f) PROVE TypeOK'
  <2> DEFINE n == cNodes + 1
  <2>0. t \in NodeId
    BY DEF Threads
  <2>1. n \in NodeId /\ cNodes' \in 0..MaxNodes /\ (NewNode(n, "enter", t) \/ NewNode(n, "exit", t))
    BY <1>3, NextSlot DEF FlowStep, Enter, ExitPaired, ExitUnpaired
  <2>2. ASSUME NEW p \in NodeId, AddThreadChild(n, t, p)
        PROVE  /\ parent' \in [NodeId -> NodeId \cup {NULL}]
               /\ path' \in [NodeId -> SUBSET NodeId]
               /\ childCount' \in [NodeId -> Nat]
               /\ curentFlow' \in [NodeId -> NodeId \cup {NULL}]
    <3>1. path[p] \subseteq NodeId
      BY DEF TypeOK
    <3>2. path' \in [NodeId -> SUBSET NodeId]
      BY <2>1, <2>2, <3>1 DEF AddThreadChild, TypeOK
    <3>3. childCount' \in [NodeId -> Nat]
      BY <2>2 DEF AddThreadChild, TypeOK
    <3>4. /\ parent' \in [NodeId -> NodeId \cup {NULL}]
          /\ curentFlow' \in [NodeId -> NodeId \cup {NULL}]
      BY <2>0, <2>1, <2>2 DEF AddThreadChild, TypeOK
    <3> QED
      BY <3>2, <3>3, <3>4
  <2>3. EnterParent(t) \in NodeId
    BY <2>0 DEF EnterParent, TypeOK
  <2>4. CASE Enter(t, f)
    BY <2>0, <2>1, <2>2, <2>3, <2>4 DEF Enter, NewNode, TypeOK, Kinds, lineVars
  <2>5. CASE ExitPaired(t, f)
    <3>1. PICK m \in Matches(t, f) : PairWith(m, n, t)
      BY <2>5 DEF ExitPaired
    <3>2. m \in NodeId
      BY <3>1, <2>0 DEF Matches, TypeOK
    <3> QED
      BY <2>0, <2>1, <2>5, <3>1, <3>2 DEF ExitPaired, PairWith, NewNode, TypeOK, Kinds, lineVars
  <2>6. CASE ExitUnpaired(t, f)
    <3>1. PICK p \in ExitParents(t) : AddThreadChild(n, t, p)
      BY <2>6 DEF ExitUnpaired
    <3>2. p \in NodeId
      BY <3>1, <2>0 DEF ExitParents, TypeOK
    <3> QED
      BY <2>0, <2>1, <2>2, <2>6, <3>1, <3>2 DEF ExitUnpaired, NewNode, TypeOK, Kinds, lineVars
  <2> QED
    BY <1>3, <2>4, <2>5, <2>6 DEF FlowStep
<1>4. ASSUME NEW t \in Threads, NEW alone \in BOOLEAN, NEW pieces \in TraceRecs,
             BeginTrace(t, alone, pieces)
      PROVE  TypeOK'
  <2>1. t \in NodeId /\ pieces \in Seq(Piece)
    BY ConstantsAssumption DEF Threads
  <2> QED
    BY <1>4, <2>1 DEF BeginTrace, TypeOK, nodeVars, treeVars, lineVars
<1>5. ASSUME NEW p \in Piece, PieceStep(p) PROVE TypeOK'
  <2> DEFINE last == latestTrace[record.thread]
  <2>0. p.len \in 0..MaxLogLen /\ p.nl \in BOOLEAN
    BY ConstantsAssumption DEF Piece
  <2>1. TakePiece(p)
    BY <1>5 DEF PieceStep, EmptyPiece, ContinueLine, NewLine, NewLineDropped
  <2>2. record' \in [thread : NodeId \cup {NULL}, alone : BOOLEAN, rest : Seq(Piece)]
    <3>1. record.rest \in Seq(Piece) /\ record.rest # << >>
      BY <2>1 DEF TakePiece, TypeOK
    <3>2. Tail(record.rest) \in Seq(Piece)
      BY <3>1
    <3>3. record' = [thread |-> record.thread, alone |-> record.alone, rest |-> Tail(record.rest)]
      BY <2>1 DEF TakePiece, TypeOK
    <3> QED
      BY <3>2, <3>3 DEF TypeOK
  <2>a. record.thread \in NodeId /\ (record'.rest # << >> => record'.thread \in NodeId)
    BY <2>1 DEF TakePiece, TypeOK
  <2>3. AfterPiece(p) \in [NodeId -> BOOLEAN]
    BY DEF AfterPiece, TypeOK
  <2>4. CASE EmptyPiece(p)
    BY <2>a, <2>2, <2>3, <2>4 DEF EmptyPiece, TypeOK, nodeVars, treeVars, NodeId
  <2>5. CASE ContinueLine(p)
    <3>1. cbTrace' \in [NodeId -> 0..MaxLogLen]
      <4>1. last \in NodeId /\ cbTrace[last] \in 0..MaxLogLen
        BY <2>a, <2>5 DEF ContinueLine, LineOpen, TypeOK
      <4>2. cbTrace[last] + p.len \in 0..MaxLogLen
        BY <2>0, <2>5, <4>1, ConstantsAssumption DEF ContinueLine, Fits
      <4> QED
        BY <2>5, <4>2 DEF ContinueLine, TypeOK
    <3> QED
      BY <2>a, <2>2, <2>3, <2>5, <3>1 DEF ContinueLine, TypeOK, nodeVars, treeVars
  <2>6. CASE NewLine(p)
    <3> DEFINE n == cNodes + 1
               t == record.thread
    <3>1. NewNode(n, "trace", t) /\ n \in NodeId /\ cNodes' \in 0..MaxNodes
      BY <2>6, NextSlot DEF NewLine
    <3>2. t \in NodeId
      BY <2>a
    <3>3. EnterParent(t) \in NodeId
      BY <3>2 DEF EnterParent, TypeOK
    <3>4. /\ kind' \in [NodeId -> Kinds]
          /\ thread' \in [NodeId -> NodeId \cup {NULL}]
      BY <3>1, <3>2 DEF NewNode, TypeOK, Kinds
    <3>5. /\ parent' \in [NodeId -> NodeId \cup {NULL}]
          /\ latestTrace' \in [NodeId -> NodeId \cup {NULL}]
          /\ cbTrace' \in [NodeId -> 0..MaxLogLen]
          /\ hasNewLine' \in [NodeId -> BOOLEAN]
      BY <2>0, <2>3, <2>6, <3>1, <3>3 DEF NewLine, TypeOK
    <3> QED
      BY <2>a, <2>2, <2>6, <3>1, <3>4, <3>5 DEF NewLine, TypeOK
  <2>7. CASE NewLineDropped(p)
    BY <2>a, <2>2, <2>3, <2>7 DEF NewLineDropped, TypeOK, nodeVars, treeVars
  <2> QED
    BY <1>5, <2>4, <2>5, <2>6, <2>7 DEF PieceStep
<1>6. CASE UNCHANGED vars
  BY <1>6 DEF vars, nodeVars, treeVars, lineVars, TypeOK
<1> QED
  BY <1>1, <1>2, <1>3, <1>4, <1>5, <1>6 DEF Next

(* Every variable keeps its type: in particular curentFlow and peer never   *)
(* leave the nodes of the archive, and no line outgrows the buffer of        *)
(* MaxLogLen characters its readers copy it to.                            *)
THEOREM TypeCorrect == Spec => []TypeOK
  BY InitTypeOK, StepTypeOK, PTL DEF Spec

-----------------------------------------------------------------------------
(* IInv is inductive.  One lemma per action; the lemmas share the facts of  *)
(* the next two.                                                           *)

LEMMA InitIInv == Init => IInv
<1> SUFFICES ASSUME Init PROVE IInv
  OBVIOUS
<1>1. TypeOK
  BY InitTypeOK
<1>2. SlotsInOrder
  BY NodeIds, ConstantsAssumption DEF Init, SlotsInOrder, NodeId
<1>3. Threads = {} /\ FlowNodes = {} /\ Traces = {}
  BY DEF Init, Threads, FlowNodes, Traces
<1>4. RecordOfThread
  BY DEF Init, RecordOfThread, Idle
<1> QED
  BY <1>1, <1>2, <1>3, <1>4
  DEF IInv, Init, ThreadNodes, PathsInThread, LinesOfThread, PeersMatch,
      TreeWellFormed, CurrentFlowInTree

(* A thread node, seen from the action that logs into it.                   *)
LEMMA ThreadFacts ==
  ASSUME IInv, NEW t \in Threads
  PROVE  /\ t \in 1..cNodes
         /\ t \in NodeId
         /\ thread[t] = t
         /\ kind[t] = "thread"
         /\ cNodes \in Nat
         /\ curentFlow[t] # NULL =>
              /\ curentFlow[t] \in NodeId
              /\ curentFlow[t] \in 1..cNodes
              /\ thread[curentFlow[t]] = t
              /\ kind[curentFlow[t]] \in {"enter", "exit"}
  BY DEF IInv, TypeOK, Threads, FlowNodes, SlotsInOrder, ThreadNodes, CurrentFlowInTree, NodeId, NULL

(* A used slot is a thread, flow or trace node; an unused one is blank.      *)
LEMMA SlotFacts ==
  ASSUME IInv, NEW m \in NodeId
  PROVE  /\ m \in Nat /\ m >= 1 /\ cNodes \in Nat
         /\ m <= cNodes <=> kind[m] # "free"
         /\ kind[m] \in Kinds
         /\ m > cNodes => /\ peer[m] = NULL /\ parent[m] = NULL /\ path[m] = {}
                          /\ curentFlow[m] = NULL /\ latestTrace[m] = NULL
         /\ m <= cNodes => /\ thread[m] \in 1..m /\ thread[m] \in NodeId
                           /\ kind[thread[m]] = "thread"
<1>1. m \in Nat /\ m >= 1 /\ cNodes \in Nat
  BY ConstantsAssumption DEF IInv, TypeOK, NodeId
<1>2. m <= cNodes /\ thread[m] \in 1..m => thread[m] \in NodeId
  BY <1>1, ConstantsAssumption DEF NodeId, IInv, TypeOK
<1>3. kind[m] \in Kinds
  BY DEF IInv, TypeOK
<1>4. CASE m <= cNodes
  BY <1>1, <1>2, <1>3, <1>4 DEF IInv, SlotsInOrder
<1>5. CASE m > cNodes
  BY <1>1, <1>3, <1>5 DEF IInv, SlotsInOrder
<1> QED
  BY <1>1, <1>4, <1>5

(* Links lead to nodes in use, and parent links back in time.               *)
LEMMA LinkFacts ==
  ASSUME IInv, NEW m \in NodeId
  PROVE  /\ parent[m] # NULL => /\ parent[m] \in NodeId
                                /\ parent[m] < m /\ parent[m] <= cNodes
                                /\ m \in FlowNodes \cup Traces
         /\ peer[m] # NULL => peer[m] \in NodeId /\ peer[m] <= cNodes
<1>1. ASSUME peer[m] # NULL PROVE peer[m] \in NodeId /\ peer[m] <= cNodes
  <2>1. peer[m] \in NodeId
    BY <1>1 DEF IInv, TypeOK
  <2>2. peer[peer[m]] # NULL
    BY <1>1, NodeIds DEF IInv, PeersMatch
  <2> QED
    BY <2>1, <2>2, SlotFacts
<1>2. ASSUME parent[m] # NULL
      PROVE  /\ parent[m] \in NodeId /\ m \in FlowNodes \cup Traces
             /\ parent[m] < m /\ parent[m] <= cNodes
  <2>1. parent[m] \in NodeId /\ m <= cNodes
    BY <1>2, SlotFacts DEF IInv, TypeOK
  <2>2. m \in FlowNodes \cup Traces
    BY <1>2, <2>1, SlotFacts DEF IInv, ThreadNodes, Threads, FlowNodes, Traces, Kinds
  <2>3. parent[m] \in 1..(m - 1)
    BY <1>2, <2>2 DEF IInv, TreeWellFormed
  <2> QED
    BY <2>1, <2>2, <2>3, SlotFacts
<1> QED
  BY <1>1, <1>2

(* SlotsInOrder after a step, slot by slot.                                  *)
LEMMA SlotsByCases ==
  ASSUME cNodes' \in Nat,
         ASSUME NEW m \in NodeId, m <= cNodes'
         PROVE  kind'[m] # "free" /\ thread'[m] \in 1..m /\ kind'[thread'[m]] = "thread",
         ASSUME NEW m \in NodeId, m > cNodes'
         PROVE  /\ kind'[m] = "free" /\ parent'[m] = NULL /\ peer'[m] = NULL
                /\ curentFlow'[m] = NULL /\ latestTrace'[m] = NULL /\ path'[m] = {}
  PROVE  SlotsInOrder'
<1>1. SUFFICES ASSUME NEW m \in NodeId
               PROVE  IF m <= cNodes'
                      THEN kind'[m] # "free" /\ thread'[m] \in 1..m /\ kind'[thread'[m]] = "thread"
                      ELSE /\ kind'[m] = "free" /\ parent'[m] = NULL /\ peer'[m] = NULL
                           /\ curentFlow'[m] = NULL /\ latestTrace'[m] = NULL /\ path'[m] = {}
  BY Zenon DEF SlotsInOrder
<1>2. m <= cNodes' \/ m > cNodes'
  BY NodeIds
<1>3. CASE m <= cNodes'
  BY <1>3, Zenon
<1>4. CASE ~(m <= cNodes')
  <2>1. m > cNodes'
    BY <1>2, <1>4
  <2> QED
    BY <1>4, <2>1, Zenon
<1> QED
  BY <1>3, <1>4

(* A path stays within the thread and goes back in time.                     *)
LEMMA PathFacts ==
  ASSUME IInv, NEW x \in NodeId, NEW m \in path[x]
  PROVE  /\ m \in NodeId /\ m <= x /\ x \in Nat
         /\ thread[m] = thread[x]
         /\ kind[m] \in {"thread", "enter", "exit"}
<1>1. m \in NodeId /\ x \in Nat
  <2>1. path \in [NodeId -> SUBSET NodeId]
    BY DEF IInv, TypeOK
  <2> QED
    BY <2>1, NodeIds
<1>2. PathsInThread
  BY DEF IInv
<1> QED
  BY <1>1, <1>2 DEF PathsInThread

(* A step that changes no peer, and nothing else of the nodes but the new n. *)
LEMMA PeersKept ==
  ASSUME IInv, NEW n \in NodeId, kind[n] = "free", peer' = peer,
         \A m \in NodeId \ {n} : kind'[m] = kind[m] /\ thread'[m] = thread[m] /\ fn'[m] = fn[m]
  PROVE  PeersMatch'
<1>1. PeersMatch
  BY DEF IInv
<1>2. SUFFICES ASSUME NEW m \in NodeId, peer[m] # NULL
               PROVE  /\ peer[m] # m /\ peer[peer[m]] = m
                      /\ kind'[m] = IF m < peer[m] THEN "enter" ELSE "exit"
                      /\ fn'[m] = fn'[peer[m]] /\ thread'[m] = thread'[peer[m]]
  BY Zenon DEF PeersMatch
<1>3. /\ peer[m] # m /\ peer[peer[m]] = m
      /\ kind[m] = IF m < peer[m] THEN "enter" ELSE "exit"
      /\ fn[m] = fn[peer[m]] /\ thread[m] = thread[peer[m]]
  BY <1>1, <1>2, Zenon DEF PeersMatch
<1>4. m # n /\ peer[m] # n /\ peer[m] \in NodeId
  <2>1. peer[n] = NULL
    BY SlotFacts
  <2> QED
    BY <1>2, <1>3, <2>1, LinkFacts, NodeIds
<1>5. /\ kind'[m] = kind[m] /\ thread'[m] = thread[m] /\ fn'[m] = fn[m]
      /\ thread'[peer[m]] = thread[peer[m]] /\ fn'[peer[m]] = fn[peer[m]]
  <2>1. m \in NodeId \ {n} /\ peer[m] \in NodeId \ {n}
    BY <1>4
  <2> QED
    BY <2>1, Zenon
<1> QED
  BY <1>3, <1>5, Zenon

(* A new node n of thread t, added as a flow node under the parent p.       *)
LEMMA AddedUnder ==
  ASSUME IInv, TypeOK', NEW t \in Threads, NEW k \in {"enter", "exit"},
         NEW n, NewNode(n, k, t), n = cNodes + 1,
         NEW p \in {t, curentFlow[t]}, p # NULL,
         NEW f, AddThreadChild(n, t, p), fn' = [fn EXCEPT ![n] = f],
         UNCHANGED <<peer, lineVars, record>>, record.rest = << >>
  PROVE  IInv'
<1> USE NodeIds
<1>1. n \in NodeId /\ cNodes' = n /\ n > cNodes /\ cNodes \in Nat /\ n \in Nat
  <2>1. TypeOK
    BY DEF IInv
  <2>2. n \in NodeId /\ cNodes' = n
    BY <2>1, NextSlot
  <2>3. cNodes \in Nat /\ n \in Nat
    BY <2>1, <2>2, ConstantsAssumption DEF TypeOK
  <2> QED
    BY <2>2, <2>3
<1>2. /\ p \in NodeId /\ p \in 1..cNodes /\ thread[p] = t
      /\ kind[p] \in {"thread", "enter", "exit"}
      /\ p # t => parent[p] # NULL
  BY ThreadFacts DEF IInv, CurrentFlowInTree
<1>a. p \in Nat /\ p < n
  <2>1. p \in 1..cNodes /\ cNodes \in Nat /\ n > cNodes /\ n \in Nat
    BY <1>1, <1>2, Zenon
  <2> QED
    BY <2>1
<1>3. /\ kind[n] = "free" /\ peer[n] = NULL
      /\ \A m \in NodeId : peer[m] # n /\ parent[m] # n
  BY <1>1, SlotFacts, LinkFacts
<1>4. /\ \A m \in NodeId \ {n} : kind'[m] = kind[m] /\ thread'[m] = thread[m]
                                /\ parent'[m] = parent[m] /\ path'[m] = path[m]
                                /\ fn'[m] = fn[m]
      /\ \A m \in NodeId \ {t} : curentFlow'[m] = curentFlow[m]
      /\ kind'[n] = k /\ thread'[n] = t /\ parent'[n] = p
      /\ path'[n] = {n} \cup path[p] /\ curentFlow'[t] = n
      /\ peer' = peer /\ latestTrace' = latestTrace /\ record' = record
  BY <1>1, ThreadFacts DEF NewNode, AddThreadChild, IInv, TypeOK, lineVars
<1>5. SlotsInOrder'
  <2>1. ASSUME NEW m \in NodeId, m <= cNodes'
        PROVE  kind'[m] # "free" /\ thread'[m] \in 1..m /\ kind'[thread'[m]] = "thread"
    <3>1. CASE m = n
      BY <1>1, <1>4, <3>1, ThreadFacts
    <3>2. CASE m # n
      <4>1. m <= cNodes
        BY <1>1, <2>1, <3>2, SlotFacts
      <4>2. kind[m] # "free" /\ thread[m] \in 1..m /\ thread[m] \in NodeId \ {n} /\ kind[thread[m]] = "thread"
        BY <1>3, <4>1, SlotFacts
      <4> QED
        BY <1>4, <3>2, <4>2
    <3> QED
      BY <3>1, <3>2
  <2>2. ASSUME NEW m \in NodeId, m > cNodes'
        PROVE  /\ kind'[m] = "free" /\ parent'[m] = NULL /\ peer'[m] = NULL
               /\ curentFlow'[m] = NULL /\ latestTrace'[m] = NULL /\ path'[m] = {}
    BY <1>1, <1>4, <2>2, SlotFacts, ThreadFacts
  <2> QED
    BY <1>1, <2>1, <2>2, SlotsByCases, Zenon
<1>6. Threads' = Threads /\ Traces' = Traces /\ FlowNodes' = FlowNodes \cup {n}
  BY <1>1, <1>3, <1>4 DEF Threads, Traces, FlowNodes
<1>7. ThreadNodes'
  <2>1. \A s \in Threads : s \in NodeId /\ s # n
    BY <1>3 DEF Threads
  <2> QED
    BY <1>4, <1>6, <2>1 DEF IInv, ThreadNodes
<1>8. PathsInThread'
  <2>1. ASSUME NEW m \in path[p]
        PROVE  m \in NodeId /\ m # n /\ m <= n /\ thread[m] = t /\ kind[m] \in {"thread", "enter", "exit"}
    <3>1. m \in NodeId /\ m <= p /\ thread[m] = thread[p] /\ kind[m] \in {"thread", "enter", "exit"}
      BY <1>2, <2>1, PathFacts
    <3>2. m \in Nat /\ m <= p /\ n \in Nat
      BY <1>1, <3>1
    <3>3. m <= n /\ m # n
      BY <1>a, <3>2
    <3> QED
      BY <1>2, <3>1, <3>3, Zenon
  <2>2. ASSUME NEW x \in NodeId, x # n, NEW m \in path[x]
        PROVE  m \in NodeId /\ m # n /\ m <= x /\ thread[m] = thread[x] /\ kind[m] \in {"thread", "enter", "exit"}
    BY <1>3, <2>2, PathFacts, SlotFacts
  <2>3. ASSUME NEW x \in NodeId, NEW m \in path'[x]
        PROVE  m <= x /\ thread'[m] = thread'[x] /\ kind'[m] \in {"thread", "enter", "exit"}
    <3>1. CASE x = n /\ m = n
      BY <1>1, <1>4, <3>1
    <3>2. CASE x = n /\ m # n
      <4>1. m \in path[p]
        BY <1>4, <2>3, <3>2
      <4> QED
        BY <1>4, <2>1, <3>2, <4>1
    <3>3. CASE x # n
      <4>1. x \in NodeId \ {n} /\ m \in path[x]
        BY <1>4, <2>3, <3>3
      <4>2. m \in NodeId \ {n} /\ m <= x /\ thread[m] = thread[x] /\ kind[m] \in {"thread", "enter", "exit"}
        BY <2>2, <4>1
      <4> QED
        BY <1>4, <4>1, <4>2, Zenon
    <3> QED
      BY <3>1, <3>2, <3>3
  <2> QED
    BY <2>3, Zenon DEF PathsInThread
<1>9. LinesOfThread' /\ RecordOfThread'
  <2>1. ASSUME NEW s \in Threads, latestTrace[s] # NULL
        PROVE  latestTrace[s] \in Traces /\ latestTrace[s] \in NodeId \ {n} /\ thread[latestTrace[s]] = s
    BY <1>3, <2>1 DEF IInv, LinesOfThread, Traces
  <2>2. RecordOfThread
    BY DEF IInv
  <2>3. RecordOfThread'
    BY <1>4, <1>6, <2>2, Zenon DEF RecordOfThread
  <2>4. ASSUME NEW s \in Threads, latestTrace'[s] # NULL
        PROVE  latestTrace'[s] \in Traces' /\ thread'[latestTrace'[s]] = s
    <3>1. latestTrace'[s] = latestTrace[s] /\ latestTrace[s] # NULL
      BY <1>4, <2>4, Zenon
    <3> QED
      BY <1>4, <1>6, <2>1, <3>1, Zenon
  <2> QED
    BY <1>6, <2>3, <2>4, Zenon DEF LinesOfThread
<1>10. PeersMatch'
  BY <1>1, <1>3, <1>4, PeersKept
<1>11. TreeWellFormed'
  <2>1. kind'[p] = kind[p] /\ thread'[p] = t /\ parent'[p] = parent[p] /\ p \in 1..(n - 1)
    BY <1>1, <1>2, <1>4
  <2>2. ASSUME NEW m \in FlowNodes \cup Traces
        PROVE  m \in NodeId /\ m # n /\ (parent[m] # NULL => parent[m] \in NodeId /\ parent[m] # n)
    BY <1>3, <2>2 DEF FlowNodes, Traces, IInv, TypeOK
  <2>3. ASSUME NEW m \in FlowNodes \cup Traces
        PROVE  IF kind'[m] = "exit" /\ peer'[m] # NULL THEN parent'[m] = NULL
               ELSE /\ parent'[m] \in 1..(m - 1)
                    /\ thread'[parent'[m]] = thread'[m]
                    /\ kind'[parent'[m]] # "trace"
                    /\ parent'[m] # thread'[m] => parent'[parent'[m]] # NULL
    <3>1. IF kind[m] = "exit" /\ peer[m] # NULL THEN parent[m] = NULL
          ELSE /\ parent[m] \in 1..(m - 1)
               /\ thread[parent[m]] = thread[m]
               /\ kind[parent[m]] # "trace"
               /\ parent[m] # thread[m] => parent[parent[m]] # NULL
      BY <2>3 DEF IInv, TreeWellFormed
    <3>2. CASE parent[m] = NULL
      BY <1>4, <2>2, <3>1, <3>2 DEF NULL
    <3>3. CASE parent[m] # NULL
      <4>1. /\ kind'[m] = kind[m] /\ thread'[m] = thread[m] /\ parent'[m] = parent[m]
            /\ kind'[parent[m]] = kind[parent[m]] /\ thread'[parent[m]] = thread[parent[m]]
            /\ parent'[parent[m]] = parent[parent[m]]
        BY <1>4, <2>2, <3>3
      <4> QED
        BY <1>4, <3>1, <3>3, <4>1
    <3> QED
      BY <3>2, <3>3
  <2>4. kind'[n] = k /\ peer'[n] = NULL /\ parent'[n] = p /\ thread'[n] = t
    BY <1>3, <1>4
  <2>5. ASSUME NEW m \in FlowNodes' \cup Traces'
        PROVE  IF kind'[m] = "exit" /\ peer'[m] # NULL THEN parent'[m] = NULL
               ELSE /\ parent'[m] \in 1..(m - 1)
                    /\ thread'[parent'[m]] = thread'[m]
                    /\ kind'[parent'[m]] # "trace"
                    /\ parent'[m] # thread'[m] => parent'[parent'[m]] # NULL
    <3>1. CASE m = n
      BY <1>2, <2>1, <2>4, <3>1
    <3>2. CASE m # n
      <4>1. m \in FlowNodes \cup Traces
        BY <1>6, <3>2
      <4> QED
        BY <2>3, <4>1, Zenon
    <3> QED
      BY <3>1, <3>2
  <2> QED
    BY <2>5, Zenon DEF TreeWellFormed
<1>12. CurrentFlowInTree'
  <2>1. ASSUME NEW s \in Threads, s # t, curentFlow[s] # NULL
        PROVE  /\ curentFlow'[s] = curentFlow[s] /\ curentFlow[s] \in FlowNodes
               /\ curentFlow[s] \in NodeId /\ curentFlow[s] # n
               /\ thread[curentFlow[s]] = s /\ parent[curentFlow[s]] # NULL
    BY <1>3, <1>4, <2>1 DEF IInv, CurrentFlowInTree, FlowNodes, Threads
  <2>2. \A s \in Threads : s \in NodeId
    BY DEF Threads
  <2>3. ASSUME NEW s \in Threads, curentFlow'[s] # NULL
        PROVE  /\ curentFlow'[s] \in FlowNodes'
               /\ thread'[curentFlow'[s]] = s /\ parent'[curentFlow'[s]] # NULL
    <3>1. CASE s = t
      BY <1>4, <1>6, <3>1
    <3>2. CASE s # t
      <4>1. curentFlow'[s] = curentFlow[s] /\ curentFlow[s] # NULL
        BY <1>4, <2>2, <2>3, <3>2
      <4>2. /\ curentFlow[s] \in FlowNodes' /\ curentFlow[s] \in NodeId \ {n}
            /\ thread[curentFlow[s]] = s /\ parent[curentFlow[s]] # NULL
        BY <1>6, <2>1, <3>2, <4>1
      <4>3. thread'[curentFlow[s]] = s /\ parent'[curentFlow[s]] # NULL
        BY <1>4, <4>2, Zenon
      <4> QED
        BY <4>1, <4>2, <4>3, Zenon
    <3> QED
      BY <3>1, <3>2
  <2> QED
    BY <1>6, <2>3, Zenon DEF CurrentFlowInTree
<1> QED
  BY <1>5, <1>7, <1>8, <1>9, <1>10, <1>11, <1>12, Zenon DEF IInv

LEMMA EnterIInv ==
  ASSUME IInv, TypeOK', NEW t \in Threads, NEW f \in Fns, Enter(t, f)
  PROVE  IInv'
<1> DEFINE n == cNodes + 1
           p == EnterParent(t)
<1>1. /\ NewNode(n, "enter", t) /\ AddThreadChild(n, t, p)
      /\ fn' = [fn EXCEPT ![n] = f]
      /\ UNCHANGED <<peer, lineVars, record>> /\ record.rest = << >>
  BY DEF Enter
<1>2. p \in {t, curentFlow[t]} /\ p # NULL
  BY ThreadFacts, NodeIds DEF EnterParent
<1>3. n \in NodeId
  BY <1>1, NextSlot DEF IInv
<1>4. n = cNodes + 1 /\ "enter" \in {"enter", "exit"}
  OBVIOUS
<1> HIDE DEF p, n
<1> QED
  BY <1>1, <1>2, <1>4, AddedUnder, Zenon

LEMMA ExitUnpairedIInv ==
  ASSUME IInv, TypeOK', NEW t \in Threads, NEW f \in Fns, ExitUnpaired(t, f)
  PROVE  IInv'
<1> DEFINE n == cNodes + 1
<1>1. PICK p \in ExitParents(t) : AddThreadChild(n, t, p)
  BY DEF ExitUnpaired
<1>2. /\ NewNode(n, "exit", t)
      /\ fn' = [fn EXCEPT ![n] = f]
      /\ UNCHANGED <<peer, lineVars, record>> /\ record.rest = << >>
  BY DEF ExitUnpaired
<1>3. p \in {t, curentFlow[t]} /\ p # NULL
  BY <1>1, ThreadFacts, NodeIds DEF ExitParents
<1>4. n = cNodes + 1 /\ "exit" \in {"enter", "exit"}
  OBVIOUS
<1> HIDE DEF n
<1> QED
  BY <1>1, <1>2, <1>3, <1>4, AddedUnder, Zenon

(* The step that pairs: m is open, of the same function, on the path from   *)
(* curentFlow, hence a flow node of the thread; its partner n is new.       *)
LEMMA ExitPairedIInv ==
  ASSUME IInv, TypeOK', NEW t \in Threads, NEW f \in Fns, ExitPaired(t, f)
  PROVE  IInv'
<1> USE NodeIds
<1> DEFINE n == cNodes + 1
<1>1. PICK m \in Matches(t, f) : PairWith(m, n, t)
  BY DEF ExitPaired
<1>2. /\ NewNode(n, "exit", t) /\ fn' = [fn EXCEPT ![n] = f]
      /\ UNCHANGED <<lineVars, record>> /\ record.rest = << >>
      /\ n \in NodeId /\ cNodes' = n /\ n \in Nat /\ n > cNodes /\ cNodes \in Nat
  <2>1. /\ NewNode(n, "exit", t) /\ fn' = [fn EXCEPT ![n] = f]
        /\ UNCHANGED <<lineVars, record>> /\ record.rest = << >>
    BY DEF ExitPaired
  <2>2. n \in NodeId /\ cNodes' = n
    BY <2>1, NextSlot DEF IInv
  <2>3. cNodes \in Nat
    BY ConstantsAssumption DEF IInv, TypeOK
  <2> QED
    BY <2>1, <2>2, <2>3
<1>3. /\ m \in NodeId /\ m # n /\ m <= cNodes
      /\ kind[m] = "enter" /\ peer[m] = NULL /\ fn[m] = f /\ thread[m] = t
      /\ parent[m] # NULL
  <2>1. curentFlow[t] # NULL /\ m \in path[curentFlow[t]] /\ IsOpenEnter(m) /\ fn[m] = f
    BY <1>1 DEF Matches
  <2>2. m \in NodeId /\ thread[m] = t
    BY <2>1, ThreadFacts, PathFacts
  <2>3. parent[m] # NULL
    <3>1. m \in FlowNodes /\ ~(kind[m] = "exit" /\ peer[m] # NULL)
      BY <2>1, <2>2 DEF FlowNodes, IsOpenEnter
    <3>2. parent[m] \in 1..(m - 1)
      BY <3>1 DEF IInv, TreeWellFormed
    <3> QED
      BY <3>2 DEF NULL
  <2> QED
    BY <1>2, <2>1, <2>2, <2>3, SlotFacts DEF IsOpenEnter
<1>4. /\ kind[n] = "free" /\ peer[n] = NULL /\ parent[n] = NULL /\ path[n] = {}
      /\ \A x \in NodeId : peer[x] # n /\ parent[x] # n /\ peer[x] # m
  <2>1. \A x \in NodeId : peer[x] # m
    BY <1>3 DEF IInv, PeersMatch
  <2> QED
    BY <1>2, <2>1, SlotFacts, LinkFacts
<1>5. /\ \A x \in NodeId \ {n} : kind'[x] = kind[x] /\ thread'[x] = thread[x] /\ fn'[x] = fn[x]
      /\ \A x \in NodeId \ {m, n} : peer'[x] = peer[x]
      /\ \A x \in NodeId \ {t} : curentFlow'[x] = curentFlow[x]
      /\ kind'[n] = "exit" /\ thread'[n] = t /\ fn'[n] = f
      /\ peer'[m] = n /\ peer'[n] = m
      /\ curentFlow'[t] = IF parent[m] # t THEN parent[m] ELSE curentFlow[t]
      /\ parent' = parent /\ path' = path /\ latestTrace' = latestTrace /\ record' = record
  <2>1. /\ \A x \in NodeId \ {n} : kind'[x] = kind[x] /\ thread'[x] = thread[x] /\ fn'[x] = fn[x]
        /\ kind'[n] = "exit" /\ thread'[n] = t /\ fn'[n] = f
    BY <1>2 DEF NewNode, IInv, TypeOK
  <2>2. /\ \A x \in NodeId \ {m, n} : peer'[x] = peer[x]
        /\ peer'[m] = n /\ peer'[n] = m
    BY <1>1, <1>2, <1>3 DEF PairWith, IInv, TypeOK
  <2>3. /\ \A x \in NodeId \ {t} : curentFlow'[x] = curentFlow[x]
        /\ curentFlow'[t] = IF parent[m] # t THEN parent[m] ELSE curentFlow[t]
    BY <1>1, ThreadFacts DEF PairWith, IInv, TypeOK
  <2>4. parent' = parent /\ path' = path /\ latestTrace' = latestTrace /\ record' = record
    BY <1>1, <1>2 DEF PairWith, lineVars
  <2> QED
    BY <2>1, <2>2, <2>3, <2>4
<1>6. Threads' = Threads /\ Traces' = Traces /\ FlowNodes' = FlowNodes \cup {n}
  BY <1>2, <1>4, <1>5 DEF Threads, Traces, FlowNodes
<1>7. SlotsInOrder'
  <2>1. ASSUME NEW x \in NodeId, x <= cNodes'
        PROVE  kind'[x] # "free" /\ thread'[x] \in 1..x /\ kind'[thread'[x]] = "thread"
    <3>1. CASE x = n
      BY <1>2, <1>4, <1>5, <3>1, ThreadFacts
    <3>2. CASE x # n
      <4>1. x <= cNodes
        BY <1>2, <2>1, <3>2, SlotFacts
      <4>2. kind[x] # "free" /\ thread[x] \in 1..x /\ thread[x] \in NodeId \ {n} /\ kind[thread[x]] = "thread"
        BY <1>4, <4>1, SlotFacts
      <4>3. kind'[x] = kind[x] /\ thread'[x] = thread[x]
        BY <1>5, <3>2
      <4>4. kind'[thread[x]] = kind[thread[x]]
        BY <1>5, <4>2
      <4> QED
        BY <4>2, <4>3, <4>4, Zenon
    <3> QED
      BY <3>1, <3>2
  <2>2. ASSUME NEW x \in NodeId, x > cNodes'
        PROVE  /\ kind'[x] = "free" /\ parent'[x] = NULL /\ peer'[x] = NULL
               /\ curentFlow'[x] = NULL /\ latestTrace'[x] = NULL /\ path'[x] = {}
    <3>1. x \in Nat /\ m \in Nat /\ t \in Nat /\ t <= cNodes /\ m <= cNodes
      <4>1. t \in 1..cNodes
        BY ThreadFacts, Zenon
      <4>2. m \in NodeId /\ m <= cNodes /\ cNodes \in Nat
        BY <1>2, <1>3, Zenon
      <4> QED
        BY <4>1, <4>2
    <3>2. x > cNodes /\ x # n /\ x # m /\ x # t
      <4>1. x > n /\ n > cNodes /\ n \in Nat /\ cNodes \in Nat
        BY <1>2, <2>2, Zenon
      <4> QED
        BY <3>1, <4>1
    <3>3. /\ kind[x] = "free" /\ parent[x] = NULL /\ peer[x] = NULL
          /\ curentFlow[x] = NULL /\ latestTrace[x] = NULL /\ path[x] = {}
      <4>1. ~(x <= cNodes)
        BY <1>2, <3>1, <3>2
      <4> QED
        BY <3>2, <4>1, SlotFacts, Zenon
    <3>4. /\ kind'[x] = kind[x] /\ peer'[x] = peer[x] /\ curentFlow'[x] = curentFlow[x]
      BY <1>5, <3>2
    <3> QED
      BY <1>5, <3>3, <3>4, Zenon
  <2> QED
    BY <1>2, <2>1, <2>2, SlotsByCases, Zenon
<1>8. ThreadNodes'
  <2>1. \A s \in Threads : s \in NodeId /\ s # n /\ s # m
    BY <1>3, <1>4 DEF Threads
  <2>2. \A s \in Threads : thread[s] = s /\ peer[s] = NULL /\ parent[s] = NULL
    BY DEF IInv, ThreadNodes
  <2>3. \A s \in Threads : thread'[s] = thread[s] /\ peer'[s] = peer[s] /\ parent'[s] = parent[s]
    BY <1>5, <2>1
  <2> QED
    BY <1>6, <2>2, <2>3, Zenon DEF ThreadNodes
<1>9. PathsInThread'
  <2>1. ASSUME NEW x \in NodeId, NEW y \in path[x]
        PROVE  /\ y \in NodeId /\ x # n /\ y # n
               /\ y <= x /\ thread[y] = thread[x] /\ kind[y] \in {"thread", "enter", "exit"}
    BY <1>4, <2>1, PathFacts, SlotFacts
  <2>2. ASSUME NEW x \in NodeId, NEW y \in path'[x]
        PROVE  y <= x /\ thread'[y] = thread'[x] /\ kind'[y] \in {"thread", "enter", "exit"}
    <3>1. y \in path[x]
      BY <1>5, <2>2, Zenon
    <3>2. /\ x \in NodeId \ {n} /\ y \in NodeId \ {n}
          /\ y <= x /\ thread[y] = thread[x] /\ kind[y] \in {"thread", "enter", "exit"}
      BY <2>1, <3>1
    <3> QED
      BY <1>5, <3>2, Zenon
  <2> QED
    BY <2>2, Zenon DEF PathsInThread
<1>10. LinesOfThread' /\ RecordOfThread'
  <2>1. ASSUME NEW s \in Threads, latestTrace[s] # NULL
        PROVE  latestTrace[s] \in Traces /\ latestTrace[s] \in NodeId \ {n} /\ thread[latestTrace[s]] = s
    BY <1>4, <2>1 DEF IInv, LinesOfThread, Traces
  <2> QED
    BY <1>5, <1>6, <2>1 DEF IInv, LinesOfThread, RecordOfThread
<1>11. PeersMatch'
  <2>1. ASSUME NEW x \in NodeId, x # m, x # n, peer[x] # NULL
        PROVE  /\ peer[x] \in NodeId /\ peer[x] # n /\ peer[x] # m
               /\ peer[x] # x /\ peer[peer[x]] = x
               /\ kind[x] = IF x < peer[x] THEN "enter" ELSE "exit"
               /\ fn[x] = fn[peer[x]] /\ thread[x] = thread[peer[x]]
    BY <1>4, <2>1, LinkFacts DEF IInv, PeersMatch
  <2>2. m < n /\ ~(n < m)
    BY <1>2, <1>3, SlotFacts
  <2>3. ASSUME NEW x \in NodeId, peer'[x] # NULL
        PROVE  /\ peer'[x] # x /\ peer'[peer'[x]] = x
               /\ kind'[x] = IF x < peer'[x] THEN "enter" ELSE "exit"
               /\ fn'[x] = fn'[peer'[x]] /\ thread'[x] = thread'[peer'[x]]
    <3>1. CASE x = m
      BY <1>2, <1>3, <1>5, <2>2, <3>1
    <3>2. CASE x = n
      BY <1>2, <1>3, <1>5, <2>2, <3>2
    <3>3. CASE x # m /\ x # n
      <4>1. peer'[x] = peer[x] /\ peer[x] # NULL
        BY <1>5, <2>3, <3>3
      <4>2. /\ peer'[peer[x]] = peer[peer[x]] /\ kind'[x] = kind[x]
            /\ fn'[x] = fn[x] /\ fn'[peer[x]] = fn[peer[x]]
            /\ thread'[x] = thread[x] /\ thread'[peer[x]] = thread[peer[x]]
        BY <1>5, <2>1, <3>3, <4>1
      <4> QED
        BY <2>1, <3>3, <4>1, <4>2
    <3> QED
      BY <3>1, <3>2, <3>3
  <2> QED
    BY <2>3 DEF PeersMatch
<1>12. TreeWellFormed'
  <2>1. ASSUME NEW x \in FlowNodes \cup Traces
        PROVE  IF kind'[x] = "exit" /\ peer'[x] # NULL THEN parent'[x] = NULL
               ELSE /\ parent'[x] \in 1..(x - 1)
                    /\ thread'[parent'[x]] = thread'[x]
                    /\ kind'[parent'[x]] # "trace"
                    /\ parent'[x] # thread'[x] => parent'[parent'[x]] # NULL
    <3>1. IF kind[x] = "exit" /\ peer[x] # NULL THEN parent[x] = NULL
          ELSE /\ parent[x] \in 1..(x - 1)
               /\ thread[parent[x]] = thread[x]
               /\ kind[parent[x]] # "trace"
               /\ parent[x] # thread[x] => parent[parent[x]] # NULL
      BY <2>1 DEF IInv, TreeWellFormed
    <3>2. x \in NodeId /\ x # n
      BY <1>4, <2>1 DEF FlowNodes, Traces
    <3>3. kind'[x] = "exit" /\ peer'[x] # NULL <=> kind[x] = "exit" /\ peer[x] # NULL
      BY <1>3, <1>5, <3>2
    <3>4. CASE parent[x] = NULL
      BY <1>5, <3>1, <3>3, <3>4 DEF NULL
    <3>5. CASE parent[x] # NULL
      <4>1. parent[x] \in NodeId \ {n}
        BY <1>4, <3>2, <3>5, LinkFacts
      <4>2. kind'[parent[x]] = kind[parent[x]] /\ thread'[parent[x]] = thread[parent[x]] /\ thread'[x] = thread[x]
        BY <1>5, <3>2, <4>1
      <4> QED
        BY <1>5, <3>1, <3>3, <3>5, <4>2
    <3> QED
      BY <3>4, <3>5
  <2> QED
    BY <1>3, <1>4, <1>5, <1>6, <2>1 DEF TreeWellFormed
<1>13. CurrentFlowInTree'
  <2>1. ASSUME NEW s \in Threads, s # t, curentFlow[s] # NULL
        PROVE  /\ curentFlow'[s] = curentFlow[s] /\ curentFlow[s] \in FlowNodes
               /\ curentFlow[s] \in NodeId \ {n}
               /\ thread[curentFlow[s]] = s /\ parent[curentFlow[s]] # NULL
    BY <1>4, <1>5, <2>1 DEF IInv, CurrentFlowInTree, FlowNodes, Threads
  <2>2. /\ curentFlow'[t] \in FlowNodes /\ curentFlow'[t] \in NodeId \ {n}
        /\ thread[curentFlow'[t]] = t /\ parent[curentFlow'[t]] # NULL
    <3>1. CASE parent[m] = t
      <4>1. curentFlow[t] # NULL
        BY <1>1 DEF Matches
      <4> QED
        BY <1>4, <1>5, <3>1, <4>1 DEF IInv, CurrentFlowInTree, FlowNodes
    <3>2. CASE parent[m] # t
      <4>1. m \in FlowNodes /\ ~(kind[m] = "exit" /\ peer[m] # NULL)
        BY <1>3 DEF FlowNodes
      <4>2. /\ parent[m] \in NodeId /\ thread[parent[m]] = t /\ kind[parent[m]] # "trace"
            /\ parent[parent[m]] # NULL /\ parent[m] <= cNodes
        BY <1>3, <3>2, <4>1, LinkFacts DEF IInv, TreeWellFormed
      <4>3. kind[parent[m]] \in {"enter", "exit"}
        BY <4>2, SlotFacts DEF IInv, ThreadNodes, Threads, Kinds
      <4> QED
        BY <1>4, <1>5, <3>2, <4>2, <4>3 DEF FlowNodes
    <3> QED
      BY <3>1, <3>2
  <2>3. \A s \in Threads : s \in NodeId
    BY DEF Threads
  <2>4. ASSUME NEW s \in Threads, curentFlow'[s] # NULL
        PROVE  /\ curentFlow'[s] \in FlowNodes \cup {n}
               /\ thread'[curentFlow'[s]] = s /\ parent'[curentFlow'[s]] # NULL
    <3>1. CASE s = t
      BY <1>5, <2>2, <3>1
    <3>2. CASE s # t
      <4>1. curentFlow'[s] = curentFlow[s] /\ curentFlow[s] # NULL
        BY <1>5, <2>3, <2>4, <3>2
      <4> QED
        <5>1. /\ curentFlow[s] \in FlowNodes /\ curentFlow[s] \in NodeId \ {n}
              /\ thread[curentFlow[s]] = s /\ parent[curentFlow[s]] # NULL
          BY <2>1, <3>2, <4>1
        <5>2. thread'[curentFlow[s]] = s /\ parent'[curentFlow[s]] # NULL
          BY <1>5, <5>1
        <5> QED
          BY <4>1, <5>1, <5>2
    <3> QED
      BY <3>1, <3>2
  <2> QED
    BY <1>6, <2>4 DEF CurrentFlowInTree
<1> QED
  BY <1>7, <1>8, <1>9, <1>10, <1>11, <1>12, <1>13 DEF IInv

LEMMA AddThreadIInv ==
  ASSUME IInv, TypeOK', AddThread
  PROVE  IInv'
<1> USE NodeIds
<1> DEFINE n == cNodes + 1
<1>1. /\ NewNode(n, "thread", n) /\ path' = [path EXCEPT ![n] = {n}]
      /\ UNCHANGED <<fn, parent, peer, childCount, curentFlow, lineVars, record>>
      /\ record.rest = << >>
  BY DEF AddThread
<1>2. n \in NodeId /\ cNodes' = n /\ n \in Nat /\ n > cNodes /\ cNodes \in Nat
  <2>1. n \in NodeId /\ cNodes' = n
    BY <1>1, NextSlot DEF IInv
  <2>2. cNodes \in Nat
    BY ConstantsAssumption DEF IInv, TypeOK
  <2> QED
    BY <2>1, <2>2
<1>3. /\ kind[n] = "free" /\ peer[n] = NULL /\ parent[n] = NULL
      /\ curentFlow[n] = NULL /\ latestTrace[n] = NULL
      /\ \A x \in NodeId : peer[x] # n /\ parent[x] # n
  BY <1>2, SlotFacts, LinkFacts
<1>4. /\ \A x \in NodeId \ {n} : kind'[x] = kind[x] /\ thread'[x] = thread[x] /\ path'[x] = path[x]
      /\ kind'[n] = "thread" /\ thread'[n] = n /\ path'[n] = {n}
      /\ fn' = fn /\ parent' = parent /\ peer' = peer /\ curentFlow' = curentFlow
      /\ latestTrace' = latestTrace /\ record' = record
  BY <1>1, <1>2 DEF NewNode, IInv, TypeOK, lineVars
<1>5. Threads' = Threads \cup {n} /\ Traces' = Traces /\ FlowNodes' = FlowNodes
  BY <1>2, <1>3, <1>4 DEF Threads, Traces, FlowNodes
<1>6. SlotsInOrder'
  <2>1. ASSUME NEW x \in NodeId, x <= cNodes'
        PROVE  kind'[x] # "free" /\ thread'[x] \in 1..x /\ kind'[thread'[x]] = "thread"
    <3>1. CASE x = n
      BY <1>2, <1>4, <3>1
    <3>2. CASE x # n
      <4>1. x <= cNodes
        <5>1. x \in Nat
          OBVIOUS
        <5>2. cNodes' = n /\ n = cNodes + 1 /\ cNodes \in Nat
          BY <1>2
        <5> QED
          BY <2>1, <3>2, <5>1, <5>2
      <4>2. kind[x] # "free" /\ thread[x] \in 1..x /\ thread[x] \in NodeId \ {n} /\ kind[thread[x]] = "thread"
        BY <1>3, <4>1, SlotFacts
      <4> QED
        BY <1>4, <3>2, <4>2
    <3> QED
      BY <3>1, <3>2
  <2>2. ASSUME NEW x \in NodeId, x > cNodes'
        PROVE  /\ kind'[x] = "free" /\ parent'[x] = NULL /\ peer'[x] = NULL
               /\ curentFlow'[x] = NULL /\ latestTrace'[x] = NULL /\ path'[x] = {}
    <3>1. x > cNodes /\ ~(x <= cNodes) /\ x # n
      <4>1. x \in Nat /\ cNodes \in Nat /\ x > n /\ n > cNodes
        BY <1>2, <2>2
      <4> QED
        BY <4>1
    <3>2. /\ kind[x] = "free" /\ parent[x] = NULL /\ peer[x] = NULL
          /\ curentFlow[x] = NULL /\ latestTrace[x] = NULL /\ path[x] = {}
      BY <3>1, SlotFacts, Zenon
    <3>3. kind'[x] = kind[x] /\ path'[x] = path[x]
      BY <1>4, <3>1
    <3> QED
      BY <1>4, <3>2, <3>3
  <2> QED
    BY <1>2, <2>1, <2>2, SlotsByCases, Zenon
<1>7. ThreadNodes'
  <2>1. \A s \in Threads : s \in NodeId /\ s # n
    BY <1>3 DEF Threads
  <2> QED
    BY <1>3, <1>4, <1>5, <2>1 DEF IInv, ThreadNodes
<1>8. PathsInThread'
  <2>1. ASSUME NEW x \in NodeId, x # n, NEW y \in path[x]
        PROVE  /\ y \in NodeId /\ y # n
               /\ y <= x /\ thread[y] = thread[x] /\ kind[y] \in {"thread", "enter", "exit"}
    BY <1>3, <2>1, PathFacts, SlotFacts
  <2> QED
    <3>1. ASSUME NEW x \in NodeId, NEW y \in path'[x]
          PROVE  y <= x /\ thread'[y] = thread'[x] /\ kind'[y] \in {"thread", "enter", "exit"}
      <4>1. CASE x = n
        BY <1>2, <1>4, <3>1, <4>1
      <4>2. CASE x # n
        <5>1. x \in NodeId \ {n} /\ y \in path[x]
          BY <1>4, <3>1, <4>2
        <5>2. /\ y \in NodeId \ {n}
              /\ y <= x /\ thread[y] = thread[x] /\ kind[y] \in {"thread", "enter", "exit"}
          BY <2>1, <5>1
        <5> QED
          BY <1>4, <5>1, <5>2, Zenon
      <4> QED
        BY <4>1, <4>2
    <3> QED
      BY <3>1 DEF PathsInThread
<1>9. LinesOfThread' /\ RecordOfThread'
  <2>1. ASSUME NEW s \in Threads, latestTrace[s] # NULL
        PROVE  latestTrace[s] \in Traces /\ latestTrace[s] \in NodeId \ {n} /\ thread[latestTrace[s]] = s
    BY <1>3, <2>1 DEF IInv, LinesOfThread, Traces
  <2> QED
    BY <1>3, <1>4, <1>5, <2>1 DEF IInv, LinesOfThread, RecordOfThread
<1>10. PeersMatch'
  BY <1>2, <1>3, <1>4, PeersKept
<1>11. TreeWellFormed'
  <2>1. ASSUME NEW x \in FlowNodes \cup Traces
        PROVE  IF kind'[x] = "exit" /\ peer'[x] # NULL THEN parent'[x] = NULL
               ELSE /\ parent'[x] \in 1..(x - 1)
                    /\ thread'[parent'[x]] = thread'[x]
                    /\ kind'[parent'[x]] # "trace"
                    /\ parent'[x] # thread'[x] => parent'[parent'[x]] # NULL
    <3>1. IF kind[x] = "exit" /\ peer[x] # NULL THEN parent[x] = NULL
          ELSE /\ parent[x] \in 1..(x - 1)
               /\ thread[parent[x]] = thread[x]
               /\ kind[parent[x]] # "trace"
               /\ parent[x] # thread[x] => parent[parent[x]] # NULL
      BY <2>1 DEF IInv, TreeWellFormed
    <3>2. x \in NodeId /\ x # n
      BY <1>3, <2>1 DEF FlowNodes, Traces
    <3>3. CASE parent[x] = NULL
      BY <1>4, <3>1, <3>2, <3>3 DEF NULL
    <3>4. CASE parent[x] # NULL
      <4>1. parent[x] \in NodeId \ {n}
        BY <1>3, <3>2, <3>4, LinkFacts
      <4>2. /\ kind'[x] = kind[x] /\ thread'[x] = thread[x]
            /\ kind'[parent[x]] = kind[parent[x]] /\ thread'[parent[x]] = thread[parent[x]]
        BY <1>4, <3>2, <4>1
      <4> QED
        BY <1>4, <3>1, <3>4, <4>2
    <3> QED
      BY <3>3, <3>4
  <2> QED
    BY <1>5, <2>1 DEF TreeWellFormed
<1>12. CurrentFlowInTree'
  <2>1. ASSUME NEW s \in Threads, curentFlow[s] # NULL
        PROVE  /\ curentFlow[s] \in FlowNodes /\ curentFlow[s] \in NodeId \ {n}
               /\ thread[curentFlow[s]] = s /\ parent[curentFlow[s]] # NULL
    BY <1>3, <2>1 DEF IInv, CurrentFlowInTree, FlowNodes
  <2> QED
    BY <1>3, <1>4, <1>5, <2>1 DEF CurrentFlowInTree
<1> QED
  BY <1>6, <1>7, <1>8, <1>9, <1>10, <1>11, <1>12 DEF IInv

LEMMA ClearIInv ==
  ASSUME IInv, TypeOK', ClearArchive
  PROVE  IInv'
<1>1. SlotsInOrder'
  BY NodeIds DEF ClearArchive, SlotsInOrder, NodeId
<1>2. Threads' = {} /\ FlowNodes' = {} /\ Traces' = {}
  BY DEF ClearArchive, Threads, FlowNodes, Traces
<1>3. RecordOfThread'
  BY DEF ClearArchive, RecordOfThread, Idle
<1> QED
  BY <1>1, <1>2, <1>3
  DEF IInv, ClearArchive, ThreadNodes, PathsInThread, LinesOfThread, PeersMatch,
      TreeWellFormed, CurrentFlowInTree

(* Steps that add no node leave every part of IInv but the record alone.    *)
LEMMA NoNodeIInv ==
  ASSUME IInv, TypeOK', UNCHANGED <<nodeVars, treeVars, latestTrace>>, RecordOfThread'
  PROVE  IInv'
<1>1. UNCHANGED <<cNodes, kind, thread, fn, parent, peer, path, curentFlow, latestTrace>>
  BY DEF nodeVars, treeVars
<1>2. Threads' = Threads /\ FlowNodes' = FlowNodes /\ Traces' = Traces
  BY <1>1 DEF Threads, FlowNodes, Traces
<1>3. SlotsInOrder' /\ ThreadNodes' /\ PathsInThread'
  BY <1>1, <1>2 DEF IInv, SlotsInOrder, ThreadNodes, PathsInThread
<1>4. LinesOfThread' /\ PeersMatch' /\ CurrentFlowInTree'
  BY <1>1, <1>2 DEF IInv, LinesOfThread, PeersMatch, CurrentFlowInTree
<1>5. TreeWellFormed'
  BY <1>1, <1>2 DEF IInv, TreeWellFormed
<1> QED
  BY <1>3, <1>4, <1>5 DEF IInv

LEMMA NewLineIInv ==
  ASSUME IInv, TypeOK', NEW pc \in Piece, NewLine(pc)
  PROVE  IInv'
<1> USE NodeIds
<1> DEFINE n == cNodes + 1
           t == record.thread
           p == EnterParent(t)
<1>1. /\ NewNode(n, "trace", t) /\ parent' = [parent EXCEPT ![n] = p]
      /\ latestTrace' = [latestTrace EXCEPT ![t] = n]
      /\ UNCHANGED <<fn, peer, path, childCount, curentFlow>>
      /\ record.rest # << >> /\ record'.thread = t
  BY DEF NewLine, TakePiece, IInv, TypeOK
<1>2. n \in NodeId /\ cNodes' = n /\ n \in Nat /\ n > cNodes /\ cNodes \in Nat
  <2>1. n \in NodeId /\ cNodes' = n
    BY <1>1, NextSlot DEF IInv
  <2>2. cNodes \in Nat
    BY ConstantsAssumption DEF IInv, TypeOK
  <2> QED
    BY <2>1, <2>2
<1>3. t \in Threads
  BY <1>1 DEF IInv, RecordOfThread
<1>4. /\ kind[n] = "free" /\ peer[n] = NULL /\ path[n] = {} /\ curentFlow[n] = NULL
      /\ \A x \in NodeId : peer[x] # n /\ parent[x] # n
  BY <1>2, SlotFacts, LinkFacts
<1>5. /\ p \in NodeId /\ p \in 1..cNodes /\ thread[p] = t /\ kind[p] # "trace"
      /\ p # t => parent[p] # NULL
  <2>1. p \in {t, curentFlow[t]} /\ p # NULL
    BY <1>3, ThreadFacts DEF EnterParent
  <2> QED
    BY <1>3, <2>1, ThreadFacts DEF IInv, CurrentFlowInTree
<1> HIDE DEF n, t, p
<1>6. /\ \A x \in NodeId \ {n} : kind'[x] = kind[x] /\ thread'[x] = thread[x] /\ parent'[x] = parent[x]
      /\ \A x \in NodeId \ {t} : latestTrace'[x] = latestTrace[x]
      /\ kind'[n] = "trace" /\ thread'[n] = t /\ parent'[n] = p /\ latestTrace'[t] = n
      /\ fn' = fn /\ peer' = peer /\ curentFlow' = curentFlow /\ path' = path
  BY <1>1, <1>2, <1>3 DEF NewNode, IInv, TypeOK, Threads
<1>7. Threads' = Threads /\ Traces' = Traces \cup {n} /\ FlowNodes' = FlowNodes
  <2>1. /\ \A x \in NodeId \ {n} : kind'[x] = kind[x]
        /\ kind'[n] = "trace" /\ kind[n] = "free" /\ n \in NodeId
    BY <1>2, <1>4, <1>6, Zenon
  <2> QED
    BY <2>1 DEF Threads, Traces, FlowNodes
<1>8. \A s \in Threads : s \in NodeId /\ s # n
  BY <1>4 DEF Threads
<1>9. SlotsInOrder'
  <2>1. ASSUME NEW x \in NodeId, x <= cNodes'
        PROVE  kind'[x] # "free" /\ thread'[x] \in 1..x /\ kind'[thread'[x]] = "thread"
    <3>1. CASE x = n
      BY <1>2, <1>3, <1>6, <1>8, <3>1, ThreadFacts
    <3>2. CASE x # n
      <4>1. x <= cNodes
        BY <1>2, <2>1, <3>2, SlotFacts DEF n
      <4>2. kind[x] # "free" /\ thread[x] \in 1..x /\ thread[x] \in NodeId \ {n} /\ kind[thread[x]] = "thread"
        BY <1>4, <4>1, SlotFacts
      <4> QED
        BY <1>6, <3>2, <4>2
    <3> QED
      BY <3>1, <3>2
  <2>2. ASSUME NEW x \in NodeId, x > cNodes'
        PROVE  /\ kind'[x] = "free" /\ parent'[x] = NULL /\ peer'[x] = NULL
               /\ curentFlow'[x] = NULL /\ latestTrace'[x] = NULL /\ path'[x] = {}
    <3>1. x > cNodes /\ x # n /\ x # t
      BY <1>2, <1>3, <2>2, ThreadFacts, SlotFacts
    <3> QED
      <4>1. /\ kind[x] = "free" /\ parent[x] = NULL /\ peer[x] = NULL
            /\ curentFlow[x] = NULL /\ latestTrace[x] = NULL /\ path[x] = {}
        BY <3>1, SlotFacts
      <4> QED
        BY <1>6, <3>1, <4>1
  <2> QED
    BY <1>2, <2>1, <2>2, SlotsByCases, Zenon
<1>10. ThreadNodes'
  BY <1>6, <1>7, <1>8 DEF IInv, ThreadNodes
<1>11. PathsInThread'
  <2>1. ASSUME NEW x \in NodeId, NEW y \in path[x]
        PROVE  /\ y \in NodeId /\ x # n /\ y # n
               /\ y <= x /\ thread[y] = thread[x] /\ kind[y] \in {"thread", "enter", "exit"}
    BY <1>4, <2>1, PathFacts, SlotFacts
  <2> QED
    <3>1. ASSUME NEW x \in NodeId, NEW y \in path[x]
          PROVE  y <= x /\ thread'[y] = thread'[x] /\ kind'[y] \in {"thread", "enter", "exit"}
      <4>1. /\ x \in NodeId \ {n} /\ y \in NodeId \ {n}
            /\ y <= x /\ thread[y] = thread[x] /\ kind[y] \in {"thread", "enter", "exit"}
        BY <2>1, <3>1
      <4>2. kind'[y] = kind[y] /\ thread'[y] = thread[y] /\ thread'[x] = thread[x]
        BY <1>6, <4>1
      <4> QED
        BY <4>1, <4>2
    <3> QED
      BY <1>6, <3>1 DEF PathsInThread
<1>12. LinesOfThread' /\ RecordOfThread'
  <2>1. ASSUME NEW s \in Threads, s # t, latestTrace[s] # NULL
        PROVE  latestTrace[s] \in Traces /\ latestTrace[s] \in NodeId \ {n} /\ thread[latestTrace[s]] = s
    BY <1>4, <2>1 DEF IInv, LinesOfThread, Traces
  <2>2. LinesOfThread'
    <3>1. ASSUME NEW s \in Threads, latestTrace'[s] # NULL
          PROVE  latestTrace'[s] \in Traces \cup {n} /\ thread'[latestTrace'[s]] = s
      <4>1. CASE s = t
        BY <1>6, <4>1
      <4>2. CASE s # t
        <5>1. latestTrace'[s] = latestTrace[s]
          BY <1>6, <1>8, <4>2
        <5>2. latestTrace[s] \in Traces /\ latestTrace[s] \in NodeId \ {n} /\ thread[latestTrace[s]] = s
          BY <2>1, <3>1, <4>2, <5>1, Zenon
        <5> QED
          BY <1>6, <5>1, <5>2, Zenon
      <4> QED
        BY <4>1, <4>2
    <3> QED
      BY <1>7, <3>1 DEF LinesOfThread
  <2>3. RecordOfThread'
    BY <1>1, <1>3, <1>7 DEF RecordOfThread
  <2> QED
    BY <2>2, <2>3
<1>13. PeersMatch'
  BY <1>2, <1>4, <1>6, PeersKept
<1>14. TreeWellFormed'
  <2>1. ASSUME NEW x \in FlowNodes \cup Traces
        PROVE  IF kind'[x] = "exit" /\ peer'[x] # NULL THEN parent'[x] = NULL
               ELSE /\ parent'[x] \in 1..(x - 1)
                    /\ thread'[parent'[x]] = thread'[x]
                    /\ kind'[parent'[x]] # "trace"
                    /\ parent'[x] # thread'[x] => parent'[parent'[x]] # NULL
    <3>1. IF kind[x] = "exit" /\ peer[x] # NULL THEN parent[x] = NULL
          ELSE /\ parent[x] \in 1..(x - 1)
               /\ thread[parent[x]] = thread[x]
               /\ kind[parent[x]] # "trace"
               /\ parent[x] # thread[x] => parent[parent[x]] # NULL
      BY <2>1 DEF IInv, TreeWellFormed
    <3>2. x \in NodeId /\ x # n
      BY <1>4, <2>1 DEF FlowNodes, Traces
    <3>3. CASE parent[x] = NULL
      BY <1>6, <3>1, <3>2, <3>3 DEF NULL
    <3>4. CASE parent[x] # NULL
      <4>1. parent[x] \in NodeId \ {n}
        BY <1>4, <3>2, <3>4, LinkFacts
      <4>2. /\ kind'[x] = kind[x] /\ thread'[x] = thread[x] /\ parent'[x] = parent[x]
            /\ kind'[parent[x]] = kind[parent[x]] /\ thread'[parent[x]] = thread[parent[x]]
            /\ parent'[parent[x]] = parent[parent[x]]
        BY <1>6, <3>2, <4>1
      <4> QED
        BY <1>6, <3>1, <3>4, <4>2
    <3> QED
      BY <3>3, <3>4
  <2>2. /\ parent'[n] \in 1..(n - 1) /\ thread'[parent'[n]] = thread'[n]
        /\ kind'[parent'[n]] # "trace" /\ kind'[n] # "exit"
        /\ parent'[n] # thread'[n] => parent'[parent'[n]] # NULL
    <3>1. p # n /\ n - 1 = cNodes
      BY <1>2, <1>5 DEF n
    <3> QED
      BY <1>5, <1>6, <3>1
  <2> QED
    BY <1>7, <2>1, <2>2 DEF TreeWellFormed
<1>15. CurrentFlowInTree'
  <2>1. ASSUME NEW s \in Threads, curentFlow[s] # NULL
        PROVE  /\ curentFlow[s] \in FlowNodes /\ curentFlow[s] \in NodeId \ {n}
               /\ thread[curentFlow[s]] = s /\ parent[curentFlow[s]] # NULL
    BY <1>4, <2>1 DEF IInv, CurrentFlowInTree, FlowNodes
  <2> QED
    BY <1>6, <1>7, <2>1 DEF CurrentFlowInTree
<1> QED
  BY <1>9, <1>10, <1>11, <1>12, <1>13, <1>14, <1>15 DEF IInv

LEMMA PieceIInv ==
  ASSUME IInv, TypeOK', NEW p \in Piece, PieceStep(p)
  PROVE  IInv'
<1>1. TakePiece(p) /\ record.thread \in Threads /\ record'.thread = record.thread
  BY DEF PieceStep, EmptyPiece, ContinueLine, NewLine, NewLineDropped, TakePiece,
         IInv, RecordOfThread, TypeOK
<1>2. ASSUME UNCHANGED <<nodeVars, treeVars, latestTrace>> PROVE IInv'
  <2>1. Threads' = Threads
    BY <1>2 DEF nodeVars, Threads
  <2> QED
    BY <1>1, <1>2, <2>1, NoNodeIInv DEF RecordOfThread
<1>3. CASE NewLine(p)
  BY <1>3, NewLineIInv
<1>4. CASE EmptyPiece(p) \/ ContinueLine(p) \/ NewLineDropped(p)
  BY <1>2, <1>4 DEF EmptyPiece, ContinueLine, NewLineDropped
<1> QED
  BY <1>3, <1>4 DEF PieceStep

LEMMA StepIInv == IInv /\ [Next]_vars => IInv'
<1> SUFFICES ASSUME IInv, [Next]_vars PROVE IInv'
  OBVIOUS
<1>1. TypeOK'
  BY StepTypeOK DEF IInv
<1>2. CASE AddThread
  BY <1>1, <1>2, AddThreadIInv
<1>3. CASE ClearArchive
  BY <1>1, <1>3, ClearIInv
<1>4. ASSUME NEW t \in Threads, NEW f \in Fns, FlowStep(t, f) PROVE IInv'
  BY <1>1, <1>4, EnterIInv, ExitPairedIInv, ExitUnpairedIInv DEF FlowStep
<1>5. ASSUME NEW t \in Threads, NEW alone \in BOOLEAN, NEW pieces \in TraceRecs,
             BeginTrace(t, alone, pieces)
      PROVE  IInv'
  <2>1. UNCHANGED <<nodeVars, treeVars, latestTrace>> /\ record'.thread = t
    BY <1>5 DEF BeginTrace, lineVars
  <2>2. Threads' = Threads
    BY <2>1 DEF nodeVars, Threads
  <2> QED
    BY <1>1, <2>1, <2>2, NoNodeIInv DEF RecordOfThread
<1>6. ASSUME NEW p \in Piece, PieceStep(p) PROVE IInv'
  BY <1>1, <1>6, PieceIInv
<1>7. CASE UNCHANGED vars
  <2>1. UNCHANGED <<nodeVars, treeVars, latestTrace>> /\ record' = record
    BY <1>7 DEF vars, lineVars
  <2>2. Threads' = Threads
    BY <2>1 DEF nodeVars, Threads
  <2> QED
    BY <1>1, <2>1, <2>2, NoNodeIInv DEF IInv, RecordOfThread
<1> QED
  BY <1>2, <1>3, <1>4, <1>5, <1>6, <1>7 DEF Next

-----------------------------------------------------------------------------
(* The inductive invariant, and the properties it contains.                 *)

LEMMA Invariance == Spec => []IInv
  BY InitIInv, StepIInv, PTL DEF Spec

(* Pairing is symmetric and sound: whatever records arrive in whatever      *)
(* order, an ENTER is only ever paired with one later EXIT of its function  *)
(* and its thread (addToTree, LogData.cpp).                                *)
THEOREM PairingSound == Spec => []PeersMatch
<1>1. IInv => PeersMatch
  BY DEF IInv
<1> QED
  BY <1>1, Invariance, PTL

(* The parent links always form one tree per thread, so the walk of         *)
(* addToTree from curentFlow always ends, at a match or at the thread node. *)
THEOREM TreeSound == Spec => [](TreeWellFormed /\ CurrentFlowInTree)
<1>1. IInv => TreeWellFormed /\ CurrentFlowInTree
  BY DEF IInv
<1> QED
  BY <1>1, Invariance, PTL

-----------------------------------------------------------------------------
(* The actions as these proofs see them: what they do to the new node, and   *)
(* that they leave all other nodes alone.                                  *)

Fresh(n) ==
  /\ n = cNodes + 1 /\ n \in NodeId /\ n \in Nat /\ cNodes \in Nat /\ cNodes' = n
  /\ kind[n] = "free" /\ peer[n] = NULL /\ parent[n] = NULL /\ path[n] = {}
  /\ curentFlow[n] = NULL
  /\ \A x \in NodeId : peer[x] # n /\ parent[x] # n /\ n \notin path[x]
  /\ \A x \in NodeId \ {n} : kind'[x] = kind[x] /\ thread'[x] = thread[x]

AddsThread(n) ==
  /\ Fresh(n)
  /\ kind'[n] = "thread" /\ thread'[n] = n
  /\ path'[n] = {n} /\ \A x \in NodeId \ {n} : path'[x] = path[x]
  /\ fn' = fn /\ parent' = parent /\ peer' = peer
  /\ childCount' = childCount /\ curentFlow' = curentFlow

AddsLine(n, t) ==
  /\ Fresh(n)
  /\ t \in Threads
  /\ kind'[n] = "trace" /\ thread'[n] = t
  /\ parent'[n] = EnterParent(t) /\ \A x \in NodeId \ {n} : parent'[x] = parent[x]
  /\ fn' = fn /\ peer' = peer /\ path' = path
  /\ childCount' = childCount /\ curentFlow' = curentFlow

AddsFlow(n, t, p) ==
  /\ Fresh(n)
  /\ t \in Threads
  /\ p \in {t, curentFlow[t]} /\ p \in NodeId /\ p # n
  /\ kind'[n] \in {"enter", "exit"} /\ thread'[n] = t
  /\ \A x \in NodeId \ {n} : parent'[x] = parent[x] /\ path'[x] = path[x] /\ fn'[x] = fn[x]
  /\ parent'[n] = p /\ path'[n] = {n} \cup path[p]
  /\ peer' = peer
  /\ childCount' = [m \in NodeId |-> childCount[m] + IF m \in path[p] THEN 1 ELSE 0]
  /\ curentFlow'[t] = n /\ \A x \in NodeId \ {t} : curentFlow'[x] = curentFlow[x]

Pairs(m, n, t) ==
  /\ Fresh(n)
  /\ t \in Threads
  /\ m \in NodeId /\ m # n /\ m < n
  /\ curentFlow[t] # NULL /\ m \in path[curentFlow[t]]
  /\ kind[m] = "enter" /\ peer[m] = NULL /\ thread[m] = t /\ parent[m] \in NodeId
  /\ \A k \in Matches(t, fn[m]) : k <= m
  /\ kind'[n] = "exit" /\ thread'[n] = t /\ fn'[n] = fn[m]
  /\ \A x \in NodeId \ {n} : fn'[x] = fn[x]
  /\ peer'[m] = n /\ peer'[n] = m /\ \A x \in NodeId \ {m, n} : peer'[x] = peer[x]
  /\ curentFlow'[t] = (IF parent[m] # t THEN parent[m] ELSE curentFlow[t])
  /\ \A x \in NodeId \ {t} : curentFlow'[x] = curentFlow[x]
  /\ parent' = parent /\ path' = path /\ childCount' = childCount

AddsNothing == UNCHANGED <<nodeVars, treeVars>>

LEMMA FreshNode ==
  ASSUME IInv, NEW n, n = cNodes + 1, NEW k, NEW t, NewNode(n, k, t)
  PROVE  Fresh(n) /\ kind'[n] = k /\ thread'[n] = t
<1> USE NodeIds
<1>1. n \in NodeId /\ cNodes' = n
  BY NextSlot DEF IInv
<1>2. cNodes \in Nat /\ n \in Nat /\ n > cNodes
  BY <1>1, ConstantsAssumption DEF IInv, TypeOK
<1>3. /\ kind[n] = "free" /\ peer[n] = NULL /\ parent[n] = NULL /\ path[n] = {}
      /\ curentFlow[n] = NULL
  BY <1>1, <1>2, SlotFacts
<1>4. ASSUME NEW x \in NodeId PROVE peer[x] # n /\ parent[x] # n
  BY <1>1, <1>2, <1>4, LinkFacts
<1>5. ASSUME NEW x \in NodeId PROVE n \notin path[x]
  BY <1>3, <1>5, PathFacts
<1>6. /\ kind'[n] = k /\ thread'[n] = t
      /\ \A x \in NodeId \ {n} : kind'[x] = kind[x] /\ thread'[x] = thread[x]
  BY <1>1 DEF NewNode, IInv, TypeOK
<1> QED
  BY <1>1, <1>2, <1>3, <1>4, <1>5, <1>6 DEF Fresh

LEMMA ThreadView == IInv /\ AddThread => AddsThread(cNodes + 1)
<1> SUFFICES ASSUME IInv, AddThread PROVE AddsThread(cNodes + 1)
  OBVIOUS
<1> DEFINE n == cNodes + 1
<1>1. Fresh(n) /\ kind'[n] = "thread" /\ thread'[n] = n
  BY FreshNode DEF AddThread
<1>2. path'[n] = {n} /\ \A x \in NodeId \ {n} : path'[x] = path[x]
  BY <1>1 DEF AddThread, Fresh, IInv, TypeOK
<1> QED
  BY <1>1, <1>2 DEF AddsThread, AddThread

LEMMA LineView ==
  ASSUME IInv, NEW pc \in Piece, NewLine(pc)
  PROVE  AddsLine(cNodes + 1, record.thread)
<1> DEFINE n == cNodes + 1
           t == record.thread
<1>1. Fresh(n) /\ kind'[n] = "trace" /\ thread'[n] = t
  BY FreshNode DEF NewLine
<1>2. t \in Threads
  BY DEF NewLine, TakePiece, IInv, RecordOfThread
<1>3. parent'[n] = EnterParent(t) /\ \A x \in NodeId \ {n} : parent'[x] = parent[x]
  BY <1>1 DEF NewLine, Fresh, IInv, TypeOK
<1> QED
  BY <1>1, <1>2, <1>3 DEF AddsLine, NewLine

(* Both ENTER and unpaired EXIT add a child with AddThreadChild.             *)
LEMMA FlowView ==
  ASSUME IInv, NEW t \in Threads, NEW f, NEW k \in {"enter", "exit"},
         NewNode(cNodes + 1, k, t), fn' = [fn EXCEPT ![cNodes + 1] = f],
         NEW p \in {t, curentFlow[t]}, p # NULL, AddThreadChild(cNodes + 1, t, p),
         UNCHANGED peer
  PROVE  AddsFlow(cNodes + 1, t, p)
<1> DEFINE n == cNodes + 1
<1>1. Fresh(n) /\ kind'[n] = k /\ thread'[n] = t
  BY FreshNode
<1>2. p \in NodeId /\ p # n
  BY <1>1, ThreadFacts DEF Fresh
<1>3. /\ \A x \in NodeId \ {n} : parent'[x] = parent[x] /\ path'[x] = path[x] /\ fn'[x] = fn[x]
      /\ parent'[n] = p /\ path'[n] = {n} \cup path[p]
      /\ curentFlow'[t] = n /\ \A x \in NodeId \ {t} : curentFlow'[x] = curentFlow[x]
  BY <1>1, ThreadFacts DEF AddThreadChild, Fresh, IInv, TypeOK
<1> QED
  BY <1>1, <1>2, <1>3 DEF AddsFlow, AddThreadChild

LEMMA EnterView ==
  ASSUME IInv, NEW t \in Threads, NEW f \in Fns, Enter(t, f)
  PROVE  AddsFlow(cNodes + 1, t, EnterParent(t))
<1>1. EnterParent(t) \in {t, curentFlow[t]} /\ EnterParent(t) # NULL
  BY ThreadFacts, NodeIds DEF EnterParent
<1> QED
  BY <1>1, FlowView DEF Enter

LEMMA UnpairedView ==
  ASSUME IInv, NEW t \in Threads, NEW f \in Fns, ExitUnpaired(t, f)
  PROVE  \E p \in ExitParents(t) : AddsFlow(cNodes + 1, t, p)
<1>1. PICK p \in ExitParents(t) : AddThreadChild(cNodes + 1, t, p)
  BY DEF ExitUnpaired
<1>2. p \in {t, curentFlow[t]} /\ p # NULL
  BY <1>1, ThreadFacts, NodeIds DEF ExitParents
<1> QED
  BY <1>1, <1>2, FlowView DEF ExitUnpaired

LEMMA PairedView ==
  ASSUME IInv, NEW t \in Threads, NEW f \in Fns, ExitPaired(t, f)
  PROVE  \E m \in Matches(t, f) : Pairs(m, cNodes + 1, t)
<1> USE NodeIds
<1> DEFINE n == cNodes + 1
<1>1. PICK m \in Matches(t, f) : (\A k \in Matches(t, f) : k <= m) /\ PairWith(m, n, t)
  BY DEF ExitPaired
<1>2. Fresh(n) /\ kind'[n] = "exit" /\ thread'[n] = t
  BY FreshNode DEF ExitPaired
<1>3. /\ curentFlow[t] # NULL /\ m \in path[curentFlow[t]]
      /\ kind[m] = "enter" /\ peer[m] = NULL /\ fn[m] = f
  BY <1>1 DEF Matches, IsOpenEnter
<1>4. m \in NodeId /\ thread[m] = t
  BY <1>3, ThreadFacts, PathFacts
<1>5. m # n /\ m < n /\ parent[m] \in NodeId
  <2>1. m \in FlowNodes /\ parent[m] \in 1..(m - 1)
    BY <1>3, <1>4 DEF FlowNodes, IInv, TreeWellFormed
  <2>2. parent[m] # NULL
    BY <2>1 DEF NULL
  <2>3. m <= cNodes
    BY <1>3, <1>4, SlotFacts
  <2> QED
    BY <1>2, <1>4, <2>2, <2>3, LinkFacts DEF Fresh
<1>6. fn'[n] = f /\ \A x \in NodeId \ {n} : fn'[x] = fn[x]
  BY <1>2 DEF ExitPaired, Fresh, IInv, TypeOK
<1>7. peer'[m] = n /\ peer'[n] = m /\ \A x \in NodeId \ {m, n} : peer'[x] = peer[x]
  BY <1>1, <1>2, <1>4, <1>5 DEF PairWith, Fresh, IInv, TypeOK
<1>8. /\ curentFlow'[t] = (IF parent[m] # t THEN parent[m] ELSE curentFlow[t])
      /\ \A x \in NodeId \ {t} : curentFlow'[x] = curentFlow[x]
  BY <1>1, ThreadFacts DEF PairWith, IInv, TypeOK
<1>9. parent' = parent /\ path' = path /\ childCount' = childCount
  BY <1>1 DEF PairWith
<1> QED
  BY <1>1, <1>2, <1>3, <1>4, <1>5, <1>6, <1>7, <1>8, <1>9 DEF Pairs

LEMMA StepView ==
  ASSUME IInv, [Next]_vars
  PROVE  \/ ClearArchive
         \/ AddsNothing
         \/ AddsThread(cNodes + 1)
         \/ \E t \in Threads : \/ AddsLine(cNodes + 1, t)
                               \/ \E p \in NodeId : AddsFlow(cNodes + 1, t, p)
                               \/ \E m \in NodeId : Pairs(m, cNodes + 1, t)
<1> DEFINE n == cNodes + 1
<1>1. CASE AddThread
  BY <1>1, ThreadView
<1>2. ASSUME NEW t \in Threads, NEW f \in Fns, FlowStep(t, f)
      PROVE  (\E p \in NodeId : AddsFlow(n, t, p)) \/ (\E m \in NodeId : Pairs(m, n, t))
  <2>1. CASE Enter(t, f)
    BY <2>1, EnterView DEF AddsFlow
  <2>2. CASE ExitPaired(t, f)
    BY <2>2, PairedView DEF Pairs
  <2>3. CASE ExitUnpaired(t, f)
    BY <2>3, UnpairedView DEF AddsFlow
  <2> QED
    BY <1>2, <2>1, <2>2, <2>3 DEF FlowStep
<1>3. ASSUME NEW t \in Threads, NEW alone \in BOOLEAN, NEW pieces \in TraceRecs,
             BeginTrace(t, alone, pieces)
      PROVE  AddsNothing
  BY <1>3 DEF BeginTrace, AddsNothing
<1>4. ASSUME NEW pc \in Piece, PieceStep(pc)
      PROVE  AddsNothing \/ \E t \in Threads : AddsLine(n, t)
  <2>1. CASE NewLine(pc)
    BY <2>1, LineView DEF AddsLine
  <2>2. CASE EmptyPiece(pc) \/ ContinueLine(pc) \/ NewLineDropped(pc)
    BY <2>2 DEF EmptyPiece, ContinueLine, NewLineDropped, AddsNothing
  <2> QED
    BY <1>4, <2>1, <2>2 DEF PieceStep
<1>5. CASE UNCHANGED vars
  BY <1>5 DEF vars, AddsNothing
<1> QED
  BY <1>1, <1>2, <1>3, <1>4, <1>5 DEF Next
-----------------------------------------------------------------------------
(* Properties of single steps.                                             *)

(* A pair stays a pair, and no node is moved: later records only add to the  *)
(* tree that is shown (addToTree, add_child).                              *)
LEMMA StepSettled ==
  ASSUME IInv, [Next]_vars
  PROVE  PairingKept
<1>1. CASE ClearArchive
  BY <1>1 DEF ClearArchive, PairingKept
<1>2. SUFFICES ASSUME ~ClearArchive, NEW x \in 1..cNodes PROVE NodeSettled(x)
  BY <1>1 DEF PairingKept
<1>3. x \in NodeId /\ x # cNodes + 1 /\ kind[x] # "free"
  <2>1. x \in NodeId /\ cNodes \in Nat
    BY ConstantsAssumption DEF IInv, TypeOK, NodeId
  <2> QED
    BY <2>1, SlotFacts
<1>4. CASE AddsNothing
  BY <1>4 DEF AddsNothing, treeVars, NodeSettled
<1>5. CASE AddsThread(cNodes + 1)
  BY <1>5 DEF AddsThread, NodeSettled
<1>6. ASSUME NEW t \in Threads, AddsLine(cNodes + 1, t) PROVE NodeSettled(x)
  BY <1>3, <1>6 DEF AddsLine, NodeSettled
<1>7. ASSUME NEW t \in Threads, NEW p \in NodeId, AddsFlow(cNodes + 1, t, p)
      PROVE  NodeSettled(x)
  BY <1>3, <1>7 DEF AddsFlow, NodeSettled
<1>8. ASSUME NEW t \in Threads, NEW m \in NodeId, Pairs(m, cNodes + 1, t)
      PROVE  NodeSettled(x)
  BY <1>3, <1>8 DEF Pairs, NodeSettled
<1> QED
  BY <1>2, <1>4, <1>5, <1>6, <1>7, <1>8, StepView

THEOREM PairsStay == Spec => PairingIsFinal
<1>1. IInv /\ [Next]_vars => [PairingKept]_vars
  BY StepSettled
<1> QED
  BY <1>1, Invariance, PTL DEF Spec, PairingIsFinal

(* Text goes only to the line its thread is writing, and only while that is  *)
(* open: a shown line that is closed never changes (addTrace).             *)
LEMMA StepFrozen ==
  ASSUME IInv, [Next]_vars
  PROVE  LinesKept
<1>1. CASE ClearArchive
  BY <1>1 DEF ClearArchive, LinesKept
<1>2. SUFFICES ASSUME ~ClearArchive, NEW x \in Traces, ~LineMayGrow(x)
               PROVE  cbTrace'[x] = cbTrace[x] /\ hasNewLine'[x] = hasNewLine[x]
  BY <1>1 DEF LinesKept
<1>3. CASE UNCHANGED <<cbTrace, hasNewLine>>
  BY <1>3
<1>4. ASSUME NEW pc \in Piece, PieceStep(pc)
      PROVE  cbTrace'[x] = cbTrace[x] /\ hasNewLine'[x] = hasNewLine[x]
  <2> DEFINE last == latestTrace[record.thread]
  <2>1. record.rest # << >> /\ record.thread \in Threads
    BY <1>4 DEF PieceStep, EmptyPiece, ContinueLine, NewLine, NewLineDropped, TakePiece,
                IInv, RecordOfThread
  <2>2. LineOpen => x # last
    <3>1. SUFFICES ASSUME LineOpen, x = last PROVE FALSE
      OBVIOUS
    <3>2. thread[x] = record.thread
      BY <2>1, <3>1 DEF LineOpen, IInv, LinesOfThread
    <3> QED
      BY <1>2, <2>1, <3>1, <3>2 DEF LineMayGrow, LineOpen
  <2>3. AfterPiece(pc)[x] = hasNewLine[x] /\ x \in NodeId
    BY <2>2 DEF AfterPiece, IInv, TypeOK, Traces
  <2>4. CASE EmptyPiece(pc) \/ NewLineDropped(pc)
    BY <2>3, <2>4 DEF EmptyPiece, NewLineDropped
  <2>5. CASE ContinueLine(pc)
    BY <2>2, <2>3, <2>5 DEF ContinueLine, IInv, TypeOK
  <2>6. CASE NewLine(pc)
    <3>1. kind[cNodes + 1] = "free" /\ x # cNodes + 1
      BY <2>6, FreshNode DEF NewLine, Fresh, Traces
    <3> QED
      BY <2>3, <2>6, <3>1 DEF NewLine, AfterPiece, IInv, TypeOK
  <2> QED
    BY <1>4, <2>4, <2>5, <2>6 DEF PieceStep
<1> QED
  BY <1>2, <1>3, <1>4
  DEF Next, vars, lineVars, AddThread, FlowStep, Enter, ExitPaired, ExitUnpaired, BeginTrace

THEOREM ClosedLinesStay == Spec => ClosedLinesFrozen
<1>1. IInv /\ [Next]_vars => [LinesKept]_vars
  BY StepFrozen
<1> QED
  BY <1>1, Invariance, PTL DEF Spec, ClosedLinesFrozen
-----------------------------------------------------------------------------
(* NestInv is inductive.  First what a node and its path look like.          *)

LEMMA PathOf ==
  ASSUME NestInv, NEW x \in NodeId
  PROVE  /\ kind[x] = "thread" => path[x] = {x}
         /\ x \in FlowNodes /\ parent[x] # NULL => path[x] = {x} \cup path[parent[x]]
         /\ kind[x] # "thread" /\ ~(x \in FlowNodes /\ parent[x] # NULL) => path[x] = {}
<1>1. path[x] = CASE kind[x] = "thread" -> {x}
                  [] x \in FlowNodes /\ parent[x] # NULL -> {x} \cup path[parent[x]]
                  [] OTHER -> {}
  BY DEF NestInv, ChildCountExact, PathFollowsParents
<1>2. x \in FlowNodes => kind[x] # "thread"
  BY DEF FlowNodes
<1>3. CASE kind[x] = "thread"
  BY <1>1, <1>2, <1>3
<1>4. CASE kind[x] # "thread" /\ x \in FlowNodes /\ parent[x] # NULL
  BY <1>1, <1>4
<1>5. CASE kind[x] # "thread" /\ ~(x \in FlowNodes /\ parent[x] # NULL)
  BY <1>1, <1>5
<1> QED
  BY <1>2, <1>3, <1>4, <1>5

(* The walk up from a node on a path stays on that path.                     *)
LEMMA PathBelow ==
  ASSUME NestInv, NEW x \in NodeId, NEW m \in path[x]
  PROVE  /\ path[m] \subseteq path[x]
         /\ kind[m] # "thread" /\ parent[m] # NULL => path[parent[m]] \subseteq path[x]
<1>1. m \in NodeId /\ kind[m] \in {"thread", "enter", "exit"}
  BY PathFacts DEF NestInv
<1>2. path[m] \subseteq path[x]
  BY <1>1 DEF NestInv, PathsNest
<1>3. ASSUME kind[m] # "thread", parent[m] # NULL
      PROVE  path[parent[m]] \subseteq path[x]
  <2>1. m \in FlowNodes
    BY <1>1, <1>3 DEF FlowNodes
  <2>2. path[m] = {m} \cup path[parent[m]]
    BY <1>1, <1>3, <2>1, PathOf
  <2> QED
    BY <1>2, <2>2
<1> QED
  BY <1>2, <1>3

(* A step that pairs nothing: the old nodes stay as they are, and the walk   *)
(* up from curentFlow comes by no old call that it did not come by before.   *)
PairsNothing(n) ==
  /\ Fresh(n)
  /\ peer' = peer
  /\ \A x \in NodeId \ {n} : fn'[x] = fn[x] /\ parent'[x] = parent[x] /\ path'[x] = path[x]
  /\ \A s \in Threads : Reach(s)' \subseteq Reach(s) \cup {n}
  /\ \A s \in Threads' \ Threads : Reach(s)' = {}

LEMMA ReachOfOthers ==
  ASSUME IInv, NEW n, Fresh(n), NEW s \in Threads, curentFlow'[s] = curentFlow[s],
         \A x \in NodeId \ {n} : path'[x] = path[x]
  PROVE  Reach(s)' \subseteq Reach(s) \cup {n}
<1>1. CASE curentFlow[s] = NULL
  BY <1>1 DEF Reach
<1>2. CASE curentFlow[s] # NULL
  <2>1. curentFlow[s] \in NodeId \ {n}
    BY <1>2, ThreadFacts DEF Fresh
  <2>2. path'[curentFlow[s]] = path[curentFlow[s]]
    BY <2>1
  <2>3. ASSUME NEW x \in path[curentFlow[s]] PROVE x \in NodeId
    BY <2>1, <2>3, PathFacts
  <2> QED
    BY <1>2, <2>2, <2>3 DEF Reach, Fresh
<1> QED
  BY <1>1, <1>2

LEMMA ReachOfNewThread ==
  ASSUME IInv, NEW n, Fresh(n), NEW s \in Threads' \ Threads, curentFlow'[n] = curentFlow[n]
  PROVE  Reach(s)' = {}
<1>1. s = n
  BY DEF Threads, Fresh
<1> QED
  BY <1>1 DEF Fresh, Reach

LEMMA ThreadPairsNothing ==
  ASSUME IInv, NEW n, AddsThread(n)
  PROVE  PairsNothing(n)
  BY ReachOfOthers, ReachOfNewThread DEF AddsThread, PairsNothing

LEMMA LinePairsNothing ==
  ASSUME IInv, NEW n, NEW t, AddsLine(n, t)
  PROVE  PairsNothing(n)
  BY ReachOfOthers, ReachOfNewThread DEF AddsLine, PairsNothing

LEMMA FlowPairsNothing ==
  ASSUME NestInv, NEW n, NEW t, NEW p, AddsFlow(n, t, p)
  PROVE  PairsNothing(n)
<1>1. IInv /\ Fresh(n) /\ t \in Threads
  BY DEF NestInv, AddsFlow
<1>2. ASSUME NEW s \in Threads PROVE Reach(s)' \subseteq Reach(s) \cup {n}
  <2>1. CASE s # t
    <3>1. curentFlow'[s] = curentFlow[s]
      BY <1>2, <2>1 DEF AddsFlow, Threads
    <3> QED
      BY <1>1, <1>2, <3>1, ReachOfOthers DEF AddsFlow
  <2>2. CASE s = t
    <3>1. curentFlow'[t] = n /\ path'[n] = {n} \cup path[p] /\ n # NULL
      BY <1>1, NodeIds DEF AddsFlow, Fresh
    <3>2. p \in NodeId /\ p # NULL
      BY NodeIds DEF AddsFlow
    <3>3. ASSUME NEW x \in path[p], kind'[x] = "enter" PROVE x \in Reach(t) \cup {n}
      <4>1. x \in NodeId
        BY <1>1, <3>2, <3>3, PathFacts
      <4>2. x # n => kind[x] = "enter"
        BY <1>1, <3>3, <4>1 DEF Fresh
      <4>3. CASE p = t
        <5>1. t \in NodeId /\ kind[t] = "thread"
          BY <1>1, ThreadFacts
        <5>2. path[t] = {t}
          BY <5>1, PathOf
        <5> QED
          BY <3>3, <4>2, <4>3, <5>1, <5>2
      <4>4. CASE p = curentFlow[t]
        BY <3>2, <3>3, <4>2, <4>4 DEF Reach
      <4> QED
        BY <4>3, <4>4 DEF AddsFlow
    <3> QED
      BY <2>2, <3>1, <3>3 DEF Reach
  <2> QED
    BY <2>1, <2>2
<1>3. Threads' \subseteq Threads
  BY <1>1 DEF AddsFlow, Fresh, Threads
<1> QED
  BY <1>1, <1>2, <1>3 DEF AddsFlow, PairsNothing

(* What has been seen of the calls that are paired does not change when no   *)
(* call is paired.                                                         *)
LEMMA UsedNode ==
  ASSUME IInv, NEW n, PairsNothing(n), NEW a \in NodeId, kind'[a] = "enter", peer'[a] # NULL
  PROVE  /\ a # n /\ a \in FlowNodes /\ kind[a] = "enter" /\ peer[a] # NULL
         /\ peer'[a] = peer[a] /\ thread'[a] = thread[a] /\ fn'[a] = fn[a]
         /\ parent'[a] = parent[a] /\ path'[a] = path[a]
         /\ peer[a] < n /\ thread[a] \in Threads
<1>1. /\ Fresh(n) /\ peer' = peer
      /\ \A x \in NodeId \ {n} : fn'[x] = fn[x] /\ parent'[x] = parent[x] /\ path'[x] = path[x]
  BY DEF PairsNothing
<1>2. a # n /\ peer[a] # NULL
  BY <1>1 DEF Fresh
<1>3. kind[a] = "enter" /\ thread'[a] = thread[a]
  BY <1>1, <1>2 DEF Fresh
<1>4. peer[a] < n
  <2>1. peer[a] \in NodeId /\ peer[a] <= cNodes
    BY <1>2, LinkFacts
  <2>2. peer[a] \in Nat /\ cNodes \in Nat /\ n = cNodes + 1
    BY <1>1, <2>1, NodeIds DEF Fresh
  <2> QED
    BY <2>1, <2>2
<1>5. thread[a] \in Threads
  BY <1>3, SlotFacts DEF Threads
<1> QED
  BY <1>1, <1>2, <1>3, <1>4, <1>5 DEF FlowNodes

LEMMA UnpairedNest ==
  ASSUME NestInv, IInv', NEW n, PairsNothing(n)
  PROVE  ReturnedLeft' /\ SkippedLeft' /\ SameFnCallsNest' /\ InnerCallsNest'
<1>1. IInv /\ Fresh(n) /\ peer' = peer
  BY DEF NestInv, PairsNothing
<1>2. FlowNodes' \subseteq NodeId
  BY DEF FlowNodes
<1>3. ASSUME NEW s \in Threads', NEW a \in Reach(s)'
      PROVE  /\ s \in Threads /\ a \in NodeId /\ kind'[a] = "enter"
             /\ a # n => a \in Reach(s) /\ parent'[a] = parent[a] /\ fn'[a] = fn[a]
  <2>1. s \in NodeId /\ curentFlow'[s] # NULL /\ a \in path'[curentFlow'[s]] /\ kind'[a] = "enter"
    BY <1>3 DEF Threads, Reach
  <2>2. path' \in [NodeId -> SUBSET NodeId] /\ curentFlow'[s] \in NodeId
    BY <2>1 DEF IInv, TypeOK
  <2>3. s \in Threads
    BY <1>3 DEF PairsNothing
  <2> QED
    BY <1>3, <2>1, <2>2, <2>3 DEF PairsNothing
<1>4. ReturnedLeft'
  <2>1. SUFFICES ASSUME NEW s \in Threads', NEW a \in Reach(s)', parent'[a] # s, peer'[a] # NULL
                 PROVE  FALSE
    BY DEF ReturnedLeft
  <2>2. a # n
    BY <1>1, <2>1 DEF Fresh
  <2> QED
    BY <1>1, <1>3, <2>1, <2>2 DEF NestInv, ReturnedLeft
<1>5. SkippedLeft'
  <2>1. SUFFICES ASSUME NEW s \in Threads', NEW a \in FlowNodes', NEW b \in Reach(s)',
                        kind'[a] = "enter", peer'[a] # NULL, thread'[a] = s,
                        peer'[b] = NULL, fn'[a] = fn'[b], a < b
                 PROVE  peer'[a] < b
    BY DEF SkippedLeft
  <2>2. /\ a # n /\ a \in FlowNodes /\ kind[a] = "enter" /\ peer[a] # NULL
        /\ thread[a] = s /\ fn'[a] = fn[a] /\ peer[a] < n
    BY <1>1, <1>2, <2>1, UsedNode
  <2>3. CASE b = n
    BY <1>1, <2>2, <2>3
  <2>4. CASE b # n
    <3>1. s \in Threads /\ b \in Reach(s) /\ peer[b] = NULL /\ fn[a] = fn[b]
      BY <1>1, <1>3, <2>1, <2>2, <2>4
    <3> QED
      BY <1>1, <2>1, <2>2, <3>1 DEF NestInv, SkippedLeft
  <2> QED
    BY <2>3, <2>4
<1>6. SameFnCallsNest'
  <2>1. SUFFICES ASSUME NEW a \in FlowNodes', NEW b \in FlowNodes',
                        kind'[a] = "enter", kind'[b] = "enter",
                        peer'[a] # NULL, peer'[b] # NULL,
                        thread'[a] = thread'[b], fn'[a] = fn'[b],
                        a < b, b < peer'[a]
                 PROVE  peer'[b] < peer'[a]
    BY DEF SameFnCallsNest
  <2>2. /\ a \in FlowNodes /\ kind[a] = "enter" /\ peer[a] # NULL
        /\ b \in FlowNodes /\ kind[b] = "enter" /\ peer[b] # NULL
        /\ thread[a] = thread[b] /\ fn[a] = fn[b]
    BY <1>1, <1>2, <2>1, UsedNode
  <2> QED
    BY <1>1, <2>1, <2>2 DEF NestInv, SameFnCallsNest
<1>7. InnerCallsNest'
  <2>1. SUFFICES ASSUME NEW a \in FlowNodes', NEW b \in FlowNodes',
                        kind'[a] = "enter", kind'[b] = "enter",
                        peer'[a] # NULL, peer'[b] # NULL,
                        a \in path'[b], a # b, parent'[a] # thread'[a]
                 PROVE  peer'[b] < peer'[a]
    BY DEF InnerCallsNest
  <2>2. /\ a \in FlowNodes /\ kind[a] = "enter" /\ peer[a] # NULL
        /\ b \in FlowNodes /\ kind[b] = "enter" /\ peer[b] # NULL
        /\ a \in path[b] /\ parent[a] # thread[a]
    BY <1>1, <1>2, <2>1, UsedNode
  <2> QED
    BY <1>1, <2>1, <2>2 DEF NestInv, InnerCallsNest
<1> QED
  BY <1>4, <1>5, <1>6, <1>7

(* A paired EXIT closes the nearest open call of its function on the walk;   *)
(* the walk then starts above it, unless it is at the root of the thread.    *)
LEMMA PairedReach ==
  ASSUME NestInv, NEW n, NEW t, NEW m, Pairs(m, n, t)
  PROVE  /\ m \in Reach(t)
         /\ \A b \in Reach(t) : peer[b] = NULL /\ fn[b] = fn[m] => b <= m
         /\ Threads' = Threads
         /\ \A s \in Threads : Reach(s)' \subseteq Reach(s)
         /\ parent[m] # t => m \notin Reach(t)'
<1>1. IInv /\ Fresh(n) /\ t \in Threads
  BY DEF NestInv, Pairs
<1>2. m \in Reach(t)
  BY DEF Pairs, Reach
<1>3. ASSUME NEW b \in Reach(t), peer[b] = NULL, fn[b] = fn[m] PROVE b <= m
  BY <1>2, <1>3 DEF Pairs, Reach, Matches, IsOpenEnter
<1>4. Threads' = Threads
  BY <1>1 DEF Pairs, Fresh, Threads
<1>5. ASSUME NEW s \in Threads, NEW x \in Reach(s)'
      PROVE  x \in Reach(s) /\ x \in path[curentFlow'[s]] /\ kind[x] = "enter"
  <2>1. path' = path /\ curentFlow'[s] # NULL /\ x \in path[curentFlow'[s]] /\ kind'[x] = "enter"
    BY <1>5 DEF Pairs, Reach
  <2>2. curentFlow'[s] \in NodeId
    <3>1. curentFlow \in [NodeId -> NodeId \cup {NULL}] /\ s \in NodeId
      BY <1>1 DEF IInv, TypeOK, Threads
    <3> QED
      BY <2>1, <3>1 DEF Pairs
  <2>3. x \in NodeId /\ kind[x] = "enter"
    BY <1>1, <2>1, <2>2, PathFacts DEF Pairs, Fresh
  <2>4. CASE s # t \/ parent[m] = t
    <3>1. curentFlow'[s] = curentFlow[s]
      BY <1>5, <2>4 DEF Pairs, Threads
    <3> QED
      BY <2>1, <2>3, <3>1 DEF Reach
  <2>5. CASE s = t /\ parent[m] # t
    <3>1. curentFlow'[s] = parent[m] /\ parent[m] # NULL /\ kind[m] # "thread"
      BY <2>1, <2>5 DEF Pairs
    <3>2. curentFlow[t] \in NodeId /\ curentFlow[t] # NULL /\ m \in path[curentFlow[t]]
      BY <1>1, ThreadFacts DEF Pairs
    <3>3. path[parent[m]] \subseteq path[curentFlow[t]]
      BY <3>1, <3>2, PathBelow
    <3> QED
      BY <2>1, <2>3, <2>5, <3>1, <3>2, <3>3 DEF Reach
  <2> QED
    BY <2>1, <2>3, <2>4, <2>5
<1>6. ASSUME parent[m] # t, m \in Reach(t)' PROVE FALSE
  <2>1. curentFlow'[t] = parent[m] /\ m \in path[parent[m]] /\ parent[m] \in NodeId /\ m \in NodeId
    BY <1>1, <1>5, <1>6 DEF Pairs
  <2>2. m <= parent[m]
    BY <1>1, <2>1, PathFacts
  <2>3. parent[m] # NULL /\ m \in Nat
    BY <2>1, NodeIds
  <2>4. parent[m] < m /\ parent[m] \in Nat
    BY <1>1, <2>1, <2>3, LinkFacts, NodeIds
  <2> QED
    BY <2>2, <2>3, <2>4
<1> QED
  BY <1>2, <1>3, <1>4, <1>5, <1>6

LEMMA PairedNest ==
  ASSUME NestInv, IInv', NEW n, NEW t, NEW m, Pairs(m, n, t)
  PROVE  ReturnedLeft' /\ SkippedLeft' /\ SameFnCallsNest' /\ InnerCallsNest'
<1>1. IInv /\ Fresh(n) /\ t \in Threads /\ m \in NodeId /\ n \in Nat
  BY DEF NestInv, Pairs, Fresh
<1>2. ASSUME NEW a \in FlowNodes', kind'[a] = "enter", peer'[a] # NULL
      PROVE  /\ a \in FlowNodes /\ kind[a] = "enter" /\ thread'[a] = thread[a] /\ fn'[a] = fn[a]
             /\ a = m => peer'[a] = n
             /\ a # m => peer'[a] = peer[a] /\ peer[a] # NULL /\ peer[a] < n
  <2>1. a \in NodeId /\ a # n
    BY <1>1, <1>2 DEF FlowNodes, Pairs
  <2>2. a # m => peer'[a] = peer[a] /\ peer[a] # NULL
    BY <1>2, <2>1 DEF Pairs
  <2>3. peer[a] # NULL => peer[a] < n
    <3>1. peer[a] # NULL => peer[a] \in Nat /\ peer[a] <= cNodes /\ cNodes \in Nat /\ n = cNodes + 1
      BY <1>1, <2>1, LinkFacts, NodeIds DEF Fresh
    <3> QED
      BY <3>1
  <2> QED
    BY <1>1, <1>2, <2>1, <2>2, <2>3 DEF Pairs, Fresh, FlowNodes
<1>3. ASSUME NEW s \in Threads', NEW a \in Reach(s)'
      PROVE  /\ s \in Threads /\ a \in Reach(s) /\ a \in NodeId /\ a # n /\ fn'[a] = fn[a]
             /\ parent'[a] = parent[a] /\ (peer'[a] = NULL => peer[a] = NULL)
             /\ thread[a] = s /\ kind[a] = "enter"
  <2>1. s \in Threads /\ a \in Reach(s)
    BY <1>3, PairedReach
  <2>2. curentFlow[s] \in NodeId /\ a \in path[curentFlow[s]] /\ kind[a] = "enter"
        /\ thread[curentFlow[s]] = s
    BY <1>1, <2>1, ThreadFacts DEF Reach
  <2>3. a \in NodeId /\ a # n /\ thread[a] = s
    BY <1>1, <2>2, PathFacts DEF Fresh
  <2> QED
    BY <1>1, <2>1, <2>2, <2>3, NodeIds DEF Pairs
<1>4. ReturnedLeft'
  <2>1. SUFFICES ASSUME NEW s \in Threads', NEW a \in Reach(s)', parent'[a] # s, peer'[a] # NULL
                 PROVE  FALSE
    BY DEF ReturnedLeft
  <2>2. s \in Threads /\ a \in Reach(s) /\ parent[a] # s /\ a \in NodeId /\ a # n /\ thread[a] = s
    BY <1>3, <2>1
  <2>3. CASE a = m
    BY <2>1, <2>2, <2>3, PairedReach DEF Pairs
  <2>4. CASE a # m
    <3>1. peer[a] # NULL
      BY <2>1, <2>2, <2>4 DEF Pairs
    <3> QED
      BY <2>2, <3>1 DEF NestInv, ReturnedLeft
  <2> QED
    BY <2>3, <2>4
<1>5. SkippedLeft'
  <2>1. SUFFICES ASSUME NEW s \in Threads', NEW a \in FlowNodes', NEW b \in Reach(s)',
                        kind'[a] = "enter", peer'[a] # NULL, thread'[a] = s,
                        peer'[b] = NULL, fn'[a] = fn'[b], a < b
                 PROVE  peer'[a] < b
    BY DEF SkippedLeft
  <2>2. s \in Threads /\ b \in Reach(s) /\ peer[b] = NULL /\ b \in NodeId
    BY <1>3, <2>1
  <2>3. a \in FlowNodes /\ kind[a] = "enter" /\ thread[a] = s /\ fn[a] = fn[b]
    BY <1>2, <1>3, <2>1
  <2>4. CASE a = m
    <3>1. s = t
      BY <2>3, <2>4 DEF Pairs
    <3>2. b <= m /\ m \in Nat /\ b \in Nat
      BY <1>1, <2>2, <2>3, <2>4, <3>1, PairedReach, NodeIds
    <3> QED
      BY <2>1, <2>4, <3>2
  <2>5. CASE a # m
    BY <1>2, <2>1, <2>2, <2>3, <2>5 DEF NestInv, SkippedLeft
  <2> QED
    BY <2>4, <2>5
<1>6. SameFnCallsNest'
  <2>1. SUFFICES ASSUME NEW a \in FlowNodes', NEW b \in FlowNodes',
                        kind'[a] = "enter", kind'[b] = "enter",
                        peer'[a] # NULL, peer'[b] # NULL,
                        thread'[a] = thread'[b], fn'[a] = fn'[b],
                        a < b, b < peer'[a]
                 PROVE  peer'[b] < peer'[a]
    BY DEF SameFnCallsNest
  <2>2. /\ a \in FlowNodes /\ kind[a] = "enter" /\ b \in FlowNodes /\ kind[b] = "enter"
        /\ thread[a] = thread[b] /\ fn[a] = fn[b] /\ a \in NodeId /\ b \in NodeId
    BY <1>2, <2>1 DEF FlowNodes
  <2>3. CASE a = m
    <3>1. b # m /\ peer'[a] = n /\ peer'[b] < n
      BY <1>1, <1>2, <2>1, <2>3, NodeIds
    <3> QED
      BY <3>1
  <2>4. CASE b = m /\ a # m
    <3>1. thread[a] = t /\ peer[m] = NULL /\ m \in Reach(t) /\ peer[a] # NULL
      BY <1>2, <2>1, <2>2, <2>4, PairedReach DEF Pairs
    <3>2. peer[a] < m
      BY <1>1, <2>1, <2>2, <2>4, <3>1 DEF NestInv, SkippedLeft
    <3>3. peer'[a] = peer[a] /\ peer[a] \in Nat /\ m \in Nat
      BY <1>1, <1>2, <2>1, <2>2, <2>4, LinkFacts, NodeIds
    <3> QED
      BY <2>1, <2>4, <3>2, <3>3
  <2>5. CASE a # m /\ b # m
    BY <1>2, <2>1, <2>2, <2>5 DEF NestInv, SameFnCallsNest
  <2> QED
    BY <2>3, <2>4, <2>5
<1>7. InnerCallsNest'
  <2>1. SUFFICES ASSUME NEW a \in FlowNodes', NEW b \in FlowNodes',
                        kind'[a] = "enter", kind'[b] = "enter",
                        peer'[a] # NULL, peer'[b] # NULL,
                        a \in path'[b], a # b, parent'[a] # thread'[a]
                 PROVE  peer'[b] < peer'[a]
    BY DEF InnerCallsNest
  <2>2. /\ a \in FlowNodes /\ kind[a] = "enter" /\ b \in FlowNodes /\ kind[b] = "enter"
        /\ a \in path[b] /\ parent[a] # thread[a] /\ a \in NodeId /\ b \in NodeId
    BY <1>2, <2>1 DEF FlowNodes, Pairs
  <2>3. CASE a = m
    <3>1. b # m /\ peer'[a] = n /\ peer'[b] < n
      BY <1>2, <2>1, <2>3
    <3> QED
      BY <3>1
  <2>4. CASE b = m /\ a # m
    <3>1. /\ curentFlow[t] # NULL /\ curentFlow[t] \in NodeId
          /\ m \in path[curentFlow[t]] /\ thread[m] = t
      BY <1>1, ThreadFacts DEF Pairs
    <3>2. a \in path[curentFlow[t]] /\ thread[a] = t
      <4>1. path[m] \subseteq path[curentFlow[t]]
        BY <3>1, PathBelow
      <4>2. thread[a] = thread[m]
        BY <1>1, <2>2, <2>4, PathFacts
      <4> QED
        BY <2>2, <2>4, <3>1, <4>1, <4>2
    <3>3. a \in Reach(t) /\ peer[a] # NULL /\ parent[a] # t
      BY <1>2, <2>1, <2>2, <2>4, <3>1, <3>2 DEF Reach
    <3> QED
      BY <1>1, <3>3 DEF NestInv, ReturnedLeft
  <2>5. CASE a # m /\ b # m
    BY <1>2, <2>1, <2>2, <2>5 DEF NestInv, InnerCallsNest
  <2> QED
    BY <2>3, <2>4, <2>5
<1> QED
  BY <1>4, <1>5, <1>6, <1>7

-----------------------------------------------------------------------------
(* Paths and the counters that follow them.                                 *)

(* The descendants that childCount[x] counts.                               *)
Below(x) == {m \in FlowNodes : x \in path[m] /\ x # m}

LEMMA BelowFinite == ASSUME NEW x PROVE IsFiniteSet(Below(x))
<1>1. IsFiniteSet(NodeId)
  BY ConstantsAssumption, FS_Interval DEF NodeId
<1>2. Below(x) \subseteq NodeId
  BY DEF Below, FlowNodes
<1> QED
  BY <1>1, <1>2, FS_Subset

(* A step that leaves the paths alone, but for a new thread node.            *)
LEMMA PathsStay ==
  ASSUME NestInv, IInv', NEW n, Fresh(n), childCount' = childCount,
         \A x \in NodeId \ {n} : parent'[x] = parent[x] /\ path'[x] = path[x],
         \/ kind'[n] = "thread" /\ path'[n] = {n}
         \/ kind'[n] = "trace" /\ path'[n] = path[n]
         \/ kind'[n] = "exit" /\ parent'[n] = NULL /\ path'[n] = path[n]
  PROVE  PathsNest' /\ ChildCountExact'
<1>1. /\ IInv /\ n \in NodeId /\ path[n] = {} /\ kind[n] = "free"
      /\ \A x \in NodeId : parent[x] # n /\ n \notin path[x]
      /\ \A x \in NodeId \ {n} : kind'[x] = kind[x]
  BY DEF NestInv, Fresh
<1>2. ASSUME NEW x \in NodeId, NEW m \in path[x] PROVE m \in NodeId \ {n} /\ x # n
  BY <1>1, <1>2, PathFacts
<1>3. PathsNest'
  <2>1. SUFFICES ASSUME NEW x \in NodeId, NEW m \in path'[x] PROVE path'[m] \subseteq path'[x]
    BY DEF PathsNest
  <2>2. CASE x = n
    BY <1>1, <2>1, <2>2
  <2>3. CASE x # n
    BY <1>2, <2>1, <2>3 DEF NestInv, PathsNest
  <2> QED
    BY <2>2, <2>3
<1>4. PathFollowsParents'
  <2>1. SUFFICES ASSUME NEW x \in NodeId
                 PROVE  path'[x] = CASE kind'[x] = "thread" -> {x}
                                     [] x \in FlowNodes' /\ parent'[x] # NULL -> {x} \cup path'[parent'[x]]
                                     [] OTHER -> {}
    BY DEF PathFollowsParents
  <2>2. CASE x = n /\ kind'[n] = "thread"
    <3>1. x \notin FlowNodes'
      BY <2>2 DEF FlowNodes
    <3> QED
      BY <2>2, <3>1
  <2>3. CASE x = n /\ kind'[n] # "thread"
    <3>1. path'[x] = {} /\ ~(x \in FlowNodes' /\ parent'[x] # NULL)
      BY <1>1, <2>3 DEF FlowNodes
    <3> QED
      BY <2>3, <3>1
  <2>4. CASE x # n
    <3>1. /\ kind'[x] = kind[x] /\ parent'[x] = parent[x] /\ path'[x] = path[x]
          /\ x \in FlowNodes' <=> x \in FlowNodes
      BY <1>1, <2>4 DEF FlowNodes
    <3>2. parent[x] # NULL => path'[parent[x]] = path[parent[x]]
      BY <1>1, LinkFacts
    <3>3. /\ kind[x] = "thread" => path[x] = {x} /\ x \notin FlowNodes
          /\ x \in FlowNodes /\ parent[x] # NULL => path[x] = {x} \cup path[parent[x]]
          /\ kind[x] # "thread" /\ ~(x \in FlowNodes /\ parent[x] # NULL) => path[x] = {}
      BY PathOf DEF FlowNodes
    <3>4. CASE kind[x] = "thread"
      BY <3>1, <3>3, <3>4
    <3>5. CASE kind[x] # "thread" /\ x \in FlowNodes /\ parent[x] # NULL
      BY <3>1, <3>2, <3>3, <3>5
    <3>6. CASE kind[x] # "thread" /\ ~(x \in FlowNodes /\ parent[x] # NULL)
      BY <3>1, <3>3, <3>6
    <3> QED
      BY <3>4, <3>5, <3>6
  <2> QED
    BY <2>2, <2>3, <2>4
<1>5. ASSUME NEW x \in NodeId, kind'[x] # "trace"
      PROVE  childCount'[x] = Cardinality({m \in FlowNodes' : x \in path'[m] /\ x # m})
  <2>1. {m \in FlowNodes' : x \in path'[m] /\ x # m} = Below(x)
    BY <1>1 DEF Below, FlowNodes
  <2>2. childCount[x] = Cardinality(Below(x))
    BY <1>1, <1>5 DEF NestInv, ChildCountExact, Below
  <2> QED
    BY <2>1, <2>2
<1> QED
  BY <1>3, <1>4, <1>5 DEF ChildCountExact

(* A node is added at the end of a path: add_child counts it on all of that. *)
LEMMA PathGrows ==
  ASSUME NestInv, NEW n, NEW t, NEW p, AddsFlow(n, t, p)
  PROVE  PathsNest' /\ ChildCountExact'
<1>1. /\ IInv /\ n \in NodeId /\ path[n] = {} /\ kind[n] = "free"
      /\ \A x \in NodeId : parent[x] # n /\ n \notin path[x]
      /\ \A x \in NodeId \ {n} : /\ kind'[x] = kind[x] /\ parent'[x] = parent[x]
                                 /\ path'[x] = path[x]
      /\ p \in NodeId \ {n} /\ path'[n] = {n} \cup path[p] /\ parent'[n] = p
      /\ kind'[n] \in {"enter", "exit"}
  BY DEF NestInv, AddsFlow, Fresh
<1>2. ASSUME NEW x \in NodeId, NEW m \in path[x] PROVE m \in NodeId \ {n} /\ x # n
  BY <1>1, <1>2, PathFacts
<1>3. PathsNest'
  <2>1. SUFFICES ASSUME NEW x \in NodeId, NEW m \in path'[x] PROVE path'[m] \subseteq path'[x]
    BY DEF PathsNest
  <2>2. CASE x = n
    <3>1. CASE m = n
      BY <2>2, <3>1
    <3>2. CASE m # n
      <4>1. m \in path[p]
        BY <1>1, <2>1, <2>2, <3>2
      <4>2. path'[m] = path[m] /\ path[m] \subseteq path[p]
        BY <1>1, <1>2, <4>1, PathBelow
      <4> QED
        BY <1>1, <2>2, <4>2
    <3> QED
      BY <3>1, <3>2
  <2>3. CASE x # n
    BY <1>1, <1>2, <2>1, <2>3 DEF NestInv, PathsNest
  <2> QED
    BY <2>2, <2>3
<1>4. PathFollowsParents'
  <2>1. SUFFICES ASSUME NEW x \in NodeId
                 PROVE  path'[x] = CASE kind'[x] = "thread" -> {x}
                                     [] x \in FlowNodes' /\ parent'[x] # NULL -> {x} \cup path'[parent'[x]]
                                     [] OTHER -> {}
    BY DEF PathFollowsParents
  <2>2. CASE x = n
    <3>1. /\ kind'[x] # "thread" /\ x \in FlowNodes' /\ parent'[x] # NULL
          /\ path'[x] = {x} \cup path'[parent'[x]]
      BY <1>1, <2>2, NodeIds DEF FlowNodes
    <3> QED
      BY <3>1
  <2>3. CASE x # n
    <3>1. /\ kind'[x] = kind[x] /\ parent'[x] = parent[x] /\ path'[x] = path[x]
          /\ x \in FlowNodes' <=> x \in FlowNodes
      BY <1>1, <2>3 DEF FlowNodes
    <3>2. parent[x] # NULL => path'[parent[x]] = path[parent[x]]
      BY <1>1, LinkFacts
    <3>3. /\ kind[x] = "thread" => path[x] = {x} /\ x \notin FlowNodes
          /\ x \in FlowNodes /\ parent[x] # NULL => path[x] = {x} \cup path[parent[x]]
          /\ kind[x] # "thread" /\ ~(x \in FlowNodes /\ parent[x] # NULL) => path[x] = {}
      BY PathOf DEF FlowNodes
    <3>4. CASE kind[x] = "thread"
      BY <3>1, <3>3, <3>4
    <3>5. CASE kind[x] # "thread" /\ x \in FlowNodes /\ parent[x] # NULL
      BY <3>1, <3>2, <3>3, <3>5
    <3>6. CASE kind[x] # "thread" /\ ~(x \in FlowNodes /\ parent[x] # NULL)
      BY <3>1, <3>3, <3>6
    <3> QED
      BY <3>4, <3>5, <3>6
  <2> QED
    BY <2>2, <2>3
<1>5. ASSUME NEW x \in NodeId, kind'[x] # "trace"
      PROVE  childCount'[x] = Cardinality({m \in FlowNodes' : x \in path'[m] /\ x # m})
  <2>1. {m \in FlowNodes' : x \in path'[m] /\ x # m}
          = IF x \in path[p] THEN Below(x) \cup {n} ELSE Below(x)
    <3>1. FlowNodes' = FlowNodes \cup {n} /\ n \notin FlowNodes
      BY <1>1 DEF FlowNodes
    <3>2. \A m \in FlowNodes : path'[m] = path[m] /\ m # n
      BY <1>1, <3>1 DEF FlowNodes
    <3>3. x \in path'[n] /\ x # n <=> x \in path[p]
      BY <1>1
    <3> QED
      BY <3>1, <3>2, <3>3 DEF Below
  <2>2. n \notin Below(x) /\ IsFiniteSet(Below(x))
    BY <1>1, BelowFinite DEF Below, FlowNodes
  <2>3. Cardinality(Below(x) \cup {n}) = Cardinality(Below(x)) + 1 /\ Cardinality(Below(x)) \in Nat
    BY <2>2, FS_AddElement, FS_CardinalityType
  <2>4. childCount[x] = Cardinality(Below(x))
    BY <1>1, <1>5 DEF NestInv, ChildCountExact, Below
  <2>5. childCount'[x] = childCount[x] + (IF x \in path[p] THEN 1 ELSE 0)
    BY DEF AddsFlow
  <2>6. CASE x \in path[p]
    BY <2>1, <2>3, <2>4, <2>5, <2>6
  <2>7. CASE x \notin path[p]
    <3>1. {m \in FlowNodes' : x \in path'[m] /\ x # m} = Below(x)
      BY <2>1, <2>7
    <3>2. childCount'[x] = childCount[x]
      BY <2>3, <2>4, <2>5, <2>7
    <3> QED
      BY <2>4, <3>1, <3>2
  <2> QED
    BY <2>6, <2>7
<1> QED
  BY <1>3, <1>4, <1>5 DEF ChildCountExact

(* Lines of text already shown stay where they are; a call that returns      *)
(* later returns after them.                                               *)
LEMMA OldLines ==
  ASSUME NestInv, NEW n, Fresh(n), NEW x \in Traces', x # n, parent'[x] = parent[x],
         \A y \in NodeId \ {n} : peer'[y] = peer[y] \/ peer'[y] = n
  PROVE  \/ parent'[x] = thread'[x]
         \/ /\ kind'[parent'[x]] = "enter"
            /\ thread'[parent'[x]] = thread'[x]
            /\ peer'[parent'[x]] # NULL => x < peer'[parent'[x]]
<1>1. IInv /\ x \in NodeId \ {n} /\ x \in Traces /\ thread'[x] = thread[x] /\ n \in Nat /\ n = cNodes + 1
  BY DEF NestInv, Fresh, Traces
<1>2. \/ parent[x] = thread[x]
      \/ /\ kind[parent[x]] = "enter" /\ thread[parent[x]] = thread[x]
         /\ peer[parent[x]] # NULL => x < peer[parent[x]]
  BY <1>1 DEF NestInv, TraceInsideOpenCall
<1>3. parent[x] \in NodeId \ {n}
  <2>1. parent[x] # NULL
    BY <1>1 DEF IInv, TreeWellFormed, Traces, NULL
  <2> QED
    BY <1>1, <2>1, LinkFacts DEF Fresh
<1>4. kind'[parent[x]] = kind[parent[x]] /\ thread'[parent[x]] = thread[parent[x]]
  BY <1>3 DEF Fresh
<1>5. x < n
  <2>1. x \in Nat /\ x <= cNodes /\ cNodes \in Nat
    BY <1>1, SlotFacts DEF Traces
  <2> QED
    BY <1>1, <2>1
<1> QED
  BY <1>1, <1>2, <1>3, <1>4, <1>5

LEMMA LinesStay ==
  ASSUME NestInv, NEW n, Fresh(n), \A x \in NodeId \ {n} : parent'[x] = parent[x],
         \A y \in NodeId \ {n} : peer'[y] = peer[y] \/ peer'[y] = n,
         kind'[n] # "trace"
  PROVE  TraceInsideOpenCall'
<1>1. ASSUME NEW x \in Traces' PROVE x \in NodeId \ {n}
  BY DEF Traces
<1> QED
  BY <1>1, OldLines DEF TraceInsideOpenCall

(* A new line goes below the innermost call while that is open.             *)
LEMMA LineAdded ==
  ASSUME NestInv, NEW n, NEW t, AddsLine(n, t)
  PROVE  TraceInsideOpenCall'
<1>1. IInv /\ Fresh(n) /\ t \in Threads /\ peer' = peer /\ n # NULL
  BY NodeIds DEF NestInv, AddsLine, Fresh
<1>2. SUFFICES ASSUME NEW x \in Traces'
               PROVE  \/ parent'[x] = thread'[x]
                      \/ /\ kind'[parent'[x]] = "enter"
                         /\ thread'[parent'[x]] = thread'[x]
                         /\ peer'[parent'[x]] # NULL => x < peer'[parent'[x]]
  BY DEF TraceInsideOpenCall
<1>3. CASE x # n
  <2>1. parent'[x] = parent[x]
    BY <1>3 DEF AddsLine, Traces
  <2> QED
    BY <1>1, <1>3, <2>1, OldLines
<1>4. CASE x = n
  <2>1. parent'[x] = EnterParent(t) /\ thread'[x] = t
    BY <1>4 DEF AddsLine
  <2>2. CASE curentFlow[t] # NULL /\ IsOpenEnter(curentFlow[t])
    <3>1. EnterParent(t) = curentFlow[t] /\ curentFlow[t] \in NodeId \ {n}
      BY <1>1, <2>2, ThreadFacts DEF EnterParent, Fresh
    <3>2. thread[curentFlow[t]] = t
      BY <1>1, <2>2, ThreadFacts
    <3> QED
      BY <1>1, <2>1, <2>2, <3>1, <3>2 DEF IsOpenEnter, Fresh
  <2>3. CASE ~(curentFlow[t] # NULL /\ IsOpenEnter(curentFlow[t]))
    BY <2>1, <2>3 DEF EnterParent
  <2> QED
    BY <2>2, <2>3
<1> QED
  BY <1>3, <1>4

-----------------------------------------------------------------------------
LEMMA InitNestInv == Init => NestInv
<1> SUFFICES ASSUME Init PROVE NestInv
  OBVIOUS
<1>1. Threads = {} /\ FlowNodes = {} /\ Traces = {}
  BY DEF Init, Threads, FlowNodes, Traces
<1>2. PathFollowsParents
  BY <1>1 DEF Init, PathFollowsParents
<1>3. ASSUME NEW x \in NodeId
      PROVE  childCount[x] = Cardinality({m \in FlowNodes : x \in path[m] /\ x # m})
  <2>1. {m \in FlowNodes : x \in path[m] /\ x # m} = {}
    BY <1>1
  <2> QED
    BY <2>1, FS_EmptySet DEF Init
<1>4. PathsNest
  BY DEF Init, PathsNest
<1> QED
  BY <1>1, <1>2, <1>3, <1>4, InitIInv
  DEF NestInv, ReturnedLeft, SkippedLeft, SameFnCallsNest, InnerCallsNest,
      TraceInsideOpenCall, ChildCountExact

LEMMA ClearNest ==
  ASSUME IInv', ClearArchive
  PROVE  NestInv'
<1>1. Threads' = {} /\ FlowNodes' = {} /\ Traces' = {}
  BY DEF ClearArchive, Threads, FlowNodes, Traces
<1>2. PathFollowsParents'
  BY <1>1 DEF ClearArchive, PathFollowsParents
<1>3. ASSUME NEW x \in NodeId
      PROVE  childCount'[x] = Cardinality({m \in FlowNodes' : x \in path'[m] /\ x # m})
  <2>1. {m \in FlowNodes' : x \in path'[m] /\ x # m} = {}
    BY <1>1
  <2> QED
    BY <2>1, FS_EmptySet DEF ClearArchive
<1>4. PathsNest'
  BY DEF ClearArchive, PathsNest
<1> QED
  BY <1>1, <1>2, <1>3, <1>4
  DEF NestInv, ReturnedLeft, SkippedLeft, SameFnCallsNest, InnerCallsNest,
      TraceInsideOpenCall, ChildCountExact

LEMMA NothingNest ==
  ASSUME NestInv, IInv', AddsNothing
  PROVE  NestInv'
<1>1. UNCHANGED <<kind, thread, fn, parent, peer, path, childCount, curentFlow>>
  BY DEF AddsNothing, nodeVars, treeVars
<1>2. Threads' = Threads /\ FlowNodes' = FlowNodes /\ Traces' = Traces
  BY <1>1 DEF Threads, FlowNodes, Traces
<1>3. PathsNest' /\ SameFnCallsNest' /\ InnerCallsNest' /\ TraceInsideOpenCall'
  BY <1>1, <1>2 DEF NestInv, PathsNest, SameFnCallsNest, InnerCallsNest, TraceInsideOpenCall
<1>4. ReturnedLeft' /\ SkippedLeft'
  BY <1>1, <1>2 DEF NestInv, ReturnedLeft, SkippedLeft, Reach
<1>5. ChildCountExact'
  BY <1>1, <1>2 DEF NestInv, ChildCountExact, PathFollowsParents
<1> QED
  BY <1>3, <1>4, <1>5 DEF NestInv

LEMMA StepNestInv == NestInv /\ [Next]_vars => NestInv'
<1> SUFFICES ASSUME NestInv, [Next]_vars PROVE NestInv'
  OBVIOUS
<1> DEFINE n == cNodes + 1
<1>1. IInv /\ IInv'
  BY StepIInv DEF NestInv
<1>2. CASE ClearArchive
  BY <1>1, <1>2, ClearNest
<1>3. CASE AddsNothing
  BY <1>1, <1>3, NothingNest
<1>4. CASE AddsThread(n)
  <2>1. ReturnedLeft' /\ SkippedLeft' /\ SameFnCallsNest' /\ InnerCallsNest'
    BY <1>1, <1>4, ThreadPairsNothing, UnpairedNest
  <2>2. PathsNest' /\ ChildCountExact'
    BY <1>1, <1>4, PathsStay DEF AddsThread
  <2>3. TraceInsideOpenCall'
    BY <1>4, LinesStay DEF AddsThread
  <2> QED
    BY <1>1, <2>1, <2>2, <2>3 DEF NestInv
<1>5. ASSUME NEW t \in Threads, AddsLine(n, t) PROVE NestInv'
  <2>1. ReturnedLeft' /\ SkippedLeft' /\ SameFnCallsNest' /\ InnerCallsNest'
    BY <1>1, <1>5, LinePairsNothing, UnpairedNest
  <2>2. PathsNest' /\ ChildCountExact'
    BY <1>1, <1>5, PathsStay DEF AddsLine
  <2>3. TraceInsideOpenCall'
    BY <1>5, LineAdded
  <2> QED
    BY <1>1, <2>1, <2>2, <2>3 DEF NestInv
<1>6. ASSUME NEW t \in Threads, NEW p \in NodeId, AddsFlow(n, t, p) PROVE NestInv'
  <2>1. ReturnedLeft' /\ SkippedLeft' /\ SameFnCallsNest' /\ InnerCallsNest'
    BY <1>1, <1>6, FlowPairsNothing, UnpairedNest
  <2>2. PathsNest' /\ ChildCountExact'
    BY <1>6, PathGrows
  <2>3. TraceInsideOpenCall'
    BY <1>6, LinesStay DEF AddsFlow
  <2> QED
    BY <1>1, <2>1, <2>2, <2>3 DEF NestInv
<1>7. ASSUME NEW t \in Threads, NEW m \in NodeId, Pairs(m, n, t) PROVE NestInv'
  <2>1. ReturnedLeft' /\ SkippedLeft' /\ SameFnCallsNest' /\ InnerCallsNest'
    BY <1>1, <1>7, PairedNest
  <2>2. PathsNest' /\ ChildCountExact'
    BY <1>1, <1>7, PathsStay DEF Pairs, Fresh
  <2>3. TraceInsideOpenCall'
    BY <1>7, LinesStay DEF Pairs
  <2> QED
    BY <1>1, <2>1, <2>2, <2>3 DEF NestInv
<1> QED
  BY <1>1, <1>2, <1>3, <1>4, <1>5, <1>6, <1>7, StepView

LEMMA Nesting == Spec => []NestInv
  BY InitNestInv, StepNestInv, PTL DEF Spec

-----------------------------------------------------------------------------
(* The properties that NestInv contains.                                    *)

(* Whatever records arrive in whatever order, two calls of one function in   *)
(* one thread that have both returned never cross in time (the walk of       *)
(* addToTree stops at the nearest open ENTER).                             *)
THEOREM SameFnNest == Spec => []SameFnCallsNest
<1>1. NestInv => SameFnCallsNest
  BY DEF NestInv
<1> QED
  BY <1>1, Nesting, PTL

(* A call shown below another one that is not at the root of the thread      *)
(* returns before it, or is never paired (addToTree moves curentFlow up).    *)
THEOREM InnerNest == Spec => []InnerCallsNest
<1>1. NestInv => InnerCallsNest
  BY DEF NestInv
<1> QED
  BY <1>1, Nesting, PTL

(* A line of text is never shown below a call that had returned before it    *)
(* was started (addTrace asks isOpenEnter of curentFlow).                   *)
THEOREM TraceInside == Spec => []TraceInsideOpenCall
<1>1. NestInv => TraceInsideOpenCall
  BY DEF NestInv
<1> QED
  BY <1>1, Nesting, PTL

(* The counters of add_child are always the true sizes of the subtrees, and  *)
(* the paths along parent are what the walk of addToTree visits.             *)
THEOREM CountsExact == Spec => []ChildCountExact
<1>1. NestInv => ChildCountExact
  BY DEF NestInv
<1> QED
  BY <1>1, Nesting, PTL

-----------------------------------------------------------------------------
(* A set of numbers in descending order: LatestFirst(S) is the only one.     *)

LEMMA AtLeast ==
  ASSUME NEW S \in SUBSET Nat, NEW s, ListsLatestFirst(s, S), NEW i \in 1..Len(s)
  PROVE  Cardinality({m \in S : m >= s[i]}) = i
<1> DEFINE T == {m \in S : m >= s[i]}
           g == [j \in 1..i |-> s[j]]
<1>1. /\ Len(s) \in Nat
      /\ \A j \in 1..Len(s) : s[j] \in S /\ s[j] \in Nat
      /\ \A x \in S : \E j \in 1..Len(s) : s[j] = x
      /\ \A j, k \in 1..Len(s) : j < k => s[k] < s[j]
  BY LenProperties, ElementOfSeq DEF ListsLatestFirst
<1>0. i \in Nat
  BY <1>1
<1>2. ASSUME NEW j \in 1..i PROVE g[j] \in T
  <2>1. j \in 1..Len(s) /\ g[j] = s[j]
    BY <1>0, <1>1
  <2>2. j = i \/ j < i
    BY <1>0, <1>1
  <2> QED
    BY <1>0, <1>1, <2>1, <2>2
<1>3. \A j, k \in 1..i : g[j] = g[k] => j = k
  BY <1>0, <1>1
<1>4. ASSUME NEW x \in T PROVE \E j \in 1..i : g[j] = x
  <2>1. PICK j \in 1..Len(s) : s[j] = x
    BY <1>0, <1>1
  <2>2. ~(i < j)
    BY <1>0, <1>1, <2>1
  <2> QED
    BY <1>0, <1>1, <2>1, <2>2
<1>5. g \in Bijection(1..i, T)
  BY <1>2, <1>3, <1>4, Fun_IsBij
<1> QED
  BY <1>0, <1>1, <1>5, FS_CountingElements, Fun_ExistsBij

LEMMA Listed ==
  ASSUME NEW S \in SUBSET Nat, NEW s, ListsLatestFirst(s, S)
  PROVE  LatestFirst(S) = s
<1>1. /\ Len(s) \in Nat /\ s = [i \in 1..Len(s) |-> s[i]]
      /\ \A j \in 1..Len(s) : s[j] \in S /\ s[j] \in Nat
      /\ \A x \in S : \E j \in 1..Len(s) : s[j] = x
      /\ \A j, k \in 1..Len(s) : j < k => s[k] < s[j]
  BY LenProperties, ElementOfSeq DEF ListsLatestFirst
<1>2. Cardinality(S) = Len(s)
  <2>1. \A j, k \in 1..Len(s) : s[j] = s[k] => j = k
    BY <1>1
  <2>2. s \in Bijection(1..Len(s), S)
    BY <1>1, <2>1, Fun_IsBij
  <2> QED
    BY <1>1, <2>2, FS_CountingElements, Fun_ExistsBij
<1>3. ASSUME NEW i \in 1..Len(s)
      PROVE  s[i] = CHOOSE n \in S : Cardinality({m \in S : m >= n}) = i
  <2>1. Cardinality({m \in S : m >= s[i]}) = i
    BY AtLeast
  <2>2. ASSUME NEW n \in S, Cardinality({m \in S : m >= n}) = i PROVE n = s[i]
    <3>1. PICK j \in 1..Len(s) : s[j] = n
      BY <1>1
    <3>2. Cardinality({m \in S : m >= s[j]}) = j
      BY AtLeast
    <3> QED
      BY <2>2, <3>1, <3>2
  <2> QED
    BY <1>1, <2>1, <2>2
<1> QED
  BY <1>1, <1>2, <1>3 DEF LatestFirst
-----------------------------------------------------------------------------
(* What a step does to the open calls of a thread, and what is left to show  *)
(* when their new list is known.                                           *)

StackOK(t) == /\ ListsLatestFirst(OpenStack(t), OpenCalls(t))
              /\ CallerChain(OpenStack(t), t)
              /\ TopOfStack(OpenStack(t), t)

PInv == NestInv /\ PTypeOK /\ OpenStacks

LEMMA OpenInNodes == ASSUME NEW t PROVE OpenCalls(t) \subseteq NodeId /\ OpenCalls(t)' \subseteq NodeId
  BY DEF OpenCalls

LEMMA StackIs ==
  ASSUME NEW t \in NodeId, NEW s, ListsLatestFirst(s, OpenCalls(t)'),
         s # << >> => curentFlow'[t] = s[1],
         \A i \in 1..Len(s) : parent'[s[i]] = IF i < Len(s) THEN s[i + 1] ELSE t,
         Len(s) <= Len(running'[t]),
         \A i \in 1..Len(s) : fn'[s[i]] = running'[t][i]
  PROVE  StackOK(t)' /\ OpenStack(t)' = s
<1>1. OpenCalls(t)' \in SUBSET Nat
  BY OpenInNodes, NodeIds
<1>2. OpenStack(t)' = s
  BY <1>1, Listed DEF OpenStack
<1> QED
  BY <1>2 DEF StackOK, CallerChain, TopOfStack

(* Without open calls the list is empty.                                    *)
LEMMA NothingOpen ==
  ASSUME NEW t \in NodeId, OpenCalls(t)' = {}, running'[t] \in Seq(Fns)
  PROVE  StackOK(t)' /\ OpenStack(t)' = << >>
<1> DEFINE s == << >>
<1>1. Len(s) = 0 /\ \A i \in 1..Len(s) : FALSE
  OBVIOUS
<1>2. Len(running'[t]) \in Nat
  BY LenProperties
<1>3. ListsLatestFirst(s, OpenCalls(t)')
  BY <1>1 DEF ListsLatestFirst
<1>4. s # << >> => curentFlow'[t] = s[1]
  OBVIOUS
<1> HIDE DEF s
<1>5. /\ \A i \in 1..Len(s) : parent'[s[i]] = IF i < Len(s) THEN s[i + 1] ELSE t
      /\ Len(s) <= Len(running'[t])
      /\ \A i \in 1..Len(s) : fn'[s[i]] = running'[t][i]
  BY <1>1, <1>2
<1>6. StackOK(t)' /\ OpenStack(t)' = s
  BY <1>3, <1>4, <1>5, StackIs
<1> QED
  BY <1>6 DEF s

(* Facts about the list in the unprimed state, as later steps use them.      *)
LEMMA StackFacts ==
  ASSUME PInv, NEW t \in NodeId
  PROVE  LET s == OpenStack(t) IN
         /\ ListsLatestFirst(s, OpenCalls(t))
         /\ s \in Seq(NodeId) /\ Len(s) \in Nat
         /\ \A i \in 1..Len(s) : s[i] \in OpenCalls(t) /\ s[i] \in NodeId
         /\ s # << >> => curentFlow[t] = s[1]
         /\ \A i \in 1..Len(s) : parent[s[i]] = IF i < Len(s) THEN s[i + 1] ELSE t
         /\ Len(s) <= Len(running[t])
         /\ \A i \in 1..Len(s) : fn[s[i]] = running[t][i]
         /\ s = << >> <=> OpenCalls(t) = {}
<1> DEFINE s == OpenStack(t)
<1>1. StackOK(t)
  BY DEF PInv, OpenStacks, StackOK
<1>2. /\ ListsLatestFirst(s, OpenCalls(t))
      /\ s # << >> => curentFlow[t] = s[1]
      /\ \A i \in 1..Len(s) : parent[s[i]] = IF i < Len(s) THEN s[i + 1] ELSE t
      /\ Len(s) <= Len(running[t])
      /\ \A i \in 1..Len(s) : fn[s[i]] = running[t][i]
  BY <1>1 DEF StackOK, CallerChain, TopOfStack
<1> HIDE DEF s
<1>3. s \in Seq(OpenCalls(t)) /\ \A x \in OpenCalls(t) : \E i \in 1..Len(s) : s[i] = x
  BY <1>2 DEF ListsLatestFirst
<1>4. Len(s) \in Nat /\ \A i \in 1..Len(s) : s[i] \in OpenCalls(t)
  BY <1>3, LenProperties, ElementOfSeq
<1>5. OpenCalls(t) \subseteq NodeId
  BY DEF OpenCalls
<1>6. s \in Seq(NodeId)
  BY <1>3, <1>5, SeqMonotonic
<1>7. s = << >> <=> OpenCalls(t) = {}
  <2>1. s = << >> => Len(s) = 0
    BY EmptySeq
  <2>2. s # << >> => Len(s) \in Nat \ {0}
    BY <1>3, EmptySeq
  <2> QED
    BY <1>3, <1>4, <2>1, <2>2
<1> QED
  BY <1>2, <1>4, <1>5, <1>6, <1>7 DEF s

(* A thread whose open calls a step does not touch.                         *)
LEMMA StackKept ==
  ASSUME PInv, NEW t \in NodeId, OpenCalls(t)' = OpenCalls(t),
         OpenCalls(t) # {} => curentFlow'[t] = curentFlow[t],
         \A x \in OpenCalls(t) : parent'[x] = parent[x] /\ fn'[x] = fn[x],
         running'[t] = running[t]
  PROVE  StackOK(t)' /\ OpenStack(t)' = OpenStack(t)
<1> DEFINE s == OpenStack(t)
<1>1. /\ ListsLatestFirst(s, OpenCalls(t))
      /\ \A i \in 1..Len(s) : s[i] \in OpenCalls(t) /\ s[i] \in NodeId
      /\ s # << >> => curentFlow[t] = s[1]
      /\ \A i \in 1..Len(s) : parent[s[i]] = IF i < Len(s) THEN s[i + 1] ELSE t
      /\ Len(s) <= Len(running[t])
      /\ \A i \in 1..Len(s) : fn[s[i]] = running[t][i]
      /\ s = << >> <=> OpenCalls(t) = {}
  BY StackFacts
<1> HIDE DEF s
<1>2. /\ ListsLatestFirst(s, OpenCalls(t)')
      /\ s # << >> => curentFlow'[t] = s[1]
      /\ \A i \in 1..Len(s) : parent'[s[i]] = IF i < Len(s) THEN s[i + 1] ELSE t
      /\ Len(s) <= Len(running'[t])
      /\ \A i \in 1..Len(s) : fn'[s[i]] = running'[t][i]
  BY <1>1
<1>3. StackOK(t)' /\ OpenStack(t)' = s
  BY <1>2, StackIs
<1> QED
  BY <1>3 DEF s

LEMMA OpenAdded ==
  ASSUME IInv, NEW n, Fresh(n), peer' = peer, NEW t
  PROVE  OpenCalls(t)' = IF kind'[n] = "enter" /\ thread'[n] = t THEN OpenCalls(t) \cup {n}
                         ELSE OpenCalls(t)
<1>1. /\ n \in NodeId /\ kind[n] = "free" /\ peer[n] = NULL
      /\ \A x \in NodeId \ {n} : kind'[x] = kind[x] /\ thread'[x] = thread[x]
  BY DEF Fresh
<1>2. n \notin OpenCalls(t)
  BY <1>1 DEF OpenCalls, IsOpenEnter
<1>3. n \in OpenCalls(t)' <=> kind'[n] = "enter" /\ thread'[n] = t
  BY <1>1 DEF OpenCalls, IsOpenEnter
<1>4. \A x \in NodeId \ {n} : x \in OpenCalls(t)' <=> x \in OpenCalls(t)
  BY <1>1 DEF OpenCalls, IsOpenEnter
<1> QED
  BY <1>2, <1>3, <1>4, OpenInNodes

LEMMA OthersKept ==
  ASSUME PInv, NEW n, Fresh(n), peer' = peer,
         \A x \in NodeId \ {n} : parent'[x] = parent[x] /\ fn'[x] = fn[x],
         NEW t \in NodeId, ~(kind'[n] = "enter" /\ thread'[n] = t),
         running'[t] = running[t],
         OpenCalls(t) # {} => curentFlow'[t] = curentFlow[t]
  PROVE  StackOK(t)' /\ OpenStack(t)' = OpenStack(t)
<1>1. OpenCalls(t)' = OpenCalls(t)
  BY OpenAdded DEF PInv, NestInv
<1>2. n \notin OpenCalls(t)
  BY DEF Fresh, OpenCalls, IsOpenEnter
<1> QED
  BY <1>1, <1>2, OpenInNodes, StackKept

(* Only threads have open calls.                                            *)
LEMMA OpenOfThread ==
  ASSUME IInv, NEW t, OpenCalls(t) # {}
  PROVE  t \in Threads
<1>1. PICK x \in NodeId : kind[x] = "enter" /\ thread[x] = t
  BY DEF OpenCalls, IsOpenEnter
<1> QED
  BY <1>1, SlotFacts DEF Threads

(* The innermost open call, and what it means that there is none.            *)
LEMMA InnermostIs ==
  ASSUME PInv, NEW t \in NodeId
  PROVE  Tree!Innermost(t) = IF OpenStack(t) = << >> THEN t ELSE OpenStack(t)[1]
  BY StackFacts DEF Tree!Innermost

LEMMA EnterParentIs ==
  ASSUME PInv, NEW t \in Threads
  PROVE  EnterParent(t) = Tree!Innermost(t)
<1>1. IInv /\ t \in NodeId
  BY DEF PInv, NestInv, Threads
<1>2. CASE OpenStack(t) = << >>
  <2>1. OpenCalls(t) = {}
    BY <1>1, <1>2, StackFacts
  <2>2. ~(curentFlow[t] # NULL /\ IsOpenEnter(curentFlow[t]))
    BY <1>1, <2>1, ThreadFacts DEF OpenCalls
  <2> QED
    BY <1>1, <1>2, <2>2, InnermostIs DEF EnterParent
<1>3. CASE OpenStack(t) # << >>
  <2> DEFINE s == OpenStack(t)
  <2>1. curentFlow[t] = s[1] /\ Len(s) \in Nat /\ s \in Seq(NodeId)
        /\ \A i \in 1..Len(s) : s[i] \in OpenCalls(t)
    BY <1>1, <1>3, StackFacts
  <2>2. s[1] \in OpenCalls(t)
    BY <1>3, <2>1, EmptySeq
  <2> QED
    BY <1>1, <1>3, <2>1, <2>2, InnermostIs, NodeIds DEF EnterParent, OpenCalls
<1> QED
  BY <1>2, <1>3

-----------------------------------------------------------------------------
(* A call.                                                                  *)

LEMMA Pushed ==
  ASSUME NEW s \in Seq(NodeId), NEW n \in NodeId
  PROVE  /\ << n >> \o s \in Seq(NodeId)
         /\ Len(<< n >> \o s) = Len(s) + 1
         /\ (<< n >> \o s)[1] = n
         /\ \A i \in 1..Len(s) : (<< n >> \o s)[i + 1] = s[i]
<1>1. Len(s) \in Nat /\ << n >> \in Seq(NodeId) /\ Len(<< n >>) = 1 /\ << n >>[1] = n
  BY LenProperties
<1>2. /\ << n >> \o s \in Seq(NodeId)
      /\ Len(<< n >> \o s) = 1 + Len(s)
      /\ \A i \in 1..(1 + Len(s)) :
           (<< n >> \o s)[i] = IF i <= 1 THEN << n >>[i] ELSE s[i - 1]
  BY <1>1, ConcatProperties
<1> QED
  BY <1>1, <1>2

LEMMA CallStack ==
  ASSUME PInv, NEW t \in Threads, NEW f \in Fns, Enter(t, f),
         running' = [running EXCEPT ![t] = << f >> \o @]
  PROVE  StackOK(t)' /\ OpenStack(t)' = << cNodes + 1 >> \o OpenStack(t)
<1> DEFINE n == cNodes + 1
           s == OpenStack(t)
           u == << n >> \o s
<1>1. /\ IInv /\ t \in NodeId /\ AddsFlow(n, t, EnterParent(t))
      /\ Fresh(n) /\ peer' = peer /\ n \in NodeId
  BY EnterView DEF PInv, NestInv, Threads, AddsFlow, Fresh
<1>2. kind'[n] = "enter" /\ thread'[n] = t /\ fn'[n] = f
  BY <1>1, FreshNode DEF Enter, IInv, TypeOK
<1>3. /\ s \in Seq(NodeId) /\ Len(s) \in Nat
      /\ ListsLatestFirst(s, OpenCalls(t))
      /\ \A i \in 1..Len(s) : s[i] \in OpenCalls(t) /\ s[i] \in NodeId
      /\ \A i \in 1..Len(s) : parent[s[i]] = IF i < Len(s) THEN s[i + 1] ELSE t
      /\ Len(s) <= Len(running[t])
      /\ \A i \in 1..Len(s) : fn[s[i]] = running[t][i]
  BY <1>1, StackFacts
<1>4. EnterParent(t) = IF s = << >> THEN t ELSE s[1]
  BY <1>1, EnterParentIs, InnermostIs
<1>5. s # << >> <=> Len(s) > 0
  BY <1>3, EmptySeq
<1>6. /\ u \in Seq(NodeId) /\ Len(u) = Len(s) + 1 /\ u[1] = n
      /\ \A i \in 1..Len(s) : u[i + 1] = s[i]
  BY <1>1, <1>3, Pushed
<1>7. OpenCalls(t)' = OpenCalls(t) \cup {n} /\ n \notin OpenCalls(t)
  BY <1>1, <1>2, OpenAdded DEF Fresh, OpenCalls, IsOpenEnter
<1>8. \A x \in OpenCalls(t) : x \in NodeId \ {n} /\ x < n /\ x \in Nat
  BY <1>1, <1>7, OpenInNodes, SlotFacts DEF Fresh, OpenCalls, IsOpenEnter
<1> HIDE DEF n, s, u
<1>9. ASSUME NEW i \in 1..Len(u)
      PROVE  i = 1 \/ \E j \in 1..Len(s) : i = j + 1 /\ u[i] = s[j]
  <2>1. i = 1 \/ (i - 1) \in 1..Len(s)
    BY <1>3, <1>6
  <2>2. i = (i - 1) + 1
    BY <1>3, <1>6
  <2> QED
    BY <1>6, <2>1, <2>2
<1>10. ListsLatestFirst(u, OpenCalls(t)')
  <2>1. /\ \A x \in OpenCalls(t) : \E i \in 1..Len(s) : s[i] = x
        /\ \A i, j \in 1..Len(s) : i < j => s[j] < s[i]
    BY <1>3 DEF ListsLatestFirst
  <2>2. \A i \in 1..Len(u) : u[i] \in OpenCalls(t)'
    BY <1>3, <1>6, <1>7, <1>9
  <2>3. u \in Seq(OpenCalls(t)')
    <3>1. u = [i \in 1..Len(u) |-> u[i]] /\ Len(u) \in Nat
      BY <1>6, LenProperties
    <3> QED
      BY <2>2, <3>1
  <2>4. ASSUME NEW x \in OpenCalls(t)' PROVE \E i \in 1..Len(u) : u[i] = x
    <3>1. CASE x = n
      BY <1>3, <1>6, <3>1
    <3>2. CASE x # n
      <4>1. PICK i \in 1..Len(s) : s[i] = x
        BY <1>7, <2>1, <2>4, <3>2
      <4>2. i + 1 \in 1..Len(u) /\ u[i + 1] = x
        BY <1>3, <1>6, <4>1
      <4> QED
        BY <4>2
    <3> QED
      BY <3>1, <3>2
  <2>5. ASSUME NEW i \in 1..Len(u), NEW j \in 1..Len(u), i < j PROVE u[j] < u[i]
    <3>1. PICK k \in 1..Len(s) : j = k + 1 /\ u[j] = s[k]
      BY <1>3, <1>6, <1>9, <2>5
    <3>2. CASE i = 1
      BY <1>3, <1>6, <1>8, <3>1, <3>2
    <3>3. CASE i # 1
      <4>1. PICK l \in 1..Len(s) : i = l + 1 /\ u[i] = s[l]
        BY <1>9, <3>3
      <4>2. l < k
        BY <1>3, <2>5, <3>1, <4>1
      <4> QED
        BY <2>1, <3>1, <4>1, <4>2
    <3> QED
      BY <3>2, <3>3
  <2> QED
    BY <2>3, <2>4, <2>5 DEF ListsLatestFirst
<1>11. curentFlow'[t] = n /\ parent'[n] = EnterParent(t)
       /\ \A x \in NodeId \ {n} : parent'[x] = parent[x] /\ fn'[x] = fn[x]
  BY <1>1 DEF AddsFlow
<1>12. ASSUME NEW i \in 1..Len(u)
       PROVE  parent'[u[i]] = IF i < Len(u) THEN u[i + 1] ELSE t
  <2>1. CASE i = 1
    <3>1. CASE Len(s) = 0
      BY <1>4, <1>5, <1>6, <1>11, <2>1, <3>1
    <3>2. CASE Len(s) > 0
      <4>1. 1 \in 1..Len(s) /\ 1 < Len(u) /\ u[1 + 1] = s[1]
        BY <1>3, <1>6, <3>2
      <4> QED
        BY <1>4, <1>5, <1>6, <1>11, <2>1, <3>2, <4>1
    <3> QED
      BY <1>3, <3>1, <3>2
  <2>2. CASE i # 1
    <3>1. PICK j \in 1..Len(s) : i = j + 1 /\ u[i] = s[j]
      BY <1>9, <2>2
    <3>2. parent'[s[j]] = parent[s[j]]
      BY <1>3, <1>8, <1>11
    <3>3. parent[s[j]] = IF j < Len(s) THEN s[j + 1] ELSE t
      BY <1>3
    <3>4. CASE j < Len(s)
      <4>1. j + 1 \in 1..Len(s) /\ i < Len(u)
        BY <1>3, <1>6, <3>1, <3>4
      <4>2. u[i + 1] = s[j + 1]
        BY <1>6, <3>1, <4>1
      <4> QED
        BY <3>1, <3>2, <3>3, <3>4, <4>1, <4>2
    <3>5. CASE ~(j < Len(s))
      <4>1. ~(i < Len(u))
        BY <1>3, <1>6, <3>1, <3>5
      <4> QED
        BY <3>1, <3>2, <3>3, <3>5, <4>1
    <3> QED
      BY <3>4, <3>5
  <2> QED
    BY <2>1, <2>2
<1>13. /\ Len(u) <= Len(running'[t])
       /\ \A i \in 1..Len(u) : fn'[u[i]] = running'[t][i]
  <2>1. running[t] \in Seq(Fns) /\ running'[t] = << f >> \o running[t]
    BY <1>1 DEF PInv, PTypeOK
  <2>2. /\ Len(running[t]) \in Nat /\ << f >> \in Seq(Fns) /\ Len(<< f >>) = 1
        /\ << f >>[1] = f
    BY <2>1, LenProperties
  <2>3. /\ Len(running'[t]) = Len(running[t]) + 1
        /\ \A i \in 1..(Len(running[t]) + 1) :
             running'[t][i] = IF i <= 1 THEN << f >>[i] ELSE running[t][i - 1]
    BY <2>1, <2>2, ConcatProperties
  <2>4. ASSUME NEW i \in 1..Len(u) PROVE fn'[u[i]] = running'[t][i]
    <3>1. CASE i = 1
      BY <1>2, <1>6, <2>2, <2>3, <3>1 DEF n
    <3>2. CASE i # 1
      <4>1. PICK j \in 1..Len(s) : i = j + 1 /\ u[i] = s[j]
        BY <1>9, <3>2
      <4>2. fn'[s[j]] = fn[s[j]] /\ fn[s[j]] = running[t][j]
        BY <1>3, <1>8, <1>11
      <4>3. i \in 1..(Len(running[t]) + 1) /\ ~(i <= 1) /\ i - 1 = j
        BY <1>3, <2>2, <4>1
      <4> QED
        BY <2>3, <4>1, <4>2, <4>3
    <3> QED
      BY <3>1, <3>2
  <2> QED
    BY <1>3, <1>6, <2>2, <2>3, <2>4
<1>14. StackOK(t)' /\ OpenStack(t)' = u
  BY <1>1, <1>6, <1>10, <1>11, <1>12, <1>13, StackIs
<1> QED
  BY <1>14 DEF u, s, n

(* The tree of CallTree after a step that adds the node n.                  *)
LEMMA NamesAdded ==
  ASSUME IInv, NEW n, Fresh(n),
         \A x \in NodeId \ {n} : parent'[x] = parent[x] /\ fn'[x] = fn[x]
  PROVE  /\ n \notin Enters
         /\ kind'[n] # "enter" =>
              /\ [x \in Enters |-> parent[x]]' = [x \in Enters |-> parent[x]]
              /\ [x \in Enters |-> fn[x]]' = [x \in Enters |-> fn[x]]
         /\ kind'[n] = "enter" =>
              /\ [x \in Enters |-> parent[x]]' = Tree!With([x \in Enters |-> parent[x]], n, parent'[n])
              /\ [x \in Enters |-> fn[x]]' = Tree!With([x \in Enters |-> fn[x]], n, fn'[n])
<1>1. /\ n \in NodeId /\ n \notin Enters
      /\ \A x \in NodeId \ {n} : x \in Enters' <=> x \in Enters
      /\ n \in Enters' <=> kind'[n] = "enter"
      /\ Enters \subseteq NodeId /\ Enters' \subseteq NodeId
  BY DEF Fresh, Enters
<1>2. ASSUME kind'[n] # "enter"
      PROVE  /\ [x \in Enters |-> parent[x]]' = [x \in Enters |-> parent[x]]
             /\ [x \in Enters |-> fn[x]]' = [x \in Enters |-> fn[x]]
  <2>1. Enters' = Enters
    BY <1>1, <1>2
  <2> QED
    BY <1>1, <2>1
<1>3. ASSUME kind'[n] = "enter"
      PROVE  /\ [x \in Enters |-> parent[x]]' = Tree!With([x \in Enters |-> parent[x]], n, parent'[n])
             /\ [x \in Enters |-> fn[x]]' = Tree!With([x \in Enters |-> fn[x]], n, fn'[n])
  <2>1. Enters' = Enters \cup {n}
    BY <1>1, <1>3
  <2> QED
    BY <1>1, <2>1 DEF Tree!With
<1> QED
  BY <1>1, <1>2, <1>3

-----------------------------------------------------------------------------
(* A return.  The innermost open call is the nearest match of its EXIT.      *)

LEMMA InnermostMatches ==
  ASSUME PInv, NEW t \in Threads, OpenStack(t) # << >>
  PROVE  LET s == OpenStack(t) IN
         /\ Len(s) > 0 /\ 1 \in 1..Len(s) /\ s[1] \in NodeId /\ curentFlow[t] = s[1]
         /\ s[1] \in Matches(t, fn[s[1]])
         /\ \A m \in path[s[1]] : m <= s[1]
         /\ running[t] # << >> /\ fn[s[1]] = Head(running[t])
<1> DEFINE s == OpenStack(t)
<1>1. IInv /\ NestInv /\ t \in NodeId
  BY DEF PInv, NestInv, Threads
<1>2. /\ s \in Seq(NodeId) /\ Len(s) \in Nat
      /\ \A i \in 1..Len(s) : s[i] \in OpenCalls(t) /\ s[i] \in NodeId
      /\ curentFlow[t] = s[1]
      /\ Len(s) <= Len(running[t])
      /\ \A i \in 1..Len(s) : fn[s[i]] = running[t][i]
      /\ \A i \in 1..Len(s) : parent[s[i]] = IF i < Len(s) THEN s[i + 1] ELSE t
  BY <1>1, StackFacts
<1>3. s # << >>
  OBVIOUS
<1> HIDE DEF s
<1>4. Len(s) > 0 /\ 1 \in 1..Len(s)
  BY <1>2, <1>3, EmptySeq
<1>5. s[1] \in OpenCalls(t) /\ s[1] \in NodeId /\ fn[s[1]] = running[t][1]
  BY <1>2, <1>4
<1>6. parent[s[1]] \in NodeId /\ kind[s[1]] = "enter" /\ peer[s[1]] = NULL
  <2>1. 1 < Len(s) => 1 + 1 \in 1..Len(s)
    BY <1>2
  <2> QED
    BY <1>1, <1>2, <1>4, <1>5, <2>1 DEF OpenCalls, IsOpenEnter
<1>7. s[1] \in path[s[1]]
  BY <1>1, <1>5, <1>6, PathOf, NodeIds DEF FlowNodes
<1>8. s[1] \in Matches(t, fn[s[1]])
  BY <1>2, <1>5, <1>6, <1>7, NodeIds DEF Matches, IsOpenEnter
<1>9. \A m \in path[s[1]] : m <= s[1]
  BY <1>1, <1>5, PathFacts
<1>10. running[t] # << >> /\ Head(running[t]) = running[t][1]
  <2>1. running[t] \in Seq(Fns)
    BY <1>1 DEF PInv, PTypeOK
  <2>2. Len(running[t]) > 0
    BY <1>2, <1>4, <2>1, LenProperties
  <2> QED
    BY <2>1, <2>2
<1> QED
  BY <1>2, <1>4, <1>5, <1>8, <1>9, <1>10 DEF s

LEMMA PairsInnermost ==
  ASSUME PInv, NEW t \in Threads, running[t] # << >>, ExitPaired(t, Head(running[t]))
  PROVE  OpenStack(t) # << >> /\ Pairs(OpenStack(t)[1], cNodes + 1, t)
<1> DEFINE f == Head(running[t])
           s == OpenStack(t)
<1>1. IInv /\ t \in NodeId /\ f \in Fns
  BY DEF PInv, NestInv, PTypeOK, Threads
<1>2. PICK m \in Matches(t, f) : Pairs(m, cNodes + 1, t)
  BY <1>1, PairedView
<1>3. m \in OpenCalls(t)
  BY <1>2 DEF Pairs, OpenCalls, IsOpenEnter
<1>4. s # << >>
  BY <1>1, <1>3, StackFacts
<1>5. /\ s[1] \in NodeId /\ curentFlow[t] = s[1] /\ s[1] \in Matches(t, fn[s[1]])
      /\ \A k \in path[s[1]] : k <= s[1]
      /\ fn[s[1]] = f
  BY <1>4, InnermostMatches
<1>6. m <= s[1] /\ s[1] <= m /\ m \in NodeId
  BY <1>2, <1>5 DEF Pairs, Matches
<1>7. m = s[1]
  BY <1>5, <1>6, NodeIds
<1> QED
  BY <1>2, <1>4, <1>7

LEMMA ReturnStack ==
  ASSUME PInv, NEW t \in Threads, running[t] # << >>, ExitPaired(t, Head(running[t])),
         running' = [running EXCEPT ![t] = Tail(@)]
  PROVE  /\ OpenStack(t) # << >>
         /\ StackOK(t)' /\ OpenStack(t)' = Tail(OpenStack(t))
<1> DEFINE n == cNodes + 1
           s == OpenStack(t)
           m == s[1]
           u == Tail(s)
<1>1. /\ IInv /\ NestInv /\ t \in NodeId /\ s # << >> /\ Pairs(m, n, t) /\ Fresh(n)
      /\ kind[t] = "thread"
  BY PairsInnermost DEF PInv, NestInv, Threads, Pairs
<1>2. /\ s \in Seq(NodeId) /\ Len(s) \in Nat
      /\ ListsLatestFirst(s, OpenCalls(t))
      /\ \A i \in 1..Len(s) : s[i] \in OpenCalls(t) /\ s[i] \in NodeId
      /\ \A i \in 1..Len(s) : parent[s[i]] = IF i < Len(s) THEN s[i + 1] ELSE t
      /\ Len(s) <= Len(running[t])
      /\ \A i \in 1..Len(s) : fn[s[i]] = running[t][i]
  BY <1>1, StackFacts
<1>3. Len(s) > 0 /\ 1 \in 1..Len(s)
  BY <1>1, InnermostMatches
<1>4. /\ u \in Seq(NodeId) /\ Len(u) = Len(s) - 1
      /\ \A i \in 1..Len(u) : u[i] = s[i + 1]
  BY <1>1, <1>2, HeadTailProperties
<1> HIDE DEF s, n, u
<1>5. OpenCalls(t)' = OpenCalls(t) \ {m}
  <2>1. m \in NodeId /\ peer'[m] = n /\ n # NULL /\ n \notin OpenCalls(t) /\ n \notin OpenCalls(t)'
    BY <1>1, NodeIds DEF Pairs, Fresh, OpenCalls, IsOpenEnter
  <2>2. ASSUME NEW x \in NodeId \ {m, n} PROVE x \in OpenCalls(t)' <=> x \in OpenCalls(t)
    BY <1>1 DEF Pairs, Fresh, OpenCalls, IsOpenEnter
  <2>3. m \notin OpenCalls(t)'
    BY <2>1 DEF OpenCalls, IsOpenEnter
  <2> QED
    BY <2>1, <2>2, <2>3, OpenInNodes
<1>6. /\ \A x \in OpenCalls(t) : \E i \in 1..Len(s) : s[i] = x
      /\ \A i, j \in 1..Len(s) : i < j => s[j] < s[i]
  BY <1>2 DEF ListsLatestFirst
<1>7. ASSUME NEW i \in 1..Len(u)
      PROVE  i + 1 \in 1..Len(s) /\ i \in 1..Len(s) /\ u[i] = s[i + 1] /\ s[i + 1] # m /\ s[i + 1] # n
  <2>1. i + 1 \in 1..Len(s) /\ i \in 1..Len(s) /\ 1 < i + 1
    BY <1>2, <1>4
  <2>2. s[i + 1] < s[1] /\ s[1] \in NodeId /\ s[i + 1] \in NodeId
    BY <1>2, <1>3, <1>6, <2>1
  <2>3. s[i + 1] # n
    BY <1>1, <1>2, <2>1 DEF Fresh, OpenCalls, IsOpenEnter
  <2>4. s[i + 1] # s[1]
    <3>1. s[1] \in Nat /\ s[i + 1] \in Nat
      BY <2>2, NodeIds
    <3> QED
      BY <2>2, <3>1
  <2> QED
    BY <1>4, <2>1, <2>3, <2>4
<1>8. ListsLatestFirst(u, OpenCalls(t)')
  <2>1. \A i \in 1..Len(u) : u[i] \in OpenCalls(t)'
    BY <1>2, <1>5, <1>7
  <2>2. u \in Seq(OpenCalls(t)')
    <3>1. u = [i \in 1..Len(u) |-> u[i]] /\ Len(u) \in Nat
      BY <1>4, LenProperties
    <3> QED
      BY <2>1, <3>1
  <2>3. ASSUME NEW x \in OpenCalls(t)' PROVE \E i \in 1..Len(u) : u[i] = x
    <3>1. x \in OpenCalls(t) /\ x # s[1]
      BY <1>5, <2>3
    <3>2. PICK i \in 1..Len(s) : s[i] = x
      BY <1>6, <3>1
    <3>3. i # 1 /\ (i - 1) \in 1..Len(u) /\ (i - 1) + 1 = i
      BY <1>2, <1>4, <3>1, <3>2
    <3>4. u[i - 1] = x
      BY <1>4, <3>2, <3>3
    <3> QED
      BY <3>3, <3>4
  <2>4. ASSUME NEW i \in 1..Len(u), NEW j \in 1..Len(u), i < j PROVE u[j] < u[i]
    <3>1. i + 1 < j + 1
      BY <1>2, <1>4, <2>4
    <3> QED
      BY <1>6, <1>7, <3>1
  <2> QED
    BY <2>2, <2>3, <2>4 DEF ListsLatestFirst
<1>9. u # << >> => curentFlow'[t] = u[1]
  <2>1. SUFFICES ASSUME u # << >> PROVE curentFlow'[t] = u[1]
    OBVIOUS
  <2>2. Len(u) > 0 /\ 1 \in 1..Len(u) /\ 1 < Len(s)
    BY <1>2, <1>4, <2>1, EmptySeq
  <2>3. parent[s[1]] = s[1 + 1] /\ u[1] = s[1 + 1]
    BY <1>2, <1>3, <1>4, <2>2
  <2>4. s[1 + 1] # t
    <3>1. s[1 + 1] \in OpenCalls(t)
      BY <1>2, <1>7, <2>2
    <3> QED
      BY <1>1, <3>1 DEF OpenCalls, IsOpenEnter
  <2> QED
    BY <1>1, <2>3, <2>4 DEF Pairs
<1>10. ASSUME NEW i \in 1..Len(u)
       PROVE  parent'[u[i]] = IF i < Len(u) THEN u[i + 1] ELSE t
  <2>1. i + 1 \in 1..Len(s) /\ u[i] = s[i + 1] /\ parent' = parent
    BY <1>1, <1>7 DEF Pairs
  <2>2. parent[s[i + 1]] = IF i + 1 < Len(s) THEN s[i + 1 + 1] ELSE t
    BY <1>2, <2>1
  <2>3. CASE i < Len(u)
    <3>1. i + 1 < Len(s) /\ i + 1 \in 1..Len(u)
      BY <1>2, <1>4, <2>3
    <3> QED
      BY <1>4, <2>1, <2>2, <2>3, <3>1
  <2>4. CASE ~(i < Len(u))
    <3>1. ~(i + 1 < Len(s))
      BY <1>2, <1>4, <2>4
    <3> QED
      BY <2>1, <2>2, <2>4, <3>1
  <2> QED
    BY <2>3, <2>4
<1>11. /\ Len(u) <= Len(running'[t])
       /\ \A i \in 1..Len(u) : fn'[u[i]] = running'[t][i]
  <2>1. running[t] \in Seq(Fns) /\ running'[t] = Tail(running[t])
    BY <1>1 DEF PInv, PTypeOK
  <2>2. /\ Len(running[t]) \in Nat
        /\ Len(running'[t]) = Len(running[t]) - 1
        /\ \A i \in 1..Len(running'[t]) : running'[t][i] = running[t][i + 1]
    BY <2>1, LenProperties, HeadTailProperties
  <2>3. ASSUME NEW i \in 1..Len(u) PROVE fn'[u[i]] = running'[t][i]
    <3>1. i \in 1..Len(running'[t]) /\ i + 1 \in 1..Len(s)
      BY <1>2, <1>4, <1>7, <2>2
    <3>2. fn'[s[i + 1]] = fn[s[i + 1]]
      BY <1>1, <1>2, <1>7 DEF Pairs
    <3> QED
      BY <1>2, <1>7, <2>2, <3>1, <3>2
  <2> QED
    BY <1>2, <1>4, <2>2, <2>3
<1>12. StackOK(t)' /\ OpenStack(t)' = u
  BY <1>1, <1>8, <1>9, <1>10, <1>11, StackIs
<1> QED
  BY <1>1, <1>12 DEF u, s

(* The EXIT of a call that was not seen to start finds nothing open.         *)
LEMMA UnseenReturn ==
  ASSUME PInv, NEW t \in Threads, running[t] # << >>, ExitUnpaired(t, Head(running[t]))
  PROVE  OpenStack(t) = << >>
<1>1. SUFFICES ASSUME OpenStack(t) # << >> PROVE FALSE
  OBVIOUS
<1> QED
  BY <1>1, InnermostMatches DEF ExitUnpaired

LEMMA UnseenStack ==
  ASSUME PInv, NEW t \in Threads, running[t] # << >>, ExitUnpaired(t, Head(running[t])),
         running' = [running EXCEPT ![t] = Tail(@)]
  PROVE  StackOK(t)' /\ OpenStack(t)' = OpenStack(t)
<1> DEFINE n == cNodes + 1
<1>1. IInv /\ t \in NodeId /\ OpenStack(t) = << >> /\ Head(running[t]) \in Fns
  BY UnseenReturn DEF PInv, NestInv, PTypeOK, Threads
<1>2. /\ Fresh(n) /\ kind'[n] = "exit" /\ peer' = peer
  BY <1>1, FreshNode DEF ExitUnpaired
<1>3. OpenCalls(t)' = {}
  <2>1. OpenCalls(t) = {}
    BY <1>1, StackFacts
  <2> QED
    BY <1>1, <1>2, <2>1, OpenAdded
<1>4. running'[t] \in Seq(Fns)
  <2>1. running[t] \in Seq(Fns) /\ running'[t] = Tail(running[t])
    BY <1>1 DEF PInv, PTypeOK
  <2> QED
    BY <2>1, HeadTailProperties
<1> QED
  BY <1>1, <1>3, <1>4, NothingOpen

-----------------------------------------------------------------------------
(* One lemma per action: the lists of all threads, and the step of CallTree. *)

Stacks == [t \in NodeId |-> OpenStack(t)]
Callers == [x \in Enters |-> parent[x]]
Names == [x \in Enters |-> fn[x]]

LEMMA StacksKept ==
  ASSUME \A t \in NodeId : StackOK(t)' /\ OpenStack(t)' = OpenStack(t)
  PROVE  OpenStacks' /\ Stacks' = Stacks
  BY DEF OpenStacks, StackOK, Stacks

LEMMA CallStep ==
  ASSUME PInv, NEW t \in Threads, NEW f \in Fns, Call(t, f), NEW n, n = cNodes + 1
  PROVE  /\ OpenStacks' /\ PTypeOK'
         /\ Tree!Call(t, f, n)
<1>1. /\ IInv /\ t \in NodeId /\ n \in NodeId /\ Fresh(n) /\ Enter(t, f) /\ peer' = peer
      /\ running' = [running EXCEPT ![t] = << f >> \o @]
      /\ AddsFlow(n, t, EnterParent(t))
  BY EnterView DEF PInv, NestInv, Threads, AddsFlow, Fresh, Call
<1>2. /\ kind'[n] = "enter" /\ thread'[n] = t /\ fn'[n] = f
      /\ parent'[n] = EnterParent(t)
      /\ \A x \in NodeId \ {n} : parent'[x] = parent[x] /\ fn'[x] = fn[x]
      /\ \A x \in NodeId \ {t} : curentFlow'[x] = curentFlow[x]
  BY <1>1, FreshNode DEF Enter, AddsFlow, IInv, TypeOK
<1>3. StackOK(t)' /\ OpenStack(t)' = << n >> \o OpenStack(t)
  BY <1>1, CallStack
<1>4. ASSUME NEW x \in NodeId, x # t
      PROVE  StackOK(x)' /\ OpenStack(x)' = OpenStack(x)
  BY <1>1, <1>2, <1>4, OthersKept DEF PInv, PTypeOK
<1>5. OpenStacks'
  BY <1>3, <1>4 DEF OpenStacks, StackOK
<1>6. Stacks' = [Stacks EXCEPT ![t] = << n >> \o @]
  BY <1>1, <1>3, <1>4 DEF Stacks
<1>7. n \notin DOMAIN Names /\ Names' = Tree!With(Names, n, f)
  BY <1>1, <1>2, NamesAdded DEF Names
<1>8. Callers' = Tree!With(Callers, n, Tree!Innermost(t))
  <2>1. parent'[n] = Tree!Innermost(t)
    BY <1>2, EnterParentIs
  <2> QED
    BY <1>1, <1>2, <2>1, NamesAdded DEF Callers
<1>9. PTypeOK'
  <2>1. running[t] \in Seq(Fns) /\ << f >> \in Seq(Fns)
    BY <1>1 DEF PInv, PTypeOK
  <2>2. << f >> \o running[t] \in Seq(Fns)
    BY <2>1, ConcatProperties
  <2> QED
    BY <1>1, <2>2 DEF PInv, PTypeOK
<1> QED
  BY <1>5, <1>6, <1>7, <1>8, <1>9 DEF Tree!Call, Stacks, Callers, Names

LEMMA ReturnStep ==
  ASSUME PInv, NEW t \in Threads, Return(t)
  PROVE  /\ OpenStacks' /\ PTypeOK'
         /\ Callers' = Callers /\ Names' = Names
         /\ \/ OpenStack(t) # << >> /\ Stacks' = [Stacks EXCEPT ![t] = Tail(@)]
            \/ Stacks' = Stacks
<1> DEFINE n == cNodes + 1
           f == Head(running[t])
<1>1. /\ IInv /\ t \in NodeId /\ running[t] # << >> /\ running[t] \in Seq(Fns) /\ f \in Fns
      /\ running' = [running EXCEPT ![t] = Tail(@)]
      /\ ExitPaired(t, f) \/ ExitUnpaired(t, f)
  BY DEF PInv, NestInv, PTypeOK, Threads, Return
<1>2. PTypeOK'
  <2>1. Tail(running[t]) \in Seq(Fns)
    BY <1>1, HeadTailProperties
  <2> QED
    BY <1>1, <2>1 DEF PInv, PTypeOK
<1>3. Fresh(n) /\ kind'[n] = "exit" /\ thread'[n] = t
  BY <1>1, FreshNode DEF ExitPaired, ExitUnpaired
<1>4. CASE ExitPaired(t, f)
  <2>1. OpenStack(t) # << >> /\ Pairs(OpenStack(t)[1], n, t)
    BY <1>1, <1>4, PairsInnermost
  <2>2. StackOK(t)' /\ OpenStack(t)' = Tail(OpenStack(t))
    BY <1>1, <1>4, ReturnStack
  <2>3. ASSUME NEW x \in NodeId, x # t
        PROVE  StackOK(x)' /\ OpenStack(x)' = OpenStack(x)
    <3>1. OpenCalls(x)' = OpenCalls(x)
      BY <1>1, <1>3, <2>1, <2>3 DEF Pairs, Fresh, OpenCalls, IsOpenEnter
    <3>2. \A y \in OpenCalls(x) : y \in NodeId \ {n}
      BY <1>3 DEF Fresh, OpenCalls, IsOpenEnter
    <3> QED
      BY <1>1, <2>1, <2>3, <3>1, <3>2, StackKept DEF Pairs, PInv, PTypeOK
  <2>4. OpenStacks' /\ Stacks' = [Stacks EXCEPT ![t] = Tail(@)]
    BY <1>1, <2>2, <2>3 DEF OpenStacks, StackOK, Stacks
  <2>5. Callers' = Callers /\ Names' = Names
    BY <1>1, <1>3, <2>1, NamesAdded DEF Callers, Names, Pairs
  <2> QED
    BY <1>2, <2>1, <2>4, <2>5
<1>5. CASE ExitUnpaired(t, f)
  <2>1. PICK p \in NodeId : AddsFlow(n, t, p)
    BY <1>1, <1>5, UnpairedView DEF AddsFlow
  <2>2. StackOK(t)' /\ OpenStack(t)' = OpenStack(t)
    BY <1>1, <1>5, UnseenStack
  <2>3. ASSUME NEW x \in NodeId, x # t
        PROVE  StackOK(x)' /\ OpenStack(x)' = OpenStack(x)
    BY <1>1, <1>3, <2>1, <2>3, OthersKept DEF AddsFlow, PInv, PTypeOK
  <2>4. OpenStacks' /\ Stacks' = Stacks
    BY <2>2, <2>3, StacksKept
  <2>5. Callers' = Callers /\ Names' = Names
    BY <1>1, <1>3, <2>1, NamesAdded DEF Callers, Names, AddsFlow
  <2> QED
    BY <1>2, <2>4, <2>5
<1> QED
  BY <1>1, <1>4, <1>5

(* A new thread has no open call, whatever is on its real stack.             *)
LEMMA StartStep ==
  ASSUME PInv, Start
  PROVE  OpenStacks' /\ PTypeOK' /\ Stacks' = Stacks /\ Callers' = Callers /\ Names' = Names
<1> DEFINE n == cNodes + 1
<1>1. IInv /\ AddsThread(n) /\ Fresh(n) /\ kind'[n] = "thread" /\ n \in NodeId
  BY ThreadView DEF PInv, NestInv, Start, AddsThread, Fresh
<1>2. PICK stack \in Unseen : running' = [running EXCEPT ![n] = stack]
  BY DEF Start
<1>3. stack \in Seq(Fns)
  <2>1. PICK k \in 0..MaxUnseen : stack \in [1..k -> Fns]
    BY DEF Unseen
  <2> QED
    BY <2>1, UnseenAssumption
<1>4. PTypeOK'
  BY <1>1, <1>2, <1>3 DEF PInv, PTypeOK
<1>5. ASSUME NEW x \in NodeId PROVE StackOK(x)' /\ OpenStack(x)' = OpenStack(x)
  <2>1. CASE x # n
    <3>1. running'[x] = running[x] /\ curentFlow' = curentFlow /\ parent' = parent /\ fn' = fn
          /\ peer' = peer
      BY <1>1, <1>2, <1>5, <2>1 DEF AddsThread, PInv, PTypeOK
    <3> QED
      BY <1>1, <1>5, <3>1, OthersKept
  <2>2. CASE x = n
    <3>1. OpenCalls(x) = {}
      BY <1>1, <2>2, OpenOfThread DEF Fresh, Threads
    <3>2. OpenCalls(x)' = {}
      BY <1>1, <3>1, OpenAdded DEF AddsThread
    <3>3. OpenStack(x) = << >>
      BY <1>5, <3>1, StackFacts
    <3> QED
      BY <1>4, <1>5, <3>2, <3>3, NothingOpen DEF PTypeOK
  <2> QED
    BY <2>1, <2>2
<1>6. Callers' = Callers /\ Names' = Names
  BY <1>1, NamesAdded DEF Callers, Names, AddsThread
<1> QED
  BY <1>4, <1>5, <1>6, StacksKept

(* Steps that add no call and no EXIT.                                      *)
LEMMA QuietStep ==
  ASSUME PInv, UNCHANGED running, AddsNothing \/ \E t \in Threads : AddsLine(cNodes + 1, t)
  PROVE  OpenStacks' /\ PTypeOK' /\ Stacks' = Stacks /\ Callers' = Callers /\ Names' = Names
<1> DEFINE n == cNodes + 1
<1>1. PTypeOK'
  BY DEF PInv, PTypeOK
<1>2. CASE AddsNothing
  <2>1. UNCHANGED <<kind, thread, fn, parent, peer, curentFlow>>
    BY <1>2 DEF AddsNothing, nodeVars, treeVars
  <2>2. ASSUME NEW x \in NodeId PROVE StackOK(x)' /\ OpenStack(x)' = OpenStack(x)
    <3>1. OpenCalls(x)' = OpenCalls(x)
      BY <2>1 DEF OpenCalls, IsOpenEnter
    <3> QED
      BY <2>1, <2>2, <3>1, StackKept
  <2>3. Callers' = Callers /\ Names' = Names
    BY <2>1 DEF Callers, Names, Enters
  <2> QED
    BY <1>1, <2>2, <2>3, StacksKept
<1>3. ASSUME NEW t \in Threads, AddsLine(n, t)
      PROVE  OpenStacks' /\ Stacks' = Stacks /\ Callers' = Callers /\ Names' = Names
  <2>1. /\ IInv /\ Fresh(n) /\ kind'[n] = "trace" /\ peer' = peer /\ curentFlow' = curentFlow
        /\ \A x \in NodeId \ {n} : parent'[x] = parent[x] /\ fn'[x] = fn[x]
    BY <1>3 DEF AddsLine, PInv, NestInv
  <2>2. ASSUME NEW x \in NodeId PROVE StackOK(x)' /\ OpenStack(x)' = OpenStack(x)
    BY <2>1, <2>2, OthersKept
  <2>3. Callers' = Callers /\ Names' = Names
    BY <2>1, NamesAdded DEF Callers, Names
  <2> QED
    BY <2>2, <2>3, StacksKept
<1> QED
  BY <1>1, <1>2, <1>3

LEMMA ClearStep ==
  ASSUME PInv, Clear
  PROVE  OpenStacks' /\ PTypeOK' /\ Tree!Forget
<1>1. /\ kind' = [x \in NodeId |-> "free"]
      /\ running' = [x \in NodeId |-> << >>]
  BY DEF Clear, ClearArchive
<1>2. PTypeOK'
  BY <1>1, EmptySeq DEF PTypeOK
<1>3. ASSUME NEW x \in NodeId PROVE StackOK(x)' /\ OpenStack(x)' = << >>
  <2>1. OpenCalls(x)' = {}
    BY <1>1 DEF OpenCalls, IsOpenEnter
  <2> QED
    BY <1>2, <1>3, <2>1, NothingOpen DEF PTypeOK
<1>4. OpenStacks' /\ Stacks' = [x \in NodeId |-> << >>]
  BY <1>3 DEF OpenStacks, StackOK, Stacks
<1>5. Enters' = {}
  BY <1>1 DEF Enters
<1>6. Callers' = << >> /\ Names' = << >>
  BY <1>5 DEF Callers, Names
<1> QED
  BY <1>2, <1>4, <1>6 DEF Tree!Forget, Stacks, Callers, Names

-----------------------------------------------------------------------------
LEMMA InitPInv == PInit => PInv /\ Tree!Init
<1> SUFFICES ASSUME PInit PROVE PInv /\ Tree!Init
  OBVIOUS
<1>1. NestInv
  BY InitNestInv DEF PInit
<1>2. PTypeOK
  BY EmptySeq DEF PInit, PTypeOK
<1>3. ASSUME NEW t \in NodeId
      PROVE  OpenStack(t) = << >> /\ StackOK(t)
  <2>1. OpenCalls(t) = {}
    BY DEF PInit, Init, OpenCalls, IsOpenEnter
  <2> DEFINE s == << >>
  <2>2. Len(s) = 0 /\ \A i \in 1..Len(s) : FALSE
    OBVIOUS
  <2>3. ListsLatestFirst(s, OpenCalls(t))
    BY <2>1, <2>2 DEF ListsLatestFirst
  <2>4. OpenStack(t) = s
    <3>1. OpenCalls(t) \in SUBSET Nat
      BY <2>1
    <3> QED
      BY <2>3, <3>1, Listed DEF OpenStack
  <2>5. Len(running[t]) \in Nat
    BY <1>2, <1>3, LenProperties DEF PTypeOK
  <2>6. s # << >> => curentFlow[t] = s[1]
    OBVIOUS
  <2> HIDE DEF s
  <2>7. CallerChain(s, t) /\ TopOfStack(s, t)
    BY <2>2, <2>5, <2>6 DEF CallerChain, TopOfStack
  <2>8. StackOK(t)
    BY <2>3, <2>4, <2>7 DEF StackOK
  <2> QED
    BY <2>4, <2>8 DEF s
<1>4. OpenStacks
  BY <1>3 DEF OpenStacks, StackOK
<1>5. Enters = {}
  BY DEF PInit, Init, Enters
<1>6. Tree!Init
  BY <1>3, <1>5 DEF Tree!Init
<1> QED
  BY <1>1, <1>2, <1>4, <1>6 DEF PInv

LEMMA ProgramSteps ==
  ASSUME PInv, [PNext]_pvars
  PROVE  [Next]_vars
<1>1. CASE Start
  BY <1>1 DEF Start, Next
<1>2. CASE Clear
  BY <1>2 DEF Clear, Next
<1>3. ASSUME NEW t \in Threads, Return(t) PROVE Next
  <2>1. running[t] \in Seq(Fns) /\ running[t] # << >>
    BY <1>3 DEF PInv, PTypeOK, Threads, Return
  <2>2. Head(running[t]) \in Fns
    BY <2>1
  <2>3. FlowStep(t, Head(running[t]))
    BY <1>3 DEF Return, FlowStep
  <2> QED
    BY <2>2, <2>3 DEF Next
<1>4. ASSUME NEW t \in Threads, NEW f \in Fns, Call(t, f) PROVE Next
  <2>1. FlowStep(t, f)
    BY <1>4 DEF Call, FlowStep
  <2> QED
    BY <2>1 DEF Next
<1>5. ASSUME NEW t \in Threads, Log(t) PROVE Next
  BY <1>5 DEF Log, Next
<1>6. CASE AddText
  BY <1>6 DEF AddText, Next
<1>7. CASE UNCHANGED pvars
  BY <1>7 DEF pvars
<1> QED
  BY <1>1, <1>2, <1>3, <1>4, <1>5, <1>6, <1>7 DEF PNext

(* A step of the program is a step of CallTree, or none.                    *)
LEMMA TreeStep ==
  ASSUME PInv, [PNext]_pvars
  PROVE  PInv' /\ [Tree!Next]_(Tree!vars)
<1>1. NestInv'
  BY ProgramSteps, StepNestInv DEF PInv
<1>2. SUFFICES OpenStacks' /\ PTypeOK' /\ [Tree!Next]_(Tree!vars)
  BY <1>1 DEF PInv
<1>3. ASSUME Stacks' = Stacks, Callers' = Callers, Names' = Names
      PROVE  UNCHANGED Tree!vars
  BY <1>3 DEF Tree!vars, Stacks, Callers, Names
<1>4. CASE Start
  BY <1>3, <1>4, StartStep
<1>5. CASE Clear
  BY <1>5, ClearStep DEF Tree!Next
<1>6. ASSUME NEW t \in Threads, Return(t)
      PROVE  OpenStacks' /\ PTypeOK' /\ [Tree!Next]_(Tree!vars)
  <2>1. /\ OpenStacks' /\ PTypeOK' /\ t \in NodeId
        /\ Callers' = Callers /\ Names' = Names
        /\ \/ OpenStack(t) # << >> /\ Stacks' = [Stacks EXCEPT ![t] = Tail(@)]
           \/ Stacks' = Stacks
    BY <1>6, ReturnStep DEF Threads
  <2>2. CASE OpenStack(t) # << >> /\ Stacks' = [Stacks EXCEPT ![t] = Tail(@)]
    <3>1. Stacks[t] # << >>
      BY <2>1, <2>2 DEF Stacks
    <3>2. Tree!Return(t)
      BY <2>1, <2>2, <3>1 DEF Tree!Return, Stacks, Callers, Names
    <3> QED
      BY <2>1, <3>2 DEF Tree!Next
  <2> QED
    BY <1>3, <2>1, <2>2
<1>7. ASSUME NEW t \in Threads, NEW f \in Fns, Call(t, f)
      PROVE  OpenStacks' /\ PTypeOK' /\ [Tree!Next]_(Tree!vars)
  <2>1. PICK n \in NodeId : n = cNodes + 1
    BY <1>7, EnterView DEF PInv, NestInv, Call, AddsFlow, Fresh
  <2>2. OpenStacks' /\ PTypeOK' /\ Tree!Call(t, f, n) /\ t \in NodeId
    BY <1>7, <2>1, CallStep DEF Threads
  <2>3. Tree!Next
    BY <2>2 DEF Tree!Next
  <2> QED
    BY <2>2, <2>3
<1>8. ASSUME NEW t \in Threads, Log(t)
      PROVE  OpenStacks' /\ PTypeOK' /\ UNCHANGED Tree!vars
  <2>1. AddsNothing /\ UNCHANGED running
    BY <1>8 DEF Log, BeginTrace, AddsNothing
  <2> QED
    BY <1>3, <2>1, QuietStep
<1>9. CASE AddText
  <2>1. PICK pc \in Piece : PieceStep(pc)
    BY <1>9 DEF AddText
  <2>2. AddsNothing \/ \E t \in Threads : AddsLine(cNodes + 1, t)
    <3>1. CASE NewLine(pc)
      BY <3>1, LineView DEF AddsLine, PInv, NestInv
    <3>2. CASE EmptyPiece(pc) \/ ContinueLine(pc) \/ NewLineDropped(pc)
      BY <3>2 DEF EmptyPiece, ContinueLine, NewLineDropped, AddsNothing
    <3> QED
      BY <2>1, <3>1, <3>2 DEF PieceStep
  <2> QED
    BY <1>3, <1>9, <2>2, QuietStep DEF AddText
<1>10. CASE UNCHANGED pvars
  <2>1. AddsNothing /\ UNCHANGED running
    BY <1>10 DEF pvars, vars, AddsNothing
  <2> QED
    BY <1>3, <2>1, QuietStep
<1> QED
  BY <1>4, <1>5, <1>6, <1>7, <1>8, <1>9, <1>10 DEF PNext

LEMMA ProgramInv == PSpec => []PInv
<1>1. PInit => PInv
  BY InitPInv
<1>2. PInv /\ [PNext]_pvars => PInv'
  BY TreeStep
<1> QED
  BY <1>1, <1>2, PTL DEF PSpec

(* With every record delivered in order, FlowTree implements CallTree: the   *)
(* tree that addFlow and addToTree build is the tree of the calls the        *)
(* program made, also for calls that were running when the viewer attached.  *)
THEOREM TreeIsCallTree == PSpec => CallsAsMade
<1>1. PInit => Tree!Init
  BY InitPInv
<1>2. PInv /\ [PNext]_pvars => [Tree!Next]_(Tree!vars)
  BY TreeStep
<1> QED
  BY <1>1, <1>2, ProgramInv, PTL DEF PSpec, CallsAsMade, Tree!Spec

(* The open calls shown for a thread are always the top of its real stack    *)
(* (curentFlow and the walk of addToTree never lose or invent one).          *)
THEOREM ShownCallsRun == PSpec => []OpenCallsAreRunning
<1>1. PInv => OpenCallsAreRunning
  <2>1. SUFFICES ASSUME PInv, NEW t \in Threads
                 PROVE  LET open == OpenStack(t) IN
                        /\ Len(open) <= Len(running[t])
                        /\ [i \in 1..Len(open) |-> fn[open[i]]] = SubSeq(running[t], 1, Len(open))
    BY DEF OpenCallsAreRunning
  <2> DEFINE open == OpenStack(t)
  <2>2. /\ Len(open) \in Nat /\ Len(open) <= Len(running[t])
        /\ \A i \in 1..Len(open) : fn[open[i]] = running[t][i]
    BY <2>1, StackFacts DEF Threads
  <2>3. running[t] \in Seq(Fns)
    BY <2>1 DEF PInv, PTypeOK, Threads
  <2> HIDE DEF open
  <2>4. SubSeq(running[t], 1, Len(open)) = [i \in 1..Len(open) |-> running[t][i]]
    BY <2>2, <2>3
  <2> QED
    BY <2>2, <2>4 DEF open
<1> QED
  BY <1>1, ProgramInv, PTL

(* A new line of text appears under the innermost call shown as open, or at  *)
(* the thread when none is.                                                *)
LEMMA TextStep ==
  ASSUME PInv, [PNext]_pvars
  PROVE  TextPlaced
<1> DEFINE n == cNodes + 1
<1>1. SUFFICES ASSUME NEW x \in NodeId, kind[x] = "free", kind'[x] = "trace"
               PROVE  parent'[x] = Tree!Innermost(thread'[x])
  BY DEF TextPlaced
<1>2. IInv /\ [Next]_vars
  BY ProgramSteps DEF PInv, NestInv
<1>3. ~ClearArchive
  BY <1>1 DEF ClearArchive
<1>4. ~AddsNothing
  BY <1>1 DEF AddsNothing, nodeVars
<1>5. ~AddsThread(n)
  BY <1>1 DEF AddsThread, Fresh
<1>6. PICK t \in Threads : AddsLine(n, t)
  <2>1. ASSUME NEW t \in Threads, NEW p \in NodeId, AddsFlow(n, t, p) PROVE FALSE
    BY <1>1, <2>1 DEF AddsFlow, Fresh
  <2>2. ASSUME NEW t \in Threads, NEW m \in NodeId, Pairs(m, n, t) PROVE FALSE
    BY <1>1, <2>2 DEF Pairs, Fresh
  <2> QED
    BY <1>2, <1>3, <1>4, <1>5, <2>1, <2>2, StepView
<1>7. x = n
  BY <1>1, <1>6 DEF AddsLine, Fresh
<1>8. parent'[n] = EnterParent(t) /\ thread'[n] = t
  BY <1>6 DEF AddsLine
<1>9. EnterParent(t) = Tree!Innermost(t)
  BY EnterParentIs
<1> QED
  BY <1>7, <1>8, <1>9

(* Lines of text are placed under the call that is running (addTrace).       *)
THEOREM TextUnderCall == PSpec => TextUnderRunningCall
<1>1. PInv /\ [PNext]_pvars => [TextPlaced]_pvars
  BY TextStep
<1> QED
  BY <1>1, ProgramInv, PTL DEF PSpec, TextUnderRunningCall
=============================================================================
