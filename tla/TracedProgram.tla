---------------------------- MODULE TracedProgram ---------------------------
(***************************************************************************)
(* FlowTree fed by real threads: every thread calls, returns and prints,   *)
(* and every record arrives, in order.  The viewer may be attached, or     *)
(* cleared, in the middle of a run: a thread then has calls on its stack   *)
(* whose ENTER the archive never saw and whose EXIT it will see.           *)
(*                                                                         *)
(* The program is not part of src/; it is what the records stand for.      *)
(***************************************************************************)
EXTENDS FlowTree

CONSTANT MaxUnseen   \* calls already running when a thread is first seen

ASSUME UnseenAssumption == MaxUnseen \in Nat

VARIABLE running     \* the functions on the real stack of a thread, innermost first

pvars == <<vars, running>>

Unseen == UNION {[1..k -> Fns] : k \in 0..MaxUnseen}

PInit == Init /\ running = [n \in NodeId |-> << >>]

Start ==
  /\ AddThread
  /\ \E stack \in Unseen : running' = [running EXCEPT ![cNodes + 1] = stack]

Call(t, f) ==
  /\ Enter(t, f)
  /\ running' = [running EXCEPT ![t] = << f >> \o @]

Return(t) ==
  /\ running[t] # << >>
  /\ ExitPaired(t, Head(running[t])) \/ ExitUnpaired(t, Head(running[t]))
  /\ running' = [running EXCEPT ![t] = Tail(@)]

Log(t) ==
  /\ \E pieces \in TraceRecs : BeginTrace(t, FALSE, pieces)
  /\ UNCHANGED running

AddText ==
  /\ \E p \in Piece : PieceStep(p)
  /\ UNCHANGED running

Clear ==
  /\ ClearArchive
  /\ running' = [n \in NodeId |-> << >>]

PNext ==
  \/ Start
  \/ Clear
  \/ \E t \in Threads : Return(t) \/ Log(t) \/ \E f \in Fns : Call(t, f)
  \/ AddText

PSpec == PInit /\ [][PNext]_pvars

-----------------------------------------------------------------------------
OpenCalls(t) == {n \in NodeId : IsOpenEnter(n) /\ thread[n] = t}
LatestFirst(S) ==
  [i \in 1..Cardinality(S) |-> CHOOSE n \in S : Cardinality({m \in S : m >= n}) = i]
OpenStack(t) == LatestFirst(OpenCalls(t))
Enters == {n \in NodeId : kind[n] = "enter"}

Tree == INSTANCE CallTree WITH
  Ids    <- NodeId,
  stack  <- [t \in NodeId |-> OpenStack(t)],
  caller <- [n \in Enters |-> parent[n]],
  name   <- [n \in Enters |-> fn[n]]

(* With no record lost, the tree that addToTree builds is the tree of the   *)
(* calls the program made: every call under its real caller, an EXIT closes *)
(* exactly the innermost open call, and the EXIT of a call that was never   *)
(* seen to start changes nothing of it.                                    *)
CallsAsMade == Tree!Spec

(* The open calls shown for a thread are the top of its real stack, whatever*)
(* was on that stack before the viewer was attached.                       *)
OpenCallsAreRunning ==
  \A t \in Threads :
    LET open == OpenStack(t) IN
    /\ Len(open) <= Len(running[t])
    /\ [i \in 1..Len(open) |-> fn[open[i]]] = SubSeq(running[t], 1, Len(open))

(* A new line of text appears under the call that was running when it was   *)
(* printed, or at the thread when no running call was seen to start.        *)
TextPlaced ==
  \A n \in NodeId : kind[n] = "free" /\ kind'[n] = "trace" =>
    parent'[n] = Tree!Innermost(thread'[n])
TextUnderRunningCall == [][TextPlaced]_pvars

(* What the two rest on: the open calls of a thread, the latest first, are   *)
(* a chain of callers that starts at curentFlow and ends at the thread.      *)
PTypeOK == running \in [NodeId -> Seq(Fns)]
ListsLatestFirst(s, S) ==
  /\ s \in Seq(S)
  /\ \A x \in S : \E i \in 1..Len(s) : s[i] = x
  /\ \A i, j \in 1..Len(s) : i < j => s[j] < s[i]
CallerChain(s, t) ==
  /\ s # << >> => curentFlow[t] = s[1]
  /\ \A i \in 1..Len(s) : parent[s[i]] = IF i < Len(s) THEN s[i + 1] ELSE t
TopOfStack(s, t) ==
  /\ Len(s) <= Len(running[t])
  /\ \A i \in 1..Len(s) : fn[s[i]] = running[t][i]
OpenStacks ==
  \A t \in NodeId : /\ ListsLatestFirst(OpenStack(t), OpenCalls(t))
                    /\ CallerChain(OpenStack(t), t)
                    /\ TopOfStack(OpenStack(t), t)
=============================================================================
