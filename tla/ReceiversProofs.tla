--------------------------- MODULE ReceiversProofs --------------------------
(***************************************************************************)
(* Proofs about Receivers, for any number of objects, slots and starts:    *)
(* when stop() returns, every thread of the receivers is out of Work, and  *)
(* no object is deleted under a thread that is not.                        *)
(***************************************************************************)
EXTENDS Receivers, TLAPS

(* The invariant but for the lock, whose holder few steps change.           *)
StopRest ==
  /\ RunningIsPending /\ SlotsKept /\ OnlyListenersAdd /\ AddsOne
  /\ HandlesTell /\ UiInPlace /\ NoRoleNoThread

(* A step of the thread of o that neither starts nor adds another one.      *)
LocalStep(o, there) ==
  /\ pc[o] \notin NotStarted \cup {"create", "assign"}
  /\ pc' = [pc EXCEPT ![o] = there]
  /\ there \in PCs \ (Adding \cup {"none", "starting"})
  /\ there = "dead" <=> pc[o] = "exit"
  /\ there \in {"loop", "accept"} => role[o] = "listen"
  /\ \A p \in Objects \ {o} : hThread'[p] = hThread[p]
  /\ there \in Finished \/ hThread' = hThread
  /\ UNCHANGED <<objVars, conn, netVars, uiVars>>

LocalAction(o) ==
  \/ Begin(o) \/ CloseOwnHandle(o) \/ ForgetOwnHandle(o) \/ Leave(o)
  \/ ReadData(o) \/ ReadFails(o) \/ ReadClosed(o) \/ Lock(o) \/ Unlock(o)
  \/ Ended(o) \/ CloseMessage(o) \/ Loop(o) \/ AcceptFails(o) \/ ConnectionStarted(o)

LEMMA LocalSteps ==
  ASSUME TypeOK, OnlyListenersAdd, NEW o \in Objects, LocalAction(o)
  PROVE  \E there : LocalStep(o, there)
<1>0. hThread \in [Objects -> {"null", "open", "closed"}]
  BY DEF TypeOK
<1>1. CASE Begin(o)
  <2>1. /\ role[o] # "listen" => Goto(o, "read")
        /\ role[o] = "listen" /\ socket[o] = "open" => Goto(o, "loop")
        /\ role[o] = "listen" /\ socket[o] # "open" => Goto(o, "cleanup")
    BY <1>1 DEF Begin
  <2>2. PICK there \in {"read", "loop", "cleanup"} :
          Goto(o, there) /\ (there = "loop" => role[o] = "listen")
    BY <2>1
  <2>3. pc[o] = "starting" /\ UNCHANGED <<objVars, hThread, conn, netVars, uiVars>>
    BY <1>1 DEF Begin
  <2>4. LocalStep(o, there)
    BY <2>2, <2>3 DEF Goto, LocalStep, PCs, Over, Adding, NotStarted, Finished
  <2> QED
    BY <2>4
<1>2. CASE CloseOwnHandle(o)
  <2>1. LocalStep(o, "exit")
    BY <1>0, <1>2
    DEF CloseOwnHandle, Goto, LocalStep, PCs, Over, Adding, NotStarted, Finished
  <2> QED
    BY <2>1
<1>3. CASE ForgetOwnHandle(o)
  <2>1. LocalStep(o, "dead")
    BY <1>0, <1>3
    DEF ForgetOwnHandle, Goto, LocalStep, PCs, Over, Adding, NotStarted, Finished
  <2> QED
    BY <2>1
<1>4. CASE Leave(o)
  <2>1. LocalStep(o, "cleanup")
    BY <1>4 DEF Leave, Goto, LocalStep, PCs, Over, Adding, NotStarted, Finished
  <2> QED
    BY <2>1
<1>5. CASE ReadData(o) \/ ReadFails(o) \/ ReadClosed(o) \/ Lock(o)
  <2>1. \E there \in {"lock", "ended", "append"} : LocalStep(o, there)
    BY <1>5
    DEF ReadData, ReadFails, ReadClosed, Lock, quiet, wtVars, Goto, LocalStep, PCs, Over, Adding,
        NotStarted, Finished
  <2> QED
    BY <2>1
<1>6. CASE Unlock(o)
  <2>1. \E there \in {"read", "ended"} : LocalStep(o, there)
    BY <1>6
    DEF Unlock, quiet, wtVars, Goto, LocalStep, PCs, Over, Adding, NotStarted, Finished
  <2> QED
    BY <2>1
<1>7. CASE Ended(o) \/ CloseMessage(o)
  <2>1. \E there \in {"message", "leave"} : LocalStep(o, there)
    BY <1>7
    DEF Ended, CloseMessage, quiet, wtVars, Goto, LocalStep, PCs, Over, Adding, NotStarted, Finished
  <2> QED
    BY <2>1
<1>8. CASE Loop(o) \/ AcceptFails(o) \/ ConnectionStarted(o)
  <2>1. role[o] = "listen"
    BY <1>8 DEF Loop, AcceptFails, ConnectionStarted, OnlyListenersAdd, Adding
  <2>2. \E there \in {"accept", "cleanup", "message", "leave", "loop"} : LocalStep(o, there)
    BY <1>8, <2>1
    DEF Loop, AcceptFails, ConnectionStarted, quiet, wtVars, Goto, LocalStep, PCs, Over, Adding,
        NotStarted, Finished
  <2> QED
    BY <2>2
<1> QED
  BY <1>1, <1>2, <1>3, <1>4, <1>5, <1>6, <1>7, <1>8 DEF LocalAction

LEMMA LocalStopInv ==
  ASSUME TypeOK, StopInv, NEW o \in Objects, NEW there, LocalStep(o, there)
  PROVE  StopRest'
<1>1. /\ UNCHANGED <<role, deleted, conn, working, pThreads, ui, at, starts>>
      /\ pc' \in [Objects -> PCs] /\ pc'[o] = there
      /\ \A p \in Objects : p # o => pc'[p] = pc[p]
  BY DEF LocalStep, objVars, netVars, uiVars, TypeOK
<1>2. /\ pc[o] \notin NotStarted \cup {"create", "assign"}
      /\ there \notin Adding \cup {"none", "starting"}
      /\ there = "dead" <=> pc[o] = "exit"
  BY DEF LocalStep
<1>3. Pending' = Pending
  BY <1>1 DEF Pending
<1>4. \A i \in Pending : pThreads[i] \in Objects
  BY DEF Pending, TypeOK, StopInv, UiInPlace, Stopping
<1>5. RunningIsPending'
  BY <1>1, <1>2, <1>3, Zenon DEF StopInv, RunningIsPending, Over, NotStarted
<1>6. SlotsKept'
  BY <1>1, <1>3 DEF StopInv, SlotsKept
<1>7. OnlyListenersAdd'
  BY <1>1, <1>2 DEF StopInv, OnlyListenersAdd, LocalStep
<1>8. AddsOne'
  <2> SUFFICES ASSUME NEW l \in Objects, pc'[l] \in Adding
               PROVE  AddsOne!(l)!2'
    BY DEF AddsOne
  <2>1. l # o /\ pc'[l] = pc[l]
    BY <1>1, <1>2
  <2>2. AddsOne!(l)!2
    BY <2>1 DEF StopInv, AddsOne
  <2>3. pc[l] \in {"add", "put", "create"} => conn[l] # o
    BY <1>2, <2>2
  <2> QED
    BY <1>1, <1>3, <2>1, <2>2, <2>3
<1>9. HandlesTell'
  <2> SUFFICES ASSUME NEW i \in Pending, hThread'[pThreads[i]] # "open", ~Unassigned(i)'
               PROVE  pc'[pThreads[i]] \in Finished
    BY <1>1, <1>3 DEF HandlesTell
  <2>1. ~Unassigned(i)
    BY <1>1, <1>2 DEF Unassigned
  <2>2. CASE pThreads[i] # o
    BY <1>1, <1>4, <2>1, <2>2 DEF StopInv, HandlesTell, LocalStep
  <2>3. CASE pThreads[i] = o /\ hThread' = hThread
    BY <1>1, <1>2, <2>1, <2>3 DEF StopInv, HandlesTell, Finished, NotStarted
  <2>4. CASE pThreads[i] = o /\ hThread' # hThread
    BY <1>1, <2>4 DEF LocalStep
  <2> QED
    BY <2>2, <2>3, <2>4
<1>10. UiInPlace'
  <2>1. ui = "create" => pc'[Here] \in NotStarted
    <3>1. ui = "create" => at \in Pending
      BY DEF StopInv, UiInPlace, Pending, Stopping, TypeOK
    <3> QED
      BY <1>1, <1>2, <1>4, <3>1 DEF StopInv, UiInPlace, Here
  <2>2. ui = "delete" => pc'[Here] \in Finished
    <3>1. ui = "delete" => at \in Pending
      BY DEF StopInv, UiInPlace, Pending, Stopping, TypeOK
    <3> QED
      BY <1>1, <1>2, <1>4, <3>1 DEF StopInv, UiInPlace, Here, Finished, NotStarted
  <2> QED
    BY <1>1, <2>1, <2>2 DEF StopInv, UiInPlace, Here
<1>11. NoRoleNoThread'
  BY <1>1, <1>2 DEF StopInv, NoRoleNoThread, NotStarted
<1> QED
  BY <1>5, <1>6, <1>7, <1>8, <1>9, <1>10, <1>11 DEF StopRest

(* The listening thread is the one of the second slot.                      *)
LEMMA OneListener ==
  ASSUME TypeOK, StopInv, NEW l \in Objects, pc[l] \in {"loop", "accept"} \cup Adding
  PROVE  /\ 2 \in Pending /\ l = pThreads[2] /\ Len(pThreads) >= 2
         /\ at \in Nat /\ Len(pThreads) \in Nat /\ Len(pThreads) \in Pending
         /\ \A k \in Objects : pc[k] \in {"loop", "accept"} \cup Adding => k = l
         /\ ui \in {"assign", "started", "run"} \cup Stopping
<1>1. ASSUME NEW k \in Objects, pc[k] \in {"loop", "accept"} \cup Adding
      PROVE  2 \in Pending /\ k = pThreads[2]
  <2>1. role[k] = "listen"
    BY <1>1 DEF StopInv, OnlyListenersAdd
  <2>2. PICK i \in Pending : pThreads[i] = k
    BY <1>1 DEF StopInv, RunningIsPending, Over, Adding
  <2>3. i = 2
    BY <2>1, <2>2 DEF StopInv, SlotsKept, RoleOfSlot
  <2> QED
    BY <2>2, <2>3
<1>2. Len(pThreads) \in Nat /\ at \in Nat
  BY DEF TypeOK
<1>3. 2 \in Pending /\ l = pThreads[2]
  BY <1>1
<1>4. Len(pThreads) >= 2 /\ Len(pThreads) \in Pending
  BY <1>2, <1>3 DEF Pending
<1>5. ui \in {"assign", "started", "run"} \cup Stopping
  <2>1. ui \notin {"off", "archive"}
    BY <1>4 DEF StopInv, UiInPlace
  <2>2. ui # "create"
    <3> SUFFICES ASSUME ui = "create" PROVE FALSE
      OBVIOUS
    <3>1. at = 2
      BY <1>4 DEF StopInv, UiInPlace
    <3>2. pc[l] \in NotStarted
      BY <1>3, <3>1 DEF StopInv, UiInPlace, Here
    <3> QED
      BY <3>2 DEF NotStarted, Adding
  <2> QED
    BY <2>1, <2>2 DEF TypeOK, UiPCs, Stopping
<1> QED
  BY <1>1, <1>2, <1>3, <1>4, <1>5

(* new: an object that is in no pending slot and has no thread.             *)
LEMMA NewObject ==
  ASSUME TypeOK, StopInv, NEW o \in Objects, NEW r \in Roles \ {"none"}, New(o, r)
  PROVE  /\ pc[o] \in NotStarted
         /\ \A i \in Pending : pThreads[i] # o
         /\ \A l \in Objects : pc[l] \in Adding => conn[l] # o
         /\ role' \in [Objects -> Roles] /\ deleted' \in [Objects -> BOOLEAN]
         /\ bWorking' \in [Objects -> BOOLEAN]
         /\ hThread' \in [Objects -> {"null", "open", "closed"}]
         /\ socket' \in [Objects -> {"open", "closed"}]
         /\ role'[o] = r /\ ~deleted'[o] /\ hThread'[o] = "null"
         /\ \A p \in Objects \ {o} : /\ role'[p] = role[p] /\ deleted'[p] = deleted[p]
                                     /\ hThread'[p] = hThread[p]
<1>1. o \in Free
  BY DEF New
<1>2. pc[o] \in NotStarted
  BY <1>1 DEF Free, NotStarted, StopInv, NoRoleNoThread
<1>3. role[o] = "none" \/ deleted[o]
  BY <1>1 DEF Free
<1>4. \A i \in Pending : pThreads[i] # o
  BY <1>3 DEF StopInv, SlotsKept, RoleOfSlot
<1>5. \A l \in Objects : pc[l] \in Adding => conn[l] # o
  BY <1>3 DEF StopInv, AddsOne
<1>6. /\ role' = [role EXCEPT ![o] = r]
      /\ deleted' = [deleted EXCEPT ![o] = FALSE]
      /\ bWorking' = [bWorking EXCEPT ![o] = FALSE]
      /\ hThread' = [hThread EXCEPT ![o] = "null"]
      /\ \E s \in {"open", "closed"} : socket' = [socket EXCEPT ![o] = s]
  BY DEF New
<1> QED
  BY <1>2, <1>4, <1>5, <1>6 DEF TypeOK

LEMMA AcceptStopInv ==
  ASSUME TypeOK, StopInv, NEW o \in Objects, Accept(o)
  PROVE  StopRest'
<1>1. PICK c \in Objects : New(c, "connection") /\ conn' = [conn EXCEPT ![o] = c]
  BY DEF Accept
<1>2. /\ pc[o] = "accept" /\ pc' = [pc EXCEPT ![o] = "add"]
      /\ UNCHANGED <<lockOwner, working, pThreads, ui, at, starts>>
  BY DEF Accept, Goto, netVars, uiVars
<1>3. /\ 2 \in Pending /\ o = pThreads[2]
      /\ \A k \in Objects : pc[k] \in {"loop", "accept"} \cup Adding => k = o
      /\ ui \in {"assign", "started", "run"} \cup Stopping
  BY <1>2, OneListener
<1>4. /\ pc[c] \in NotStarted
      /\ \A i \in Pending : pThreads[i] # c
      /\ role'[c] = "connection" /\ ~deleted'[c]
      /\ \A p \in Objects \ {c} : /\ role'[p] = role[p] /\ deleted'[p] = deleted[p]
                                  /\ hThread'[p] = hThread[p]
  BY <1>1, NewObject DEF Roles
<1>5. /\ pc' \in [Objects -> PCs] /\ pc'[o] = "add" /\ conn'[o] = c
      /\ \A p \in Objects : p # o => pc'[p] = pc[p]
  BY <1>1, <1>2 DEF TypeOK, PCs
<1>6. Pending' = Pending /\ \A i \in Pending : pThreads[i] \in Objects \ {c}
  BY <1>2, <1>4 DEF Pending, TypeOK, StopInv, UiInPlace, Stopping
<1>7. c # o
  BY <1>3, <1>4
<1>8. RunningIsPending'
  BY <1>2, <1>5, <1>6, Zenon DEF StopInv, RunningIsPending, Over
<1>9. SlotsKept'
  BY <1>2, <1>4, <1>6, Zenon DEF StopInv, SlotsKept
<1>10. OnlyListenersAdd' /\ NoRoleNoThread'
  BY <1>2, <1>4, <1>5, <1>7 DEF StopInv, OnlyListenersAdd, NoRoleNoThread, NotStarted, Adding
<1>11. AddsOne'
  <2> SUFFICES ASSUME NEW l \in Objects, pc'[l] \in Adding PROVE AddsOne!(l)!2'
    BY DEF AddsOne
  <2>1. l = o
    BY <1>3, <1>5
  <2> QED
    BY <1>2, <1>4, <1>5, <1>6, <1>7, <2>1
<1>12. HandlesTell'
  <2> SUFFICES ASSUME NEW i \in Pending, hThread'[pThreads[i]] # "open", ~Unassigned(i)'
               PROVE  pc'[pThreads[i]] \in Finished
    BY <1>2, <1>6 DEF HandlesTell
  <2>1. ~Unassigned(i)
    BY <1>2, <1>5, <1>3 DEF Unassigned, Adding
  <2>2. pc[pThreads[i]] \in Finished
    BY <1>4, <1>6, <2>1 DEF StopInv, HandlesTell
  <2> QED
    BY <1>2, <1>5, <1>6, <2>2 DEF Finished
<1>13. UiInPlace'
  <2>1. ui = "delete" => pc'[Here] \in Finished
    <3>1. ui = "delete" => at \in Pending
      BY DEF StopInv, UiInPlace, Pending, Stopping, TypeOK
    <3> QED
      BY <1>2, <1>5, <1>6, <3>1 DEF StopInv, UiInPlace, Here, Finished
  <2> QED
    BY <1>2, <1>3, <2>1 DEF StopInv, UiInPlace, Here, Stopping
<1> QED
  BY <1>8, <1>9, <1>10, <1>11, <1>12, <1>13 DEF StopRest

(* LogReceiverNet::add, as the listening thread calls it.                   *)
LEMMA AddChecksStopInv ==
  ASSUME TypeOK, StopInv, NEW o \in Objects, AddChecks(o)
  PROVE  StopRest'
<1>1. /\ pc[o] = "add"
      /\ UNCHANGED <<role, hThread, conn, working, pThreads, ui, at>>
      /\ \/ /\ pc' = [pc EXCEPT ![o] = "put"] /\ deleted' = deleted
            /\ Len(pThreads) < Slots
         \/ /\ pc' = [pc EXCEPT ![o] = "loop"]
            /\ deleted' = [deleted EXCEPT ![conn[o]] = TRUE]
  BY DEF AddChecks, Goto, HasSlot, wtVars, netVars, uiVars
<1>2. /\ 2 \in Pending /\ o = pThreads[2]
      /\ \A k \in Objects : pc[k] \in {"loop", "accept"} \cup Adding => k = o
      /\ ui \in {"assign", "started", "run"} \cup Stopping
  BY <1>1, OneListener DEF Adding
<1>3. PICK c \in Objects : c = conn[o]
  BY <1>1 DEF StopInv, AddsOne, Adding
<1>4. /\ role[c] = "connection" /\ ~deleted[c] /\ pc[c] \in NotStarted
      /\ \A i \in Pending : pThreads[i] # c
  BY <1>1, <1>3 DEF StopInv, AddsOne, Adding
<1>5. /\ pc' \in [Objects -> PCs] /\ pc'[o] \in {"put", "loop"}
      /\ pc'[o] = "put" => deleted' = deleted /\ Len(pThreads) < Slots
      /\ \A p \in Objects : p # o => pc'[p] = pc[p]
      /\ \A p \in Objects : p # c => deleted'[p] = deleted[p]
  BY <1>1, <1>3 DEF TypeOK, PCs
<1>6. Pending' = Pending /\ \A i \in Pending : pThreads[i] \in Objects \ {c}
  BY <1>1, <1>4 DEF Pending, TypeOK, StopInv, UiInPlace, Stopping
<1>7. role[o] = "listen" /\ c # o
  BY <1>1, <1>4 DEF StopInv, OnlyListenersAdd, Adding
<1>8. RunningIsPending'
  BY <1>1, <1>5, <1>6, Zenon DEF StopInv, RunningIsPending, Over
<1>9. SlotsKept'
  BY <1>1, <1>5, <1>6, Zenon DEF StopInv, SlotsKept
<1>10. OnlyListenersAdd' /\ NoRoleNoThread'
  BY <1>1, <1>5, <1>7 DEF StopInv, OnlyListenersAdd, NoRoleNoThread
<1>11. AddsOne'
  <2> SUFFICES ASSUME NEW l \in Objects, pc'[l] \in Adding PROVE AddsOne!(l)!2'
    BY DEF AddsOne
  <2>1. l = o /\ pc'[o] = "put"
    BY <1>2, <1>5 DEF Adding
  <2> QED
    BY <1>1, <1>3, <1>4, <1>5, <1>6, <1>7, <2>1
<1>12. HandlesTell'
  <2> SUFFICES ASSUME NEW i \in Pending, hThread[pThreads[i]] # "open", ~Unassigned(i)'
               PROVE  pc'[pThreads[i]] \in Finished
    BY <1>1, <1>6 DEF HandlesTell
  <2>1. ~Unassigned(i)
    BY <1>1, <1>2, <1>5 DEF Unassigned, Adding
  <2>2. pc[pThreads[i]] \in Finished
    BY <2>1 DEF StopInv, HandlesTell
  <2> QED
    BY <1>1, <1>5, <1>6, <2>2 DEF Finished
<1>13. UiInPlace'
  <2>1. ui = "delete" => pc'[Here] \in Finished
    <3>1. ui = "delete" => at \in Pending
      BY DEF StopInv, UiInPlace, Pending, Stopping, TypeOK
    <3> QED
      BY <1>1, <1>5, <1>6, <3>1 DEF StopInv, UiInPlace, Here, Finished
  <2> QED
    BY <1>1, <1>2, <2>1 DEF StopInv, UiInPlace, Here, Stopping
<1> QED
  BY <1>8, <1>9, <1>10, <1>11, <1>12, <1>13 DEF StopRest

LEMMA AddPutsStopInv ==
  ASSUME TypeOK, StopInv, NEW o \in Objects, AddPuts(o)
  PROVE  StopRest'
<1>1. /\ pc[o] = "put" /\ pc' = [pc EXCEPT ![o] = "create"]
      /\ UNCHANGED <<role, deleted, hThread, conn, ui, at>>
      /\ pThreads' = Append(pThreads, conn[o])
  BY DEF AddPuts, Goto, wtVars, objVars, uiVars
<1>2. /\ 2 \in Pending /\ o = pThreads[2] /\ Len(pThreads) >= 2
      /\ \A k \in Objects : pc[k] \in {"loop", "accept"} \cup Adding => k = o
      /\ ui \in {"assign", "started", "run"} \cup Stopping
  BY <1>1, OneListener DEF Adding
<1>3. PICK c \in Objects : c = conn[o]
  BY <1>1 DEF StopInv, AddsOne, Adding
<1>4. /\ role[c] = "connection" /\ ~deleted[c] /\ pc[c] \in NotStarted
      /\ \A i \in Pending : pThreads[i] # c
  BY <1>1, <1>3 DEF StopInv, AddsOne, Adding
<1>5. /\ pc' \in [Objects -> PCs] /\ pc'[o] = "create"
      /\ \A p \in Objects : p # o => pc'[p] = pc[p]
  BY <1>1 DEF TypeOK, PCs
<1>6. PICK len \in Nat : len = Len(pThreads)
  BY DEF TypeOK
<1>7. /\ Len(pThreads') = len + 1 /\ pThreads'[len + 1] = c
      /\ \A i \in 1..len : pThreads'[i] = pThreads[i] /\ pThreads[i] \in Objects
  BY <1>1, <1>3, <1>6 DEF TypeOK
<1>8. /\ \A i : i \in Pending' <=> i \in Pending \/ i = len + 1
      /\ \A i \in Pending : i \in 1..len /\ i # len + 1 /\ pThreads'[i] = pThreads[i]
  <2>1. at \in Nat /\ (ui \in Stopping => 1 <= at /\ at <= len + 1)
    BY <1>6 DEF TypeOK, StopInv, UiInPlace, Stopping
  <2>2. \A i \in Pending : i \in 1..len /\ i # len + 1
    BY <1>6, <2>1 DEF Pending
  <2>3. \A i : i \in Pending' <=> i \in Pending \/ i = len + 1
    <3> DEFINE from == IF ui \in Stopping THEN at ELSE 1
    <3>1. from \in Nat /\ from <= len + 1
      BY <1>6, <2>1
    <3>2. Pending = from..len /\ Pending' = from..(len + 1)
      BY <1>1, <1>6, <1>7 DEF Pending
    <3>3. len + 1 \in from..(len + 1)
      BY <1>6, <3>1
    <3>4. \A i \in from..len : i \in from..(len + 1)
      BY <1>6, <3>1
    <3>5. \A i \in from..(len + 1) : i = len + 1 \/ i \in from..len
      BY <1>6, <3>1
    <3> QED
      BY <3>2, <3>3, <3>4, <3>5, Zenon
  <2> QED
    BY <1>7, <2>1, <2>2, <2>3
<1>9. c # o
  BY <1>2, <1>4
<1>10. RunningIsPending'
  <2> SUFFICES ASSUME NEW p \in Objects, pc'[p] \notin Over
               PROVE  \E i \in Pending' : pThreads'[i] = p
    BY DEF RunningIsPending
  <2>1. CASE p = o
    BY <1>2, <1>8, <2>1
  <2>2. CASE p # o
    <3>1. PICK i \in Pending : pThreads[i] = p
      BY <1>5, <2>2 DEF StopInv, RunningIsPending
    <3> QED
      BY <1>8, <3>1
  <2> QED
    BY <2>1, <2>2
<1>11. SlotsKept'
  <2> SUFFICES ASSUME NEW i \in Pending'
               PROVE  /\ role[pThreads'[i]] = RoleOfSlot(i) /\ ~deleted[pThreads'[i]]
                      /\ \A j \in Pending' : pThreads'[i] = pThreads'[j] => i = j
    BY <1>1 DEF SlotsKept
  <2>1. CASE i \in Pending
    <3>1. role[pThreads[i]] = RoleOfSlot(i) /\ ~deleted[pThreads[i]]
          /\ \A j \in Pending : pThreads[i] = pThreads[j] => i = j
      BY <2>1, Zenon DEF StopInv, SlotsKept
    <3>2. pThreads'[i] = pThreads[i] /\ pThreads[i] # pThreads'[len + 1]
      BY <1>4, <1>7, <1>8, <2>1
    <3> QED
      BY <1>8, <3>1, <3>2
  <2>2. CASE i = len + 1
    <3>1. RoleOfSlot(len + 1) = "connection"
      BY <1>2, <1>6 DEF RoleOfSlot
    <3> QED
      BY <1>4, <1>7, <1>8, <2>2, <3>1
  <2> QED
    BY <1>8, <2>1, <2>2
<1>12. OnlyListenersAdd' /\ NoRoleNoThread'
  BY <1>1, <1>5 DEF StopInv, OnlyListenersAdd, NoRoleNoThread, Adding
<1>13. AddsOne'
  <2> SUFFICES ASSUME NEW l \in Objects, pc'[l] \in Adding PROVE AddsOne!(l)!2'
    BY DEF AddsOne
  <2>1. l = o
    BY <1>2, <1>5
  <2> QED
    BY <1>1, <1>3, <1>4, <1>5, <1>7, <1>9, <2>1
<1>14. HandlesTell'
  <2> SUFFICES ASSUME NEW i \in Pending', hThread[pThreads'[i]] # "open", ~Unassigned(i)'
               PROVE  pc'[pThreads'[i]] \in Finished
    BY <1>1 DEF HandlesTell
  <2>1. i # len + 1
    BY <1>5, <1>7 DEF Unassigned
  <2>2. i \in Pending /\ i \in 1..len /\ pThreads'[i] = pThreads[i]
    BY <1>8, <2>1
  <2>3. ~Unassigned(i)
    BY <1>1, <1>2 DEF Unassigned, Adding
  <2>4. pc[pThreads[i]] \in Finished
    BY <2>2, <2>3 DEF StopInv, HandlesTell
  <2> QED
    BY <1>1, <1>5, <1>7, <2>2, <2>4 DEF Finished
<1>15. UiInPlace'
  <2>1. ui \in Stopping \ {"next"} => at \in 1..len
    BY <1>6 DEF StopInv, UiInPlace
  <2>2. ui = "delete" => pc'[pThreads'[at]] \in Finished
    <3>1. ui = "delete" => pThreads'[at] = pThreads[at] /\ pThreads[at] \in Objects
      BY <1>7, <2>1 DEF Stopping
    <3> QED
      BY <1>1, <1>5, <3>1 DEF StopInv, UiInPlace, Here, Finished
  <2>3. ui \in {"assign", "started"} => at = 2
    BY <1>2 DEF StopInv, UiInPlace
  <2> QED
    BY <1>1, <1>2, <1>6, <1>7, <2>1, <2>2, <2>3 DEF StopInv, UiInPlace, Here, Stopping
<1> QED
  BY <1>10, <1>11, <1>12, <1>13, <1>14, <1>15 DEF StopRest

LEMMA ConnectStopInv ==
  ASSUME TypeOK, StopInv, NEW o \in Objects, CreateConnection(o) \/ AssignConnection(o)
  PROVE  StopRest'
<1>1. /\ pc[o] \in {"create", "assign"}
      /\ UNCHANGED <<role, deleted, conn, pThreads, ui, at>>
  BY DEF CreateConnection, AssignConnection, quiet, wtVars, objVars, netVars, uiVars
<1>2. /\ 2 \in Pending /\ o = pThreads[2] /\ Len(pThreads) \in Pending
      /\ \A k \in Objects : pc[k] \in {"loop", "accept"} \cup Adding => k = o
      /\ ui \in {"assign", "started", "run"} \cup Stopping
  BY <1>1, OneListener DEF Adding
<1>3. PICK c \in Objects : c = conn[o] /\ c = pThreads[Len(pThreads)]
  BY <1>1 DEF StopInv, AddsOne, Adding
<1>4. role[c] = "connection" /\ ~deleted[c] /\ (pc[o] = "create" => pc[c] \in NotStarted)
  BY <1>1, <1>3 DEF StopInv, AddsOne, Adding
<1>5. Pending' = Pending /\ \A i \in Pending : pThreads[i] \in Objects
  BY <1>1 DEF Pending, TypeOK, StopInv, UiInPlace, Stopping
<1>6. role[o] = "listen" /\ c # o
  BY <1>1, <1>4 DEF StopInv, OnlyListenersAdd, Adding
<1>7. /\ pc'[o] \in {"assign", "started"}
      /\ \A p \in Objects : p \notin {o, c} => pc'[p] = pc[p] /\ hThread'[p] = hThread[p]
      /\ hThread'[o] = hThread[o]
      /\ pc[o] = "create" => pc'[o] = "assign" /\ pc'[c] = "starting" /\ hThread' = hThread
      /\ pc[o] = "assign" => pc'[o] = "started" /\ pc'[c] = pc[c] /\ hThread'[c] = "open"
  <2>1. CASE CreateConnection(o)
    <3>1. pc' = [pc EXCEPT ![o] = "assign", ![c] = "starting"] /\ hThread' = hThread /\ pc[o] = "create"
      BY <1>3, <2>1 DEF CreateConnection, quiet, wtVars
    <3> QED
      BY <1>6, <3>1 DEF TypeOK
  <2>2. CASE AssignConnection(o)
    <3>1. /\ pc' = [pc EXCEPT ![o] = "started"] /\ pc[o] = "assign"
          /\ hThread' = [hThread EXCEPT ![c] = "open"]
      BY <1>3, <2>2 DEF AssignConnection, Goto
    <3> QED
      BY <1>6, <3>1 DEF TypeOK
  <2> QED
    BY <2>1, <2>2
<1>8. RunningIsPending'
  BY <1>1, <1>2, <1>3, <1>5, <1>7, Zenon DEF StopInv, RunningIsPending
<1>9. SlotsKept'
  BY <1>1, <1>5, Zenon DEF StopInv, SlotsKept
<1>10. OnlyListenersAdd' /\ NoRoleNoThread'
  BY <1>1, <1>4, <1>6, <1>7 DEF StopInv, OnlyListenersAdd, NoRoleNoThread, Adding
<1>11. AddsOne'
  <2> SUFFICES ASSUME NEW l \in Objects, pc'[l] \in Adding PROVE AddsOne!(l)!2'
    BY DEF AddsOne
  <2>1. l = o
    BY <1>1, <1>2, <1>4, <1>7 DEF Adding
  <2> QED
    BY <1>1, <1>3, <1>4, <1>7, <2>1
<1>12. HandlesTell'
  <2> SUFFICES ASSUME NEW i \in Pending, hThread'[pThreads[i]] # "open", ~Unassigned(i)'
               PROVE  pc'[pThreads[i]] \in Finished
    BY <1>1, <1>5 DEF HandlesTell
  <2>1. pThreads[i] # c
    <3>1. CASE pc[o] = "create"
      <4>1. i # Len(pThreads)
        BY <1>1, <1>7, <3>1 DEF Unassigned
      <4> QED
        BY <1>2, <1>3, <4>1 DEF StopInv, SlotsKept
    <3>2. CASE pc[o] = "assign"
      BY <1>7, <3>2
    <3> QED
      BY <1>1, <3>1, <3>2
  <2>2. ~Unassigned(i)
    BY <1>1, <1>3, <2>1 DEF Unassigned
  <2>3. pc[pThreads[i]] \in Finished
    BY <1>5, <1>7, <2>1, <2>2 DEF StopInv, HandlesTell
  <2> QED
    BY <1>1, <1>5, <1>7, <2>1, <2>3 DEF Finished
<1>13. UiInPlace'
  <2>1. ui = "delete" => pc'[Here] \in Finished
    <3> SUFFICES ASSUME ui = "delete" PROVE pc'[Here] \in Finished
      OBVIOUS
    <3>1. at \in Pending /\ at <= 2
      BY <1>2 DEF StopInv, UiInPlace, Pending, Stopping, TypeOK
    <3>2. Here # c
      <4>1. RoleOfSlot(at) # "connection"
        BY <3>1 DEF RoleOfSlot, Pending, TypeOK, StopInv, UiInPlace, Stopping
      <4> QED
        BY <1>4, <3>1, <4>1 DEF StopInv, SlotsKept, Here
    <3>3. Here \in Objects /\ pc[Here] \in Finished
      BY <1>5, <3>1 DEF StopInv, UiInPlace, Here
    <3> QED
      BY <1>1, <1>7, <3>2, <3>3 DEF Finished
  <2> QED
    BY <1>1, <1>2, <2>1 DEF StopInv, UiInPlace, Here, Stopping
<1> QED
  BY <1>8, <1>9, <1>10, <1>11, <1>12, <1>13 DEF StopRest

(* The UI thread adds the UDP thread and the listening thread; there is no  *)
(* listening thread yet that could add a connection.                       *)
LEMMA UiAddStopInv ==
  ASSUME TypeOK, StopInv, NEW r \in {"udp", "listen"}, AddHere(r),
         UNCHANGED <<pc, conn>>,
         \/ ui = "off" /\ r = "udp"
         \/ ui = "started" /\ at = 1 /\ r = "listen"
  PROVE  StopRest'
<1>1. PICK o \in Objects : /\ New(o, r)
                           /\ pThreads' = Append(pThreads, o)
                           /\ at' = Len(pThreads) + 1
                           /\ ui' = "create"
  BY DEF AddHere
<1>2. PICK len \in Nat : /\ len = Len(pThreads) /\ len \in {0, 1} /\ r = RoleOfSlot(len + 1)
  <2>1. CASE ui = "off" /\ r = "udp"
    BY <2>1 DEF StopInv, UiInPlace, RoleOfSlot
  <2>2. CASE ui = "started" /\ at = 1 /\ r = "listen"
    <3>1. Len(pThreads) = 1
      BY <2>2 DEF StopInv, UiInPlace
    <3> QED
      BY <2>2, <3>1 DEF RoleOfSlot
  <2> QED
    BY <2>1, <2>2
<1>3. /\ Len(pThreads') = len + 1 /\ pThreads'[len + 1] = o
      /\ \A i \in 1..len : pThreads'[i] = pThreads[i] /\ pThreads[i] \in Objects
  BY <1>1, <1>2 DEF TypeOK
<1>4. /\ Pending = 1..len /\ Pending' = 1..(len + 1)
      /\ len + 1 \in Pending'
      /\ \A i \in Pending' : i = len + 1 \/ i \in Pending
      /\ \A i \in Pending : i \in Pending' /\ i # len + 1
  <2>1. Pending = 1..len /\ Pending' = 1..(len + 1)
    BY <1>1, <1>2, <1>3 DEF Pending, Stopping
  <2> QED
    BY <1>2, <2>1
<1>5. /\ pc[o] \in NotStarted
      /\ \A i \in Pending : pThreads[i] # o
      /\ role'[o] = r /\ ~deleted'[o]
      /\ \A p \in Objects \ {o} : /\ role'[p] = role[p] /\ deleted'[p] = deleted[p]
                                  /\ hThread'[p] = hThread[p]
  BY <1>1, NewObject DEF Roles
<1>6. \A l \in Objects : pc[l] \notin {"loop", "accept"} \cup Adding
  BY <1>2, OneListener
<1>7. RunningIsPending'
  BY <1>3, <1>4, Zenon DEF StopInv, RunningIsPending
<1>8. SlotsKept'
  <2> SUFFICES ASSUME NEW i \in Pending'
               PROVE  /\ role'[pThreads'[i]] = RoleOfSlot(i) /\ ~deleted'[pThreads'[i]]
                      /\ \A j \in Pending' : pThreads'[i] = pThreads'[j] => i = j
    BY DEF SlotsKept
  <2>1. CASE i \in Pending
    <3>1. /\ role[pThreads[i]] = RoleOfSlot(i) /\ ~deleted[pThreads[i]]
          /\ \A j \in Pending : pThreads[i] = pThreads[j] => i = j
      BY <2>1, Zenon DEF StopInv, SlotsKept
    <3>2. /\ pThreads'[i] = pThreads[i] /\ pThreads[i] \in Objects \ {o}
          /\ \A j \in Pending : pThreads'[j] = pThreads[j]
      BY <1>3, <1>4, <1>5, <2>1
    <3> QED
      BY <1>3, <1>4, <1>5, <3>1, <3>2
  <2>2. CASE i = len + 1
    BY <1>2, <1>3, <1>4, <1>5, <2>2
  <2> QED
    BY <1>4, <2>1, <2>2
<1>9. OnlyListenersAdd' /\ AddsOne'
  BY <1>6 DEF OnlyListenersAdd, AddsOne
<1>10. NoRoleNoThread'
  BY <1>1, <1>5 DEF StopInv, NoRoleNoThread
<1>11. HandlesTell'
  <2> SUFFICES ASSUME NEW i \in Pending', hThread'[pThreads'[i]] # "open", ~Unassigned(i)'
               PROVE  pc[pThreads'[i]] \in Finished
    BY DEF HandlesTell
  <2>1. i # len + 1
    BY <1>1, <1>2 DEF Unassigned
  <2>2. /\ i \in Pending /\ pThreads'[i] = pThreads[i] /\ pThreads[i] \in Objects \ {o}
    BY <1>3, <1>4, <1>5, <2>1
  <2>3. ~Unassigned(i)
    BY <1>6 DEF Unassigned, Adding
  <2> QED
    BY <1>5, <2>2, <2>3 DEF StopInv, HandlesTell
<1>12. UiInPlace'
  <2>1. at' \in {1, 2} /\ at' = Len(pThreads') /\ pThreads'[at'] = o
    BY <1>1, <1>2, <1>3
  <2> QED
    BY <1>1, <1>5, <2>1 DEF UiInPlace, Here, Stopping
<1> QED
  BY <1>7, <1>8, <1>9, <1>10, <1>11, <1>12 DEF StopRest

(* The UI thread starts the thread of the slot it has just filled.          *)
LEMMA UiStartsStopInv ==
  ASSUME TypeOK, StopInv, UiCreate \/ UiAssign
  PROVE  StopRest'
<1>1. /\ ui \in {"create", "assign"} /\ ui' \in {"assign", "started"}
      /\ UNCHANGED <<role, deleted, conn, pThreads, at>>
      /\ ui = "create" => ui' = "assign" /\ hThread' = hThread /\ pc' = [pc EXCEPT ![Here] = "starting"]
      /\ ui = "assign" => ui' = "started" /\ pc' = pc /\ hThread' = [hThread EXCEPT ![Here] = "open"]
  BY DEF UiCreate, UiAssign, Goto, objVars, wtVars, netVars
<1>2. at \in {1, 2} /\ at <= Len(pThreads) /\ (at = 1 => Len(pThreads) = 1) /\ Len(pThreads) \in Nat
  BY <1>1 DEF StopInv, UiInPlace, TypeOK
<1>3. /\ Pending' = Pending /\ at \in Pending
      /\ \A i \in Pending : pThreads[i] \in Objects
  BY <1>1, <1>2 DEF Pending, Stopping, TypeOK
<1>4. PICK o \in Objects : o = Here
  BY <1>3 DEF Here
<1>5. /\ role[o] = RoleOfSlot(at) /\ ~deleted[o] /\ RoleOfSlot(at) \in {"udp", "listen"}
      /\ \A i \in Pending : pThreads[i] = o => i = at
  BY <1>2, <1>3, <1>4 DEF StopInv, SlotsKept, RoleOfSlot, Here
<1>6. /\ \A p \in Objects : p # o => pc'[p] = pc[p] /\ hThread'[p] = hThread[p]
      /\ ui = "create" => pc'[o] = "starting" /\ pc[o] \in NotStarted
      /\ ui = "assign" => hThread'[o] = "open" /\ pc'[o] = pc[o]
  BY <1>1, <1>4 DEF TypeOK, StopInv, UiInPlace
<1>8. RunningIsPending'
  BY <1>1, <1>3, <1>4, <1>6, Zenon DEF StopInv, RunningIsPending, Here
<1>9. SlotsKept'
  BY <1>1, <1>3, Zenon DEF StopInv, SlotsKept
<1>10. \A l \in Objects : pc'[l] \in {"loop", "accept"} \cup Adding => pc[l] = pc'[l]
  BY <1>1, <1>6 DEF Adding
<1>11. OnlyListenersAdd' /\ NoRoleNoThread'
  BY <1>1, <1>5, <1>6, <1>10 DEF StopInv, OnlyListenersAdd, NoRoleNoThread
<1>12. AddsOne'
  <2> SUFFICES ASSUME NEW l \in Objects, pc'[l] \in Adding PROVE AddsOne!(l)!2'
    BY DEF AddsOne
  <2>1. pc'[l] = pc[l] /\ AddsOne!(l)!2
    BY <1>10 DEF StopInv, AddsOne
  <2>2. conn[l] # o
    BY <1>5, <2>1
  <2> QED
    BY <1>1, <1>3, <1>6, <2>1, <2>2
<1>13. HandlesTell'
  <2> SUFFICES ASSUME NEW i \in Pending, hThread'[pThreads[i]] # "open", ~Unassigned(i)'
               PROVE  pc'[pThreads[i]] \in Finished
    BY <1>1, <1>3 DEF HandlesTell
  <2>1. i # at
    BY <1>1, <1>4, <1>6 DEF Unassigned, Here
  <2>2. pThreads[i] \in Objects \ {o}
    BY <1>3, <1>5, <2>1
  <2>3. ~Unassigned(i)
    <3> SUFFICES ASSUME NEW l \in Objects, pc[l] \in {"create", "assign"} PROVE pc'[l] = pc[l]
      BY <1>1, <2>1 DEF Unassigned
    <3> QED
      BY <1>1, <1>6 DEF NotStarted
  <2> QED
    BY <1>6, <2>2, <2>3 DEF StopInv, HandlesTell
<1>14. UiInPlace'
  BY <1>1, <1>2 DEF UiInPlace, Stopping
<1> QED
  BY <1>8, <1>9, <1>11, <1>12, <1>13, <1>14 DEF StopRest

(* Steps of the UI thread that leave objects, threads and slots alone.      *)
LEMMA UiMoves ==
  ASSUME TypeOK, StopInv, UNCHANGED <<role, deleted, hThread, pc, conn, pThreads>>,
         Pending' = Pending, {ui, ui'} \cap {"create", "assign"} = {}, UiInPlace'
  PROVE  StopRest'
<1>1. \A i : Unassigned(i)' <=> Unassigned(i)
  BY DEF Unassigned
<1>2. HandlesTell'
  BY <1>1 DEF StopInv, HandlesTell
<1>3. AddsOne'
  BY DEF StopInv, AddsOne
<1> QED
  BY <1>2, <1>3 DEF StopInv, StopRest, RunningIsPending, SlotsKept, OnlyListenersAdd, NoRoleNoThread

(* At the slot that is being stopped the handle was assigned: if it is not  *)
(* open, its thread is finished.                                           *)
LEMMA HandleHere ==
  ASSUME TypeOK, StopInv, ui \in Stopping \ {"next"}
  PROVE  /\ at \in Pending /\ Here \in Objects /\ at \in Nat /\ Len(pThreads) \in Nat
         /\ at \in 1..Len(pThreads)
         /\ hThread[Here] # "open" => pc[Here] \in Finished
         /\ \A l \in Objects : pc[l] \in Adding => conn[l] # Here
<1>1. at \in 1..Len(pThreads) /\ at \in Nat /\ Len(pThreads) \in Nat
  BY DEF StopInv, UiInPlace, TypeOK
<1>2. at \in Pending
  BY <1>1 DEF Pending
<1>3. Here \in Objects
  BY <1>1 DEF Here, TypeOK
<1>4. ASSUME NEW l \in Objects, pc[l] \in Adding PROVE conn[l] # Here
  <2>1. 2 \in Pending
    BY <1>4, OneListener
  <2>2. at <= 2
    BY <1>1, <2>1 DEF Pending
  <2>3. role[Here] # "connection"
    BY <1>1, <1>2, <2>2 DEF StopInv, SlotsKept, RoleOfSlot, Here
  <2> QED
    BY <1>4, <2>3 DEF StopInv, AddsOne
<1>5. ~Unassigned(at)
  <2>1. ui \notin {"create", "assign"}
    BY DEF Stopping
  <2>2. ASSUME NEW l \in Objects, pc[l] \in {"create", "assign"} PROVE at # Len(pThreads)
    BY <1>4, <2>2 DEF StopInv, AddsOne, Adding, Here
  <2> QED
    BY <2>1, <2>2 DEF Unassigned
<1> QED
  BY <1>1, <1>2, <1>3, <1>4, <1>5 DEF StopInv, HandlesTell, Here

LEMMA UiMovesStopInv ==
  ASSUME TypeOK, StopInv,
         \/ UiStarted /\ role[Here] # "udp"
         \/ Stop \/ StopNext \/ UiTerminate \/ StopLooks \/ StopWaited \/ UseArchive
  PROVE  StopRest'
<1>1. UNCHANGED <<role, deleted, hThread, pc, conn, pThreads>>
  BY DEF UiStarted, Stop, StopNext, UiTerminate, StopLooks, StopWaited, UseArchive, objVars, wtVars,
         netVars
<1>2. {ui, ui'} \cap {"create", "assign"} = {}
  BY DEF UiStarted, Stop, StopNext, UiTerminate, StopLooks, StopWaited, UseArchive
<1>3. at \in Nat /\ Len(pThreads) \in Nat
  BY DEF TypeOK
<1>4. Pending' = Pending
  <2>1. CASE UiStarted /\ role[Here] # "udp"
    BY <1>1, <2>1 DEF UiStarted, Pending, Stopping, netVars
  <2>2. CASE Stop
    BY <1>1, <2>2 DEF Stop, Pending, Stopping
  <2>3. CASE StopNext \/ UiTerminate \/ StopLooks \/ StopWaited
    BY <1>1, <2>3 DEF StopNext, UiTerminate, StopLooks, StopWaited, Pending, Stopping
  <2>4. CASE UseArchive
    BY <1>1, <2>4 DEF UseArchive, Pending, Stopping
  <2> QED
    BY <2>1, <2>2, <2>3, <2>4
<1>5. UiInPlace'
  <2>1. CASE UiStarted /\ role[Here] # "udp"
    <3>1. ui = "started" /\ ui' = "run" /\ at \in {1, 2} /\ at <= Len(pThreads)
      BY <2>1 DEF UiStarted, StopInv, UiInPlace
    <3>2. at \in Pending
      BY <1>3, <3>1 DEF Pending, Stopping
    <3>3. at # 1
      BY <2>1, <3>2 DEF StopInv, SlotsKept, RoleOfSlot, Here
    <3> QED
      BY <1>1, <1>3, <3>1, <3>3 DEF UiInPlace, Stopping
  <2>2. CASE Stop
    BY <1>1, <1>3, <2>2 DEF Stop, StopInv, UiInPlace, Stopping
  <2>3. CASE StopNext
    BY <1>1, <1>3, <2>3 DEF StopNext, StopInv, UiInPlace, Stopping
  <2>4. CASE UiTerminate
    BY <1>1, <2>4 DEF UiTerminate, StopInv, UiInPlace, Stopping
  <2>5. CASE StopLooks \/ StopWaited
    <3>1. /\ ui \in {"look", "wait"} /\ ui' \in {"wait", "delete"} /\ at' = at
          /\ ui' = "delete" => hThread[Here] # "open" \/ pc[Here] = "dead"
      BY <2>5 DEF StopLooks, StopWaited
    <3>2. /\ at \in 1..Len(pThreads)
          /\ hThread[Here] # "open" => pc[Here] \in Finished
      BY <3>1, HandleHere DEF Stopping
    <3>3. Here' = Here
      BY <1>1, <3>1 DEF Here
    <3> QED
      BY <1>1, <3>1, <3>2, <3>3 DEF UiInPlace, Stopping, Finished
  <2>6. CASE UseArchive
    BY <1>1, <2>6 DEF UseArchive, StopInv, UiInPlace, Stopping
  <2> QED
    BY <2>1, <2>2, <2>3, <2>4, <2>5, <2>6
<1> QED
  BY <1>1, <1>2, <1>4, <1>5, UiMoves

LEMMA StopKillsStopInv == ASSUME TypeOK, StopInv, StopKills PROVE StopRest'
<1>1. /\ ui = "wait" /\ ui' = "delete" /\ Blocked(Here)
      /\ pc' = [pc EXCEPT ![Here] = "dead"]
      /\ hThread' = [hThread EXCEPT ![Here] = "null"]
      /\ UNCHANGED <<role, deleted, conn, pThreads, at>>
  BY DEF StopKills, Goto, objVars, netVars
<1>2. /\ at \in Pending /\ Here \in Objects /\ at \in 1..Len(pThreads)
      /\ \A l \in Objects : pc[l] \in Adding => conn[l] # Here
  BY <1>1, HandleHere DEF Stopping
<1>3. PICK o \in Objects : o = Here
  BY <1>2
<1>4. pc[o] \in {"message", "read", "accept"} /\ role[o] # "none"
  BY <1>1, <1>2, <1>3 DEF Blocked, StopInv, SlotsKept, RoleOfSlot, Here
<1>5. /\ pc'[o] = "dead"
      /\ \A p \in Objects : p # o => pc'[p] = pc[p] /\ hThread'[p] = hThread[p]
  BY <1>1, <1>3 DEF TypeOK
<1>6. Pending' = Pending /\ \A i \in Pending : pThreads[i] \in Objects
  BY <1>1 DEF Pending, Stopping, TypeOK, StopInv, UiInPlace
<1>7. RunningIsPending'
  BY <1>1, <1>5, <1>6, Zenon DEF StopInv, RunningIsPending, Over
<1>8. SlotsKept'
  BY <1>1, <1>6, Zenon DEF StopInv, SlotsKept
<1>9. OnlyListenersAdd' /\ NoRoleNoThread'
  BY <1>1, <1>4, <1>5 DEF StopInv, OnlyListenersAdd, NoRoleNoThread, Adding
<1>10. AddsOne'
  <2> SUFFICES ASSUME NEW l \in Objects, pc'[l] \in Adding PROVE AddsOne!(l)!2'
    BY DEF AddsOne
  <2>1. pc'[l] = pc[l] /\ AddsOne!(l)!2 /\ conn[l] # o
    BY <1>2, <1>3, <1>5 DEF StopInv, AddsOne, Adding
  <2> QED
    BY <1>1, <1>5, <1>6, <2>1
<1>11. HandlesTell'
  <2> SUFFICES ASSUME NEW i \in Pending, hThread'[pThreads[i]] # "open", ~Unassigned(i)'
               PROVE  pc'[pThreads[i]] \in Finished
    BY <1>1, <1>6 DEF HandlesTell
  <2>1. CASE pThreads[i] = o
    BY <1>5, <2>1 DEF Finished
  <2>2. CASE pThreads[i] # o
    <3>1. ~Unassigned(i)
      BY <1>1, <1>4, <1>5 DEF Unassigned
    <3> QED
      BY <1>5, <1>6, <2>2, <3>1 DEF StopInv, HandlesTell
  <2> QED
    BY <2>1, <2>2
<1>12. UiInPlace'
  <2>1. Here' = Here
    BY <1>1 DEF Here
  <2> QED
    BY <1>1, <1>2, <1>3, <1>5, <2>1 DEF UiInPlace, Stopping, Finished
<1> QED
  BY <1>7, <1>8, <1>9, <1>10, <1>11, <1>12 DEF StopRest

LEMMA DeleteStopInv == ASSUME TypeOK, StopInv, Delete PROVE StopRest'
<1>1. /\ ui = "delete" /\ ui' = "next" /\ at' = at + 1
      /\ deleted' = [deleted EXCEPT ![Here] = TRUE]
      /\ UNCHANGED <<role, hThread, conn, pc, pThreads>>
  BY DEF Delete, wtVars, netVars
<1>2. /\ at \in Pending /\ Here \in Objects /\ at \in 1..Len(pThreads)
      /\ at \in Nat /\ Len(pThreads) \in Nat
      /\ \A l \in Objects : pc[l] \in Adding => conn[l] # Here
  BY <1>1, HandleHere DEF Stopping
<1>3. PICK o \in Objects : o = Here
  BY <1>2
<1>4. pc[o] \in Finished
  BY <1>1, <1>3 DEF StopInv, UiInPlace
<1>5. /\ \A i \in Pending' : i \in Pending /\ i # at
      /\ \A i \in Pending : i = at \/ i \in Pending'
      /\ \A i \in Pending : pThreads[i] \in Objects
  BY <1>1, <1>2 DEF Pending, Stopping, TypeOK
<1>6. \A i \in Pending' : pThreads[i] # o
  BY <1>2, <1>3, <1>5 DEF StopInv, SlotsKept, Here
<1>7. \A p \in Objects : p # o => deleted'[p] = deleted[p]
  BY <1>1, <1>3 DEF TypeOK
<1>8. RunningIsPending'
  <2> SUFFICES ASSUME NEW p \in Objects, pc[p] \notin Over
               PROVE  \E i \in Pending' : pThreads[i] = p
    BY <1>1 DEF RunningIsPending
  <2>1. PICK i \in Pending : pThreads[i] = p
    BY DEF StopInv, RunningIsPending
  <2>2. p # o
    BY <1>4 DEF Finished, Over
  <2>3. i # at
    BY <1>3, <2>1, <2>2 DEF Here
  <2> QED
    BY <1>5, <2>1, <2>3
<1>9. SlotsKept'
  BY <1>1, <1>5, <1>6, <1>7, Zenon DEF StopInv, SlotsKept
<1>10. OnlyListenersAdd' /\ NoRoleNoThread'
  BY <1>1 DEF StopInv, OnlyListenersAdd, NoRoleNoThread
<1>11. AddsOne'
  <2> SUFFICES ASSUME NEW l \in Objects, pc[l] \in Adding PROVE AddsOne!(l)!2'
    BY <1>1 DEF AddsOne
  <2>1. AddsOne!(l)!2 /\ conn[l] # o
    BY <1>2, <1>3 DEF StopInv, AddsOne
  <2> QED
    BY <1>1, <1>5, <1>7, <2>1
<1>12. HandlesTell'
  <2> SUFFICES ASSUME NEW i \in Pending', hThread[pThreads[i]] # "open", ~Unassigned(i)'
               PROVE  pc[pThreads[i]] \in Finished
    BY <1>1 DEF HandlesTell
  <2>1. ~Unassigned(i)
    BY <1>1 DEF Unassigned
  <2> QED
    BY <1>5, <2>1 DEF StopInv, HandlesTell
<1>13. UiInPlace'
  BY <1>1, <1>2 DEF UiInPlace, Stopping
<1> QED
  BY <1>8, <1>9, <1>10, <1>11, <1>12, <1>13 DEF StopRest

LEMMA AllStoppedStopInv == ASSUME TypeOK, StopInv, AllStopped PROVE StopRest'
<1>1. /\ ui = "next" /\ at > Len(pThreads) /\ ui' = "archive" /\ pThreads' = << >>
      /\ UNCHANGED <<role, deleted, hThread, pc, conn>>
  BY DEF AllStopped, objVars, wtVars
<1>2. Pending = {} /\ Pending' = {}
  BY <1>1 DEF Pending, Stopping, TypeOK
<1>3. \A o \in Objects : pc[o] \in Over
  BY <1>2 DEF StopInv, RunningIsPending
<1> QED
  BY <1>1, <1>2, <1>3
  DEF StopRest, RunningIsPending, SlotsKept, OnlyListenersAdd, AddsOne, HandlesTell, UiInPlace,
      NoRoleNoThread, StopInv, Over, Adding, Stopping

LEMMA NobodyIsNone == Nobody \notin Objects
<1>1. \A n : 0 \notin 1..n
  OBVIOUS
<1> QED
  BY <1>1, ConstantsAssumption, Zenon DEF Nobody

(* The lock is held by the thread that appends, which nobody ends.          *)
LEMMA LockStep ==
  ASSUME TypeOK, StopInv, [Next]_vars
  PROVE  LockHeld'
<1>0. /\ pc \in [Objects -> PCs] /\ Nobody \notin Objects
      /\ \A o \in Objects : pc[o] = "append" <=> lockOwner = o
  BY NobodyIsNone DEF TypeOK, StopInv, LockHeld
<1>1. ASSUME NEW o \in Objects, Lock(o) PROVE LockHeld'
  BY <1>0, <1>1 DEF Lock, Goto, LockHeld
<1>2. ASSUME NEW o \in Objects, Unlock(o) PROVE LockHeld'
  BY <1>0, <1>2 DEF Unlock, Goto, LockHeld
<1>3. ASSUME lockOwner' = lockOwner,
             \A p \in Objects : pc'[p] = pc[p] \/ (pc[p] # "append" /\ pc'[p] # "append")
      PROVE  LockHeld'
  BY <1>0, <1>3 DEF LockHeld
<1>4. ASSUME NEW o \in Objects, LocalAction(o), ~Lock(o), ~Unlock(o) PROVE LockHeld'
  <2>1. CASE Begin(o)
    BY <1>0, <1>3, <2>1 DEF Begin, Goto
  <2>2. CASE CloseOwnHandle(o) \/ ForgetOwnHandle(o) \/ Leave(o)
    BY <1>0, <1>3, <2>2 DEF CloseOwnHandle, ForgetOwnHandle, Leave, Goto
  <2>3. CASE ReadData(o) \/ ReadFails(o) \/ ReadClosed(o) \/ Ended(o) \/ CloseMessage(o)
    BY <1>0, <1>3, <2>3 DEF ReadData, ReadFails, ReadClosed, Ended, CloseMessage, Goto
  <2>4. CASE Loop(o) \/ AcceptFails(o) \/ ConnectionStarted(o)
    BY <1>0, <1>3, <2>4 DEF Loop, AcceptFails, ConnectionStarted, Goto
  <2> QED
    BY <1>4, <2>1, <2>2, <2>3, <2>4 DEF LocalAction
<1>5. ASSUME NEW o \in Objects, Accept(o) \/ AddChecks(o) \/ AddPuts(o) \/ AssignConnection(o)
      PROVE  LockHeld'
  BY <1>0, <1>3, <1>5 DEF Accept, AddChecks, AddPuts, AssignConnection, Goto
<1>6. ASSUME NEW o \in Objects, CreateConnection(o) PROVE LockHeld'
  <2>1. conn[o] \in Objects /\ pc[conn[o]] \in NotStarted /\ pc[o] = "create"
    BY <1>6 DEF CreateConnection, StopInv, AddsOne, Adding
  <2> QED
    BY <1>0, <1>3, <1>6, <2>1 DEF CreateConnection, NotStarted
<1>7. CASE Ui
  <2>1. CASE UiCreate
    <3>1. ui = "create" /\ pc[Here] \in NotStarted /\ pc' = [pc EXCEPT ![Here] = "starting"]
          /\ lockOwner' = lockOwner
      BY <2>1 DEF UiCreate, Goto, StopInv, UiInPlace
    <3> QED
      BY <1>0, <1>3, <3>1 DEF NotStarted
  <2>2. CASE StopKills
    BY <1>0, <1>3, <2>2 DEF StopKills, Goto, Blocked
  <2>3. CASE ~UiCreate /\ ~StopKills
    <3>1. pc' = pc /\ lockOwner' = lockOwner
      BY <1>7, <2>3
      DEF Ui, StopStep, Start, UiAssign, UiStarted, Stop, StopNext, AllStopped, UiTerminate,
          StopLooks, StopWaited, Delete, UseArchive
    <3> QED
      BY <1>3, <3>1
  <2> QED
    BY <2>1, <2>2, <2>3
<1>8. CASE UNCHANGED vars
  BY <1>3, <1>8 DEF vars
<1> QED
  BY <1>1, <1>2, <1>4, <1>5, <1>6, <1>7, <1>8 DEF Next, Outside, Thread, LocalAction

LEMMA StepRest ==
  ASSUME TypeOK, StopInv, [Next]_vars
  PROVE  StopRest'
<1>1. ASSUME NEW o \in Objects, LocalAction(o) PROVE StopRest'
  <2>1. PICK there : LocalStep(o, there)
    BY <1>1, LocalSteps DEF StopInv
  <2> QED
    BY <2>1, LocalStopInv
<1>2. ASSUME NEW o \in Objects,
             \/ Accept(o) \/ AddChecks(o) \/ AddPuts(o)
             \/ CreateConnection(o) \/ AssignConnection(o)
      PROVE  StopRest'
  BY <1>2, AcceptStopInv, AddChecksStopInv, AddPutsStopInv, ConnectStopInv
<1>3. CASE Ui
  <2>1. CASE Start
    BY <2>1, UiAddStopInv DEF Start
  <2>2. CASE UiStarted /\ role[Here] = "udp"
    <3>1. ui = "started" /\ at \in {1, 2} /\ at <= Len(pThreads) /\ Len(pThreads) \in Nat
      BY <2>2 DEF UiStarted, StopInv, UiInPlace, TypeOK
    <3>2. at \in Pending
      BY <3>1 DEF Pending, Stopping
    <3>3. at = 1
      BY <2>2, <3>1, <3>2 DEF StopInv, SlotsKept, RoleOfSlot, Here
    <3>4. AddHere("listen") /\ UNCHANGED <<pc, conn>>
      BY <2>2 DEF UiStarted
    <3> QED
      BY <3>1, <3>3, <3>4, UiAddStopInv
  <2>3. CASE UiStarted /\ role[Here] # "udp"
    BY <2>3, UiMovesStopInv
  <2>4. CASE UiCreate \/ UiAssign
    BY <2>4, UiStartsStopInv
  <2>5. CASE Stop \/ StopStep
    BY <2>5, UiMovesStopInv, AllStoppedStopInv, StopKillsStopInv, DeleteStopInv DEF StopStep
  <2> QED
    BY <1>3, <2>1, <2>2, <2>3, <2>4, <2>5 DEF Ui
<1>4. CASE UNCHANGED vars
  BY <1>4
  DEF vars, objVars, wtVars, netVars, uiVars, StopInv, StopRest, RunningIsPending, SlotsKept,
      OnlyListenersAdd, AddsOne, HandlesTell, Unassigned, UiInPlace, NoRoleNoThread, Pending, Here
<1> QED
  BY <1>1, <1>2, <1>3, <1>4 DEF Next, Outside, Thread, LocalAction

LEMMA TypeStep ==
  ASSUME TypeOK, StopInv, [Next]_vars
  PROVE  TypeOK'
<1>1. ASSUME NEW o \in Objects, LocalAction(o) PROVE TypeOK'
  <2>1. PICK there : LocalStep(o, there)
    BY <1>1, LocalSteps DEF StopInv
  <2>2. /\ pc' \in [Objects -> PCs]
        /\ UNCHANGED <<role, deleted, conn, working, pThreads, ui, at, starts>>
    BY <2>1 DEF LocalStep, TypeOK, objVars, netVars, uiVars
  <2>3. /\ bWorking' \in [Objects -> BOOLEAN]
        /\ hThread' \in [Objects -> {"null", "open", "closed"}]
        /\ socket' \in [Objects -> {"open", "closed"}]
        /\ lockOwner' \in Objects \cup {Nobody}
    <3>1. CASE Begin(o) \/ Leave(o)
      BY <3>1 DEF Begin, Leave, TypeOK
    <3>2. CASE CloseOwnHandle(o) \/ ForgetOwnHandle(o)
      BY <3>2 DEF CloseOwnHandle, ForgetOwnHandle, TypeOK
    <3>3. CASE Lock(o) \/ Unlock(o)
      BY <3>3 DEF Lock, Unlock, quiet, wtVars, TypeOK
    <3>4. CASE \/ ReadData(o) \/ ReadFails(o) \/ ReadClosed(o) \/ Ended(o) \/ CloseMessage(o)
               \/ Loop(o) \/ AcceptFails(o) \/ ConnectionStarted(o)
      BY <3>4
      DEF ReadData, ReadFails, ReadClosed, Ended, CloseMessage, Loop, AcceptFails,
          ConnectionStarted, quiet, wtVars, TypeOK
    <3> QED
      BY <1>1, <3>1, <3>2, <3>3, <3>4 DEF LocalAction
  <2> QED
    BY <2>2, <2>3 DEF TypeOK
<1>2. ASSUME NEW o \in Objects, Accept(o) PROVE TypeOK'
  <2>1. PICK c \in Objects : New(c, "connection") /\ conn' = [conn EXCEPT ![o] = c]
    BY <1>2 DEF Accept
  <2>2. /\ pc' = [pc EXCEPT ![o] = "add"]
        /\ UNCHANGED <<lockOwner, working, pThreads, ui, at, starts>>
    BY <1>2 DEF Accept, Goto, netVars, uiVars
  <2>3. pc' \in [Objects -> PCs] /\ conn' \in [Objects -> Objects \cup {Nobody}]
    BY <2>1, <2>2 DEF TypeOK, PCs
  <2> QED
    BY <2>1, <2>2, <2>3, NewObject DEF TypeOK, Roles
<1>3. ASSUME NEW o \in Objects,
             AddChecks(o) \/ AddPuts(o) \/ CreateConnection(o) \/ AssignConnection(o)
      PROVE  TypeOK'
  <2>0. conn[o] \in Objects /\ (pc[o] = "put" => Len(pThreads) < Slots)
    BY <1>3 DEF AddChecks, AddPuts, CreateConnection, AssignConnection, StopInv, AddsOne, Adding
  <2>1. CASE AddChecks(o)
    BY <2>0, <2>1 DEF AddChecks, Goto, wtVars, netVars, uiVars, TypeOK, PCs
  <2>2. CASE AddPuts(o)
    <3>1. /\ pc[o] = "put" /\ pThreads' = Append(pThreads, conn[o])
          /\ pc' = [pc EXCEPT ![o] = "create"]
          /\ UNCHANGED <<objVars, wtVars, conn, lockOwner, working, uiVars>>
      BY <2>2 DEF AddPuts, Goto
    <3>2. pThreads \in Seq(Objects) /\ Slots \in Nat
      BY ConstantsAssumption DEF TypeOK
    <3>3. pThreads' \in Seq(Objects) /\ Len(pThreads') <= Slots
      BY <2>0, <3>1, <3>2
    <3> QED
      BY <3>1, <3>3 DEF objVars, wtVars, uiVars, TypeOK, PCs
  <2>3. CASE CreateConnection(o)
    BY <2>0, <2>3 DEF CreateConnection, quiet, objVars, wtVars, netVars, uiVars, TypeOK, PCs
  <2>4. CASE AssignConnection(o)
    BY <2>0, <2>4 DEF AssignConnection, Goto, objVars, netVars, uiVars, TypeOK, PCs
  <2> QED
    BY <1>3, <2>1, <2>2, <2>3, <2>4
<1>4. ASSUME NEW r \in {"udp", "listen"}, AddHere(r), Len(pThreads) < 2,
             UNCHANGED <<pc, conn, lockOwner>>, working' \in BOOLEAN, starts' \in 0..MaxStarts
      PROVE  TypeOK'
  <2>1. PICK o \in Objects : /\ New(o, r) /\ pThreads' = Append(pThreads, o)
                             /\ at' = Len(pThreads) + 1 /\ ui' = "create"
    BY <1>4 DEF AddHere
  <2>2. pThreads \in Seq(Objects) /\ Len(pThreads) \in Nat /\ Slots \in Nat /\ Slots >= 2
    BY ConstantsAssumption DEF TypeOK
  <2>3. pThreads' \in Seq(Objects) /\ Len(pThreads') <= Slots /\ at' \in Nat
    BY <1>4, <2>1, <2>2
  <2> QED
    BY <1>4, <2>1, <2>3, NewObject DEF TypeOK, Roles, UiPCs
<1>5. CASE Start
  <2>1. Len(pThreads) < 2 /\ starts + 1 \in 0..MaxStarts
    BY <1>5, ConstantsAssumption DEF Start, StopInv, UiInPlace, TypeOK
  <2> QED
    BY <1>4, <1>5, <2>1 DEF Start
<1>6. CASE UiStarted
  <2>1. CASE role[Here] = "udp"
    <3>1. ui = "started" /\ at \in {1, 2} /\ at <= Len(pThreads) /\ Len(pThreads) \in Nat
          /\ (at = 1 => Len(pThreads) = 1)
      BY <1>6 DEF UiStarted, StopInv, UiInPlace, TypeOK
    <3>2. at \in Pending
      BY <3>1 DEF Pending, Stopping
    <3>3. Len(pThreads) = 1
      BY <2>1, <3>1, <3>2 DEF StopInv, SlotsKept, RoleOfSlot, Here
    <3> QED
      BY <1>4, <1>6, <2>1, <3>3 DEF UiStarted, TypeOK
  <2>2. CASE role[Here] # "udp"
    BY <1>6, <2>2 DEF UiStarted, objVars, wtVars, netVars, TypeOK, UiPCs
  <2> QED
    BY <2>1, <2>2
<1>7. CASE UiCreate \/ UiAssign
  <2>1. CASE UiCreate
    BY <2>1 DEF UiCreate, Goto, objVars, wtVars, netVars, TypeOK, PCs, UiPCs
  <2>2. CASE UiAssign
    BY <2>2 DEF UiAssign, objVars, netVars, TypeOK, UiPCs
  <2> QED
    BY <1>7, <2>1, <2>2
<1>8. CASE Stop \/ AllStopped \/ StopLooks \/ StopWaited \/ UseArchive
  <2>1. CASE AllStopped
    <3>1. pThreads' \in Seq(Objects) /\ Len(pThreads') <= Slots
      BY <2>1, ConstantsAssumption DEF AllStopped
    <3>2. /\ UNCHANGED <<role, deleted, bWorking, hThread, socket, pc, conn, lockOwner, working, at, starts>>
          /\ ui' \in UiPCs
      BY <2>1 DEF AllStopped, objVars, wtVars, UiPCs
    <3> QED
      BY <3>1, <3>2, Zenon DEF TypeOK
  <2>2. CASE Stop \/ StopLooks \/ StopWaited \/ UseArchive
    <3>1. UNCHANGED <<objVars, wtVars, pc, conn, lockOwner, pThreads, starts>>
      BY <2>2 DEF Stop, StopLooks, StopWaited, UseArchive, netVars
    <3>2. ui' \in UiPCs /\ at' \in {1, at} /\ working' \in {FALSE, working}
      BY <2>2 DEF Stop, StopLooks, StopWaited, UseArchive, netVars, UiPCs
    <3>3. at' \in Nat
      BY <3>2 DEF TypeOK
    <3>4. working' \in BOOLEAN
      BY <3>2, Zenon DEF TypeOK
    <3> QED
      BY <3>1, <3>2, <3>3, <3>4, Zenon DEF objVars, wtVars, TypeOK
  <2> QED
    BY <1>8, <2>1, <2>2
<1>9. CASE StopNext \/ UiTerminate \/ StopKills \/ Delete
  <2>1. CASE StopNext
    BY <2>1 DEF StopNext, objVars, netVars, TypeOK, UiPCs
  <2>2. CASE UiTerminate
    BY <2>2 DEF UiTerminate, objVars, netVars, TypeOK, UiPCs
  <2>3. CASE StopKills
    BY <2>3 DEF StopKills, Goto, objVars, netVars, TypeOK, PCs, Over, UiPCs
  <2>4. CASE Delete
    <3>1. /\ UNCHANGED <<role, bWorking, hThread, socket, pc, conn, lockOwner, working, pThreads, starts>>
          /\ deleted' = [deleted EXCEPT ![Here] = TRUE] /\ at' = at + 1 /\ ui' \in UiPCs
      BY <2>4 DEF Delete, wtVars, netVars, UiPCs
    <3>2. deleted' \in [Objects -> BOOLEAN]
      BY <3>1 DEF TypeOK
    <3>3. at' \in Nat
      BY <3>1 DEF TypeOK
    <3> QED
      BY <3>1, <3>2, <3>3, Zenon DEF TypeOK
  <2> QED
    BY <1>9, <2>1, <2>2, <2>3, <2>4
<1>10. CASE UNCHANGED vars
  BY <1>10 DEF vars, objVars, wtVars, netVars, uiVars, TypeOK
<1> QED
  BY <1>1, <1>2, <1>3, <1>5, <1>6, <1>7, <1>8, <1>9, <1>10
  DEF Next, Outside, Thread, LocalAction, Ui, StopStep

LEMMA InitStopInv == Init => TypeOK /\ StopInv
<1> SUFFICES ASSUME Init PROVE TypeOK /\ StopInv
  OBVIOUS
<1>1. TypeOK
  <2>1. pThreads \in Seq(Objects) /\ Len(pThreads) <= Slots /\ starts \in 0..MaxStarts
    BY ConstantsAssumption DEF Init
  <2> QED
    BY <2>1 DEF Init, TypeOK, Roles, PCs, Over, UiPCs
<1>2. Pending = {}
  <2>1. Len(pThreads) = 0 /\ ui \notin Stopping
    BY DEF Init, Stopping
  <2> QED
    BY <2>1 DEF Pending
<1>3. Nobody \notin Objects
  BY NobodyIsNone
<1> QED
  BY <1>1, <1>2, <1>3
  DEF Init, StopInv, RunningIsPending, SlotsKept, OnlyListenersAdd, AddsOne, HandlesTell, UiInPlace,
      NoRoleNoThread, LockHeld, Over, Adding, Stopping

LEMMA StopInvAlways == Spec => [](TypeOK /\ StopInv)
<1>1. Init => TypeOK /\ StopInv
  BY InitStopInv
<1>2. TypeOK /\ StopInv /\ [Next]_vars => TypeOK' /\ StopInv'
  BY TypeStep, StepRest, LockStep DEF StopInv, StopRest
<1> QED
  BY <1>1, <1>2, PTL DEF Spec

(* While the UI thread clears or pauses the archive without the lock, no    *)
(* receiver thread is in Work and nobody holds the lock: stop() waits for   *)
(* or kills every thread of pThreads, and when it comes to the connections  *)
(* the thread that could still add one is over.                            *)
THEOREM ArchiveIsQuiet == Spec => []QuietArchive
<1>1. ASSUME TypeOK, StopInv PROVE QuietArchive
  <2> SUFFICES ASSUME ui \in {"archive", "off"}
               PROVE  (\A o \in Objects : pc[o] \in Over) /\ lockOwner = Nobody
    BY DEF QuietArchive
  <2>1. Pending = {}
    <3>1. Len(pThreads) = 0 /\ ui \notin Stopping
      BY <1>1 DEF StopInv, UiInPlace, Stopping
    <3> QED
      BY <3>1 DEF Pending
  <2>2. \A o \in Objects : pc[o] \in Over
    BY <1>1, <2>1 DEF StopInv, RunningIsPending
  <2>3. \A o \in Objects : lockOwner # o
    BY <1>1, <2>2 DEF StopInv, LockHeld, Over
  <2> QED
    BY <1>1, <2>2, <2>3 DEF TypeOK
<1> QED
  BY <1>1, StopInvAlways, PTL

(* No object is deleted under a thread that is still in Work: stop() looks  *)
(* at the handle after it was assigned, so a handle that is not open is     *)
(* that of a thread past Work, and add() deletes only what it never         *)
(* started.                                                                *)
THEOREM DeletedIsOver == Spec => []DeletedWhenOver
<1>1. StopInv => DeletedWhenOver
  BY DEF StopInv, RunningIsPending, SlotsKept, DeletedWhenOver
<1> QED
  BY <1>1, StopInvAlways, PTL
=============================================================================
