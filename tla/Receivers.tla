------------------------------ MODULE Receivers -----------------------------
(***************************************************************************)
(* The receiver threads and their stopping: WorkerThread (StartWork,       *)
(* StopWork, ThreadFunk, Cleanup), LogReceiverNet (start, stop, add), the  *)
(* loops of UdpThread, RawTcpListenThread and RawTcpReceiveThread, and the *)
(* lock of LogReceiver.                                                    *)
(*                                                                         *)
(* The UI thread starts a UDP thread and a listening thread; the listening *)
(* thread adds a thread for every connection to the same array, without a  *)
(* lock.  To clear or pause the log the UI thread stops all of them and    *)
(* then changes the archive without taking the lock of the receivers.      *)
(***************************************************************************)
EXTENDS Naturals, Sequences, FiniteSets

CONSTANTS
  Objects,    \* NetThread objects that exist at a time: 1..n
  Slots,      \* room in pThreads, 32 in the code
  MaxStarts   \* times logging is started (bounds the model)

ASSUME ConstantsAssumption ==
  /\ IsFiniteSet(Objects) /\ Objects = 1..Cardinality(Objects) /\ 2 \in Objects
  /\ Slots \in Nat /\ Slots >= 2
  /\ MaxStarts \in Nat

VARIABLES
  role,       \* which subclass of NetThread an object is
  deleted,    \* the object was deleted
  bWorking,   \* WorkerThread::m_bWorking
  hThread,    \* WorkerThread::m_hThread: "null", "open" or already "closed"
  socket,     \* NetThread::s: "open" or "closed"
  pc,         \* where the thread of the object is
  conn,       \* the object a listening thread is adding
  lockOwner,  \* who is in the critical section of LogReceiver
  working,    \* LogReceiver::m_working
  pThreads,   \* LogReceiverNet::pThreads, cThreads long
  ui,         \* where the UI thread is
  at,         \* the slot it is starting or stopping
  starts      \* times started so far

objVars  == <<role, deleted>>
wtVars   == <<bWorking, hThread, socket>>
netVars  == <<working, pThreads>>
uiVars   == <<ui, at, starts>>
vars     == <<objVars, wtVars, pc, conn, lockOwner, netVars, uiVars>>

Nobody == 0
Roles  == {"none", "udp", "listen", "connection"}

(* A thread that is one of these is not in Work any more.                   *)
Over == {"none", "exit", "dead"}

PCs == Over \cup
  {"starting", "read", "lock", "append", "ended", "message", "leave", "cleanup",
   "loop", "accept", "add", "put", "create", "assign", "started"}
UiPCs == {"off", "create", "assign", "started", "run",
          "next", "terminate", "look", "wait", "delete", "archive"}

TypeOK ==
  /\ role \in [Objects -> Roles]
  /\ deleted \in [Objects -> BOOLEAN]
  /\ bWorking \in [Objects -> BOOLEAN]
  /\ hThread \in [Objects -> {"null", "open", "closed"}]
  /\ socket \in [Objects -> {"open", "closed"}]
  /\ pc \in [Objects -> PCs]
  /\ conn \in [Objects -> Objects \cup {Nobody}]
  /\ lockOwner \in Objects \cup {Nobody}
  /\ working \in BOOLEAN
  /\ pThreads \in Seq(Objects) /\ Len(pThreads) <= Slots
  /\ ui \in UiPCs
  /\ at \in Nat
  /\ starts \in 0..MaxStarts

Init ==
  /\ role = [o \in Objects |-> "none"]
  /\ deleted = [o \in Objects |-> FALSE]
  /\ bWorking = [o \in Objects |-> FALSE]
  /\ hThread = [o \in Objects |-> "null"]
  /\ socket = [o \in Objects |-> "closed"]
  /\ pc = [o \in Objects |-> "none"]
  /\ conn = [o \in Objects |-> Nobody]
  /\ lockOwner = Nobody
  /\ working = FALSE /\ pThreads = << >>
  /\ ui = "off" /\ at = 0 /\ starts = 0

-----------------------------------------------------------------------------
(* Objects and their threads.                                              *)

Free == {o \in Objects : role[o] = "none" \/ (deleted[o] /\ pc[o] \in {"none", "dead"})}

(* new: the socket was opened by the constructor, or could not be.          *)
New(o, r) ==
  /\ o \in Free /\ \A p \in Free : o <= p
  /\ role' = [role EXCEPT ![o] = r]
  /\ deleted' = [deleted EXCEPT ![o] = FALSE]
  /\ bWorking' = [bWorking EXCEPT ![o] = FALSE]
  /\ hThread' = [hThread EXCEPT ![o] = "null"]
  /\ \E s \in IF r = "connection" THEN {"open"} ELSE {"open", "closed"} :
       socket' = [socket EXCEPT ![o] = s]

Goto(o, there) == pc' = [pc EXCEPT ![o] = there]

(* Some definitions below have a variant named Wrong_..., with a mistake     *)
(* that would be easy to make in the code; it shows which property notices  *)
(* that mistake.                                                           *)

(* ThreadFunk.                                                              *)
Begin(o) ==
  /\ pc[o] = "starting"
  /\ bWorking' = [bWorking EXCEPT ![o] = TRUE]
  /\ Goto(o, IF role[o] # "listen" THEN "read"
             ELSE IF socket[o] = "open" THEN "loop" ELSE "cleanup")
  /\ UNCHANGED <<objVars, hThread, socket, conn, lockOwner, netVars, uiVars>>

(* Cleanup, which the thread calls at its very end: after CloseHandle it    *)
(* still writes m_hThread.                                                 *)
CloseOwnHandle(o) ==
  /\ pc[o] = "cleanup"
  /\ bWorking' = [bWorking EXCEPT ![o] = FALSE]
  /\ hThread' = [hThread EXCEPT ![o] = IF @ = "open" THEN "closed" ELSE @]
  /\ Goto(o, "exit")
  /\ UNCHANGED <<objVars, socket, conn, lockOwner, netVars, uiVars>>

ForgetOwnHandle(o) ==
  /\ pc[o] = "exit"
  /\ hThread' = IF deleted[o] THEN hThread ELSE [hThread EXCEPT ![o] = "null"]
  /\ Goto(o, "dead")
  /\ UNCHANGED <<objVars, bWorking, socket, conn, lockOwner, netVars, uiVars>>

(* Terminate, when the thread itself calls it.                              *)
Leave(o) ==
  /\ pc[o] = "leave"
  /\ socket' = [socket EXCEPT ![o] = "closed"]
  /\ Goto(o, "cleanup")
  /\ UNCHANGED <<objVars, bWorking, hThread, conn, lockOwner, netVars, uiVars>>

-----------------------------------------------------------------------------
(* UdpThread and RawTcpReceiveThread.                                      *)
quiet == <<objVars, wtVars, conn, netVars, uiVars>>

ReadData(o) ==
  /\ pc[o] = "read" /\ socket[o] = "open"
  /\ Goto(o, "lock")
  /\ UNCHANGED <<quiet, lockOwner>>

(* The other side closes the connection, or the socket fails.               *)
ReadFails(o) ==
  /\ pc[o] = "read" /\ socket[o] = "open"
  /\ Goto(o, "ended")
  /\ UNCHANGED <<quiet, lockOwner>>

ReadClosed(o) ==
  /\ pc[o] = "read" /\ socket[o] = "closed"
  /\ Goto(o, "ended")
  /\ UNCHANGED <<quiet, lockOwner>>

Lock(o) ==
  /\ pc[o] = "lock" /\ lockOwner = Nobody
  /\ lockOwner' = o
  /\ Goto(o, "append")
  /\ UNCHANGED quiet

(* Records are appended and the lock is given back; a pack that could not   *)
(* be recorded ends the UDP thread.                                        *)
Wrong_Unlock(o) ==   \* the error path forgets the lock
  /\ pc[o] = "append"
  /\ \/ Goto(o, "read") /\ lockOwner' = Nobody
     \/ role[o] = "udp" /\ Goto(o, "ended") /\ UNCHANGED lockOwner
  /\ UNCHANGED quiet
Unlock(o) ==
  /\ pc[o] = "append"
  /\ lockOwner' = Nobody
  /\ \/ Goto(o, "read")
     \/ role[o] = "udp" /\ Goto(o, "ended")
  /\ UNCHANGED quiet

Ended(o) ==
  /\ pc[o] = "ended"
  /\ Goto(o, IF role[o] = "udp" /\ bWorking[o] THEN "message" ELSE "leave")
  /\ UNCHANGED <<quiet, lockOwner>>

(* The user closes the message box.                                         *)
CloseMessage(o) ==
  /\ pc[o] = "message"
  /\ Goto(o, "leave")
  /\ UNCHANGED <<quiet, lockOwner>>

-----------------------------------------------------------------------------
(* RawTcpListenThread, and LogReceiverNet::add as it calls it.             *)

Loop(o) ==
  /\ pc[o] = "loop"
  /\ Goto(o, IF working THEN "accept" ELSE "cleanup")
  /\ UNCHANGED <<quiet, lockOwner>>

Accept(o) ==
  /\ pc[o] = "accept" /\ socket[o] = "open"
  /\ \E c \in Objects : New(c, "connection") /\ conn' = [conn EXCEPT ![o] = c]
  /\ Goto(o, "add")
  /\ UNCHANGED <<lockOwner, netVars, uiVars>>

AcceptFails(o) ==
  /\ pc[o] = "accept" /\ socket[o] = "closed"
  /\ Goto(o, IF working THEN "message" ELSE "leave")
  /\ UNCHANGED <<quiet, lockOwner>>

HasSlot == working /\ Len(pThreads) < Slots

AddChecks(o) ==
  /\ pc[o] = "add"
  /\ Goto(o, IF HasSlot THEN "put" ELSE "loop")
  /\ deleted' = IF HasSlot THEN deleted ELSE [deleted EXCEPT ![conn[o]] = TRUE]
  /\ UNCHANGED <<role, wtVars, conn, lockOwner, netVars, uiVars>>

AddPuts(o) ==
  /\ pc[o] = "put"
  /\ pThreads' = Append(pThreads, conn[o])
  /\ Goto(o, "create")
  /\ UNCHANGED <<objVars, wtVars, conn, lockOwner, working, uiVars>>

(* StartWork: the new thread may run before its handle is assigned.         *)
CreateConnection(o) ==
  /\ pc[o] = "create"
  /\ pc' = [pc EXCEPT ![o] = "assign", ![conn[o]] = "starting"]
  /\ UNCHANGED <<quiet, lockOwner>>

AssignConnection(o) ==
  /\ pc[o] = "assign"
  /\ hThread' = [hThread EXCEPT ![conn[o]] = "open"]
  /\ Goto(o, "started")
  /\ UNCHANGED <<objVars, bWorking, socket, conn, lockOwner, netVars, uiVars>>

ConnectionStarted(o) ==
  /\ pc[o] = "started" /\ pc[conn[o]] # "starting"
  /\ Goto(o, "loop")
  /\ UNCHANGED <<quiet, lockOwner>>

-----------------------------------------------------------------------------
(* The UI thread: LogReceiver::start.                                      *)
AddHere(r) ==
  \E o \in Objects :
    /\ New(o, r)
    /\ pThreads' = Append(pThreads, o)
    /\ at' = Len(pThreads) + 1
    /\ ui' = "create"

Start ==
  /\ ui = "off" /\ starts < MaxStarts
  /\ working' = TRUE
  /\ starts' = starts + 1
  /\ AddHere("udp")
  /\ UNCHANGED <<pc, conn, lockOwner>>

Here == pThreads[at]

UiCreate ==
  /\ ui = "create" /\ ui' = "assign"
  /\ Goto(Here, "starting")
  /\ UNCHANGED <<objVars, wtVars, conn, lockOwner, netVars, at, starts>>

UiAssign ==
  /\ ui = "assign" /\ ui' = "started"
  /\ hThread' = [hThread EXCEPT ![Here] = "open"]
  /\ UNCHANGED <<objVars, bWorking, socket, pc, conn, lockOwner, netVars, at, starts>>

UiStarted ==
  /\ ui = "started" /\ pc[Here] # "starting"
  /\ IF role[Here] = "udp"
     THEN AddHere("listen") /\ UNCHANGED <<working, starts>>
     ELSE ui' = "run" /\ UNCHANGED <<objVars, wtVars, netVars, at, starts>>
  /\ UNCHANGED <<pc, conn, lockOwner>>

(* LogReceiver::stop and LogReceiverNet::stop.                              *)
Stop ==
  /\ ui = "run" /\ ui' = "next"
  /\ working' = FALSE
  /\ at' = 1
  /\ UNCHANGED <<objVars, wtVars, pc, conn, lockOwner, pThreads, starts>>

(* The loop asks for cThreads anew each time round.                         *)
StopNext ==
  /\ ui = "next"
  /\ at <= Len(pThreads)
  /\ ui' = IF bWorking[Here] THEN "terminate" ELSE "look"
  /\ bWorking' = [bWorking EXCEPT ![Here] = FALSE]
  /\ UNCHANGED <<objVars, hThread, socket, pc, conn, lockOwner, netVars, at, starts>>

Wrong_AllStopped ==   \* only what start() added is stopped
  /\ ui = "next"
  /\ at > 2
  /\ pThreads' = << >>
  /\ ui' = "archive"
  /\ UNCHANGED <<objVars, wtVars, pc, conn, lockOwner, working, at, starts>>
AllStopped ==
  /\ ui = "next"
  /\ at > Len(pThreads)
  /\ pThreads' = << >>
  /\ ui' = "archive"
  /\ UNCHANGED <<objVars, wtVars, pc, conn, lockOwner, working, at, starts>>

UiTerminate ==
  /\ ui = "terminate" /\ ui' = "look"
  /\ socket' = [socket EXCEPT ![Here] = "closed"]
  /\ UNCHANGED <<objVars, bWorking, hThread, pc, conn, lockOwner, netVars, at, starts>>

StopLooks ==
  /\ ui = "look"
  /\ ui' = IF hThread[Here] = "null" THEN "delete" ELSE "wait"
  /\ UNCHANGED <<objVars, wtVars, pc, conn, lockOwner, netVars, at, starts>>

(* The wait is over when the thread has ended, when it has forgotten its    *)
(* handle, or when the wait fails because the handle is closed.             *)
Wrong_StopWaited ==   \* one wait of 10 ms, and no retries
  /\ ui = "wait"
  /\ ui' = "delete"
  /\ UNCHANGED <<objVars, wtVars, pc, conn, lockOwner, netVars, at, starts>>
StopWaited ==
  /\ ui = "wait"
  /\ hThread[Here] # "open" \/ pc[Here] = "dead"
  /\ ui' = "delete"
  /\ UNCHANGED <<objVars, wtVars, pc, conn, lockOwner, netVars, at, starts>>

(* The retries are used up.  They last for seconds, so only a thread that   *)
(* is blocked is still there.                                              *)
Blocked(o) == \/ pc[o] = "message"
              \/ pc[o] \in {"read", "accept"} /\ socket[o] = "open"
Wrong_StopKills == ui = "wait" /\ UNCHANGED vars   \* the wait has no limit
StopKills ==
  /\ ui = "wait" /\ ui' = "delete"
  /\ hThread[Here] = "open" /\ Blocked(Here)
  /\ Goto(Here, "dead")
  /\ bWorking' = [bWorking EXCEPT ![Here] = FALSE]
  /\ hThread' = [hThread EXCEPT ![Here] = "null"]
  /\ UNCHANGED <<objVars, socket, conn, lockOwner, netVars, at, starts>>

Delete ==
  /\ ui = "delete" /\ ui' = "next"
  /\ deleted' = [deleted EXCEPT ![Here] = TRUE]
  /\ at' = at + 1
  /\ UNCHANGED <<role, wtVars, pc, conn, lockOwner, netVars, starts>>

(* clearArchive or onPaused.                                                *)
UseArchive ==
  /\ ui = "archive" /\ ui' = "off"
  /\ UNCHANGED <<objVars, wtVars, pc, conn, lockOwner, netVars, at, starts>>

-----------------------------------------------------------------------------
Outside(o) == ReadData(o) \/ ReadFails(o) \/ CloseMessage(o) \/ Accept(o)
Thread(o) ==
  \/ Begin(o) \/ CloseOwnHandle(o) \/ ForgetOwnHandle(o) \/ Leave(o)
  \/ ReadClosed(o) \/ Lock(o) \/ Unlock(o) \/ Ended(o)
  \/ Loop(o) \/ AcceptFails(o) \/ AddChecks(o) \/ AddPuts(o)
  \/ CreateConnection(o) \/ AssignConnection(o) \/ ConnectionStarted(o)
StopStep ==
  \/ StopNext \/ AllStopped \/ UiTerminate \/ StopLooks \/ StopWaited \/ StopKills
  \/ Delete \/ UseArchive
Ui == Start \/ UiCreate \/ UiAssign \/ UiStarted \/ Stop \/ StopStep

Next == Ui \/ \E o \in Objects : Outside(o) \/ Thread(o)

Spec == Init /\ [][Next]_vars

(* The system schedules every thread that can run; a lock that is free      *)
(* again and again is got in the end.                                      *)
FairSpec ==
  /\ Spec
  /\ WF_vars(UiCreate \/ UiAssign \/ UiStarted \/ StopStep)
  /\ \A o \in Objects : WF_vars(Thread(o)) /\ SF_vars(Lock(o))

-----------------------------------------------------------------------------
(* Properties.                                                             *)

(* When stop() has returned, and while the UI thread clears or pauses the   *)
(* archive without the lock, no receiver thread is left in Work, not even   *)
(* one whose connection was accepted while stop() was going on.             *)
QuietArchive ==
  ui \in {"archive", "off"} =>
    /\ \A o \in Objects : pc[o] \in Over
    /\ lockOwner = Nobody

(* No object is deleted under its thread, except that the thread may still  *)
(* have the last statement of Cleanup before it.                           *)
DeletedWhenOver == \A o \in Objects : deleted[o] => pc[o] \in Over

(* Why: stop() goes through pThreads in order, and the listening thread,    *)
(* which is the only one that adds to it, has the second slot.  A slot that *)
(* was not stopped yet is pending.                                         *)
Stopping == {"next", "terminate", "look", "wait", "delete"}
Pending  == (IF ui \in Stopping THEN at ELSE 1)..Len(pThreads)

(* Threads run only for the objects of pending slots.                       *)
RunningIsPending ==
  \A o \in Objects : pc[o] \notin Over => \E i \in Pending : pThreads[i] = o

(* The slots still hold what start() and add() put there, each object once, *)
(* although an object that was deleted may be in a slot that was stopped.   *)
RoleOfSlot(i) == IF i = 1 THEN "udp" ELSE IF i = 2 THEN "listen" ELSE "connection"
SlotsKept ==
  \A i \in Pending :
    /\ role[pThreads[i]] = RoleOfSlot(i)
    /\ ~deleted[pThreads[i]]
    /\ \A j \in Pending : pThreads[i] = pThreads[j] => i = j

NotStarted == {"none", "dead"}
Finished   == {"exit", "dead"}
Adding     == {"add", "put", "create", "assign", "started"}
OnlyListenersAdd == \A o \in Objects : pc[o] \in {"loop", "accept"} \cup Adding => role[o] = "listen"

(* The object being added: first in no slot and without a thread, then in   *)
(* the last slot.                                                          *)
AddsOne ==
  \A l \in Objects : pc[l] \in Adding =>
    /\ conn[l] \in Objects /\ role[conn[l]] = "connection" /\ ~deleted[conn[l]]
    /\ pc[l] \in {"add", "put", "create"} => pc[conn[l]] \in NotStarted
    /\ IF pc[l] \in {"add", "put"}
       THEN \A i \in Pending : pThreads[i] # conn[l]
       ELSE conn[l] = pThreads[Len(pThreads)]
    /\ pc[l] = "put" => Len(pThreads) < Slots

(* A handle that was assigned is not open only if its thread is finished.   *)
Unassigned(i) ==
  \/ ui \in {"create", "assign"} /\ i = at
  \/ i = Len(pThreads) /\ \E l \in Objects : pc[l] \in {"create", "assign"}
HandlesTell ==
  \A i \in Pending :
    hThread[pThreads[i]] # "open" /\ ~Unassigned(i) => pc[pThreads[i]] \in Finished

UiInPlace ==
  /\ ui \in {"off", "archive"} => pThreads = << >>
  /\ ui \in {"create", "assign", "started"} =>
       at \in {1, 2} /\ at <= Len(pThreads) /\ (at = 1 => Len(pThreads) = 1)
  /\ ui = "create" => at = Len(pThreads) /\ pc[Here] \in NotStarted
  /\ ui = "run" => Len(pThreads) >= 2
  /\ ui = "next" => at \in 1..(Len(pThreads) + 1)
  /\ ui \in Stopping \ {"next"} => at \in 1..Len(pThreads)
  /\ ui = "delete" => pc[Here] \in Finished

NoRoleNoThread == \A o \in Objects : role[o] = "none" => pc[o] = "none"
LockHeld == \A o \in Objects : pc[o] = "append" <=> lockOwner = o

StopInv ==
  /\ RunningIsPending
  /\ SlotsKept
  /\ OnlyListenersAdd
  /\ AddsOne
  /\ HandlesTell
  /\ UiInPlace
  /\ NoRoleNoThread
  /\ LockHeld

(* Whoever waits for the lock of the receivers gets it: no thread is killed *)
(* while it holds it.                                                      *)
LockIsGot == \A o \in Objects : pc[o] = "lock" ~> pc[o] # "lock"

(* Stopping comes to an end, even under a message box nobody answers.       *)
StopEnds == ui = "next" ~> ui = "off"
=============================================================================
