--------------------------- MODULE DeviceReceivers --------------------------
(***************************************************************************)
(* The threads that read devices, and their starting and stopping:         *)
(* LogReceiverAdb with LogcatLogSupplier and LogcatPsCommand,              *)
(* LogReceiverSerial with SerialThread, and WorkerThread below them.        *)
(*                                                                         *)
(* Unlike the network threads of Receivers, the two ADB threads belong to   *)
(* objects that live as long as the program.  They are started again after  *)
(* a stop, while the last statement of the previous thread may be pending.  *)
(***************************************************************************)
EXTENDS Integers

CONSTANTS
  Used,       \* the devices switched on in the settings
  MaxStarts   \* times logging is started (bounds the model)

Logcat == "logcat"   \* LogcatLogSupplier
Ps     == "ps"       \* LogcatPsCommand
Serial == "serial"   \* SerialThread, a new object for every start
Adb    == {Logcat, Ps}
Devices == Adb \cup {Serial}

(* A third start may find a thread that the second stop did not wait for,   *)
(* see handleLost; the model has one thread in Work for each object.        *)
ASSUME ConstantsAssumption == Used \subseteq Devices /\ MaxStarts \in 0..2

VARIABLES
  bWorking,   \* WorkerThread::m_bWorking
  hThread,    \* WorkerThread::m_hThread: "null", "open" or already "closed"
  pc,         \* where the thread of the object is
  late,       \* a previous thread has still to write m_hThread
  stream,     \* serverFd of streamCallback: "none", "open" or "shut"
  port,       \* the port: "free", open in "this" SerialThread, or a "leaked" handle
  lockOwner,  \* who is in the critical section of LogReceiver
  working,    \* LogReceiver::m_working and LogReceiverAdb::m_working
  ui,         \* where the UI thread is
  job,        \* what it is doing: "start" or "stop"
  at,         \* the device it has come to
  starts,     \* times started so far
  handleLost, \* objects whose m_hThread was overwritten by a previous thread (history)
  killed      \* objects whose thread was killed at the latest stop (history)

wtVars     == <<bWorking, hThread, late>>
deviceVars == <<stream, port, lockOwner>>
uiVars     == <<working, ui, job, at, starts, killed>>
vars       == <<wtVars, pc, deviceVars, uiVars, handleLost>>

Nobody == "nobody"
AllPassed == 4   \* the place behind the last device
Over   == {"none", "exit", "dead"}   \* not in Work any more

Init ==
  /\ bWorking = [o \in Devices |-> FALSE]
  /\ hThread = [o \in Devices |-> "null"]
  /\ pc = [o \in Devices |-> "none"]
  /\ late = [o \in Devices |-> FALSE]
  /\ stream = [o \in Adb |-> "none"]
  /\ port = "free" /\ lockOwner = Nobody
  /\ working = FALSE
  /\ ui = "off" /\ job = "stop" /\ at = AllPassed /\ starts = 0
  /\ handleLost = {} /\ killed = {}

Goto(o, there) == pc' = [pc EXCEPT ![o] = there]

(* Some definitions below have a variant named Wrong_..., with a mistake     *)
(* that would be easy to make in the code; it shows which property notices  *)
(* that mistake.                                                           *)

-----------------------------------------------------------------------------
(* ThreadFunk and Cleanup.                                                 *)

(* LogcatLogSupplier::Work has commands to send before its loop.            *)
Begin(o) ==
  /\ pc[o] = "starting"
  /\ bWorking' = [bWorking EXCEPT ![o] = TRUE]
  /\ Goto(o, IF o = Logcat THEN "prepare" ELSE "loop")
  /\ UNCHANGED <<hThread, late, deviceVars, uiVars, handleLost>>

Loop(o) ==
  /\ pc[o] = "loop"
  /\ Goto(o, IF ~bWorking[o] THEN "leave"
             ELSE CASE o = Logcat -> "command"
                    [] o = Ps -> "connect"
                    [] o = Serial -> IF port = "this" THEN "read" ELSE "open")
  /\ UNCHANGED <<wtVars, deviceVars, uiVars, handleLost>>

(* SerialThread::Work ends with Terminate, the others with nothing.         *)
Wrong_Leave(o) ==   \* the port was closed by whoever ended the work
  /\ pc[o] = "leave"
  /\ Goto(o, "cleanup")
  /\ UNCHANGED <<wtVars, deviceVars, uiVars, handleLost>>
ClosedPort == IF port = "this" THEN "free" ELSE port
Leave(o) ==
  /\ pc[o] = "leave"
  /\ port' = IF o = Serial THEN ClosedPort ELSE port
  /\ Goto(o, "cleanup")
  /\ UNCHANGED <<wtVars, stream, lockOwner, uiVars, handleLost>>

CloseOwnHandle(o) ==
  /\ pc[o] = "cleanup"
  /\ bWorking' = [bWorking EXCEPT ![o] = FALSE]
  /\ hThread' = [hThread EXCEPT ![o] = IF @ = "open" THEN "closed" ELSE @]
  /\ Goto(o, "exit")
  /\ UNCHANGED <<late, deviceVars, uiVars, handleLost>>

(* The last statement: of the latest thread, or of the one before it.       *)
ForgetOwnHandle(o) ==
  /\ pc[o] = "exit"
  /\ hThread' = [hThread EXCEPT ![o] = "null"]
  /\ Goto(o, "dead")
  /\ UNCHANGED <<bWorking, late, deviceVars, uiVars, handleLost>>

ForgetHandleLate(o) ==
  /\ late[o]
  /\ late' = [late EXCEPT ![o] = FALSE]
  /\ hThread' = [hThread EXCEPT ![o] = "null"]
  /\ handleLost' = IF hThread[o] = "open" THEN handleLost \cup {o} ELSE handleLost
  /\ UNCHANGED <<bWorking, pc, deviceVars, uiVars>>

-----------------------------------------------------------------------------
(* Work of the two ADB threads.  What adb does is outside the program.      *)
quiet == <<wtVars, port, uiVars, handleLost>>

(* connect, logcat -c and the command of the settings: dummyStreamCallback   *)
(* is not the stream that Terminate shuts.                                 *)
CommandDone(o) ==
  /\ pc[o] \in {"prepare", "command"}
  /\ Goto(o, IF pc[o] = "prepare" THEN "loop" ELSE "connect")
  /\ UNCHANGED <<quiet, stream, lockOwner>>

(* read_and_dump takes the connection it was given, if there is one.        *)
Connect(o) ==
  /\ pc[o] = "connect"
  /\ \/ stream' = [stream EXCEPT ![o] = "open"] /\ Goto(o, "read")
     \/ stream' = [stream EXCEPT ![o] = "none"] /\ Goto(o, "done")
  /\ UNCHANGED <<quiet, lockOwner>>

(* Data arrives.  Lines of logcat are appended while logging is on: text     *)
(* under the lock, records of FLOW_TRACE without it.                       *)
AdbData(o) ==
  /\ o \in Adb /\ pc[o] = "read" /\ stream[o] = "open"
  /\ IF o = Logcat /\ working
     THEN \E there \in {"lock", "appendFlow"} : Goto(o, there)
     ELSE Goto(o, "answer")
  /\ UNCHANGED <<quiet, stream, lockOwner>>

(* What HundleStream returns: go on while logging is on.                    *)
Answer(o) ==
  /\ pc[o] = "answer"
  /\ IF working
     THEN Goto(o, "read") /\ UNCHANGED stream
     ELSE Goto(o, "done") /\ stream' = [stream EXCEPT ![o] = "none"]
  /\ UNCHANGED <<quiet, lockOwner>>

StreamOver(o) ==
  /\ o \in Adb /\ pc[o] = "read"
  /\ stream' = [stream EXCEPT ![o] = "none"]
  /\ Goto(o, "done")
  /\ UNCHANGED <<quiet, lockOwner>>
StreamEnds(o)  == o \in Adb /\ stream[o] = "open" /\ StreamOver(o)
ReadIsShut(o)  == o \in Adb /\ stream[o] # "open" /\ StreamOver(o)

(* setPsInfo: the table is copied under the lock, then names are changed.    *)
AdbDone(o) ==
  /\ pc[o] = "done"
  /\ Goto(o, IF o = Ps THEN "lock" ELSE "sleep")
  /\ UNCHANGED <<quiet, stream, lockOwner>>

Named(o) ==
  /\ pc[o] = "name"
  /\ Goto(o, "sleep")
  /\ UNCHANGED <<quiet, stream, lockOwner>>

FlowAppended(o) ==
  /\ pc[o] = "appendFlow"
  /\ Goto(o, "answer")
  /\ UNCHANGED <<quiet, stream, lockOwner>>

Sleep(o) ==
  /\ pc[o] = "sleep"
  /\ Goto(o, "loop")
  /\ UNCHANGED <<quiet, stream, lockOwner>>

-----------------------------------------------------------------------------
(* The lock, and Work of SerialThread.                                     *)

Lock(o) ==
  /\ pc[o] = "lock" /\ lockOwner = Nobody
  /\ lockOwner' = o
  /\ Goto(o, "append")
  /\ UNCHANGED <<quiet, stream>>

Unlock(o) ==
  /\ pc[o] = "append"
  /\ lockOwner' = Nobody
  /\ Goto(o, CASE o = Logcat -> "answer" [] o = Ps -> "name" [] o = Serial -> "loop")
  /\ UNCHANGED <<quiet, stream>>

(* serial_open: nobody else may have the port open.                         *)
OpenPort ==
  /\ pc[Serial] = "open"
  /\ \/ port = "free" /\ port' = "this" /\ Goto(Serial, "read")
     \/ port' = port /\ Goto(Serial, "sleep")
  /\ UNCHANGED <<wtVars, stream, lockOwner, uiVars, handleLost>>

SerialData ==
  /\ pc[Serial] = "read" /\ port = "this"
  /\ Goto(Serial, "lock")
  /\ UNCHANGED <<wtVars, deviceVars, uiVars, handleLost>>

(* The read ends with nothing: the port is closed and opened again.         *)
SerialFails ==
  /\ pc[Serial] = "read" /\ port = "this"
  /\ port' = "free"
  /\ Goto(Serial, "loop")
  /\ UNCHANGED <<wtVars, stream, lockOwner, uiVars, handleLost>>

SerialClosed ==
  /\ pc[Serial] = "read" /\ port # "this"
  /\ Goto(Serial, "loop")
  /\ UNCHANGED <<wtVars, deviceVars, uiVars, handleLost>>

-----------------------------------------------------------------------------
(* The UI thread.  start() and stop() go over the devices, each in an order  *)
(* of its own, and pass over those that are not used.                      *)
Order(j) == IF j = "start" THEN << Ps, Logcat, Serial >> ELSE << Logcat, Ps, Serial >>
Here     == Order(job)[at]
FirstUsed(j, from) ==
  CHOOSE k \in from..AllPassed :
    /\ k = AllPassed \/ Order(j)[k] \in Used
    /\ \A i \in from..(k - 1) : Order(j)[i] \notin Used

Start ==
  /\ ui = "off" /\ starts < MaxStarts
  /\ working' = TRUE
  /\ starts' = starts + 1
  /\ ui' = "next" /\ job' = "start" /\ at' = FirstUsed("start", 1)
  /\ UNCHANGED <<wtVars, pc, deviceVars, handleLost, killed>>

Stop ==
  /\ ui = "run"
  /\ working' = FALSE
  /\ killed' = {}
  /\ ui' = "next" /\ job' = "stop" /\ at' = FirstUsed("stop", 1)
  /\ UNCHANGED <<wtVars, pc, deviceVars, handleLost, starts>>

(* A SerialThread is new; what its predecessor still writes is not its own.  *)
NewSerial ==
  /\ ui = "next" /\ job = "start" /\ at # AllPassed /\ Here = Serial
  /\ bWorking' = [bWorking EXCEPT ![Serial] = FALSE]
  /\ hThread' = [hThread EXCEPT ![Serial] = "null"]
  /\ Goto(Serial, "none")
  /\ ui' = "create"
  /\ UNCHANGED <<late, deviceVars, working, job, at, starts, killed, handleLost>>

(* StopWork, with which StartWork begins, too.                              *)
StopWork ==
  /\ ui = "next" /\ at # AllPassed
  /\ job = "stop" \/ Here # Serial
  /\ bWorking' = [bWorking EXCEPT ![Here] = FALSE]
  /\ ui' = IF bWorking[Here] THEN "terminate" ELSE "look"
  /\ UNCHANGED <<hThread, late, pc, deviceVars, working, job, at, starts, killed, handleLost>>

Terminate ==
  /\ ui = "terminate" /\ ui' = "look"
  /\ stream' = [o \in Adb |-> IF o = Here /\ stream[o] = "open" THEN "shut" ELSE stream[o]]
  /\ port' = IF Here = Serial THEN ClosedPort ELSE port
  /\ UNCHANGED <<wtVars, pc, lockOwner, working, job, at, starts, killed, handleLost>>

(* The wait is over when the thread has ended, when the handle was          *)
(* forgotten, or when the wait fails because the handle is closed.          *)
Wrong_Waited ==   \* half a second less, and no look at the handle
  /\ ui \in {"look", "wait"}
  /\ ui' = "stopped"
  /\ UNCHANGED <<wtVars, pc, deviceVars, working, job, at, starts, killed, handleLost>>
Waited ==
  /\ \/ ui = "look" /\ hThread[Here] = "null"
     \/ ui = "wait" /\ (hThread[Here] # "open" \/ pc[Here] = "dead")
  /\ ui' = "stopped"
  /\ UNCHANGED <<wtVars, pc, deviceVars, working, job, at, starts, killed, handleLost>>

Wait ==
  /\ ui = "look" /\ hThread[Here] # "null"
  /\ ui' = "wait"
  /\ UNCHANGED <<wtVars, pc, deviceVars, working, job, at, starts, killed, handleLost>>

(* The retries are used up: 1 second for adb, 5 for a port.  Only a thread   *)
(* that is blocked is still there.                                         *)
Blocked(o) == \/ pc[o] \in {"prepare", "command"}
              \/ pc[o] = "read" /\ IF o = Serial THEN port = "this" ELSE stream[o] = "open"
Wrong_Kill == ui = "wait" /\ UNCHANGED vars   \* the wait has no limit
Kill ==
  /\ ui = "wait" /\ hThread[Here] = "open" /\ Blocked(Here)
  /\ Goto(Here, "dead")
  /\ bWorking' = [bWorking EXCEPT ![Here] = FALSE]
  /\ hThread' = [hThread EXCEPT ![Here] = "null"]
  /\ killed' = killed \cup {Here}
  /\ ui' = "stopped"
  /\ UNCHANGED <<late, deviceVars, working, job, at, starts, handleLost>>

(* The end of stop() for a device: a SerialThread is deleted, and a port it  *)
(* has open then stays open.                                               *)
Stopped ==
  /\ ui = "stopped" /\ job = "stop"
  /\ port' = IF Here = Serial /\ port = "this" THEN "leaked" ELSE port
  /\ ui' = "next" /\ at' = FirstUsed(job, at + 1)
  /\ UNCHANGED <<wtVars, pc, stream, lockOwner, working, job, starts, killed, handleLost>>

(* The rest of StartWork.                                                  *)
Create ==
  /\ ui = "create" \/ (ui = "stopped" /\ job = "start")
  /\ late' = [late EXCEPT ![Here] = @ \/ pc[Here] = "exit"]
  /\ Goto(Here, "starting")
  /\ ui' = "assign"
  /\ UNCHANGED <<bWorking, hThread, deviceVars, working, job, at, starts, killed, handleLost>>

Assign ==
  /\ ui = "assign" /\ ui' = "started"
  /\ hThread' = [hThread EXCEPT ![Here] = "open"]
  /\ UNCHANGED <<bWorking, late, pc, deviceVars, working, job, at, starts, killed, handleLost>>

Started ==
  /\ ui = "started" /\ pc[Here] # "starting"
  /\ ui' = "next" /\ at' = FirstUsed(job, at + 1)
  /\ UNCHANGED <<wtVars, pc, deviceVars, working, job, starts, killed, handleLost>>

(* All are started, or all are stopped and the archive is cleared or paused. *)
AllDone ==
  /\ ui = "next" /\ at = AllPassed
  /\ ui' = IF job = "start" THEN "run" ELSE "archive"
  /\ UNCHANGED <<wtVars, pc, deviceVars, working, job, at, starts, killed, handleLost>>

UseArchive ==
  /\ ui = "archive" /\ ui' = "off"
  /\ UNCHANGED <<wtVars, pc, deviceVars, working, job, at, starts, killed, handleLost>>

-----------------------------------------------------------------------------
Outside(o) ==
  \/ CommandDone(o) \/ AdbData(o) \/ StreamEnds(o)
  \/ o = Serial /\ (SerialData \/ SerialFails)
Thread(o) ==
  \/ Begin(o) \/ Loop(o) \/ Leave(o)
  \/ CloseOwnHandle(o) \/ ForgetOwnHandle(o) \/ ForgetHandleLate(o)
  \/ Connect(o) \/ Answer(o) \/ ReadIsShut(o) \/ AdbDone(o) \/ Named(o) \/ FlowAppended(o)
  \/ Sleep(o) \/ Lock(o) \/ Unlock(o)
  \/ o = Serial /\ (OpenPort \/ SerialClosed)
UiStep ==
  \/ NewSerial \/ StopWork \/ Terminate \/ Wait \/ Waited \/ Kill \/ Stopped
  \/ Create \/ Assign \/ Started \/ AllDone \/ UseArchive

Next == Start \/ Stop \/ UiStep \/ \E o \in Used : Outside(o) \/ Thread(o)

Spec == Init /\ [][Next]_vars

(* The system schedules every thread that can run; a lock that is free      *)
(* again and again is got in the end.                                      *)
FairSpec ==
  /\ Spec
  /\ WF_vars(UiStep)
  /\ \A o \in Used : WF_vars(Thread(o)) /\ SF_vars(Lock(o))

-----------------------------------------------------------------------------
(* Properties.                                                             *)

PCs == Over \cup
  {"starting", "prepare", "loop", "command", "connect", "open", "read", "lock", "append",
   "appendFlow", "answer", "done", "name", "sleep", "leave", "cleanup"}

TypeOK ==
  /\ {bWorking, late} \subseteq [Devices -> BOOLEAN]
  /\ hThread \in [Devices -> {"null", "open", "closed"}]
  /\ pc \in [Devices -> PCs]
  /\ stream \in [Adb -> {"none", "open", "shut"}]
  /\ port \in {"free", "this", "leaked"}
  /\ lockOwner \in Devices \cup {Nobody}
  /\ working \in BOOLEAN
  /\ ui \in {"off", "next", "terminate", "look", "wait", "stopped", "create", "assign",
             "started", "run", "archive"}
  /\ job \in {"start", "stop"} /\ at \in 1..AllPassed /\ starts \in 0..MaxStarts
  /\ handleLost \subseteq Devices /\ killed \subseteq Devices

(* When stop() has returned, and while the archive is cleared or paused     *)
(* without the lock, no thread of a device is in Work, unless the previous  *)
(* thread of its object had overwritten its handle, so that nobody could    *)
(* wait for it.                                                            *)
QuietDevices ==
  ui \in {"archive", "off"} =>
    \A o \in Devices \ handleLost : pc[o] \in Over /\ lockOwner # o

(* A port that is still open when stop() has returned, and that can then    *)
(* not be opened again, was being read by a thread this stop had to kill.   *)
OnlyKilledLeak == port' = "leaked" /\ port # "leaked" => Serial \in killed
PortFreed == [][OnlyKilledLeak]_vars

(* stop() returns, though adb, a port and a device may never answer.        *)
StopReturns == ui = "next" /\ job = "stop" ~> ui = "off"

-----------------------------------------------------------------------------
(* What makes QuietDevices and PortFreed inductive.                         *)

(* The UI thread is at a device that is used.                               *)
AtUsed ==
  /\ ui \notin {"off", "run", "archive"} /\ at # AllPassed => Here \in Used
  /\ ui \notin {"off", "run", "archive", "next"} => at # AllPassed
  /\ ui = "create" => job = "start" /\ Here = Serial /\ pc[Serial] = "none"
  /\ ui \in {"assign", "started"} => job = "start"
  /\ ui \in {"terminate", "look", "wait", "stopped"} /\ Here = Serial => job = "stop"

(* A device in this place of the order is stopped, or not started yet.      *)
IsStopped(i) ==
  \/ ui \in {"off", "archive"}
  \/ ui # "run" /\ job = "stop" /\ (i < at \/ (i = at /\ ui = "stopped"))
  \/ ui # "run" /\ job = "start" /\ (i > at \/ (i = at /\ ui \notin {"assign", "started"}))
StoppedAreOver ==
  \A i \in 1..3 : Order(job)[i] \notin handleLost /\ IsStopped(i) => pc[Order(job)[i]] \in Over

(* The handle of a thread in Work is known, unless it was lost, or it is     *)
(* about to be assigned.                                                   *)
HandleKnown ==
  \A o \in Devices \ handleLost :
    pc[o] \in Over \/ hThread[o] = "open" \/ (ui = "assign" /\ Here = o)

UnusedIdle == \A o \in Devices \ Used : pc[o] = "none"

LockHeld == \A o \in Devices \ handleLost : lockOwner = o => pc[o] = "append"

(* No previous thread of a serial port writes to its object, and the port   *)
(* is open only in the loop of the thread, or after that was killed.        *)
SerialAlone == ~late[Serial] /\ Serial \notin handleLost
InLoop == {"loop", "read", "lock", "append", "leave"}
PortInLoop ==
  port = "this" =>
    \/ pc[Serial] \in InLoop
    \/ Serial \in killed /\ ui = "stopped" /\ job = "stop" /\ Here = Serial

QuietInv ==
  /\ AtUsed /\ StoppedAreOver /\ HandleKnown /\ UnusedIdle
  /\ LockHeld /\ SerialAlone /\ PortInLoop
=============================================================================
