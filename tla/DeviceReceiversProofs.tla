----------------------- MODULE DeviceReceiversProofs ------------------------
(***************************************************************************)
(* Proofs about DeviceReceivers, for any choice of devices, over the starts  *)
(* the model has: which threads stop() has ended, and why a port stays open. *)
(***************************************************************************)
EXTENDS DeviceReceivers, TLAPS

-----------------------------------------------------------------------------
(* The order in which start() and stop() go over the devices.               *)

LEMMA OrderIs ==
  ASSUME NEW j
  PROVE  /\ \A i \in 1..3 : Order(j)[i] \in Devices
         /\ \A o \in Devices : \E i \in 1..3 : Order(j)[i] = o
         /\ \A i, k \in 1..3 : Order(j)[i] = Order(j)[k] => i = k
BY DEF Order, Devices, Adb, Logcat, Ps, Serial

LEMMA FirstUsedIs ==
  ASSUME NEW j, NEW from \in 1..AllPassed
  PROVE  LET k == FirstUsed(j, from) IN
         /\ k \in from..AllPassed
         /\ k = AllPassed \/ Order(j)[k] \in Used
         /\ \A i \in from..(k - 1) : Order(j)[i] \notin Used
<1> DEFINE first(f, k) == /\ k \in f..4
                          /\ k = 4 \/ Order(j)[k] \in Used
                          /\ \A i \in f..(k - 1) : Order(j)[i] \notin Used
<1>1. \E k : first(4, k)
  <2>1. first(4, 4)
    OBVIOUS
  <2> QED
    BY <2>1
<1>2. ASSUME NEW f \in 1..3, \E k : first(f + 1, k)
      PROVE  \E k : first(f, k)
  <2>1. CASE Order(j)[f] \in Used
    <3>1. first(f, f)
      BY <2>1
    <3> QED
      BY <3>1
  <2>2. CASE Order(j)[f] \notin Used
    <3>1. PICK k : first(f + 1, k)
      BY <1>2
    <3>2. \A i \in f..(k - 1) : i = f \/ i \in (f + 1)..(k - 1)
      BY <3>1
    <3>3. first(f, k)
      BY <2>2, <3>1, <3>2
    <3> QED
      BY <3>3
  <2> QED
    BY <2>1, <2>2
<1>3. \E k : first(from, k)
  <2>1. (\E k : first(3, k)) /\ 3 + 1 = 4
    BY <1>1, <1>2
  <2>2. (\E k : first(2, k)) /\ 2 + 1 = 3
    BY <1>2, <2>1
  <2>3. \E k : first(1, k)
    BY <1>2, <2>2
  <2> HIDE DEF first
  <2> QED
    BY <1>1, <2>1, <2>2, <2>3 DEF AllPassed
<1> QED
  BY <1>3 DEF FirstUsed, AllPassed

-----------------------------------------------------------------------------
(* Steps of the threads.                                                   *)

(* A step of the thread of o, which leaves Work at its end only, gives back  *)
(* the lock when it is through with it, and closes its port before it ends.  *)
ThreadStep(o, there) ==
  /\ there \in PCs
  /\ pc' = [pc EXCEPT ![o] = there]
  /\ pc[o] # "none" /\ (pc[o] \in Over => there \in Over)
  /\ there \in Over \/ hThread' = hThread
  /\ \A p \in Devices \ {o} : hThread'[p] = hThread[p]
  /\ \/ lockOwner' = lockOwner /\ pc[o] # "append"
     \/ lockOwner' = o /\ there = "append"
     \/ lockOwner' = Nobody
  /\ port' = "this" =>
       \/ o = Serial /\ there \in InLoop
       \/ port = "this" /\ (o = Serial => pc[o] \notin InLoop)
  /\ UNCHANGED <<late, uiVars, handleLost>>

ThreadAction(o) ==
  \/ Begin(o) \/ Loop(o) \/ Leave(o) \/ CloseOwnHandle(o) \/ ForgetOwnHandle(o)
  \/ Connect(o) \/ Answer(o) \/ StreamOver(o) \/ AdbDone(o) \/ Named(o) \/ FlowAppended(o)
  \/ Sleep(o) \/ Lock(o) \/ Unlock(o) \/ CommandDone(o) \/ AdbData(o)
  \/ o = Serial /\ (OpenPort \/ SerialClosed \/ SerialData \/ SerialFails)

LEMMA ThreadActions ==
  ASSUME NEW o \in Used, Outside(o) \/ Thread(o)
  PROVE  ThreadAction(o) \/ ForgetHandleLate(o)
BY DEF Outside, Thread, StreamEnds, ReadIsShut, ThreadAction

LEMMA ThreadSteps ==
  ASSUME TypeOK, NEW o \in Devices, ThreadAction(o)
  PROVE  \E there : ThreadStep(o, there)
<1> USE DEF Goto, quiet, wtVars, deviceVars
<1>0. /\ hThread \in [Devices -> {"null", "open", "closed"}] /\ pc[o] \in PCs
      /\ \A p \in Adb : p # Serial
  BY DEF TypeOK, Adb, Serial, Logcat, Ps
<1> DEFINE easy(there) ==
      /\ there \in PCs \ Over /\ pc[o] \notin Over \cup {"append"}
      /\ pc' = [pc EXCEPT ![o] = there]
      /\ UNCHANGED <<hThread, lockOwner, port, late, uiVars, handleLost>>
      /\ o = Serial /\ port = "this" => there \in InLoop \/ pc[o] \notin InLoop
<1>1. ASSUME NEW there, easy(there) PROVE \E t : ThreadStep(o, t)
  <2>1. ThreadStep(o, there)
    BY <1>1 DEF ThreadStep, Over
  <2> QED
    BY <2>1
<1>2. CASE Begin(o)
  <2>1. \E there \in {"prepare", "loop"} : easy(there)
    BY <1>2 DEF Begin, PCs, Over, InLoop
  <2> QED
    BY <2>1, <1>1
<1>3. CASE Loop(o)
  <2>1. PICK there \in {"leave", "command", "connect", "read", "open"} :
          /\ Goto(o, there) /\ pc[o] = "loop"
          /\ o = Serial => there = "leave" \/ there = IF port = "this" THEN "read" ELSE "open"
    <3>1. /\ ~bWorking[o] => Goto(o, "leave")
          /\ bWorking[o] /\ o = Logcat => Goto(o, "command")
          /\ bWorking[o] /\ o = Ps => Goto(o, "connect")
          /\ bWorking[o] /\ o = Serial => Goto(o, IF port = "this" THEN "read" ELSE "open")
          /\ pc[o] = "loop"
      BY <1>3 DEF Loop, Logcat, Ps, Serial
    <3> QED
      BY <3>1 DEF Devices, Adb, Logcat, Ps, Serial
  <2>2. easy(there)
    BY <1>3, <2>1 DEF Loop, PCs, Over, InLoop
  <2> QED
    BY <2>2, <1>1
<1>4. CASE Leave(o)
  <2>1. ThreadStep(o, "cleanup")
    BY <1>4 DEF Leave, ThreadStep, PCs, Over, InLoop, ClosedPort
  <2> QED
    BY <2>1
<1>5. CASE CloseOwnHandle(o)
  <2>1. ThreadStep(o, "exit")
    BY <1>0, <1>5 DEF CloseOwnHandle, ThreadStep, PCs, Over, InLoop
  <2> QED
    BY <2>1
<1>6. CASE ForgetOwnHandle(o)
  <2>1. ThreadStep(o, "dead")
    BY <1>0, <1>6 DEF ForgetOwnHandle, ThreadStep, PCs, Over, InLoop
  <2> QED
    BY <2>1
<1>7. CASE Connect(o)
  <2>1. \E there \in {"read", "done"} : easy(there)
    BY <1>7 DEF Connect, PCs, Over, InLoop
  <2> QED
    BY <2>1, <1>1
<1>8. CASE Answer(o)
  <2>1. \E there \in {"read", "done"} : easy(there)
    BY <1>8 DEF Answer, PCs, Over, InLoop
  <2> QED
    BY <2>1, <1>1
<1>9. CASE StreamOver(o)
  <2>1. easy("done")
    BY <1>0, <1>9 DEF StreamOver, PCs, Over, InLoop
  <2> QED
    BY <2>1, <1>1
<1>10. CASE AdbDone(o)
  <2>1. \E there \in {"lock", "sleep"} : easy(there)
    BY <1>10 DEF AdbDone, PCs, Over, InLoop
  <2> QED
    BY <2>1, <1>1
<1>11. CASE Named(o)
  <2>1. easy("sleep")
    BY <1>11 DEF Named, PCs, Over, InLoop
  <2> QED
    BY <2>1, <1>1
<1>12. CASE FlowAppended(o)
  <2>1. easy("answer")
    BY <1>12 DEF FlowAppended, PCs, Over, InLoop
  <2> QED
    BY <2>1, <1>1
<1>13. CASE Sleep(o)
  <2>1. easy("loop")
    BY <1>13 DEF Sleep, PCs, Over, InLoop
  <2> QED
    BY <2>1, <1>1
<1>14. CASE Lock(o)
  <2>1. ThreadStep(o, "append")
    BY <1>14 DEF Lock, ThreadStep, PCs, Over, InLoop
  <2> QED
    BY <2>1
<1>15. CASE Unlock(o)
  <2>1. PICK there \in {"answer", "name", "loop"} :
          Goto(o, there) /\ (o = Serial => there = "loop")
    <3>1. /\ o = Logcat => Goto(o, "answer")
          /\ o = Ps => Goto(o, "name")
          /\ o = Serial => Goto(o, "loop")
      BY <1>15 DEF Unlock, Logcat, Ps, Serial
    <3> QED
      BY <3>1 DEF Devices, Adb, Logcat, Ps, Serial
  <2>2. ThreadStep(o, there)
    BY <1>15, <2>1 DEF Unlock, ThreadStep, PCs, Over, InLoop
  <2> QED
    BY <2>2
<1>16. CASE CommandDone(o)
  <2>1. \E there \in {"loop", "connect"} : easy(there)
    BY <1>16 DEF CommandDone, PCs, Over, InLoop
  <2> QED
    BY <2>1, <1>1
<1>17. CASE AdbData(o)
  <2>1. \E there \in {"lock", "appendFlow", "answer"} : easy(there)
    BY <1>0, <1>17 DEF AdbData, PCs, Over, InLoop
  <2> QED
    BY <2>1, <1>1
<1>18. CASE o = Serial /\ OpenPort
  <2>1. CASE pc' = [pc EXCEPT ![o] = "read"]
    <3>1. ThreadStep(o, "read")
      BY <1>18, <2>1 DEF OpenPort, ThreadStep, PCs, Over, InLoop
    <3> QED
      BY <3>1
  <2>2. CASE pc' = [pc EXCEPT ![o] = "sleep"] /\ port' = port
    <3>1. ThreadStep(o, "sleep")
      BY <1>18, <2>2 DEF OpenPort, ThreadStep, PCs, Over, InLoop
    <3> QED
      BY <3>1
  <2> QED
    BY <1>18, <2>1, <2>2 DEF OpenPort
<1>19. CASE o = Serial /\ SerialClosed
  <2>1. easy("loop")
    BY <1>19 DEF SerialClosed, PCs, Over, InLoop
  <2> QED
    BY <2>1, <1>1
<1>20. CASE o = Serial /\ SerialData
  <2>1. easy("lock")
    BY <1>20 DEF SerialData, PCs, Over, InLoop
  <2> QED
    BY <2>1, <1>1
<1>21. CASE o = Serial /\ SerialFails
  <2>1. ThreadStep(o, "loop")
    BY <1>21 DEF SerialFails, ThreadStep, PCs, Over, InLoop
  <2> QED
    BY <2>1
<1> HIDE DEF easy
<1> QED
  BY <1>2, <1>3, <1>4, <1>5, <1>6, <1>7, <1>8, <1>9, <1>10, <1>11, <1>12, <1>13, <1>14,
     <1>15, <1>16, <1>17, <1>18, <1>19, <1>20, <1>21 DEF ThreadAction

-----------------------------------------------------------------------------
(* Types.                                                                  *)

LEMMA HereIsDevice ==
  ASSUME TypeOK, AtUsed, ui \notin {"off", "run", "archive"}, at # AllPassed
  PROVE  at \in 1..3 /\ Here \in Used /\ Here \in Devices
BY ConstantsAssumption DEF TypeOK, AtUsed, AllPassed, ConstantsAssumption

LEMMA ThreadTypes ==
  ASSUME TypeOK, NEW o \in Devices, ThreadAction(o) \/ ForgetHandleLate(o)
  PROVE  TypeOK'
<1> USE DEF Goto, quiet, wtVars, deviceVars, uiVars, PCs, Over
<1>1. CASE Begin(o)
  BY <1>1 DEF Begin, TypeOK
<1>2. CASE Loop(o)
  <2>1. pc' \in [Devices -> PCs]
    BY <1>2, ThreadSteps DEF ThreadAction, ThreadStep, TypeOK
  <2> QED
    BY <1>2, <2>1 DEF Loop, TypeOK
<1>3. CASE Leave(o)
  BY <1>3 DEF Leave, TypeOK, ClosedPort
<1>4. CASE CloseOwnHandle(o)
  BY <1>4 DEF CloseOwnHandle, TypeOK
<1>5. CASE ForgetOwnHandle(o)
  BY <1>5 DEF ForgetOwnHandle, TypeOK
<1>6. CASE Connect(o)
  BY <1>6 DEF Connect, TypeOK
<1>7. CASE Answer(o)
  BY <1>7 DEF Answer, TypeOK
<1>8. CASE StreamOver(o)
  BY <1>8 DEF StreamOver, TypeOK
<1>9. CASE AdbDone(o)
  BY <1>9 DEF AdbDone, TypeOK
<1>10. CASE Named(o)
  BY <1>10 DEF Named, TypeOK
<1>11. CASE FlowAppended(o)
  BY <1>11 DEF FlowAppended, TypeOK
<1>12. CASE Sleep(o)
  BY <1>12 DEF Sleep, TypeOK
<1>13. CASE Lock(o)
  BY <1>13 DEF Lock, TypeOK
<1>14. CASE Unlock(o)
  <2>1. pc' \in [Devices -> PCs]
    BY <1>14, ThreadSteps DEF ThreadAction, ThreadStep, TypeOK
  <2> QED
    BY <1>14, <2>1 DEF Unlock, TypeOK
<1>15. CASE CommandDone(o)
  BY <1>15 DEF CommandDone, TypeOK
<1>16. CASE AdbData(o)
  BY <1>16 DEF AdbData, TypeOK
<1>17. CASE ForgetHandleLate(o)
  BY <1>17 DEF ForgetHandleLate, TypeOK
<1>18. CASE o = Serial /\ OpenPort
  BY <1>18 DEF OpenPort, TypeOK
<1>19. CASE o = Serial /\ SerialClosed
  BY <1>19 DEF SerialClosed, TypeOK
<1>20. CASE o = Serial /\ SerialData
  BY <1>20 DEF SerialData, TypeOK
<1>21. CASE o = Serial /\ SerialFails
  BY <1>21 DEF SerialFails, TypeOK
<1> QED
  BY <1>1, <1>2, <1>3, <1>4, <1>5, <1>6, <1>7, <1>8, <1>9, <1>10, <1>11, <1>12, <1>13,
     <1>14, <1>15, <1>16, <1>17, <1>18, <1>19, <1>20, <1>21 DEF ThreadAction

LEMMA UiTypes ==
  ASSUME TypeOK, AtUsed, Start \/ Stop \/ UiStep
  PROVE  TypeOK'
<1> USE DEF Goto, wtVars, deviceVars, uiVars
<1>1. CASE NewSerial
  BY <1>1 DEF NewSerial, TypeOK, Devices, PCs, Over
<1>2. CASE StopWork
  BY <1>2 DEF StopWork, TypeOK, AllPassed
<1>3. CASE Terminate
  BY <1>3 DEF Terminate, TypeOK, ClosedPort
<1>4. CASE Wait
  BY <1>4 DEF Wait, TypeOK, AllPassed
<1>5. CASE Waited
  BY <1>5 DEF Waited, TypeOK, AllPassed
<1>6. CASE Kill
  <2>1. Here \in Devices
    BY <1>6, HereIsDevice DEF Kill, AtUsed
  <2> QED
    BY <1>6, <2>1 DEF Kill, TypeOK, PCs, Over
<1>7. CASE Stopped
  <2>0. at + 1 \in 1..AllPassed
    BY <1>7, HereIsDevice DEF Stopped, AtUsed, AllPassed
  <2>1. FirstUsed(job, at + 1) \in 1..AllPassed
    BY <2>0, FirstUsedIs DEF AllPassed
  <2> QED
    BY <1>7, <2>1 DEF Stopped, TypeOK
<1>8. CASE Create
  <2>1. late' \in [Devices -> BOOLEAN]
    BY <1>8 DEF Create, TypeOK
  <2> QED
    BY <1>8, <2>1 DEF Create, TypeOK, PCs, Over
<1>9. CASE Assign
  BY <1>9 DEF Assign, TypeOK, AllPassed
<1>10. CASE Started
  <2>0. at + 1 \in 1..AllPassed
    BY <1>10, HereIsDevice DEF Started, AtUsed, AllPassed
  <2>1. FirstUsed(job, at + 1) \in 1..AllPassed
    BY <2>0, FirstUsedIs DEF AllPassed
  <2> QED
    BY <1>10, <2>1 DEF Started, TypeOK
<1>11. CASE AllDone
  BY <1>11 DEF AllDone, TypeOK, AllPassed
<1>12. CASE UseArchive
  BY <1>12 DEF UseArchive, TypeOK, AllPassed
<1>13. CASE Start
  <2>1. FirstUsed("start", 1) \in 1..AllPassed
    BY FirstUsedIs DEF AllPassed
  <2> QED
    BY <1>13, <2>1, ConstantsAssumption DEF Start, TypeOK, ConstantsAssumption
<1>14. CASE Stop
  <2>1. FirstUsed("stop", 1) \in 1..AllPassed
    BY FirstUsedIs DEF AllPassed
  <2> QED
    BY <1>14, <2>1 DEF Stop, TypeOK
<1> QED
  BY <1>1, <1>2, <1>3, <1>4, <1>5, <1>6, <1>7, <1>8, <1>9, <1>10, <1>11, <1>12, <1>13,
     <1>14 DEF UiStep

-----------------------------------------------------------------------------
(* The invariant, first under the steps of the threads.                    *)

LEMMA ThreadKeeps ==
  ASSUME TypeOK, QuietInv, NEW o \in Used, ThreadAction(o)
  PROVE  QuietInv'
<1> USE DEF uiVars
<1>0. o \in Devices /\ pc \in [Devices -> PCs] /\ Serial \in Devices
  BY ConstantsAssumption DEF ConstantsAssumption, TypeOK, Devices
<1>1. PICK there : ThreadStep(o, there)
  BY <1>0, ThreadSteps
<1>2. /\ pc' = [pc EXCEPT ![o] = there]
      /\ pc[o] \in Over => there \in Over
      /\ \A p \in Devices : pc'[p] = IF p = o THEN there ELSE pc[p]
      /\ UNCHANGED <<late, working, ui, job, at, starts, killed, handleLost>>
  BY <1>0, <1>1 DEF ThreadStep
<1>3. AtUsed'
  <2>1. ui = "create" /\ pc[Serial] = "none" /\ o = Serial => pc'[Serial] = "none"
    BY <1>1 DEF ThreadStep
  <2> QED
    BY <1>0, <1>2, <2>1 DEF QuietInv, AtUsed, Here
<1>4. StoppedAreOver'
  <2> SUFFICES ASSUME NEW i \in 1..3, Order(job)[i] \notin handleLost, IsStopped(i)
               PROVE  pc'[Order(job)[i]] \in Over
    BY <1>2 DEF StoppedAreOver, IsStopped
  <2>1. pc[Order(job)[i]] \in Over /\ Order(job)[i] \in Devices
    BY OrderIs DEF QuietInv, StoppedAreOver
  <2> QED
    BY <1>2, <2>1
<1>5. HandleKnown'
  <2> SUFFICES ASSUME NEW p \in Devices \ handleLost
               PROVE  pc'[p] \in Over \/ hThread'[p] = "open" \/ (ui = "assign" /\ Here = p)
    BY <1>2 DEF HandleKnown, Here
  <2>1. pc[p] \in Over \/ hThread[p] = "open" \/ (ui = "assign" /\ Here = p)
    BY DEF QuietInv, HandleKnown
  <2>2. there \in Over \/ hThread' = hThread
    BY <1>1 DEF ThreadStep
  <2>3. p # o => hThread'[p] = hThread[p]
    BY <1>1 DEF ThreadStep
  <2> QED
    BY <1>2, <2>1, <2>2, <2>3
<1>6. UnusedIdle'
  BY <1>2 DEF QuietInv, UnusedIdle
<1>7. LockHeld'
  <2>1. \/ lockOwner' = lockOwner /\ pc[o] # "append"
        \/ lockOwner' = o /\ there = "append"
        \/ lockOwner' = Nobody
    BY <1>1 DEF ThreadStep
  <2>2. \A p \in Devices : p # Nobody
    BY DEF Devices, Adb, Logcat, Ps, Serial, Nobody
  <2> QED
    BY <1>2, <2>1, <2>2 DEF QuietInv, LockHeld
<1>8. SerialAlone'
  BY <1>2 DEF QuietInv, SerialAlone
<1>9. PortInLoop'
  <2> SUFFICES ASSUME port' = "this"
               PROVE  \/ pc'[Serial] \in InLoop
                      \/ Serial \in killed /\ ui = "stopped" /\ job = "stop" /\ Here = Serial
    BY <1>2 DEF PortInLoop, Here
  <2>1. \/ o = Serial /\ there \in InLoop
        \/ port = "this" /\ (o = Serial => pc[o] \notin InLoop)
    BY <1>1 DEF ThreadStep
  <2> QED
    BY <1>0, <1>2, <2>1 DEF QuietInv, PortInLoop
<1> QED
  BY <1>3, <1>4, <1>5, <1>6, <1>7, <1>8, <1>9 DEF QuietInv

LEMMA ForgetHandleLateKeeps ==
  ASSUME TypeOK, QuietInv, NEW o \in Used, ForgetHandleLate(o)
  PROVE  QuietInv'
<1> USE DEF uiVars, deviceVars
<1>1. /\ o \in Devices /\ late[o] /\ late' = [late EXCEPT ![o] = FALSE]
      /\ hThread' = [hThread EXCEPT ![o] = "null"]
      /\ handleLost' = IF hThread[o] = "open" THEN handleLost \cup {o} ELSE handleLost
      /\ UNCHANGED <<bWorking, pc, stream, port, lockOwner, working, ui, job, at, starts, killed>>
  BY ConstantsAssumption DEF ConstantsAssumption, ForgetHandleLate
<1>2. o # Serial /\ handleLost \subseteq handleLost'
  BY <1>1 DEF QuietInv, SerialAlone
<1>3. AtUsed'
  BY <1>1 DEF QuietInv, AtUsed, Here
<1>4. StoppedAreOver'
  BY <1>1, <1>2 DEF QuietInv, StoppedAreOver, IsStopped
<1>5. HandleKnown'
  <2> SUFFICES ASSUME NEW p \in Devices, p \notin handleLost'
               PROVE  pc[p] \in Over \/ hThread'[p] = "open" \/ (ui = "assign" /\ Here = p)
    BY <1>1 DEF HandleKnown, Here
  <2>1. pc[p] \in Over \/ hThread[p] = "open" \/ (ui = "assign" /\ Here = p)
    BY <1>2 DEF QuietInv, HandleKnown
  <2>2. p = o => hThread[p] # "open"
    BY <1>1
  <2> QED
    BY <1>1, <2>1, <2>2 DEF TypeOK
<1>6. UnusedIdle'
  BY <1>1 DEF QuietInv, UnusedIdle
<1>7. LockHeld'
  BY <1>1, <1>2 DEF QuietInv, LockHeld
<1>8. SerialAlone'
  <2>0. late'[Serial] = late[Serial]
    BY <1>1, <1>2 DEF TypeOK, Devices
  <2>1. ~late'[Serial]
    BY <2>0, Zenon DEF QuietInv, SerialAlone
  <2>2. Serial \notin handleLost'
    BY <1>1, <1>2 DEF QuietInv, SerialAlone
  <2> QED
    BY <2>1, <2>2 DEF SerialAlone
<1>9. PortInLoop'
  BY <1>1 DEF QuietInv, PortInLoop, Here
<1> QED
  BY <1>3, <1>4, <1>5, <1>6, <1>7, <1>8, <1>9 DEF QuietInv

-----------------------------------------------------------------------------
(* Steps of the UI thread that leave the threads alone.                     *)

(* Only the place of the UI thread, the port or flags change.               *)
QuietUiStep ==
  /\ UNCHANGED <<hThread, late, pc, lockOwner, job, killed, handleLost>>
  /\ port' = "this" => port = "this"

LEMMA QuietUiKeeps ==
  ASSUME QuietInv, QuietUiStep, ui # "assign"
  PROVE  HandleKnown' /\ UnusedIdle' /\ LockHeld' /\ SerialAlone'
BY DEF QuietInv, QuietUiStep, HandleKnown, UnusedIdle, LockHeld, SerialAlone

(* A step on the way to the end of the wait for the device.                 *)
LEMMA WaitingKeeps ==
  ASSUME TypeOK, QuietInv, QuietUiStep, at' = at, at # AllPassed,
         ui \in {"next", "terminate", "look", "wait"},
         ui' \in {"terminate", "look", "wait", "stopped"},
         job = "stop" \/ Here # Serial,
         ui' = "stopped" => Here \in handleLost \/ pc[Here] \in Over
  PROVE  QuietInv'
<1>1. job' = job /\ Here' = Here /\ pc' = pc /\ handleLost' = handleLost
  BY DEF QuietUiStep, Here
<1>2. AtUsed'
  BY <1>1 DEF QuietInv, AtUsed
<1>3. StoppedAreOver'
  <2> SUFFICES ASSUME NEW i \in 1..3, Order(job)[i] \notin handleLost, IsStopped(i)'
               PROVE  pc[Order(job)[i]] \in Over
    BY <1>1 DEF StoppedAreOver
  <2>1. IsStopped(i) \/ (i = at /\ ui' = "stopped")
    BY <1>1 DEF IsStopped
  <2> QED
    BY <2>1 DEF QuietInv, StoppedAreOver, Here
<1>4. PortInLoop'
  BY <1>1 DEF QuietInv, PortInLoop, QuietUiStep
<1> QED
  BY <1>2, <1>3, <1>4, QuietUiKeeps DEF QuietInv

(* The step to the next device that is used.                                *)
LEMMA NextDeviceKeeps ==
  ASSUME TypeOK, QuietInv, QuietUiStep, at # AllPassed,
         \/ ui = "stopped" /\ job = "stop" /\ (Here = Serial => port' # "this")
         \/ ui = "started" /\ job = "start",
         ui' = "next", at' = FirstUsed(job, at + 1)
  PROVE  QuietInv'
<1>1. job' = job /\ pc' = pc /\ handleLost' = handleLost /\ at \in 1..3 /\ job \in {"start", "stop"}
  BY DEF QuietUiStep, TypeOK, AllPassed
<1>2. /\ at' \in (at + 1)..AllPassed
      /\ at' = AllPassed \/ Order(job)[at'] \in Used
      /\ \A i \in (at + 1)..(at' - 1) : Order(job)[i] \notin Used
  <2>1. PICK k : k = FirstUsed(job, at + 1)
    OBVIOUS
  <2>2. at + 1 \in 1..AllPassed
    BY <1>1 DEF AllPassed
  <2>3. /\ k \in (at + 1)..AllPassed
        /\ k = AllPassed \/ Order(job)[k] \in Used
        /\ \A i \in (at + 1)..(k - 1) : Order(job)[i] \notin Used
    BY <2>1, <2>2, FirstUsedIs
  <2> QED
    BY <2>1, <2>3
<1>3. AtUsed'
  BY <1>1, <1>2 DEF AtUsed, Here
<1>4. StoppedAreOver'
  <2> SUFFICES ASSUME NEW i \in 1..3, Order(job)[i] \notin handleLost, IsStopped(i)'
               PROVE  pc[Order(job)[i]] \in Over
    BY <1>1 DEF StoppedAreOver
  <2>1. CASE IsStopped(i)
    BY <2>1 DEF QuietInv, StoppedAreOver
  <2>2. CASE ~IsStopped(i)
    <3>1. i \in (at + 1)..(at' - 1)
      BY <1>1, <1>2, <2>2 DEF IsStopped, AllPassed
    <3>2. Order(job)[i] \in Devices \ Used
      BY <1>2, <3>1, OrderIs
    <3> QED
      BY <3>2 DEF QuietInv, UnusedIdle, Over
  <2> QED
    BY <2>1, <2>2
<1>5. PortInLoop'
  BY <1>1 DEF QuietInv, PortInLoop, QuietUiStep
<1> QED
  BY <1>3, <1>4, <1>5, QuietUiKeeps DEF QuietInv

(* A step to or from the times when no device is being started or stopped.   *)
LEMMA RestKeeps ==
  ASSUME TypeOK, QuietInv, QuietUiStep,
         \/ ui = "next" /\ at = AllPassed /\ ui' = IF job = "start" THEN "run" ELSE "archive"
         \/ ui = "archive" /\ ui' = "off",
         at' = at
  PROVE  QuietInv'
<1>1. /\ job' = job /\ pc' = pc /\ handleLost' = handleLost /\ Here' = Here
      /\ at \in 1..AllPassed /\ job \in {"start", "stop"}
  BY DEF QuietUiStep, TypeOK, Here
<1>2. AtUsed'
  BY <1>1 DEF AtUsed
<1>3. StoppedAreOver'
  <2> SUFFICES ASSUME NEW i \in 1..3, Order(job)[i] \notin handleLost, IsStopped(i)'
               PROVE  pc[Order(job)[i]] \in Over
    BY <1>1 DEF StoppedAreOver
  <2>1. IsStopped(i)
    BY <1>1 DEF IsStopped, AllPassed
  <2> QED
    BY <2>1 DEF QuietInv, StoppedAreOver
<1>4. PortInLoop'
  BY <1>1 DEF QuietInv, PortInLoop, QuietUiStep
<1> QED
  BY <1>2, <1>3, <1>4, QuietUiKeeps DEF QuietInv

(* start() and stop() take up their own order.                              *)
LEMMA StartKeeps ==
  ASSUME TypeOK, QuietInv, Start
  PROVE  QuietInv'
<1>1. /\ ui = "off" /\ ui' = "next" /\ job' = "start" /\ at' = FirstUsed("start", 1)
      /\ UNCHANGED <<hThread, late, pc, port, lockOwner, killed, handleLost>>
  BY DEF Start, wtVars, deviceVars
<1>2. at' = AllPassed \/ Order("start")[at'] \in Used
  BY <1>1, FirstUsedIs DEF AllPassed
<1>3. AtUsed'
  BY <1>1, <1>2 DEF AtUsed, Here
<1>4. StoppedAreOver'
  <2> SUFFICES ASSUME NEW o \in Devices \ handleLost
               PROVE  pc[o] \in Over
    BY <1>1, OrderIs DEF StoppedAreOver
  <2>1. PICK i \in 1..3 : Order(job)[i] = o
    BY OrderIs
  <2> QED
    BY <1>1, <2>1 DEF QuietInv, StoppedAreOver, IsStopped
<1>5. HandleKnown' /\ UnusedIdle' /\ LockHeld' /\ SerialAlone' /\ PortInLoop'
  BY <1>1 DEF QuietInv, HandleKnown, UnusedIdle, LockHeld, SerialAlone, PortInLoop
<1> QED
  BY <1>3, <1>4, <1>5 DEF QuietInv

LEMMA StopKeeps ==
  ASSUME TypeOK, QuietInv, Stop
  PROVE  QuietInv'
<1>1. /\ ui = "run" /\ ui' = "next" /\ job' = "stop" /\ at' = FirstUsed("stop", 1)
      /\ UNCHANGED <<hThread, late, pc, port, lockOwner, handleLost>>
  BY DEF Stop, wtVars, deviceVars
<1>2. /\ at' \in 1..AllPassed
      /\ at' = AllPassed \/ Order("stop")[at'] \in Used
      /\ \A i \in 1..(at' - 1) : Order("stop")[i] \notin Used
  <2>1. PICK k : k = FirstUsed("stop", 1)
    OBVIOUS
  <2>2. /\ k \in 1..AllPassed
        /\ k = AllPassed \/ Order("stop")[k] \in Used
        /\ \A i \in 1..(k - 1) : Order("stop")[i] \notin Used
    BY <2>1, FirstUsedIs DEF AllPassed
  <2> QED
    BY <1>1, <2>1, <2>2
<1>3. AtUsed'
  BY <1>1, <1>2 DEF AtUsed, Here
<1>4. StoppedAreOver'
  <2> SUFFICES ASSUME NEW i \in 1..3, IsStopped(i)'
               PROVE  pc[Order("stop")[i]] \in Over
    BY <1>1 DEF StoppedAreOver
  <2>1. i \in 1..(at' - 1)
    BY <1>1, <1>2 DEF IsStopped, AllPassed
  <2>2. Order("stop")[i] \in Devices \ Used
    BY <1>2, <2>1, OrderIs
  <2> QED
    BY <2>2 DEF QuietInv, UnusedIdle, Over
<1>5. HandleKnown' /\ UnusedIdle' /\ LockHeld' /\ SerialAlone' /\ PortInLoop'
  BY <1>1 DEF QuietInv, HandleKnown, UnusedIdle, LockHeld, SerialAlone, PortInLoop
<1> QED
  BY <1>3, <1>4, <1>5 DEF QuietInv

-----------------------------------------------------------------------------
(* Steps of the UI thread that change where a thread is.                    *)

(* The device the UI thread starts is stopped.                              *)
LEMMA StartedIsOver ==
  ASSUME TypeOK, QuietInv, at # AllPassed, job = "start",
         ui \in {"next", "create", "stopped"}, Here \notin handleLost
  PROVE  pc[Here] \in Over
BY DEF TypeOK, QuietInv, StoppedAreOver, IsStopped, Here, AllPassed

LEMMA NewSerialKeeps ==
  ASSUME TypeOK, QuietInv, NewSerial
  PROVE  QuietInv'
<1>1. /\ ui = "next" /\ job = "start" /\ at # AllPassed /\ Here = Serial /\ ui' = "create"
      /\ pc' = [pc EXCEPT ![Serial] = "none"]
      /\ hThread' = [hThread EXCEPT ![Serial] = "null"]
      /\ UNCHANGED <<late, port, lockOwner, job, at, killed, handleLost>>
  BY DEF NewSerial, deviceVars, Goto
<1>2. Serial \in Devices /\ Serial \notin handleLost /\ pc[Serial] \in Over
  BY <1>1, StartedIsOver DEF Devices, QuietInv, SerialAlone
<1>3. Here' = Serial /\ pc'[Serial] = "none"
      /\ \A o \in Devices \ {Serial} : pc'[o] = pc[o] /\ hThread'[o] = hThread[o]
  BY <1>1, <1>2 DEF TypeOK, Here
<1>4. AtUsed'
  <2>1. Here \in Used
    BY <1>1 DEF QuietInv, AtUsed
  <2> QED
    BY <1>1, <1>3, <2>1 DEF AtUsed
<1>5. StoppedAreOver'
  <2> SUFFICES ASSUME NEW i \in 1..3, Order(job)[i] \notin handleLost, IsStopped(i)'
               PROVE  pc'[Order(job)[i]] \in Over
    BY <1>1 DEF StoppedAreOver
  <2>1. IsStopped(i) /\ Order(job)[i] \in Devices
    BY <1>1, OrderIs DEF IsStopped
  <2> QED
    BY <1>3, <2>1 DEF QuietInv, StoppedAreOver, Over
<1>6. HandleKnown'
  BY <1>1, <1>3 DEF QuietInv, HandleKnown, Over
<1>7. UnusedIdle'
  BY <1>3 DEF QuietInv, UnusedIdle
<1>8. LockHeld'
  <2>1. lockOwner # Serial
    BY <1>2 DEF QuietInv, LockHeld, Over
  <2> QED
    BY <1>1, <1>3, <2>1 DEF QuietInv, LockHeld
<1>9. SerialAlone'
  BY <1>1 DEF QuietInv, SerialAlone
<1>10. PortInLoop'
  BY <1>1, <1>2 DEF QuietInv, PortInLoop, Over, InLoop
<1> QED
  BY <1>4, <1>5, <1>6, <1>7, <1>8, <1>9, <1>10 DEF QuietInv

LEMMA KillKeeps ==
  ASSUME TypeOK, QuietInv, Kill
  PROVE  QuietInv'
<1>1. /\ ui = "wait" /\ ui' = "stopped" /\ Blocked(Here)
      /\ pc' = [pc EXCEPT ![Here] = "dead"]
      /\ hThread' = [hThread EXCEPT ![Here] = "null"]
      /\ killed' = killed \cup {Here}
      /\ UNCHANGED <<late, port, lockOwner, job, at, handleLost>>
  BY DEF Kill, deviceVars, Goto
<1>2. at \in 1..3 /\ at # AllPassed /\ Here \in Used /\ Here \in Devices
  BY <1>1, HereIsDevice DEF QuietInv, AtUsed
<1>3. Here' = Here /\ pc'[Here] = "dead" /\ pc[Here] # "append"
      /\ \A o \in Devices \ {Here} : pc'[o] = pc[o] /\ hThread'[o] = hThread[o]
  BY <1>1, <1>2 DEF TypeOK, Here, Blocked
<1>4. AtUsed'
  BY <1>1, <1>2, <1>3 DEF QuietInv, AtUsed
<1>5. StoppedAreOver'
  <2> SUFFICES ASSUME NEW i \in 1..3, Order(job)[i] \notin handleLost, IsStopped(i)'
               PROVE  pc'[Order(job)[i]] \in Over
    BY <1>1 DEF StoppedAreOver
  <2>1. (IsStopped(i) \/ i = at) /\ Order(job)[i] \in Devices
    BY <1>1, OrderIs DEF IsStopped
  <2> QED
    BY <1>3, <2>1 DEF QuietInv, StoppedAreOver, Over, Here
<1>6. HandleKnown'
  BY <1>1, <1>3 DEF QuietInv, HandleKnown, Over
<1>7. UnusedIdle'
  BY <1>2, <1>3 DEF QuietInv, UnusedIdle
<1>8. LockHeld'
  BY <1>1, <1>3 DEF QuietInv, LockHeld
<1>9. SerialAlone'
  BY <1>1 DEF QuietInv, SerialAlone
<1>10. PortInLoop'
  <2>1. Serial \in Devices /\ (Here = Serial => job = "stop")
    BY <1>1 DEF QuietInv, AtUsed, Devices
  <2> QED
    BY <1>1, <1>3, <2>1 DEF QuietInv, PortInLoop
<1> QED
  BY <1>4, <1>5, <1>6, <1>7, <1>8, <1>9, <1>10 DEF QuietInv

LEMMA CreateKeeps ==
  ASSUME TypeOK, QuietInv, Create
  PROVE  QuietInv'
<1>1. /\ ui = "create" \/ (ui = "stopped" /\ job = "start")
      /\ late' = [late EXCEPT ![Here] = @ \/ pc[Here] = "exit"]
      /\ pc' = [pc EXCEPT ![Here] = "starting"]
      /\ ui' = "assign"
      /\ UNCHANGED <<hThread, port, lockOwner, job, at, killed, handleLost>>
  BY DEF Create, deviceVars, Goto
<1>2. /\ at \in 1..3 /\ at # AllPassed /\ Here \in Used /\ Here \in Devices /\ job = "start"
      /\ Here = Serial => ui = "create" /\ pc[Serial] = "none"
  BY <1>1, HereIsDevice DEF QuietInv, AtUsed
<1>3. /\ Here' = Here /\ pc'[Here] = "starting"
      /\ \A o \in Devices \ {Here} : pc'[o] = pc[o] /\ late'[o] = late[o]
  BY <1>1, <1>2 DEF TypeOK, Here
<1>4. AtUsed'
  BY <1>1, <1>2, <1>3 DEF AtUsed
<1>5. StoppedAreOver'
  <2> SUFFICES ASSUME NEW i \in 1..3, Order(job)[i] \notin handleLost, IsStopped(i)'
               PROVE  pc'[Order(job)[i]] \in Over
    BY <1>1 DEF StoppedAreOver
  <2>1. IsStopped(i) /\ i # at /\ Order(job)[i] \in Devices
    BY <1>1, <1>2, OrderIs DEF IsStopped
  <2>2. Order(job)[i] # Here
    BY <1>2, <2>1, OrderIs DEF Here
  <2> QED
    BY <1>3, <2>1, <2>2 DEF QuietInv, StoppedAreOver
<1>6. HandleKnown'
  BY <1>1, <1>3 DEF QuietInv, HandleKnown
<1>7. UnusedIdle'
  BY <1>2, <1>3 DEF QuietInv, UnusedIdle
<1>8. LockHeld'
  <2>1. Here \in handleLost \/ lockOwner # Here
    BY <1>1, <1>2, StartedIsOver DEF QuietInv, LockHeld, Over
  <2> QED
    BY <1>1, <1>3, <2>1 DEF QuietInv, LockHeld
<1>9. SerialAlone'
  <2>1. Serial \in Devices
    BY DEF Devices
  <2>2. ~late'[Serial]
    BY <1>1, <1>2, <1>3, <2>1 DEF TypeOK, QuietInv, SerialAlone
  <2> QED
    BY <1>1, <2>2 DEF QuietInv, SerialAlone
<1>10. PortInLoop'
  <2>1. Serial \in Devices
    BY DEF Devices
  <2> QED
    BY <1>1, <1>2, <1>3, <2>1 DEF QuietInv, PortInLoop, InLoop
<1> QED
  BY <1>4, <1>5, <1>6, <1>7, <1>8, <1>9, <1>10 DEF QuietInv

LEMMA AssignKeeps ==
  ASSUME TypeOK, QuietInv, Assign
  PROVE  QuietInv'
<1>1. /\ ui = "assign" /\ ui' = "started"
      /\ hThread' = [hThread EXCEPT ![Here] = "open"]
      /\ UNCHANGED <<late, pc, port, lockOwner, job, at, killed, handleLost>>
  BY DEF Assign, deviceVars
<1>2. /\ Here' = Here
      /\ \A o \in Devices : hThread'[o] = IF o = Here THEN "open" ELSE hThread[o]
  BY <1>1 DEF TypeOK, Here
<1>3. AtUsed'
  BY <1>1, <1>2 DEF QuietInv, AtUsed
<1>4. StoppedAreOver'
  BY <1>1 DEF QuietInv, StoppedAreOver, IsStopped
<1>5. HandleKnown'
  BY <1>1, <1>2 DEF QuietInv, HandleKnown
<1>6. UnusedIdle' /\ LockHeld' /\ SerialAlone' /\ PortInLoop'
  BY <1>1 DEF QuietInv, UnusedIdle, LockHeld, SerialAlone, PortInLoop
<1> QED
  BY <1>3, <1>4, <1>5, <1>6 DEF QuietInv

-----------------------------------------------------------------------------
LEMMA UiKeeps ==
  ASSUME TypeOK, QuietInv, UiStep
  PROVE  QuietInv'
<1> USE DEF wtVars, deviceVars, QuietUiStep
<1>1. CASE StopWork
  BY <1>1, WaitingKeeps DEF StopWork
<1>2. CASE Terminate
  <2>1. QuietUiStep
    BY <1>2 DEF Terminate, ClosedPort
  <2>2. at # AllPassed /\ (job = "stop" \/ Here # Serial)
    BY <1>2 DEF QuietInv, AtUsed, Terminate
  <2> QED
    BY <1>2, <2>1, <2>2, WaitingKeeps DEF Terminate
<1>3. CASE Wait
  <2>1. at # AllPassed /\ (job = "stop" \/ Here # Serial)
    BY <1>3 DEF QuietInv, AtUsed, Wait
  <2> QED
    BY <1>3, <2>1, WaitingKeeps DEF Wait
<1>4. CASE Waited
  <2>1. at # AllPassed /\ (job = "stop" \/ Here # Serial) /\ ui \in {"look", "wait"}
    BY <1>4 DEF QuietInv, AtUsed, Waited
  <2>2. Here \in Devices
    BY <2>1, HereIsDevice DEF QuietInv
  <2>3. Here \in handleLost \/ pc[Here] \in Over
    BY <1>4, <2>1, <2>2 DEF QuietInv, HandleKnown, Waited, Over
  <2> QED
    BY <1>4, <2>1, <2>3, WaitingKeeps DEF Waited
<1>5. CASE Stopped
  <2>1. at # AllPassed
    BY <1>5 DEF QuietInv, AtUsed, Stopped
  <2> QED
    BY <1>5, <2>1, NextDeviceKeeps DEF Stopped
<1>6. CASE Started
  <2>1. at # AllPassed /\ job = "start"
    BY <1>6 DEF QuietInv, AtUsed, Started
  <2> QED
    BY <1>6, <2>1, NextDeviceKeeps DEF Started
<1>7. CASE AllDone
  BY <1>7, RestKeeps DEF AllDone
<1>8. CASE UseArchive
  BY <1>8, RestKeeps DEF UseArchive
<1> QED
  BY <1>1, <1>2, <1>3, <1>4, <1>5, <1>6, <1>7, <1>8, NewSerialKeeps, KillKeeps, CreateKeeps,
     AssignKeeps DEF UiStep

-----------------------------------------------------------------------------
LEMMA InitIsQuiet == Init => TypeOK /\ QuietInv
<1> SUFFICES ASSUME Init PROVE TypeOK /\ QuietInv
  OBVIOUS
<1>1. TypeOK
  <2>1. {bWorking, late} \subseteq [Devices -> BOOLEAN] /\ working \in BOOLEAN
    BY DEF Init
  <2>2. 0 \in 0..MaxStarts /\ AllPassed \in 1..AllPassed
    BY ConstantsAssumption DEF ConstantsAssumption, AllPassed
  <2> QED
    BY <2>1, <2>2 DEF Init, TypeOK, PCs, Over
<1>2. StoppedAreOver /\ HandleKnown /\ UnusedIdle
  BY OrderIs DEF Init, StoppedAreOver, HandleKnown, UnusedIdle, Over
<1>3. AtUsed /\ LockHeld /\ SerialAlone /\ PortInLoop
  BY DEF Init, AtUsed, LockHeld, SerialAlone, PortInLoop, Nobody, Devices, Adb, Logcat, Ps, Serial
<1> QED
  BY <1>1, <1>2, <1>3 DEF QuietInv

LEMMA StepKeeps == TypeOK /\ QuietInv /\ [Next]_vars => (TypeOK /\ QuietInv)'
<1> SUFFICES ASSUME TypeOK, QuietInv, [Next]_vars PROVE (TypeOK /\ QuietInv)'
  OBVIOUS
<1>1. CASE Start \/ Stop \/ UiStep
  BY <1>1, UiTypes, StartKeeps, StopKeeps, UiKeeps DEF QuietInv
<1>2. ASSUME NEW o \in Used, Outside(o) \/ Thread(o) PROVE (TypeOK /\ QuietInv)'
  <2>1. o \in Devices /\ (ThreadAction(o) \/ ForgetHandleLate(o))
    BY <1>2, ThreadActions, ConstantsAssumption DEF ConstantsAssumption
  <2> QED
    BY <2>1, ThreadTypes, ThreadKeeps, ForgetHandleLateKeeps
<1>3. CASE UNCHANGED vars
  <2> USE <1>3 DEF vars, wtVars, deviceVars, uiVars
  <2>1. TypeOK'
    BY DEF TypeOK
  <2>2. AtUsed' /\ StoppedAreOver' /\ PortInLoop'
    BY DEF QuietInv, AtUsed, StoppedAreOver, IsStopped, PortInLoop, Here
  <2>3. HandleKnown' /\ UnusedIdle' /\ LockHeld' /\ SerialAlone'
    BY DEF QuietInv, HandleKnown, UnusedIdle, LockHeld, SerialAlone, Here
  <2> QED
    BY <2>1, <2>2, <2>3 DEF QuietInv
<1> QED
  BY <1>1, <1>2, <1>3 DEF Next

LEMMA AlwaysQuiet == Spec => [](TypeOK /\ QuietInv)
BY InitIsQuiet, StepKeeps, PTL DEF Spec

(* When stop() has returned, and while the archive is cleared or paused     *)
(* without the lock, no thread of a device is in Work or holds the lock,     *)
(* unless the handle of its object was overwritten by the thread before it.  *)
THEOREM DevicesAreQuiet == Spec => []QuietDevices
<1>1. TypeOK /\ QuietInv => QuietDevices
  <2> SUFFICES ASSUME TypeOK, QuietInv, ui \in {"archive", "off"}, NEW o \in Devices \ handleLost
               PROVE  pc[o] \in Over /\ lockOwner # o
    BY DEF QuietDevices
  <2>1. PICK i \in 1..3 : Order(job)[i] = o
    BY OrderIs
  <2>2. pc[o] \in Over
    BY <2>1 DEF QuietInv, StoppedAreOver, IsStopped
  <2> QED
    BY <2>2 DEF QuietInv, LockHeld, Over
<1> QED
  BY <1>1, AlwaysQuiet, PTL

(* A port is left open for good only by a thread the stop had to kill:       *)
(* every other thread of the port has closed it before stop() deletes it.    *)
THEOREM PortIsFreed == Spec => PortFreed
<1>1. TypeOK /\ QuietInv /\ [Next]_vars => [OnlyKilledLeak]_vars
  <2> SUFFICES ASSUME TypeOK, QuietInv, Next, port' = "leaked", port # "leaked"
               PROVE  Serial \in killed
    BY DEF OnlyKilledLeak
  <2>1. CASE Stopped
    <3>1. /\ Here = Serial /\ port = "this" /\ ui = "stopped" /\ job = "stop"
      BY <2>1 DEF Stopped
    <3>2. pc[Serial] \in Over
      <4>1. at \in 1..3
        BY <3>1, HereIsDevice DEF QuietInv, AtUsed
      <4> QED
        BY <3>1, <4>1 DEF QuietInv, StoppedAreOver, IsStopped, SerialAlone, Here
    <3> QED
      BY <3>1, <3>2 DEF QuietInv, PortInLoop, Over, InLoop
  <2>2. CASE Start \/ Stop \/ (UiStep /\ ~Stopped)
    <3> USE DEF deviceVars, ClosedPort
    <3>1. CASE Terminate
      BY <3>1 DEF Terminate
    <3>2. CASE Start \/ Stop \/ NewSerial \/ StopWork \/ Wait \/ Waited \/ Kill
      BY <3>2 DEF Start, Stop, NewSerial, StopWork, Wait, Waited, Kill
    <3>3. CASE Create \/ Assign \/ Started \/ AllDone \/ UseArchive
      BY <3>3 DEF Create, Assign, Started, AllDone, UseArchive
    <3> QED
      BY <2>2, <3>1, <3>2, <3>3 DEF UiStep
  <2>3. ASSUME NEW o \in Used, ThreadAction(o) \/ ForgetHandleLate(o) PROVE FALSE
    <3> USE DEF deviceVars, quiet, ClosedPort
    <3>1. CASE Begin(o) \/ Loop(o) \/ Leave(o) \/ CloseOwnHandle(o) \/ ForgetOwnHandle(o)
      BY <3>1 DEF Begin, Loop, Leave, CloseOwnHandle, ForgetOwnHandle
    <3>2. CASE Connect(o) \/ Answer(o) \/ StreamOver(o) \/ AdbDone(o) \/ Named(o)
      BY <3>2 DEF Connect, Answer, StreamOver, AdbDone, Named
    <3>3. CASE FlowAppended(o) \/ Sleep(o) \/ Lock(o) \/ Unlock(o) \/ CommandDone(o) \/ AdbData(o)
      BY <3>3 DEF FlowAppended, Sleep, Lock, Unlock, CommandDone, AdbData
    <3>4. CASE OpenPort \/ SerialClosed \/ SerialData \/ SerialFails \/ ForgetHandleLate(o)
      BY <3>4 DEF OpenPort, SerialClosed, SerialData, SerialFails, ForgetHandleLate
    <3> QED
      BY <2>3, <3>1, <3>2, <3>3, <3>4 DEF ThreadAction
  <2> QED
    BY <2>1, <2>2, <2>3, ThreadActions DEF Next
<1> QED
  BY <1>1, AlwaysQuiet, PTL DEF Spec, PortFreed
=============================================================================
