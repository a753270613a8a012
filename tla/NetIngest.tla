------------------------------ MODULE NetIngest -----------------------------
(***************************************************************************)
(* How UDP packs become records: UdpThread::Work (LogReceiverNet.cpp),     *)
(* RecordNetPack (LogRecorder.cpp), the numbering checks of                *)
(* Archive::appendRec and the pausing and clearing of the log by the UI    *)
(* thread (MainFrm.cpp, LogReceiver.cpp).                                  *)
(*                                                                         *)
(* A pack carries consecutive records of one application.  The receiver    *)
(* acknowledges a pack BEFORE it records it, tells a repeated pack by its  *)
(* number (pack_nn) and counts lost records by the numbers of the records  *)
(* (nn).  The applications are not in src/: they send packs in order, and  *)
(* those that use retries repeat a pack until it is acknowledged or they   *)
(* give it up.  The network loses, delays, reorders and repeats datagrams. *)
(***************************************************************************)
EXTENDS Integers, Sequences, FiniteSets

CONSTANTS
  Apps,         \* applications; every one has a pid of its own
  Retrying,     \* those whose packs have retry_count > 0
  MaxPacks,     \* packs an application sends (bounds the model)
  PackSize,     \* records in a pack
  MaxRecorded,  \* records kept of an application (bounds the model)
  MaxStops,     \* times the user stops the receiver (bounds the model)
  Occurs        \* which of Events the instance lets happen

(* An application runs out of retries, a socket call fails, a pack holds a  *)
(* record that is not valid, the user clears the log.                      *)
Events == {"giveup", "socket", "invalid", "clear"}

ASSUME ConstantsAssumption ==
  /\ Apps # {}
  /\ Retrying \subseteq Apps
  /\ MaxPacks \in Nat
  /\ PackSize \in Nat \ {0}
  /\ MaxRecorded \in Nat
  /\ MaxStops \in Nat
  /\ Occurs \subseteq Events

VARIABLES
  cur,         \* the pack an application is sending
  acked,       \* the packs whose acknowledgement it saw in time
  net,         \* packs under way: sending one twice leaves one or two copies
  acks,        \* acknowledgements under way
  status,      \* "on", "stopping" while stop() waits for the thread, "off"
  pc,          \* where UdpThread::Work is
  hand,        \* the pack it holds: its application and its records next..last
  packNN,      \* info.pack_nn of that pack
  lastPackNN,  \* APP_NODE::lastPackNN
  lastRecNN,   \* APP_NODE::lastRecNN
  lost,        \* APP_NODE::lost
  recorded,    \* the numbers of the records in the archive, in their order
  breaks,      \* how many of them there were at each pause
  stops        \* times stopped so far

senderVars  == <<cur, acked>>
wireVars    == <<net, acks>>
threadVars  == <<pc, hand, packNN>>
archiveVars == <<lastPackNN, lastRecNN, lost, recorded>>
uiVars      == <<status, breaks, stops>>
vars        == <<senderVars, wireVars, threadVars, archiveVars, uiVars>>

INFINITE == 0   \* a DWORD no record is numbered with; records count from 1
Packs    == 1..MaxPacks
First(k) == (k - 1) * PackSize + 1
Last(k)  == k * PackSize
Recs     == 1..Last(MaxPacks)

Datagram == [app : Apps, pack : Packs]
NoPack   == [app |-> CHOOSE a \in Apps : TRUE, next |-> 1, last |-> 0]

TypeOK ==
  /\ cur \in [Apps -> 1..(MaxPacks + 1)]
  /\ acked \in [Apps -> SUBSET Packs]
  /\ net \subseteq Datagram
  /\ acks \subseteq Datagram
  /\ status \in {"on", "stopping", "off"}
  /\ pc \in {"receive", "ack", "record", "ended"}
  /\ hand \in [app : Apps, next : Nat, last : Nat]
  /\ packNN \in (-MaxPacks)..MaxPacks
  /\ lastPackNN \in [Apps -> -1..MaxPacks]
  /\ lastRecNN \in [Apps -> Recs \cup {INFINITE}]
  /\ lost \in [Apps -> Nat]
  /\ recorded \in [Apps -> Seq(Recs)]
  /\ breaks \in [Apps -> SUBSET Nat]
  /\ stops \in 0..MaxStops

Init ==
  /\ cur = [a \in Apps |-> 1]
  /\ acked = [a \in Apps |-> {}]
  /\ net = {} /\ acks = {}
  /\ status = "on" /\ stops = 0
  /\ pc = "receive" /\ hand = NoPack /\ packNN = 0
  /\ lastPackNN = [a \in Apps |-> -1]
  /\ lastRecNN = [a \in Apps |-> INFINITE]
  /\ lost = [a \in Apps |-> 0]
  /\ recorded = [a \in Apps |-> << >>]
  /\ breaks = [a \in Apps |-> {}]

-----------------------------------------------------------------------------
(* The applications and the network, both outside src/.                    *)

(* Sends the current pack, for the first time or again.  Without retries    *)
(* the application goes on to the next one.                                *)
Send(a) ==
  /\ cur[a] \in Packs
  /\ net' = net \cup {[app |-> a, pack |-> cur[a]]}
  /\ cur' = IF a \in Retrying THEN cur ELSE [cur EXCEPT ![a] = @ + 1]
  /\ UNCHANGED <<acked, acks, threadVars, archiveVars, uiVars>>

(* An acknowledgement of the pack being sent moves the application on.      *)
SeeAck(m) ==
  LET a == m.app IN
  /\ m \in acks
  /\ acks' = acks \ {m}
  /\ IF m.pack = cur[a]
     THEN /\ acked' = [acked EXCEPT ![a] = @ \cup {m.pack}]
          /\ cur' = [cur EXCEPT ![a] = @ + 1]
     ELSE UNCHANGED senderVars
  /\ UNCHANGED <<net, threadVars, archiveVars, uiVars>>

GiveUp(a) ==
  /\ "giveup" \in Occurs
  /\ a \in Retrying
  /\ cur[a] \in Packs
  /\ cur' = [cur EXCEPT ![a] = @ + 1]
  /\ UNCHANGED <<acked, wireVars, threadVars, archiveVars, uiVars>>

Lose ==
  /\ \/ \E d \in net : net' = net \ {d} /\ UNCHANGED acks
     \/ \E m \in acks : acks' = acks \ {m} /\ UNCHANGED net
  /\ UNCHANGED <<senderVars, threadVars, archiveVars, uiVars>>

-----------------------------------------------------------------------------
(* UdpThread::Work.                                                        *)

(* Wrong_... are variants of a definition with a mistake that would be easy  *)
(* to make in the code; they show which property notices it.               *)

(* A pack arrives; the network may hold another copy of it.                 *)
Wrong_Receive(d) ==   \* a repeated pack is not acknowledged again
  /\ status = "on" /\ pc = "receive"
  /\ d \in net
  /\ Len(recorded[d.app]) + PackSize <= MaxRecorded
  /\ net' \in {net, net \ {d}}
  /\ hand' = [app |-> d.app, next |-> First(d.pack), last |-> Last(d.pack)]
  /\ packNN' = IF d.app \in Retrying THEN d.pack ELSE 0
  /\ pc' = IF d.app \in Retrying /\ d.pack > lastPackNN[d.app] THEN "ack" ELSE "record"
  /\ UNCHANGED <<senderVars, acks, archiveVars, uiVars>>
Receive(d) ==
  /\ status = "on" /\ pc = "receive"
  /\ d \in net
  /\ Len(recorded[d.app]) + PackSize <= MaxRecorded
  /\ net' \in {net, net \ {d}}
  /\ hand' = [app |-> d.app, next |-> First(d.pack), last |-> Last(d.pack)]
  /\ packNN' = IF d.app \in Retrying THEN d.pack ELSE 0
  /\ pc' = IF d.app \in Retrying THEN "ack" ELSE "record"
  /\ UNCHANGED <<senderVars, acks, archiveVars, uiVars>>

(* The acknowledgement goes out, or the pack is dropped because an earlier  *)
(* one was answered by "port unreachable".                                 *)
SendAck ==
  /\ status = "on" /\ pc = "ack"
  /\ \/ acks' = acks \cup {[app |-> hand.app, pack |-> packNN]} /\ pc' = "record"
     \/ "socket" \in Occurs /\ pc' = "receive" /\ UNCHANGED acks
  /\ UNCHANGED <<senderVars, net, hand, packNN, archiveVars, uiVars>>

(* The socket was closed by stop(), or failed: the thread ends.             *)
SocketFails ==
  /\ pc \in {"receive", "ack"}
  /\ status = "stopping" \/ "socket" \in Occurs
  /\ pc' = "ended"
  /\ UNCHANGED <<senderVars, wireVars, hand, packNN, archiveVars, uiVars>>

(* What appendRec counts as lost when record n arrives.                     *)
Distance(n, m) == IF n > m THEN n - m ELSE m - n
Wrong_LostBy_ForwardOnly(n, previous) ==   \* a number that goes back is ignored
  IF previous # INFINITE /\ n > previous + 1 THEN n - previous ELSE 0
Wrong_LostBy_Once(n, previous) ==          \* a gap is one lost record
  IF previous \notin {INFINITE, n - 1, n} THEN 1 ELSE 0
LostBy(n, previous) ==
  IF previous \notin {INFINITE, n - 1, n} THEN Distance(n, previous) ELSE 0

(* appendRec of the next record of the pack.                                *)
Wrong_IsRepeated == packNN > 0 /\ packNN < lastPackNN[hand.app]   \* < for <=
IsRepeated == packNN > 0 /\ packNN <= lastPackNN[hand.app]

SkipRepeated ==
  /\ pc = "record" /\ hand.next <= hand.last
  /\ IsRepeated
  /\ hand' = [hand EXCEPT !.next = @ + 1]
  /\ UNCHANGED <<senderVars, wireVars, pc, packNN, archiveVars, uiVars>>

(* Only the first record of a pack is checked: the sign of pack_nn says     *)
(* that it was.                                                            *)
Wrong_AppendRec ==   \* pack_nn keeps its sign
  LET a == hand.app
      n == hand.next IN
  /\ pc = "record" /\ hand.next <= hand.last
  /\ ~IsRepeated
  /\ lastPackNN' = IF packNN > 0 THEN [lastPackNN EXCEPT ![a] = packNN] ELSE lastPackNN
  /\ lost' = [lost EXCEPT ![a] = @ + LostBy(n, lastRecNN[a])]
  /\ lastRecNN' = [lastRecNN EXCEPT ![a] = n]
  /\ recorded' = [recorded EXCEPT ![a] = Append(@, n)]
  /\ hand' = [hand EXCEPT !.next = @ + 1]
  /\ UNCHANGED <<senderVars, wireVars, pc, packNN, uiVars>>
AppendRec ==
  LET a == hand.app
      n == hand.next IN
  /\ pc = "record" /\ hand.next <= hand.last
  /\ ~IsRepeated
  /\ lastPackNN' = IF packNN > 0 THEN [lastPackNN EXCEPT ![a] = packNN] ELSE lastPackNN
  /\ packNN' = IF packNN > 0 THEN -packNN ELSE packNN
  /\ lost' = [lost EXCEPT ![a] = @ + LostBy(n, lastRecNN[a])]
  /\ lastRecNN' = [lastRecNN EXCEPT ![a] = n]
  /\ recorded' = [recorded EXCEPT ![a] = Append(@, n)]
  /\ hand' = [hand EXCEPT !.next = @ + 1]
  /\ UNCHANGED <<senderVars, wireVars, pc, uiVars>>

PackDone ==
  /\ pc = "record" /\ hand.next > hand.last
  /\ pc' = "receive"
  /\ UNCHANGED <<senderVars, wireVars, hand, packNN, archiveVars, uiVars>>

(* A record that is not valid ends the thread; the records before it stay.  *)
InvalidRec ==
  /\ "invalid" \in Occurs
  /\ pc = "record" /\ hand.next <= hand.last
  /\ pc' = "ended"
  /\ UNCHANGED <<senderVars, wireVars, hand, packNN, archiveVars, uiVars>>

-----------------------------------------------------------------------------
(* The UI thread.                                                          *)

(* LogReceiver::stop: closes the socket, then waits for the thread.         *)
Stop ==
  /\ status = "on" /\ stops < MaxStops
  /\ status' = "stopping" /\ stops' = stops + 1
  /\ UNCHANGED <<senderVars, wireVars, threadVars, archiveVars, breaks>>

(* The rest of StopLogging: pause, or clear.                                *)
OnPaused ==
  /\ status = "stopping" /\ pc = "ended"
  /\ status' = "off"
  /\ lastPackNN' = [a \in Apps |-> -1]
  /\ lastRecNN' = [a \in Apps |-> INFINITE]
  /\ breaks' = [a \in Apps |-> breaks[a] \cup {Len(recorded[a])}]
  /\ UNCHANGED <<senderVars, wireVars, threadVars, lost, recorded, stops>>

ClearArchive ==
  /\ "clear" \in Occurs
  /\ status = "stopping" /\ pc = "ended"
  /\ status' = "off"
  /\ lastPackNN' = [a \in Apps |-> -1]
  /\ lastRecNN' = [a \in Apps |-> INFINITE]
  /\ lost' = [a \in Apps |-> 0]
  /\ recorded' = [a \in Apps |-> << >>]
  /\ breaks' = [a \in Apps |-> {}]
  /\ UNCHANGED <<senderVars, wireVars, threadVars, stops>>

Start ==
  /\ status = "off"
  /\ status' = "on"
  /\ pc' = "receive" /\ hand' = NoPack /\ packNN' = 0
  /\ UNCHANGED <<senderVars, wireVars, archiveVars, breaks, stops>>

-----------------------------------------------------------------------------
SenderStep == (\E a \in Apps : Send(a) \/ GiveUp(a)) \/ \E m \in acks : SeeAck(m)
Record     == SkipRepeated \/ AppendRec \/ PackDone
ThreadStep == (\E d \in net : Receive(d)) \/ SendAck \/ SocketFails \/ Record \/ InvalidRec
UiStep     == Stop \/ OnPaused \/ ClearArchive \/ Start

Next == SenderStep \/ Lose \/ ThreadStep \/ UiStep

Spec == Init /\ [][Next]_vars

(* The threads of the viewer run.  The applications keep repeating a pack,  *)
(* and after a while the network drops nothing (it may repeat for ever).    *)
(* "Port unreachable" is not the answer to every acknowledgement.           *)
ThreadFairness == WF_vars(SendAck \/ SocketFails \/ Record) /\ WF_vars(OnPaused \/ ClearArchive)
OutsideFairness ==
  /\ \A a \in Apps : WF_vars(Send(a))
  /\ \A d \in Datagram : SF_vars(Receive(d)) /\ SF_vars(SeeAck(d))
  /\ SF_vars(SendAck /\ pc' = "record")
  /\ <>[][~Lose]_vars
FairSpec == Spec /\ ThreadFairness /\ OutsideFairness

-----------------------------------------------------------------------------
(* Properties.                                                             *)

NumbersIn(seq) == {seq[i] : i \in DOMAIN seq}

(* Neighbours in the archive that were recorded without a pause between.    *)
Neighbours(a) == {i \in 1..(Len(recorded[a]) - 1) : i \notin breaks[a]}

(* Between two pauses no pack of an application that uses retries is        *)
(* recorded twice or after a later one, however often the network repeats,  *)
(* delays and reorders it.                                                 *)
NoPackTwice ==
  \A a \in Retrying : \A i \in Neighbours(a) : recorded[a][i] < recorded[a][i + 1]

(* Why: the pack in hand is one of the packs, its number says whether it    *)
(* was checked, what was recorded since the pause stems from packs up to    *)
(* lastPackNN, and a repeated pack is skipped whole.                       *)
HandOfPack ==
  pc \in {"ack", "record"} => \E k \in Packs :
    /\ hand.last = Last(k)
    /\ hand.next \in First(k)..(Last(k) + 1)
    /\ packNN \in IF hand.app \in Retrying THEN {k, -k} ELSE {0}
    /\ pc = "ack" => packNN = k /\ hand.next = First(k)
BreaksInArchive == \A a \in Apps : breaks[a] \subseteq 0..Len(recorded[a])
LatestRec(a, bound) ==
  Len(recorded[a]) \notin {0} \cup breaks[a] => recorded[a][Len(recorded[a])] <= bound
UpToLastPack ==
  \A a \in Retrying : IF lastPackNN[a] \in Packs
                      THEN LatestRec(a, Last(lastPackNN[a]))
                      ELSE LatestRec(a, 0)
CheckedPack ==
  pc = "record" /\ packNN < 0 =>
    /\ lastPackNN[hand.app] = -packNN
    /\ LatestRec(hand.app, hand.next - 1)

IInv ==
  /\ TypeOK
  /\ HandOfPack
  /\ BreaksInArchive
  /\ UpToLastPack
  /\ CheckedPack
  /\ NoPackTwice

(* An application that saw a pack acknowledged in time can forget it: all   *)
(* its records are in the archive, or the receiver is recording them.       *)
BeingRecorded(a, k) ==
  pc = "record" /\ hand.app = a /\ hand.last = Last(k) /\ ~IsRepeated
Held(a, k) ==
  \A n \in First(k)..Last(k) :
    n \in NumbersIn(recorded[a]) \/ (BeingRecorded(a, k) /\ hand.next <= n)
AckedIsRecorded == \A a \in Retrying : \A k \in acked[a] : Held(a, k)

(* Why: nothing is under way, recorded or in hand that was not sent yet; a  *)
(* pack that is recorded starts with its first record; the user restarts no *)
(* thread that still runs; and of a pack that is repeated because the       *)
(* application did not see it acknowledged, the first copy is held already. *)
SentOnly ==
  /\ \A d \in net \cup acks : d.pack <= cur[d.app]
  /\ \A a \in Apps : lastPackNN[a] <= cur[a]
  /\ pc \in {"ack", "record"} =>
       \A k \in Packs : hand.last = Last(k) => k <= cur[hand.app]
FromFirst ==
  pc = "record" /\ packNN > 0 /\ ~IsRepeated => hand.next = First(packNN)
OffIsEnded == status = "off" => pc = "ended"
LastPackHeld == \A a \in Retrying : lastPackNN[a] \in Packs => Held(a, lastPackNN[a])
AcksHeld == \A m \in acks : m.app \in Retrying /\ m.pack = cur[m.app] => Held(m.app, m.pack)

HeldInv ==
  /\ SentOnly
  /\ FromFirst
  /\ OffIsEnded
  /\ LastPackHeld
  /\ AcksHeld
  /\ AckedIsRecorded

(* The lost counter of an application is silent exactly when its records    *)
(* arrived without gap and in order between the pauses.                     *)
LossReported ==
  \A a \in Apps : lost[a] = 0 <=>
    \A i \in Neighbours(a) : recorded[a][i + 1] \in {recorded[a][i], recorded[a][i] + 1}

(* Every record that is missing between two neighbours is counted.          *)
Missing(a) ==
  {n \in Recs : /\ n \notin NumbersIn(recorded[a])
                /\ \E i \in Neighbours(a) : recorded[a][i] < n /\ n < recorded[a][i + 1]}
LossNotUnderstated == \A a \in Apps : Cardinality(Missing(a)) <= lost[a]

(* Why: lastRecNN is the number of the record before, unless a pause or the *)
(* start of the archive came in between.                                   *)
PreviousKnown ==
  \A a \in Apps :
    lastRecNN[a] = IF Len(recorded[a]) \in {0} \cup breaks[a]
                   THEN INFINITE
                   ELSE recorded[a][Len(recorded[a])]

LossInv ==
  /\ PreviousKnown
  /\ LossReported
  /\ LossNotUnderstated

(* "(Lost: %d)" of the tree view: the number shown is the number of the     *)
(* records that are missing.                                               *)
LostIsExact == \A a \in Apps : lost[a] = Cardinality(Missing(a))

(* While the receiver is on and its thread has not ended, every pack an     *)
(* application does not give up is acknowledged in the end, and recorded.   *)
EveryPackArrives ==
  <>[](status = "on" /\ pc # "ended") =>
    \A a \in Retrying :
      <>(/\ cur[a] = MaxPacks + 1
         /\ \A k \in acked[a] : First(k)..Last(k) \subseteq NumbersIn(recorded[a]))
=============================================================================
