--------------------------- MODULE NetIngestProofs --------------------------
(***************************************************************************)
(* Proofs about NetIngest, for any applications, any number and size of    *)
(* packs, and whatever the network, the sockets and the user do.           *)
(***************************************************************************)
EXTENDS NetIngest, FiniteSetTheorems, TLAPS

LEMMA PackBounds ==
  ASSUME NEW k \in Packs
  PROVE  /\ First(k) \in Nat /\ Last(k) \in Nat
         /\ 1 <= First(k) /\ First(k) <= Last(k)
         /\ Last(k) <= Last(MaxPacks) /\ Last(MaxPacks) \in Nat
         /\ First(k)..Last(k) \subseteq Recs
<1>1. k \in Nat /\ 1 <= k /\ k <= MaxPacks /\ MaxPacks \in Nat /\ PackSize \in Nat /\ 1 <= PackSize
  BY ConstantsAssumption DEF Packs
<1>2. k * PackSize <= MaxPacks * PackSize
  BY <1>1
<1>3. 0 <= (k - 1) * PackSize /\ (k - 1) * PackSize = k * PackSize - PackSize
  BY <1>1
<1>4. (k - 1) * PackSize \in Int /\ k * PackSize \in Int /\ MaxPacks * PackSize \in Int
  BY <1>1
<1> QED
  BY <1>1, <1>2, <1>3, <1>4 DEF First, Last, Recs

LEMMA PackOrder ==
  ASSUME NEW j \in Packs, NEW k \in Packs, j < k
  PROVE  Last(j) < First(k)
<1>1. j \in Nat /\ k \in Nat /\ j <= k - 1 /\ PackSize \in Nat
  BY ConstantsAssumption DEF Packs
<1>2. j * PackSize <= (k - 1) * PackSize
  BY <1>1
<1>3. (k - 1) * PackSize \in Int /\ j * PackSize \in Int
  BY <1>1
<1> QED
  BY <1>2, <1>3 DEF First, Last

LEMMA InitIInv == Init => IInv
<1> SUFFICES ASSUME Init PROVE IInv
  OBVIOUS
<1>1. NoPack \in [app : Apps, next : Nat, last : Nat]
  BY ConstantsAssumption DEF NoPack
<1>2. TypeOK
  BY <1>1, ConstantsAssumption DEF Init, TypeOK, INFINITE
<1>3. \A a \in Apps : Len(recorded[a]) = 0
  BY DEF Init
<1> QED
  BY <1>2, <1>3, ConstantsAssumption
  DEF Init, IInv, HandOfPack, BreaksInArchive, UpToLastPack, CheckedPack, LatestRec,
      NoPackTwice, Neighbours

(* What the applications and the network do leaves the receiver alone.      *)
LEMMA OutsideIInv == IInv /\ (SenderStep \/ Lose) => IInv'
<1> SUFFICES ASSUME IInv, SenderStep \/ Lose PROVE IInv'
  OBVIOUS
<1>1. UNCHANGED <<threadVars, archiveVars, uiVars>>
  BY DEF SenderStep, Send, SeeAck, GiveUp, Lose
<1>2. TypeOK'
  <2>1. cur' \in [Apps -> 1..(MaxPacks + 1)] /\ acked' \in [Apps -> SUBSET Packs]
    <3>1. ASSUME NEW a \in Apps, cur[a] \in Packs
          PROVE  [cur EXCEPT ![a] = @ + 1] \in [Apps -> 1..(MaxPacks + 1)]
      <4>1. cur \in [Apps -> 1..(MaxPacks + 1)] /\ MaxPacks \in Nat
        BY ConstantsAssumption DEF IInv, TypeOK
      <4>2. cur[a] + 1 \in 1..(MaxPacks + 1)
        BY <3>1, <4>1 DEF Packs
      <4> QED
        BY <4>1, <4>2
    <3>2. ASSUME NEW a \in Apps, Send(a) \/ GiveUp(a) PROVE <2>1!1 /\ <2>1!2
      BY <3>1, <3>2 DEF Send, GiveUp, IInv, TypeOK
    <3>3. ASSUME NEW m \in acks, SeeAck(m) PROVE <2>1!1 /\ <2>1!2
      <4>1. m.app \in Apps /\ m.pack \in Packs
        BY DEF IInv, TypeOK, Datagram
      <4>2. CASE m.pack = cur[m.app]
        <5>1. /\ cur' = [cur EXCEPT ![m.app] = @ + 1]
              /\ acked' = [acked EXCEPT ![m.app] = @ \cup {m.pack}]
          BY <3>3, <4>2 DEF SeeAck
        <5>2. cur' \in [Apps -> 1..(MaxPacks + 1)]
          BY <3>1, <4>1, <4>2, <5>1
        <5>3. acked' \in [Apps -> SUBSET Packs]
          <6>1. acked \in [Apps -> SUBSET Packs]
            BY DEF IInv, TypeOK
          <6> QED
            BY <4>1, <5>1, <6>1
        <5> QED
          BY <5>2, <5>3
      <4>3. CASE m.pack # cur[m.app]
        BY <3>3, <4>3 DEF SeeAck, IInv, TypeOK, senderVars
      <4> QED
        BY <4>2, <4>3
    <3>4. CASE Lose
      BY <3>4 DEF Lose, senderVars, IInv, TypeOK
    <3> QED
      BY <3>2, <3>3, <3>4 DEF SenderStep
  <2>2. net' \subseteq Datagram /\ acks' \subseteq Datagram
    <3>1. ASSUME NEW a \in Apps, Send(a) PROVE <2>2
      BY <3>1 DEF Send, IInv, TypeOK, Datagram
    <3> QED
      BY <3>1 DEF SenderStep, SeeAck, GiveUp, Lose, wireVars, IInv, TypeOK
  <2> QED
    BY <1>1, <2>1, <2>2 DEF threadVars, archiveVars, uiVars, IInv, TypeOK
<1> QED
  BY <1>1, <1>2, SMTT(30)
  DEF threadVars, archiveVars, uiVars, IInv, HandOfPack, BreaksInArchive, UpToLastPack,
      CheckedPack, LatestRec, NoPackTwice, Neighbours

(* The steps of the thread that record nothing.                             *)
LEMMA ReceiveIInv == ASSUME IInv, NEW d \in net, Receive(d) PROVE IInv'
<1>1. d.app \in Apps /\ d.pack \in Packs /\ d.pack \in Nat
  <2>1. d \in Datagram
    BY DEF IInv, TypeOK
  <2> QED
    BY <2>1, ConstantsAssumption DEF Datagram, Packs
<1>2. hand' = [app |-> d.app, next |-> First(d.pack), last |-> Last(d.pack)]
  BY DEF Receive
<1>3. First(d.pack) \in Nat /\ Last(d.pack) \in Nat /\ First(d.pack) <= Last(d.pack)
  BY <1>1, PackBounds
<1>4. packNN' \in {0, d.pack} /\ packNN' \in (-MaxPacks)..MaxPacks
  BY <1>1, ConstantsAssumption DEF Receive, Packs
<1>5. TypeOK'
  <2>1. hand' \in [app : Apps, next : Nat, last : Nat]
    BY <1>1, <1>2, <1>3
  <2>2. /\ UNCHANGED <<senderVars, acks, archiveVars, uiVars>>
        /\ net' \subseteq net
        /\ pc' \in {"receive", "ack", "record", "ended"}
    BY DEF Receive
  <2> QED
    BY <1>4, <2>1, <2>2 DEF IInv, TypeOK, senderVars, archiveVars, uiVars
<1>6. HandOfPack'
  <2>1. hand.last' = Last(d.pack) /\ hand.next' = First(d.pack) /\ hand.app' = d.app
    BY <1>2
  <2>2. First(d.pack) \in First(d.pack)..(Last(d.pack) + 1)
    BY <1>3
  <2> QED
    BY <1>1, <2>1, <2>2 DEF Receive, HandOfPack
<1>7. CheckedPack'
  BY <1>1, <1>4 DEF CheckedPack, Packs
<1> QED
  BY <1>5, <1>6, <1>7
  DEF Receive, archiveVars, uiVars, IInv, BreaksInArchive, UpToLastPack, LatestRec,
      NoPackTwice, Neighbours

LEMMA QuietIInv ==
  IInv /\ (SendAck \/ SocketFails \/ PackDone \/ InvalidRec) => IInv'
<1> SUFFICES ASSUME IInv, SendAck \/ SocketFails \/ PackDone \/ InvalidRec PROVE IInv'
  OBVIOUS
<1>1. UNCHANGED <<senderVars, net, hand, packNN, archiveVars, uiVars>>
  BY DEF SendAck, SocketFails, PackDone, InvalidRec, wireVars
<1>2. /\ pc' \in {"receive", "record", "ended"}
      /\ pc' = "record" => pc = "ack"
  BY DEF SendAck, SocketFails, PackDone, InvalidRec
<1>3. acks' \subseteq Datagram
  <2>1. CASE SendAck
    <3>1. PICK k \in Packs : packNN \in IF hand.app \in Retrying THEN {k, -k} ELSE {0}
      BY <2>1 DEF SendAck, IInv, HandOfPack
    <3>2. packNN \in Packs \/ acks' = acks
      BY <2>1 DEF SendAck, IInv, HandOfPack
    <3> QED
      BY <2>1, <3>2 DEF SendAck, IInv, TypeOK, Datagram
  <2>2. CASE ~SendAck
    BY <2>2 DEF SocketFails, PackDone, InvalidRec, wireVars, IInv, TypeOK
  <2> QED
    BY <2>1, <2>2
<1>4. TypeOK'
  BY <1>1, <1>2, <1>3 DEF IInv, TypeOK, senderVars, archiveVars, uiVars
<1>5. HandOfPack' /\ CheckedPack'
  <2>1. CASE pc' = "record"
    <3>1. PICK k \in Packs : /\ hand.last = Last(k)
                             /\ hand.next \in First(k)..(Last(k) + 1)
                             /\ packNN \in IF hand.app \in Retrying THEN {k, -k} ELSE {0}
                             /\ packNN = k
      BY <1>2, <2>1 DEF IInv, HandOfPack
    <3>2. ~(packNN < 0)
      BY <3>1, ConstantsAssumption DEF Packs
    <3> QED
      BY <1>1, <2>1, <3>1, <3>2 DEF HandOfPack, CheckedPack
  <2>2. CASE pc' # "record"
    BY <1>2, <2>2 DEF HandOfPack, CheckedPack
  <2> QED
    BY <2>1, <2>2
<1> QED
  BY <1>1, <1>4, <1>5
  DEF archiveVars, uiVars, IInv, BreaksInArchive, UpToLastPack, LatestRec, NoPackTwice, Neighbours

LEMMA SkipIInv == IInv /\ SkipRepeated => IInv'
<1> SUFFICES ASSUME IInv, SkipRepeated PROVE IInv'
  OBVIOUS
<1>0. packNN > 0 /\ pc = "record"
  BY DEF SkipRepeated, IsRepeated
<1>1. PICK k \in Packs : /\ hand.last = Last(k)
                         /\ hand.next \in First(k)..(Last(k) + 1)
                         /\ packNN \in IF hand.app \in Retrying THEN {k, -k} ELSE {0}
  BY <1>0 DEF IInv, HandOfPack
<1>2. First(k) \in Nat /\ Last(k) \in Nat /\ hand.next \in Nat
  BY PackBounds DEF IInv, TypeOK
<1>3. /\ hand' = [hand EXCEPT !.next = @ + 1]
      /\ hand.next <= hand.last
  BY DEF SkipRepeated
<1>4. /\ hand' \in [app : Apps, next : Nat, last : Nat]
      /\ hand'.last = Last(k) /\ hand'.app = hand.app
      /\ hand'.next \in First(k)..(Last(k) + 1)
  <2>1. hand \in [app : Apps, next : Nat, last : Nat]
    BY DEF IInv, TypeOK
  <2>2. hand.next + 1 \in Nat /\ hand.next + 1 \in First(k)..(Last(k) + 1)
    BY <1>1, <1>2, <1>3
  <2>3. hand'.last = hand.last /\ hand'.app = hand.app /\ hand'.next = hand.next + 1
    BY <1>3, <2>1
  <2>4. hand' \in [app : Apps, next : Nat, last : Nat]
    BY <1>3, <2>1, <2>2
  <2> QED
    BY <1>1, <2>2, <2>3, <2>4
<1>5. UNCHANGED <<senderVars, wireVars, pc, packNN, archiveVars, uiVars>>
  BY DEF SkipRepeated
<1>6. TypeOK'
  BY <1>4, <1>5 DEF IInv, TypeOK, senderVars, wireVars, archiveVars, uiVars
<1>7. HandOfPack' /\ CheckedPack'
  <2>1. ~(packNN < 0)
    BY <1>0 DEF IInv, TypeOK
  <2> QED
    BY <1>0, <1>1, <1>4, <1>5, <2>1 DEF HandOfPack, CheckedPack
<1> QED
  BY <1>5, <1>6, <1>7
  DEF archiveVars, uiVars, IInv, BreaksInArchive, UpToLastPack, LatestRec, NoPackTwice, Neighbours

(* The record that is appended is later than all that were recorded since   *)
(* the pause: its pack is new, or it follows the last one of its own pack.  *)
LEMMA AppendFacts ==
  ASSUME IInv, AppendRec
  PROVE  /\ hand.app \in Apps /\ hand.next \in Recs
         /\ hand.app \in Retrying => packNN # 0 /\ LatestRec(hand.app, hand.next - 1)
         /\ hand.app \in Retrying =>
              \E k \in Packs : /\ lastPackNN'[hand.app] = k /\ packNN' = -k
                              /\ hand.last = Last(k)
                              /\ hand.next \in First(k)..Last(k)
         /\ hand.app \notin Retrying => packNN = 0
<1>0. hand.app \in Apps /\ hand.next \in Nat
  BY DEF IInv, TypeOK
<1>1. PICK k \in Packs : /\ hand.last = Last(k)
                         /\ hand.next \in First(k)..(Last(k) + 1)
                         /\ packNN \in IF hand.app \in Retrying THEN {k, -k} ELSE {0}
  BY DEF AppendRec, IInv, HandOfPack
<1>2. hand.next \in First(k)..Last(k)
  BY <1>0, <1>1, PackBounds DEF AppendRec
<1>3. hand.next \in Recs
  BY <1>2, PackBounds
<1>4. ASSUME hand.app \in Retrying
      PROVE  /\ packNN # 0 /\ LatestRec(hand.app, hand.next - 1)
             /\ lastPackNN'[hand.app] = k /\ packNN' = -k
  <2>0. k \in Nat /\ k >= 1
    BY ConstantsAssumption DEF Packs
  <2>1. CASE packNN = k
    <3>1. lastPackNN'[hand.app] = k /\ packNN' = -k
      BY <1>0, <2>0, <2>1 DEF AppendRec, IInv, TypeOK
    <3>2. lastPackNN[hand.app] \in -1..MaxPacks /\ lastPackNN[hand.app] < k
      <4>1. lastPackNN \in [Apps -> -1..MaxPacks]
        BY DEF IInv, TypeOK
      <4>2. lastPackNN[hand.app] \in -1..MaxPacks
        BY <1>0, <4>1
      <4>3. ~(k <= lastPackNN[hand.app])
        BY <2>0, <2>1 DEF AppendRec, IsRepeated
      <4> QED
        BY <2>0, <4>2, <4>3, ConstantsAssumption
    <3> DEFINE bound == IF lastPackNN[hand.app] \in Packs THEN Last(lastPackNN[hand.app]) ELSE 0
    <3>3. LatestRec(hand.app, bound)
      BY <1>4 DEF IInv, UpToLastPack
    <3>4. bound \in Nat /\ bound < First(k)
      BY <3>2, PackBounds, PackOrder
    <3>5. bound <= hand.next - 1 /\ hand.next - 1 \in Int
      BY <1>2, <3>4, PackBounds
    <3>6. Len(recorded[hand.app]) # 0 =>
            recorded[hand.app][Len(recorded[hand.app])] \in Int
      <4> SUFFICES ASSUME Len(recorded[hand.app]) # 0
                   PROVE  recorded[hand.app][Len(recorded[hand.app])] \in Int
        OBVIOUS
      <4>1. recorded[hand.app] \in Seq(Recs)
        <5>1. recorded \in [Apps -> Seq(Recs)]
          BY DEF IInv, TypeOK
        <5> QED
          BY <1>0, <5>1
      <4>2. Len(recorded[hand.app]) \in 1..Len(recorded[hand.app])
        BY <4>1
      <4>3. recorded[hand.app][Len(recorded[hand.app])] \in Recs
        BY <4>1, <4>2
      <4> QED
        BY <4>3 DEF Recs
    <3>7. LatestRec(hand.app, hand.next - 1)
      BY <3>3, <3>4, <3>5, <3>6 DEF LatestRec
    <3> QED
      BY <2>0, <2>1, <3>1, <3>7
  <2>2. CASE packNN = -k
    <3>1. packNN < 0 /\ ~(packNN > 0) /\ packNN # 0 /\ -packNN = k
      BY <2>0, <2>2
    <3>2. lastPackNN[hand.app] = k /\ LatestRec(hand.app, hand.next - 1)
      BY <3>1 DEF AppendRec, IInv, CheckedPack
    <3> QED
      BY <2>2, <3>1, <3>2 DEF AppendRec
  <2> QED
    BY <1>1, <1>4, <2>1, <2>2
<1> QED
  BY <1>0, <1>1, <1>2, <1>3, <1>4

LEMMA AppendIInv == IInv /\ AppendRec => IInv'
<1> SUFFICES ASSUME IInv, AppendRec PROVE IInv'
  OBVIOUS
<1> DEFINE a == hand.app
           n == hand.next
           len == Len(recorded[a])
<1>1. a \in Apps /\ n \in Recs /\ n \in Nat
  BY AppendFacts DEF Recs
<1>2. /\ recorded' = [recorded EXCEPT ![a] = Append(@, n)]
      /\ recorded \in [Apps -> Seq(Recs)]
      /\ recorded[a] \in Seq(Recs) /\ len \in Nat
  BY <1>1 DEF AppendRec, IInv, TypeOK
<1>3. /\ recorded' \in [Apps -> Seq(Recs)]
      /\ \A b \in Apps : b # a => recorded'[b] = recorded[b]
      /\ recorded'[a] = Append(recorded[a], n)
      /\ Len(recorded'[a]) = len + 1
      /\ recorded'[a][len + 1] = n
      /\ \A i \in 1..len : recorded'[a][i] = recorded[a][i]
  BY <1>1, <1>2
<1>4. UNCHANGED <<senderVars, wireVars, pc, uiVars>> /\ pc = "record"
  BY DEF AppendRec
<1>5. hand' = [hand EXCEPT !.next = n + 1] /\ n <= hand.last
  BY DEF AppendRec
<1>6. hand' \in [app : Apps, next : Nat, last : Nat] /\ hand'.app = a
      /\ hand'.next = n + 1 /\ hand'.last = hand.last
  <2>1. hand \in [app : Apps, next : Nat, last : Nat] /\ n + 1 \in Nat
    BY <1>1 DEF IInv, TypeOK
  <2>2. hand'.last = hand.last /\ hand'.app = a /\ hand'.next = n + 1
    BY <1>5, <2>1
  <2>3. hand' \in [app : Apps, next : Nat, last : Nat]
    BY <1>5, <2>1
  <2> QED
    BY <2>2, <2>3
<1>7. TypeOK'
  <2>0. packNN \in (-MaxPacks)..MaxPacks /\ MaxPacks \in Nat
    BY ConstantsAssumption DEF IInv, TypeOK
  <2>1. packNN' \in (-MaxPacks)..MaxPacks
    <3>1. packNN' = IF packNN > 0 THEN -packNN ELSE packNN
      BY DEF AppendRec
    <3> QED
      BY <2>0, <3>1
  <2>2. lastPackNN' \in [Apps -> -1..MaxPacks]
    <3>1. lastPackNN \in [Apps -> -1..MaxPacks]
      BY DEF IInv, TypeOK
    <3>2. lastPackNN' = IF packNN > 0 THEN [lastPackNN EXCEPT ![a] = packNN] ELSE lastPackNN
      BY DEF AppendRec
    <3>3. packNN > 0 => packNN \in -1..MaxPacks
      BY <2>0
    <3> QED
      BY <1>1, <3>1, <3>2, <3>3
  <2>3. lastRecNN' \in [Apps -> Recs \cup {INFINITE}]
    BY <1>1 DEF AppendRec, IInv, TypeOK
  <2>4. lost' \in [Apps -> Nat]
    <3>1. n \in Nat /\ (lastRecNN[a] = INFINITE \/ lastRecNN[a] \in Nat)
      BY <1>1 DEF Recs, IInv, TypeOK
    <3>2. LostBy(n, lastRecNN[a]) \in Nat
      BY <3>1 DEF LostBy, Distance, INFINITE
    <3>3. lost \in [Apps -> Nat] /\ lost' = [lost EXCEPT ![a] = @ + LostBy(n, lastRecNN[a])]
      BY DEF AppendRec, IInv, TypeOK
    <3> QED
      BY <1>1, <3>2, <3>3
  <2>5. UNCHANGED <<cur, acked, net, acks, pc, status, breaks, stops>>
    BY <1>4 DEF senderVars, wireVars, uiVars
  <2>6. TypeOK
    BY DEF IInv
  <2> QED
    BY <1>3, <1>6, <2>1, <2>2, <2>3, <2>4, <2>5, <2>6, Zenon DEF TypeOK
<1>8. HandOfPack'
  <2>1. CASE a \in Retrying
    <3>1. PICK k \in Packs : /\ packNN' = -k /\ hand.last = Last(k)
                             /\ n \in First(k)..Last(k)
      BY <2>1, AppendFacts
    <3>2. hand'.next \in First(k)..(Last(k) + 1)
      BY <1>1, <1>6, <3>1, PackBounds
    <3> QED
      BY <1>4, <1>6, <2>1, <3>1, <3>2 DEF HandOfPack
  <2>2. CASE a \notin Retrying
    <3>1. PICK k \in Packs : /\ hand.last = Last(k)
                             /\ n \in First(k)..(Last(k) + 1)
      BY <1>4 DEF IInv, HandOfPack
    <3>2. hand'.next \in First(k)..(Last(k) + 1)
      BY <1>1, <1>5, <1>6, <3>1, PackBounds
    <3>3. packNN' = 0
      BY <2>2, AppendFacts DEF AppendRec
    <3> QED
      BY <1>4, <1>6, <2>2, <3>1, <3>2, <3>3 DEF HandOfPack
  <2> QED
    BY <2>1, <2>2
<1>9. BreaksInArchive'
  <2>1. ASSUME NEW b \in Apps PROVE breaks'[b] \subseteq 0..Len(recorded'[b])
    <3>1. breaks'[b] = breaks[b] /\ breaks[b] \subseteq 0..Len(recorded[b])
      BY <1>4 DEF uiVars, IInv, BreaksInArchive
    <3> QED
      BY <1>2, <1>3, <3>1
  <2> QED
    BY <2>1 DEF BreaksInArchive
<1>10. len + 1 \notin breaks'[a]
  BY <1>1, <1>2, <1>4 DEF uiVars, IInv, BreaksInArchive
<1>11. UpToLastPack'
  <2>1. ASSUME NEW b \in Retrying, b # a
        PROVE  UpToLastPack!(b)'
    <3>1. b \in Apps
      BY ConstantsAssumption
    <3>2. recorded'[b] = recorded[b] /\ lastPackNN'[b] = lastPackNN[b] /\ breaks' = breaks
      BY <1>1, <1>3, <1>4, <2>1, <3>1 DEF AppendRec, uiVars, IInv, TypeOK
    <3> QED
      BY <2>1, <3>2 DEF LatestRec, IInv, UpToLastPack
  <2>2. ASSUME NEW b \in Retrying, b = a
        PROVE  UpToLastPack!(b)'
    <3>1. PICK k \in Packs : lastPackNN'[b] = k /\ n \in First(k)..Last(k)
      BY <2>2, AppendFacts
    <3>2. n <= Last(k)
      BY <3>1, PackBounds
    <3>3. recorded'[b][Len(recorded'[b])] = n
      BY <1>3, <2>2
    <3> QED
      BY <3>1, <3>2, <3>3 DEF LatestRec
  <2> QED
    BY <2>1, <2>2 DEF UpToLastPack
<1>12. CheckedPack'
  <2>1. ASSUME packNN' < 0
        PROVE  lastPackNN'[a] = -packNN'
    <3>1. a \in Retrying
      BY <2>1, AppendFacts DEF AppendRec
    <3>2. PICK k \in Packs : lastPackNN'[a] = k /\ packNN' = -k
      BY <3>1, AppendFacts
    <3> QED
      BY <3>2, ConstantsAssumption DEF Packs
  <2>2. recorded'[a][Len(recorded'[a])] <= hand'.next - 1
    BY <1>1, <1>3, <1>6
  <2> QED
    BY <1>6, <2>1, <2>2 DEF CheckedPack, LatestRec
<1>13. NoPackTwice'
  <2>1. ASSUME NEW b \in Retrying, NEW i \in Neighbours(b)'
        PROVE  recorded'[b][i] < recorded'[b][i + 1]
    <3>0. b \in Apps /\ breaks' = breaks
      BY <1>4, ConstantsAssumption DEF uiVars
    <3>1. CASE b # a
      BY <1>3, <2>1, <3>0, <3>1 DEF Neighbours, IInv, NoPackTwice
    <3>2. CASE b = a /\ i # len
      <4>1. i \in 1..(len - 1) /\ i \in Neighbours(a)
        BY <1>2, <1>3, <2>1, <3>0, <3>2 DEF Neighbours
      <4>2. recorded[a][i] < recorded[a][i + 1]
        BY <3>2, <4>1 DEF IInv, NoPackTwice
      <4> QED
        BY <1>2, <1>3, <3>2, <4>1, <4>2
    <3>3. CASE b = a /\ i = len
      <4>1. len \notin {0} \cup breaks[a]
        BY <1>2, <2>1, <3>0, <3>3 DEF Neighbours
      <4>2. recorded[a][len] <= n - 1
        BY <3>3, <4>1, AppendFacts DEF LatestRec
      <4>3. len \in 1..len
        BY <1>2, <4>1
      <4>4. recorded[a][len] \in Recs
        BY <1>2, <4>3
      <4>5. recorded[a][len] < n
        BY <1>1, <4>2, <4>4 DEF Recs
      <4> QED
        BY <1>3, <3>3, <4>3, <4>5
    <3> QED
      BY <3>1, <3>2, <3>3
  <2> QED
    BY <2>1 DEF NoPackTwice
<1> QED
  BY <1>7, <1>8, <1>9, <1>11, <1>12, <1>13 DEF IInv

LEMMA UiIInv == IInv /\ UiStep => IInv'
<1> SUFFICES ASSUME IInv, UiStep PROVE IInv'
  OBVIOUS
<1>1. CASE Stop
  BY <1>1, ConstantsAssumption, SMTT(30)
  DEF Stop, senderVars, wireVars, threadVars, archiveVars, IInv, TypeOK, HandOfPack,
      BreaksInArchive, UpToLastPack, CheckedPack, LatestRec, NoPackTwice, Neighbours
<1>2. CASE OnPaused
  <2>1. \A a \in Apps : Len(recorded[a]) \in Nat
    BY DEF IInv, TypeOK
  <2>2. /\ breaks' \in [Apps -> SUBSET Nat]
        /\ \A a \in Apps : breaks'[a] = breaks[a] \cup {Len(recorded[a])}
    BY <1>2, <2>1 DEF OnPaused, IInv, TypeOK
  <2>3. TypeOK'
    <3>1. /\ lastPackNN' \in [Apps -> -1..MaxPacks]
          /\ lastRecNN' \in [Apps -> Recs \cup {INFINITE}]
          /\ status' \in {"on", "stopping", "off"}
      BY <1>2, ConstantsAssumption DEF OnPaused
    <3>2. UNCHANGED <<senderVars, wireVars, threadVars, lost, recorded, stops>>
      BY <1>2 DEF OnPaused
    <3> QED
      BY <2>2, <3>1, <3>2 DEF IInv, TypeOK, senderVars, wireVars, threadVars
  <2>4. pc' = "ended" /\ recorded' = recorded
    BY <1>2 DEF OnPaused, threadVars
  <2>5. BreaksInArchive'
    BY <2>1, <2>2, <2>4 DEF IInv, BreaksInArchive
  <2>6. UpToLastPack'
    BY <2>2, <2>4, ConstantsAssumption DEF UpToLastPack, LatestRec
  <2>7. NoPackTwice'
    BY <2>2, <2>4, ConstantsAssumption DEF IInv, NoPackTwice, Neighbours
  <2> QED
    BY <2>3, <2>4, <2>5, <2>6, <2>7 DEF IInv, HandOfPack, CheckedPack
<1>3. CASE ClearArchive
  <2>1. TypeOK'
    BY <1>3, ConstantsAssumption
    DEF ClearArchive, IInv, TypeOK, senderVars, wireVars, threadVars, INFINITE
  <2>2. pc' = "ended" /\ \A a \in Apps : Len(recorded'[a]) = 0 /\ breaks'[a] = {}
    BY <1>3 DEF ClearArchive, threadVars
  <2> QED
    BY <2>1, <2>2, ConstantsAssumption
    DEF IInv, HandOfPack, CheckedPack, BreaksInArchive, UpToLastPack, LatestRec,
        NoPackTwice, Neighbours
<1>4. CASE Start
  <2>1. NoPack \in [app : Apps, next : Nat, last : Nat]
    BY ConstantsAssumption DEF NoPack
  <2>2. TypeOK'
    <3>1. /\ hand' \in [app : Apps, next : Nat, last : Nat]
          /\ packNN' \in (-MaxPacks)..MaxPacks
          /\ status' = "on" /\ pc' = "receive"
      BY <1>4, <2>1, ConstantsAssumption DEF Start
    <3>2. UNCHANGED <<senderVars, wireVars, archiveVars, breaks, stops>>
      BY <1>4 DEF Start
    <3> QED
      BY <3>1, <3>2 DEF IInv, TypeOK, senderVars, wireVars, archiveVars
  <2> QED
    BY <1>4, <2>2
    DEF Start, archiveVars, IInv, HandOfPack, CheckedPack, BreaksInArchive, UpToLastPack,
        LatestRec, NoPackTwice, Neighbours
<1> QED
  BY <1>1, <1>2, <1>3, <1>4 DEF UiStep

LEMMA StepIInv == IInv /\ [Next]_vars => IInv'
<1> SUFFICES ASSUME IInv, [Next]_vars PROVE IInv'
  OBVIOUS
<1>1. CASE SenderStep \/ Lose
  BY <1>1, OutsideIInv
<1>2. CASE ThreadStep
  BY <1>2, ReceiveIInv, QuietIInv, SkipIInv, AppendIInv DEF ThreadStep, Record
<1>3. CASE UiStep
  BY <1>3, UiIInv
<1>4. CASE UNCHANGED vars
  BY <1>4
  DEF vars, senderVars, wireVars, threadVars, archiveVars, uiVars, IInv, TypeOK, HandOfPack,
      BreaksInArchive, UpToLastPack, CheckedPack, LatestRec, NoPackTwice, Neighbours, IsRepeated
<1> QED
  BY <1>1, <1>2, <1>3, <1>4 DEF Next

(* Between two pauses no pack is recorded twice or after a later one: the   *)
(* check of pack_nn in appendRec, for any network, any number of pauses,    *)
(* clears and failures, and packs of any size.                             *)
THEOREM RecordedOnce == Spec => []NoPackTwice
<1>1. Init => IInv
  BY InitIInv
<1>2. IInv /\ [Next]_vars => IInv'
  BY StepIInv
<1>3. IInv => NoPackTwice
  BY DEF IInv
<1> QED
  BY <1>1, <1>2, <1>3, PTL DEF Spec

-----------------------------------------------------------------------------
(* The lost counter.                                                       *)

(* Which steps touch the archive and what was counted for it.               *)
LEMMA ArchiveSteps ==
  ASSUME [Next]_vars
  PROVE  \/ UNCHANGED <<lastRecNN, lost, recorded, breaks>>
         \/ AppendRec
         \/ OnPaused
         \/ ClearArchive
<1>1. SenderStep \/ Lose => UNCHANGED <<lastRecNN, lost, recorded, breaks>>
  BY DEF SenderStep, Send, GiveUp, SeeAck, Lose, archiveVars, uiVars
<1>2. ThreadStep => UNCHANGED <<lastRecNN, lost, recorded, breaks>> \/ AppendRec
  BY DEF ThreadStep, Receive, SendAck, SocketFails, Record, SkipRepeated, PackDone, InvalidRec,
         archiveVars, uiVars
<1>3. UiStep => UNCHANGED <<lastRecNN, lost, recorded, breaks>> \/ OnPaused \/ ClearArchive
  BY DEF UiStep, Stop, Start, archiveVars
<1> QED
  BY <1>1, <1>2, <1>3 DEF Next, vars, archiveVars, uiVars

(* appendRec, seen from the application it records for.                     *)
LEMMA AppendView ==
  ASSUME IInv, AppendRec, NEW a, a = hand.app, NEW n, n = hand.next
  PROVE  /\ a \in Apps /\ n \in Recs /\ n \in Nat
         /\ recorded[a] \in Seq(Recs) /\ Len(recorded[a]) \in Nat
         /\ recorded'[a] = Append(recorded[a], n)
         /\ lastRecNN'[a] = n
         /\ lost[a] \in Nat /\ lost'[a] = lost[a] + LostBy(n, lastRecNN[a])
         /\ breaks' = breaks
         /\ \A b \in Apps : b # a => /\ recorded'[b] = recorded[b]
                                     /\ lastRecNN'[b] = lastRecNN[b]
                                     /\ lost'[b] = lost[b]
<1>1. a \in Apps /\ n \in Recs /\ n \in Nat
  BY AppendFacts DEF Recs
<1>2. recorded \in [Apps -> Seq(Recs)] /\ lost \in [Apps -> Nat] /\ DOMAIN lastRecNN = Apps
  BY DEF IInv, TypeOK
<1>3. recorded[a] \in Seq(Recs) /\ Len(recorded[a]) \in Nat /\ lost[a] \in Nat
  BY <1>1, <1>2
<1>4. breaks' = breaks
  BY DEF AppendRec, uiVars
<1>5. /\ recorded' = [recorded EXCEPT ![a] = Append(@, n)]
      /\ lastRecNN' = [lastRecNN EXCEPT ![a] = n]
      /\ lost' = [lost EXCEPT ![a] = @ + LostBy(n, lastRecNN[a])]
  BY DEF AppendRec
<1> QED
  BY <1>1, <1>2, <1>3, <1>4, <1>5

(* The neighbours an append adds: the record before, unless there is none   *)
(* or a pause came after it.                                               *)
LEMMA NeighboursGrow ==
  ASSUME IInv, AppendRec, NEW a, a = hand.app
  PROVE  Neighbours(a)' = Neighbours(a) \cup ({Len(recorded[a])} \ ({0} \cup breaks[a]))
<1> DEFINE len == Len(recorded[a])
<1>1. len \in Nat /\ recorded'[a] = Append(recorded[a], hand.next) /\ breaks' = breaks
      /\ recorded[a] \in Seq(Recs)
  BY AppendView
<1>2. Len(recorded'[a]) = len + 1
  BY <1>1
<1>3. Neighbours(a)' = {i \in 1..len : i \notin breaks[a]}
  BY <1>1, <1>2 DEF Neighbours
<1>4. Neighbours(a) = {i \in 1..(len - 1) : i \notin breaks[a]}
  BY DEF Neighbours
<1>5. ASSUME NEW i PROVE i \in 1..len <=> i \in 1..(len - 1) \/ (i = len /\ i # 0)
  BY <1>1
<1> HIDE DEF len
<1> QED
  BY <1>3, <1>4, <1>5 DEF len

LEMMA LostByFacts ==
  ASSUME NEW n \in Nat \ {0}, NEW previous \in Nat
  PROVE  /\ LostBy(n, previous) \in Nat
         /\ LostBy(n, previous) = 0 <=> previous = INFINITE \/ n \in {previous, previous + 1}
         /\ previous # INFINITE => n - previous - 1 <= LostBy(n, previous)
BY DEF LostBy, Distance, INFINITE

LEMMA MissingFinite == ASSUME NEW a PROVE IsFiniteSet(Missing(a)) /\ Missing(a) \subseteq Recs
<1>1. Missing(a) \subseteq Recs
  BY DEF Missing
<1>2. Last(MaxPacks) \in Int
  BY ConstantsAssumption DEF Last
<1>3. IsFiniteSet(Recs)
  BY <1>2, FS_Interval DEF Recs
<1> QED
  BY <1>1, <1>3, FS_Subset

LEMMA RecsAreNumbers == Recs \subseteq Nat \ {0}
BY DEF Recs

LEMMA Appended ==
  ASSUME NEW S, NEW s \in Seq(S), NEW x \in S
  PROVE  /\ Len(s) \in Nat /\ Len(Append(s, x)) = Len(s) + 1
         /\ DOMAIN s = 1..Len(s) /\ DOMAIN Append(s, x) = 1..(Len(s) + 1)
         /\ Append(s, x)[Len(s) + 1] = x
         /\ \A i \in 1..Len(s) : Append(s, x)[i] = s[i] /\ s[i] \in S
OBVIOUS

(* What becomes missing when n follows previous are the numbers between.    *)
LEMMA MissingGrow ==
  ASSUME IInv, PreviousKnown, AppendRec, NEW a, a = hand.app,
         NEW n, n = hand.next, NEW previous, previous = lastRecNN[a]
  PROVE  Missing(a)' \subseteq
           Missing(a) \cup (IF previous = INFINITE THEN {} ELSE (previous + 1)..(n - 1))
<1> DEFINE len == Len(recorded[a])
<1>1. /\ a \in Apps /\ n \in Nat /\ len \in Nat /\ breaks' = breaks
      /\ recorded[a] \in Seq(Recs) /\ recorded'[a] = Append(recorded[a], n)
  BY AppendView
<1>2. /\ recorded'[a][len + 1] = n
      /\ \A i \in 1..len : recorded'[a][i] = recorded[a][i] /\ recorded[a][i] \in Nat
      /\ DOMAIN recorded[a] = 1..len /\ DOMAIN recorded'[a] = 1..(len + 1)
  <2>1. n \in Recs
    BY AppendView
  <2> QED
    BY <1>1, <2>1, Appended, RecsAreNumbers
<1>3. Neighbours(a)' = Neighbours(a) \cup ({len} \ ({0} \cup breaks[a]))
  BY NeighboursGrow
<1>4. len \notin {0} \cup breaks[a] =>
        previous = recorded[a][len] /\ len \in 1..len /\ previous # INFINITE
  <2>1. len \notin {0} \cup breaks[a] => previous = recorded[a][len] /\ len \in 1..len
    BY <1>1 DEF PreviousKnown
  <2>2. \A i \in 1..len : recorded[a][i] # INFINITE
    BY <1>1, RecsAreNumbers DEF INFINITE
  <2> QED
    BY <2>1, <2>2
<1>5. SUFFICES ASSUME NEW m \in Missing(a)', m \notin Missing(a)
               PROVE  previous # INFINITE /\ m \in (previous + 1)..(n - 1)
  OBVIOUS
<1>6. m \in Recs /\ m \in Nat /\ m \notin NumbersIn(recorded'[a])
  BY <1>5 DEF Missing, Recs
<1>7. m \notin NumbersIn(recorded[a])
  BY <1>2, <1>6 DEF NumbersIn
<1>8. PICK i \in Neighbours(a)' : recorded'[a][i] < m /\ m < recorded'[a][i + 1]
  BY <1>5 DEF Missing
<1>9. i \notin Neighbours(a)
  <2> SUFFICES ASSUME i \in Neighbours(a) PROVE FALSE
    OBVIOUS
  <2>1. i \in 1..len /\ i + 1 \in 1..len
    BY <1>1 DEF Neighbours
  <2>2. recorded[a][i] < m /\ m < recorded[a][i + 1]
    BY <1>2, <1>8, <2>1
  <2> QED
    BY <1>5, <1>6, <1>7, <2>2 DEF Missing
<1>10. i = len /\ len \notin {0} \cup breaks[a]
  BY <1>3, <1>8, <1>9
<1>11. previous < m /\ m < n /\ previous \in Nat
  BY <1>2, <1>4, <1>8, <1>10
<1> QED
  BY <1>1, <1>4, <1>6, <1>10, <1>11

LEMMA AppendLoss ==
  ASSUME IInv, LossInv, AppendRec
  PROVE  LossInv'
<1>0. PICK a, n, previous : a = hand.app /\ n = hand.next /\ previous = lastRecNN[a]
  OBVIOUS
<1> DEFINE len == Len(recorded[a])
           gap == IF previous = INFINITE THEN {} ELSE (previous + 1)..(n - 1)
<1>1. /\ a \in Apps /\ n \in Recs /\ n \in Nat /\ len \in Nat /\ recorded[a] \in Seq(Recs)
      /\ recorded'[a] = Append(recorded[a], n)
      /\ lastRecNN'[a] = n /\ breaks' = breaks
      /\ lost[a] \in Nat /\ lost'[a] = lost[a] + LostBy(n, previous)
  BY <1>0, AppendView
<1>2. \A b \in Apps : b # a =>
        recorded'[b] = recorded[b] /\ lastRecNN'[b] = lastRecNN[b] /\ lost'[b] = lost[b]
  BY <1>0, AppendView
<1>3. /\ Len(recorded'[a]) = len + 1 /\ recorded'[a][len + 1] = n
      /\ \A i \in 1..len : recorded'[a][i] = recorded[a][i] /\ recorded[a][i] \in Nat \ {0}
  <2>1. /\ Len(recorded'[a]) = len + 1 /\ recorded'[a][len + 1] = n
        /\ \A i \in 1..len : recorded'[a][i] = recorded[a][i] /\ recorded[a][i] \in Recs
    <3>1. n \in Recs /\ recorded[a] \in Seq(Recs) /\ recorded'[a] = Append(recorded[a], n)
      BY <1>1
    <3> QED
      BY <3>1, Appended
  <2> QED
    BY <2>1, RecsAreNumbers
<1>4. previous \in Nat /\ n \in Nat \ {0}
  <2>1. lastRecNN \in [Apps -> Recs \cup {INFINITE}]
    BY DEF IInv, TypeOK
  <2> QED
    BY <1>0, <1>1, <2>1 DEF Recs, INFINITE
<1>5. /\ LostBy(n, previous) \in Nat
      /\ LostBy(n, previous) = 0 <=> previous = INFINITE \/ n \in {previous, previous + 1}
      /\ previous # INFINITE => n - previous - 1 <= LostBy(n, previous)
  BY <1>4, LostByFacts
<1>6. Neighbours(a)' = Neighbours(a) \cup ({len} \ ({0} \cup breaks[a]))
  BY <1>0, NeighboursGrow
<1>7. previous = IF len \in {0} \cup breaks[a] THEN INFINITE ELSE recorded[a][len]
  BY <1>0, <1>1 DEF LossInv, PreviousKnown
<1>8. \A i \in Neighbours(a) : i \in 1..len /\ i + 1 \in 1..len
  BY <1>1 DEF Neighbours
<1>9. len \notin {0} \cup breaks[a] => len \in 1..len /\ previous # INFINITE
  <2>1. len # 0 => len \in 1..len
    BY <1>1
  <2> QED
    BY <1>3, <1>7, <2>1 DEF INFINITE
<1> HIDE DEF len, gap
<1>10. PreviousKnown'
  <2>1. len + 1 \notin {0} \cup breaks'[a]
    BY <1>1 DEF IInv, BreaksInArchive, len
  <2>2. lastRecNN'[a] = IF Len(recorded'[a]) \in {0} \cup breaks'[a]
                        THEN INFINITE ELSE recorded'[a][Len(recorded'[a])]
    BY <1>1, <1>3, <2>1
  <2> QED
    BY <1>1, <1>2, <2>2, Zenon DEF LossInv, PreviousKnown
<1>11. LossReported'
  <2>1. ASSUME NEW b \in Apps, b # a PROVE LossReported!(b)'
    BY <1>1, <1>2, <2>1 DEF LossInv, LossReported, Neighbours
  <2>2. lost'[a] = 0 <=> lost[a] = 0 /\ LostBy(n, previous) = 0
    BY <1>1, <1>5
  <2>3. lost[a] = 0 <=>
          \A i \in Neighbours(a) : recorded[a][i + 1] \in {recorded[a][i], recorded[a][i] + 1}
    BY <1>1 DEF LossInv, LossReported
  <2>4. ASSUME NEW i \in Neighbours(a)
        PROVE  recorded'[a][i + 1] = recorded[a][i + 1] /\ recorded'[a][i] = recorded[a][i]
    BY <1>3, <1>8
  <2>5. CASE len \in {0} \cup breaks[a]
    <3>1. Neighbours(a)' = Neighbours(a) /\ LostBy(n, previous) = 0
      BY <1>5, <1>6, <1>7, <2>5
    <3>2. lost'[a] = 0 <=>
            \A i \in Neighbours(a)' :
              recorded'[a][i + 1] \in {recorded'[a][i], recorded'[a][i] + 1}
      BY <2>2, <2>3, <2>4, <3>1, Zenon
    <3> QED
      BY <2>1, <3>2, Zenon DEF LossReported
  <2>6. CASE len \notin {0} \cup breaks[a]
    <3>1. Neighbours(a)' = Neighbours(a) \cup {len} /\ previous = recorded[a][len]
      BY <1>6, <1>7, <2>6
    <3>2. recorded'[a][len] = previous /\ recorded'[a][len + 1] = n
      BY <1>3, <1>9, <2>6, <3>1
    <3>3. LostBy(n, previous) = 0 <=> recorded'[a][len + 1] \in {recorded'[a][len], recorded'[a][len] + 1}
      BY <1>5, <1>9, <2>6, <3>2
    <3> QED
      BY <2>1, <2>2, <2>3, <2>4, <3>1, <3>3, Zenon DEF LossReported
  <2> QED
    BY <2>5, <2>6
<1>12. LossNotUnderstated'
  <2>1. ASSUME NEW b \in Apps, b # a PROVE LossNotUnderstated!(b)'
    <3>1. Missing(b)' = Missing(b)
      BY <1>1, <1>2, <2>1 DEF Missing, Neighbours
    <3> QED
      BY <1>2, <2>1, <3>1 DEF LossInv, LossNotUnderstated
  <2>2. Missing(a)' \subseteq Missing(a) \cup gap
    BY <1>0, MissingGrow DEF LossInv, gap
  <2>3. IsFiniteSet(gap) /\ Cardinality(gap) <= LostBy(n, previous) /\ Cardinality(gap) \in Nat
    <3>1. CASE previous = INFINITE
      BY <1>5, <3>1, FS_EmptySet DEF gap
    <3>2. CASE previous # INFINITE
      <4>1. gap = (previous + 1)..(n - 1) /\ previous + 1 \in Int /\ n - 1 \in Int
        BY <1>4, <3>2 DEF gap
      <4>2. /\ IsFiniteSet(gap)
            /\ Cardinality(gap) = IF previous + 1 > n - 1 THEN 0
                                  ELSE (n - 1) - (previous + 1) + 1
        BY <4>1, FS_Interval
      <4> QED
        BY <1>4, <1>5, <3>2, <4>2
    <3> QED
      BY <3>1, <3>2
  <2>4. IsFiniteSet(Missing(a)) /\ Cardinality(Missing(a)) \in Nat
    BY MissingFinite, FS_CardinalityType
  <2>5. Cardinality(Missing(a)) <= lost[a]
    BY <1>1 DEF LossInv, LossNotUnderstated
  <2>6. /\ IsFiniteSet(Missing(a) \cup gap)
        /\ Cardinality(Missing(a) \cup gap)
             = Cardinality(Missing(a)) + Cardinality(gap) - Cardinality(Missing(a) \cap gap)
    BY <2>3, <2>4, FS_Union
  <2>7. Cardinality(Missing(a) \cap gap) \in Nat
    <3>1. IsFiniteSet(Missing(a) \cap gap)
      BY <2>3, FS_Intersection
    <3> QED
      BY <3>1, FS_CardinalityType
  <2>8. /\ Cardinality(Missing(a)') <= Cardinality(Missing(a) \cup gap)
        /\ Cardinality(Missing(a)') \in Nat
    <3>1. IsFiniteSet(Missing(a)')
      BY <2>2, <2>6, FS_Subset
    <3> QED
      BY <2>2, <2>6, <3>1, FS_Subset, FS_CardinalityType
  <2>9. Cardinality(Missing(a)') <= lost'[a]
    BY <1>1, <1>5, <2>3, <2>4, <2>5, <2>6, <2>7, <2>8
  <2> QED
    BY <2>1, <2>9, Zenon DEF LossNotUnderstated
<1> QED
  BY <1>10, <1>11, <1>12 DEF LossInv

LEMMA StepLoss == ASSUME IInv, LossInv, [Next]_vars PROVE LossInv'
<1>1. CASE UNCHANGED <<lastRecNN, lost, recorded, breaks>>
  BY <1>1 DEF LossInv, PreviousKnown, LossReported, LossNotUnderstated, Missing, Neighbours
<1>2. CASE AppendRec
  BY <1>2, AppendLoss
<1>3. CASE OnPaused
  <2>1. /\ recorded' = recorded /\ lost' = lost
        /\ \A a \in Apps : breaks'[a] = breaks[a] \cup {Len(recorded[a])}
        /\ \A a \in Apps : lastRecNN'[a] = INFINITE
        /\ \A a \in Apps : Len(recorded[a]) \in Nat
    BY <1>3 DEF OnPaused, IInv, TypeOK
  <2>2. ASSUME NEW a \in Apps PROVE Neighbours(a)' = Neighbours(a)
    BY <2>1 DEF Neighbours
  <2>3. ASSUME NEW a \in Apps PROVE Missing(a)' = Missing(a)
    BY <2>1, <2>2, Zenon DEF Missing
  <2>4. PreviousKnown'
    BY <2>1 DEF PreviousKnown
  <2>5. LossReported'
    BY <2>1, <2>2, Zenon DEF LossInv, LossReported
  <2>6. LossNotUnderstated'
    BY <2>1, <2>3, Zenon DEF LossInv, LossNotUnderstated
  <2> QED
    BY <2>4, <2>5, <2>6 DEF LossInv
<1>4. CASE ClearArchive
  <2>1. \A a \in Apps : lost'[a] = 0 /\ recorded'[a] = << >> /\ lastRecNN'[a] = INFINITE
    BY <1>4 DEF ClearArchive
  <2>2. ASSUME NEW a \in Apps PROVE Neighbours(a)' = {}
    BY <2>1 DEF Neighbours
  <2>3. ASSUME NEW a \in Apps PROVE Cardinality(Missing(a)') = 0
    <3>1. Missing(a)' = {}
      BY <2>2 DEF Missing
    <3> QED
      BY <3>1, FS_EmptySet
  <2> QED
    BY <2>1, <2>2, <2>3 DEF LossInv, PreviousKnown, LossReported, LossNotUnderstated
<1> QED
  BY <1>1, <1>2, <1>3, <1>4, ArchiveSteps

LEMMA InitLoss == Init => LossInv
<1> SUFFICES ASSUME Init PROVE LossInv
  OBVIOUS
<1>1. \A a \in Apps : lost[a] = 0 /\ recorded[a] = << >> /\ lastRecNN[a] = INFINITE
  BY DEF Init
<1>2. ASSUME NEW a \in Apps PROVE Neighbours(a) = {}
  BY <1>1 DEF Neighbours
<1>3. ASSUME NEW a \in Apps PROVE Cardinality(Missing(a)) = 0
  <2>1. Missing(a) = {}
    BY <1>2 DEF Missing
  <2> QED
    BY <2>1, FS_EmptySet
<1> QED
  BY <1>1, <1>2, <1>3 DEF LossInv, PreviousKnown, LossReported, LossNotUnderstated

LEMMA LossAlways == Spec => []LossInv
<1>1. Init => IInv /\ LossInv
  BY InitIInv, InitLoss
<1>2. IInv /\ LossInv /\ [Next]_vars => IInv' /\ LossInv'
  BY StepIInv, StepLoss
<1> QED
  BY <1>1, <1>2, PTL DEF Spec

(* The lost counter of an application is 0 exactly when its records came    *)
(* without gap and in order between the pauses: what appendRec adds is 0    *)
(* for the next number or the same one, and never negative.                *)
THEOREM LossIsReported == Spec => []LossReported
<1>1. LossInv => LossReported
  BY DEF LossInv
<1> QED
  BY <1>1, LossAlways, PTL

(* Every record missing between two neighbours of the archive is counted by *)
(* appendRec: the counter is never less than the number of them.           *)
THEOREM LossIsCounted == Spec => []LossNotUnderstated
<1>1. LossInv => LossNotUnderstated
  BY DEF LossInv
<1> QED
  BY <1>1, LossAlways, PTL

-----------------------------------------------------------------------------
(* What an application saw acknowledged.                                    *)

HeldKept == \A a \in Apps : \A k \in Packs : Held(a, k) => Held(a, k)'

LEMMA LastIsInjective ==
  ASSUME NEW j \in Packs, NEW k \in Packs, Last(j) = Last(k)
  PROVE  j = k
<1>1. j \in Nat /\ k \in Nat
  BY ConstantsAssumption DEF Packs
<1>2. ~(j < k) /\ ~(k < j)
  BY PackOrder, PackBounds
<1> QED
  BY <1>1, <1>2

(* While nothing is being recorded, what is held is in the archive.         *)
LEMMA HeldAtRest ==
  ASSUME TypeOK, \A a \in Apps : \A k \in Packs : ~BeingRecorded(a, k), recorded' = recorded
  PROVE  HeldKept
BY DEF HeldKept, Held, NumbersIn

LEMMA HeldParts ==
  ASSUME TypeOK, HeldInv, HeldKept, UNCHANGED <<senderVars, acks>>,
         \A a \in Apps : lastPackNN'[a] \in Packs => lastPackNN'[a] = lastPackNN[a]
  PROVE  LastPackHeld' /\ AcksHeld' /\ AckedIsRecorded'
<1>1. cur' = cur /\ acked' = acked /\ acks' = acks
  BY DEF senderVars
<1>2. LastPackHeld'
  <2> SUFFICES ASSUME NEW a \in Retrying, NEW k \in Packs, lastPackNN'[a] = k
               PROVE  Held(a, k)'
    BY DEF LastPackHeld
  <2>1. a \in Apps /\ lastPackNN[a] = k
    BY ConstantsAssumption
  <2> QED
    BY <2>1 DEF HeldInv, LastPackHeld, HeldKept
<1>3. AcksHeld'
  <2> SUFFICES ASSUME NEW m \in acks, m.app \in Retrying, m.pack = cur[m.app]
               PROVE  Held(m.app, m.pack)'
    BY <1>1 DEF AcksHeld
  <2>1. m.app \in Apps /\ m.pack \in Packs
    BY DEF TypeOK, Datagram
  <2> QED
    BY <2>1 DEF HeldInv, AcksHeld, HeldKept
<1>4. AckedIsRecorded'
  <2> SUFFICES ASSUME NEW a \in Retrying, NEW k \in acked[a]
               PROVE  Held(a, k)'
    BY <1>1 DEF AckedIsRecorded
  <2>1. a \in Apps /\ k \in Packs
    BY ConstantsAssumption DEF TypeOK
  <2> QED
    BY <2>1 DEF HeldInv, AckedIsRecorded, HeldKept
<1> QED
  BY <1>2, <1>3, <1>4

(* The applications only count up, and an acknowledgement they count is one *)
(* of the pack they are sending, which is held.                            *)
LEMMA OutsideHeld == ASSUME IInv, HeldInv, SenderStep \/ Lose PROVE HeldInv'
<1>1. UNCHANGED <<pc, hand, packNN, lastPackNN, recorded, status>>
  BY DEF SenderStep, Send, SeeAck, GiveUp, Lose, threadVars, archiveVars, uiVars
<1>2. \A a, k : Held(a, k)' = Held(a, k)
  BY <1>1 DEF Held, BeingRecorded, NumbersIn, IsRepeated
<1>3. cur \in [Apps -> Nat] /\ lastPackNN \in [Apps -> Int] /\ acks \subseteq Datagram
      /\ net \subseteq Datagram /\ hand.app \in Apps
  BY ConstantsAssumption DEF IInv, TypeOK
<1>4. /\ \A a \in Apps : cur'[a] = cur[a] \/ cur'[a] = cur[a] + 1
      /\ acks' \subseteq acks
      /\ \A d \in net' : d \in net \/ (d.app \in Apps /\ d.pack = cur[d.app])
      /\ \A a \in Apps : \A k \in acked'[a] :
           k \in acked[a] \/ \E m \in acks : m.app = a /\ m.pack = k /\ k = cur[a]
  <2>1. ASSUME NEW a \in Apps, Send(a) PROVE <1>4
    <3>1. /\ \A b \in Apps : cur'[b] = cur[b] \/ cur'[b] = cur[b] + 1
          /\ acked' = acked /\ acks' = acks
          /\ net' = net \cup {[app |-> a, pack |-> cur[a]]}
      BY <1>3, <2>1 DEF Send
    <3> QED
      BY <3>1
  <2>2. ASSUME NEW a \in Apps, GiveUp(a) PROVE <1>4
    BY <1>3, <2>2 DEF GiveUp, wireVars
  <2>3. ASSUME NEW m \in acks, SeeAck(m) PROVE <1>4
    <3>1. m.app \in Apps /\ acks' \subseteq acks /\ net' = net
      BY <1>3, <2>3 DEF SeeAck, Datagram
    <3>2. CASE m.pack = cur[m.app]
      <4>1. /\ cur' = [cur EXCEPT ![m.app] = @ + 1]
            /\ acked' = [acked EXCEPT ![m.app] = @ \cup {m.pack}]
            /\ DOMAIN acked = Apps
        BY <2>3, <3>2 DEF SeeAck, IInv, TypeOK
      <4>2. \A b \in Apps : cur'[b] = cur[b] \/ cur'[b] = cur[b] + 1
        BY <1>3, <4>1
      <4>3. /\ \A b \in Apps : b # m.app => acked'[b] = acked[b]
            /\ acked'[m.app] = acked[m.app] \cup {m.pack}
        BY <3>1, <4>1
      <4> QED
        BY <3>1, <3>2, <4>2, <4>3
    <3>3. CASE m.pack # cur[m.app]
      BY <2>3, <3>1, <3>3 DEF SeeAck, senderVars
    <3> QED
      BY <3>2, <3>3
  <2>4. CASE Lose
    BY <2>4 DEF Lose, senderVars
  <2> QED
    BY <2>1, <2>2, <2>3, <2>4 DEF SenderStep
<1>5. \A a \in Apps : cur[a] \in Nat /\ cur'[a] \in Nat /\ cur[a] <= cur'[a]
  BY <1>3, <1>4
<1>6. SentOnly'
  <2>1. \A d \in net' \cup acks' : d.pack <= cur'[d.app]
    <3> SUFFICES ASSUME NEW d \in net' \cup acks' PROVE d.pack <= cur'[d.app]
      OBVIOUS
    <3>1. d.app \in Apps
      BY <1>3, <1>4 DEF Datagram
    <3>2. d \in Datagram \/ d.pack = cur[d.app]
      BY <1>3, <1>4
    <3>3. d.pack \in Int
      BY <1>5, <3>1, <3>2, ConstantsAssumption DEF Datagram, Packs
    <3>4. d.pack <= cur[d.app]
      BY <1>4, <1>5, <3>1, <3>3 DEF HeldInv, SentOnly
    <3> QED
      BY <1>5, <3>1, <3>3, <3>4
  <2>2. \A a \in Apps : lastPackNN'[a] <= cur'[a]
    <3> SUFFICES ASSUME NEW a \in Apps PROVE lastPackNN[a] <= cur'[a]
      BY <1>1
    <3>1. lastPackNN[a] <= cur[a] /\ lastPackNN[a] \in Int
      BY <1>3 DEF HeldInv, SentOnly
    <3> QED
      BY <1>5, <3>1
  <2>3. ASSUME pc \in {"ack", "record"}, NEW k \in Packs, hand.last = Last(k)
        PROVE  k <= cur'[hand.app]
    <3>1. k <= cur[hand.app] /\ k \in Nat
      BY <2>3, ConstantsAssumption DEF HeldInv, SentOnly, Packs
    <3> QED
      BY <1>3, <1>5, <3>1
  <2> QED
    BY <1>1, <2>1, <2>2, <2>3 DEF SentOnly
<1>7. AcksHeld'
  <2> SUFFICES ASSUME NEW m \in acks, m.app \in Retrying, m.pack = cur'[m.app]
               PROVE  Held(m.app, m.pack)
    BY <1>2, <1>4 DEF AcksHeld
  <2>1. m.app \in Apps /\ m.pack \in Nat /\ m.pack <= cur[m.app]
    BY <1>3, ConstantsAssumption DEF HeldInv, SentOnly, Datagram, Packs
  <2>2. m.pack = cur[m.app]
    BY <1>5, <2>1
  <2> QED
    BY <2>2 DEF HeldInv, AcksHeld
<1>8. AckedIsRecorded'
  <2> SUFFICES ASSUME NEW a \in Retrying, NEW k \in acked'[a] PROVE Held(a, k)
    BY <1>2 DEF AckedIsRecorded
  <2>1. CASE k \in acked[a]
    BY <2>1 DEF HeldInv, AckedIsRecorded
  <2>2. CASE \E m \in acks : m.app = a /\ m.pack = k /\ k = cur[a]
    BY <2>2 DEF HeldInv, AcksHeld
  <2> QED
    BY <1>4, <2>1, <2>2, ConstantsAssumption
<1>9. FromFirst' /\ OffIsEnded' /\ LastPackHeld'
  BY <1>1, <1>2 DEF HeldInv, FromFirst, OffIsEnded, LastPackHeld, IsRepeated
<1> QED
  BY <1>6, <1>7, <1>8, <1>9 DEF HeldInv

LEMMA ReceiveHeld == ASSUME IInv, HeldInv, NEW d \in net, Receive(d) PROVE HeldInv'
<1>1. d \in Datagram /\ d.app \in Apps /\ d.pack \in Packs /\ d.pack <= cur[d.app]
  <2>1. d \in Datagram
    BY DEF IInv, TypeOK
  <2> QED
    BY <2>1 DEF Datagram, HeldInv, SentOnly
<1>2. /\ pc = "receive" /\ pc' \in {"ack", "record"} /\ (pc' = "record" => packNN' = 0)
      /\ hand' = [app |-> d.app, next |-> First(d.pack), last |-> Last(d.pack)]
      /\ net' \subseteq net
      /\ UNCHANGED <<senderVars, acks, lastPackNN, recorded, status>>
      /\ status = "on"
  BY DEF Receive, archiveVars, uiVars
<1>3. HeldKept
  <2>1. \A a \in Apps : \A k \in Packs : ~BeingRecorded(a, k)
    BY <1>2 DEF BeingRecorded
  <2> QED
    BY <1>2, <2>1, HeldAtRest DEF IInv
<1>4. LastPackHeld' /\ AcksHeld' /\ AckedIsRecorded'
  BY <1>2, <1>3, HeldParts DEF IInv
<1>5. FromFirst' /\ OffIsEnded'
  BY <1>2 DEF FromFirst, OffIsEnded
<1>6. \A k \in Packs : hand'.last = Last(k) => k = d.pack
  BY <1>1, <1>2, LastIsInjective
<1>7. SentOnly'
  <2>1. hand'.app = d.app /\ cur' = cur
    BY <1>2 DEF senderVars
  <2> QED
    BY <1>1, <1>2, <1>6, <2>1 DEF SentOnly, HeldInv
<1> QED
  BY <1>4, <1>5, <1>7 DEF HeldInv

(* An acknowledgement is sent when the pack is about to be recorded, or     *)
(* when it is a repetition of the last one, which is held.                 *)
LEMMA SendAckHeld == ASSUME IInv, HeldInv, SendAck PROVE HeldInv'
<1>1. /\ pc = "ack" /\ status = "on"
      /\ UNCHANGED <<senderVars, net, hand, packNN, lastPackNN, recorded, status>>
      /\ pc' \in {"record", "receive"}
      /\ pc' = "record" => acks' = acks \cup {[app |-> hand.app, pack |-> packNN]}
      /\ pc' # "record" => acks' = acks
  BY DEF SendAck, archiveVars, uiVars
<1>2. PICK k \in Packs : hand.last = Last(k) /\ packNN = k /\ hand.next = First(k)
  BY <1>1 DEF IInv, HandOfPack
<1>3. PICK a \in Apps : a = hand.app
  BY DEF IInv, TypeOK
<1>4. HeldKept
  BY <1>1, HeldAtRest DEF IInv, BeingRecorded
<1>5. /\ k \in Nat /\ k > 0 /\ k <= cur[a]
      /\ lastPackNN[a] <= cur[a] /\ cur[a] \in Nat /\ lastPackNN[a] \in Int
  <2>1. k <= cur[a] /\ lastPackNN[a] <= cur[a]
    BY <1>1, <1>2, <1>3 DEF HeldInv, SentOnly
  <2>2. k \in Nat /\ k > 0
    BY ConstantsAssumption DEF Packs
  <2>3. cur[a] \in Nat /\ lastPackNN[a] \in Int
    <3>1. cur \in [Apps -> 1..(MaxPacks + 1)] /\ lastPackNN \in [Apps -> -1..MaxPacks]
      BY DEF IInv, TypeOK
    <3>2. cur[a] \in 1..(MaxPacks + 1) /\ lastPackNN[a] \in -1..MaxPacks
      BY <3>1
    <3> QED
      BY <3>2, ConstantsAssumption
  <2> QED
    BY <2>1, <2>2, <2>3
<1>6. FromFirst' /\ OffIsEnded'
  BY <1>1, <1>2 DEF FromFirst, OffIsEnded
<1>7. SentOnly'
  <2>1. \A d \in acks' : d \in acks \/ (d.app = a /\ d.pack = k)
    BY <1>1, <1>2, <1>3
  <2> QED
    BY <1>1, <1>2, <1>3, <1>5, <2>1 DEF SentOnly, HeldInv, senderVars
<1>8. LastPackHeld'
  BY <1>1, <1>4, ConstantsAssumption DEF LastPackHeld, HeldInv, HeldKept
<1>9. AckedIsRecorded'
  <2>1. \A b \in Retrying : \A j \in acked[b] : b \in Apps /\ j \in Packs
    BY ConstantsAssumption DEF IInv, TypeOK
  <2> QED
    BY <1>1, <1>4, <2>1 DEF AckedIsRecorded, HeldInv, HeldKept, senderVars
<1>10. AcksHeld'
  <2> SUFFICES ASSUME NEW m \in acks', m.app \in Retrying, m.pack = cur[m.app]
               PROVE  Held(m.app, m.pack)'
    BY <1>1 DEF AcksHeld, senderVars
  <2>1. CASE m \in acks
    <3>1. m.app \in Apps /\ m.pack \in Packs
      BY <2>1 DEF IInv, TypeOK, Datagram
    <3> QED
      BY <1>4, <2>1, <3>1 DEF HeldInv, AcksHeld, HeldKept
  <2>2. CASE m \notin acks
    <3>1. m.app = a /\ m.pack = k /\ pc' = "record" /\ k = cur[a] /\ a \in Retrying
      BY <1>1, <1>2, <1>3, <2>2
    <3>2. CASE IsRepeated
      <4>1. lastPackNN[a] = k
        BY <1>2, <1>3, <1>5, <3>1, <3>2 DEF IsRepeated
      <4>2. Held(a, k)
        BY <3>1, <4>1 DEF HeldInv, LastPackHeld
      <4> QED
        BY <1>3, <1>4, <3>1, <4>2 DEF HeldKept
    <3>3. CASE ~IsRepeated
      <4>1. ~IsRepeated'
        BY <1>1, <3>3 DEF IsRepeated
      <4>2. BeingRecorded(a, k)' /\ hand'.next = First(k)
        BY <1>1, <1>2, <1>3, <3>1, <4>1 DEF BeingRecorded
      <4>3. \A n \in First(k)..Last(k) : First(k) <= n
        BY PackBounds
      <4>4. Held(a, k)'
        BY <4>2, <4>3 DEF Held
      <4> QED
        BY <3>1, <4>4
    <3> QED
      BY <3>2, <3>3
  <2> QED
    BY <2>1, <2>2
<1> QED
  BY <1>6, <1>7, <1>8, <1>9, <1>10 DEF HeldInv

(* The steps that leave acknowledgements and archive alone: the thread ends *)
(* between packs, skips a repeated record or is done with a pack.          *)
LEMMA QuietHeld ==
  ASSUME IInv, HeldInv, SocketFails \/ PackDone \/ SkipRepeated
  PROVE  HeldInv'
<1>1. /\ UNCHANGED <<senderVars, net, acks, packNN, lastPackNN, recorded, status>>
      /\ hand'.app = hand.app /\ hand'.last = hand.last
      /\ pc' = pc \/ pc' \in {"receive", "ended"}
  BY DEF SocketFails, PackDone, SkipRepeated, wireVars, archiveVars, uiVars, IInv, TypeOK
<1>2. IsRepeated' = IsRepeated
  BY <1>1 DEF IsRepeated
<1>3. HeldKept
  <2>1. CASE SocketFails \/ SkipRepeated
    BY <1>1, <2>1, HeldAtRest DEF SocketFails, SkipRepeated, IInv, BeingRecorded
  <2>2. CASE PackDone
    <3>1. ASSUME NEW a \in Apps, NEW k \in Packs, BeingRecorded(a, k), NEW n \in First(k)..Last(k)
          PROVE  ~(hand.next <= n)
      <4>1. hand.next > Last(k) /\ hand.next \in Nat
        BY <2>2, <3>1 DEF PackDone, BeingRecorded, IInv, TypeOK
      <4> QED
        BY <4>1, PackBounds
    <3> QED
      BY <1>1, <3>1 DEF HeldKept, Held, NumbersIn
  <2> QED
    BY <2>1, <2>2
<1>4. LastPackHeld' /\ AcksHeld' /\ AckedIsRecorded'
  BY <1>1, <1>3, HeldParts DEF IInv
<1>5. FromFirst'
  <2>1. pc' = "record" => SkipRepeated
    BY DEF SocketFails, PackDone
  <2>2. SkipRepeated => IsRepeated
    BY DEF SkipRepeated
  <2> QED
    BY <1>2, <2>1, <2>2 DEF FromFirst
<1>6. OffIsEnded'
  BY <1>1 DEF OffIsEnded, HeldInv, SocketFails, PackDone, SkipRepeated
<1>7. SentOnly'
  BY <1>1 DEF SentOnly, HeldInv, senderVars
<1> QED
  BY <1>4, <1>5, <1>6, <1>7 DEF HeldInv

(* The record that is appended is the one its pack waits for, and the pack  *)
(* becomes the last one of its application, all of it held.                *)
LEMMA AppendHeld == ASSUME IInv, HeldInv, AppendRec PROVE HeldInv'
<1>0. PICK a, n : a = hand.app /\ n = hand.next
  OBVIOUS
<1>1. /\ a \in Apps /\ n \in Recs /\ n \in Nat /\ recorded[a] \in Seq(Recs)
      /\ recorded'[a] = Append(recorded[a], n)
      /\ \A b \in Apps : b # a => recorded'[b] = recorded[b]
  BY <1>0, AppendView
<1>2. /\ UNCHANGED <<senderVars, net, acks, pc, status>> /\ pc = "record"
      /\ hand'.app = a /\ hand'.next = n + 1 /\ hand'.last = hand.last
      /\ packNN' = (IF packNN > 0 THEN -packNN ELSE packNN)
      /\ lastPackNN' = (IF packNN > 0 THEN [lastPackNN EXCEPT ![a] = packNN] ELSE lastPackNN)
      /\ ~IsRepeated
  BY <1>0 DEF AppendRec, wireVars, uiVars, IInv, TypeOK
<1>3. PICK k \in Packs : /\ hand.last = Last(k)
                         /\ packNN \in IF a \in Retrying THEN {k, -k} ELSE {0}
  BY <1>0, <1>2 DEF IInv, HandOfPack
<1>4. k \in Nat /\ k > 0 /\ packNN \in Int /\ packNN' \in Int /\ ~(packNN' > 0)
      /\ (packNN > 0 => packNN = k /\ a \in Retrying)
  BY <1>2, <1>3, ConstantsAssumption DEF Packs
<1>5. ~IsRepeated'
  BY <1>4 DEF IsRepeated
<1>6. NumbersIn(recorded'[a]) = NumbersIn(recorded[a]) \cup {n}
  <2>1. /\ DOMAIN recorded[a] = 1..Len(recorded[a])
        /\ DOMAIN recorded'[a] = 1..(Len(recorded[a]) + 1)
        /\ recorded'[a][Len(recorded[a]) + 1] = n
        /\ \A i \in 1..Len(recorded[a]) : recorded'[a][i] = recorded[a][i]
        /\ Len(recorded[a]) \in Nat
    <3>1. n \in Recs /\ recorded[a] \in Seq(Recs) /\ recorded'[a] = Append(recorded[a], n)
      BY <1>1
    <3> QED
      BY <3>1, Appended
  <2>2. \A i : i \in 1..(Len(recorded[a]) + 1)
                 <=> i \in 1..Len(recorded[a]) \/ i = Len(recorded[a]) + 1
    BY <2>1
  <2> QED
    BY <2>1, <2>2, Zenon DEF NumbersIn
<1>7. ASSUME NEW j \in Packs, NEW m \in First(j)..Last(j),
             m \in NumbersIn(recorded[a]) \/ (hand.last = Last(j) /\ n <= m)
      PROVE  m \in NumbersIn(recorded'[a]) \/ (BeingRecorded(a, j)' /\ hand'.next <= m)
  <2>1. m \in Int
    BY PackBounds
  <2>2. CASE m \in NumbersIn(recorded[a]) \/ m = n
    BY <1>6, <2>2
  <2>3. CASE m # n /\ hand.last = Last(j) /\ n <= m
    <3>1. n + 1 <= m
      BY <1>1, <2>1, <2>3
    <3> QED
      BY <1>2, <1>5, <2>3, <3>1 DEF BeingRecorded
  <2> QED
    BY <1>7, <2>2, <2>3
<1>8. HeldKept
  <2> SUFFICES ASSUME NEW b \in Apps, NEW j \in Packs, Held(b, j) PROVE Held(b, j)'
    BY DEF HeldKept
  <2>1. CASE b # a
    BY <1>0, <1>1, <2>1 DEF Held, BeingRecorded
  <2>2. CASE b = a
    <3>1. \A m \in First(j)..Last(j) :
            m \in NumbersIn(recorded[a]) \/ (hand.last = Last(j) /\ n <= m)
      BY <1>0, <2>2 DEF Held, BeingRecorded
    <3> QED
      BY <1>7, <2>2, <3>1 DEF Held
  <2> QED
    BY <2>1, <2>2
<1>9. packNN > 0 => Held(a, k)'
  <2> SUFFICES ASSUME packNN > 0 PROVE Held(a, k)'
    OBVIOUS
  <2>1. n = First(k)
    BY <1>0, <1>2, <1>4 DEF HeldInv, FromFirst
  <2>2. \A m \in First(k)..Last(k) : n <= m
    BY <2>1, PackBounds
  <2> QED
    BY <1>3, <1>7, <2>2 DEF Held
<1>10. \A b \in Apps :
         \/ lastPackNN'[b] = lastPackNN[b]
         \/ b = a /\ packNN > 0 /\ lastPackNN'[b] = k
  BY <1>1, <1>2, <1>4 DEF IInv, TypeOK
<1>11. SentOnly'
  <2>1. k <= cur[a]
    BY <1>0, <1>2, <1>3 DEF HeldInv, SentOnly
  <2>2. \A b \in Apps : lastPackNN'[b] <= cur[b]
    BY <1>10, <2>1 DEF HeldInv, SentOnly
  <2> QED
    BY <1>0, <1>2, <2>2 DEF HeldInv, SentOnly, senderVars
<1>12. FromFirst' /\ OffIsEnded'
  BY <1>2, <1>4 DEF FromFirst, OffIsEnded, HeldInv
<1>13. LastPackHeld'
  <2> SUFFICES ASSUME NEW b \in Retrying, NEW j \in Packs, lastPackNN'[b] = j
               PROVE  Held(b, j)'
    BY DEF LastPackHeld
  <2>1. b \in Apps
    BY ConstantsAssumption
  <2>2. CASE lastPackNN[b] = j
    BY <1>8, <2>1, <2>2 DEF HeldInv, LastPackHeld, HeldKept
  <2>3. CASE b = a /\ packNN > 0 /\ j = k
    BY <1>9, <2>3
  <2> QED
    BY <1>10, <2>1, <2>2, <2>3
<1>14. AcksHeld'
  <2> SUFFICES ASSUME NEW m \in acks, m.app \in Retrying, m.pack = cur[m.app]
               PROVE  Held(m.app, m.pack)'
    BY <1>2 DEF AcksHeld, senderVars
  <2>1. m \in Datagram
    BY DEF IInv, TypeOK
  <2>2. m.app \in Apps /\ m.pack \in Packs
    BY <2>1 DEF Datagram
  <2> QED
    BY <1>8, <2>2 DEF HeldInv, AcksHeld, HeldKept
<1>15. AckedIsRecorded'
  <2>1. \A b \in Retrying : \A j \in acked[b] : b \in Apps /\ j \in Packs
    BY ConstantsAssumption DEF IInv, TypeOK
  <2> QED
    BY <1>2, <1>8, <2>1 DEF HeldInv, AckedIsRecorded, HeldKept, senderVars
<1> QED
  BY <1>11, <1>12, <1>13, <1>14, <1>15 DEF HeldInv

(* A pause forgets the last packs and keeps the archive; it waits for the   *)
(* thread, which ends between two packs.                                   *)
LEMMA UiHeld == ASSUME IInv, HeldInv, Stop \/ OnPaused \/ Start PROVE HeldInv'
<1>1. CASE Stop
  <2>1. UNCHANGED <<senderVars, wireVars, threadVars, archiveVars>> /\ status' = "stopping"
    BY <1>1 DEF Stop
  <2> QED
    BY <2>1
    DEF senderVars, wireVars, threadVars, archiveVars, HeldInv, SentOnly, FromFirst, OffIsEnded,
        LastPackHeld, AcksHeld, AckedIsRecorded, Held, BeingRecorded, IsRepeated, NumbersIn
<1>2. CASE OnPaused \/ Start
  <2>1. /\ UNCHANGED <<senderVars, net, acks, recorded>>
        /\ pc = "ended" /\ pc' \in {"ended", "receive"}
        /\ (status' = "off" => pc' = "ended")
        /\ \A a \in Apps : lastPackNN'[a] = -1 \/ lastPackNN'[a] = lastPackNN[a]
    BY <1>2 DEF OnPaused, Start, wireVars, threadVars, archiveVars, HeldInv, OffIsEnded
  <2>2. HeldKept
    <3>1. \A a \in Apps : \A k \in Packs : ~BeingRecorded(a, k)
      BY <2>1 DEF BeingRecorded
    <3> QED
      BY <2>1, <3>1, HeldAtRest DEF IInv
  <2>3. \A a \in Apps : lastPackNN'[a] \in Packs => lastPackNN'[a] = lastPackNN[a]
    BY <2>1, ConstantsAssumption DEF Packs
  <2>4. LastPackHeld' /\ AcksHeld' /\ AckedIsRecorded'
    BY <2>1, <2>2, <2>3, HeldParts DEF IInv
  <2>5. FromFirst' /\ OffIsEnded'
    BY <2>1 DEF FromFirst, OffIsEnded
  <2>6. SentOnly'
    <3>1. \A a \in Apps : cur[a] \in Nat /\ -1 <= cur[a]
      BY ConstantsAssumption DEF IInv, TypeOK
    <3> QED
      BY <2>1, <3>1 DEF HeldInv, SentOnly, senderVars
  <2> QED
    BY <2>4, <2>5, <2>6 DEF HeldInv
<1> QED
  BY <1>1, <1>2

LEMMA StepHeld ==
  ASSUME IInv, HeldInv, [Next]_vars, "invalid" \notin Occurs, "clear" \notin Occurs
  PROVE  HeldInv'
<1>1. CASE SenderStep \/ Lose
  BY <1>1, OutsideHeld
<1>2. CASE ThreadStep
  <2>1. ~InvalidRec
    BY DEF InvalidRec
  <2> QED
    BY <1>2, <2>1, ReceiveHeld, SendAckHeld, QuietHeld, AppendHeld DEF ThreadStep, Record
<1>3. CASE UiStep
  BY <1>3, UiHeld DEF UiStep, ClearArchive
<1>4. CASE UNCHANGED vars
  BY <1>4
  DEF vars, senderVars, wireVars, threadVars, archiveVars, uiVars, HeldInv, SentOnly, FromFirst,
      OffIsEnded, LastPackHeld, AcksHeld, AckedIsRecorded, Held, BeingRecorded, IsRepeated, NumbersIn
<1> QED
  BY <1>1, <1>2, <1>3, <1>4 DEF Next

LEMMA InitHeld == Init => HeldInv
BY ConstantsAssumption
DEF Init, HeldInv, SentOnly, FromFirst, OffIsEnded, LastPackHeld, AcksHeld, AckedIsRecorded,
    Packs, Datagram

(* An application that uses retries and saw a pack acknowledged can forget  *)
(* it: all its records are in the archive or the receiver is recording      *)
(* them.  It holds whatever the network and the sockets do, with packs      *)
(* given up and with pauses; it takes that no record is invalid (Work ends  *)
(* in the middle of the pack it acknowledged) and that the log is not       *)
(* cleared.                                                                *)
THEOREM AckedIsHeld ==
  ASSUME "invalid" \notin Occurs, "clear" \notin Occurs
  PROVE  Spec => []AckedIsRecorded
<1>1. Init => IInv /\ HeldInv
  BY InitIInv, InitHeld
<1>2. IInv /\ HeldInv /\ [Next]_vars => IInv' /\ HeldInv'
  BY StepIInv, StepHeld
<1>3. HeldInv => AckedIsRecorded
  BY DEF HeldInv
<1> QED
  BY <1>1, <1>2, <1>3, PTL DEF Spec
=============================================================================
