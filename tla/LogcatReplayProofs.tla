------------------------- MODULE LogcatReplayProofs -------------------------
(***************************************************************************)
(* Proofs about LogcatReplay, for any log, any ring buffer, any way the     *)
(* output is cut into chunks, and breaks of the connection at any place.    *)
(*                                                                         *)
(* The first part follows getLine through a chunk and ends in a view of     *)
(* HandleLogData that knows nothing of chunks: it meets the metadata of an  *)
(* entry, or its text, or neither.  The second part is about what is        *)
(* bypassed and what is shown.                                             *)
(***************************************************************************)
EXTENDS LogcatReplay, FiniteSetTheorems, SequenceTheorems, TLAPS

LEMMA MinIs ==
  ASSUME NEW S \in SUBSET Int, NEW k \in S, \A n \in S : k <= n
  PROVE  Min(S) = k
<1>1. \A x \in S : (\A y \in S : x <= y) => x = k
  OBVIOUS
<1> QED
  BY <1>1 DEF Min

LEMMA MinOf ==
  ASSUME NEW a \in Int, NEW b \in Int, a <= b PROVE Min({a, b}) = a
<1>1. {a, b} \in SUBSET Int /\ a \in {a, b} /\ \A n \in {a, b} : a <= n
  OBVIOUS
<1> QED
  BY <1>1, MinIs

LEMMA MaxIs ==
  ASSUME NEW a \in Int, NEW b \in Int
  PROVE  Max({a, b}) = IF a <= b THEN b ELSE a
<1> DEFINE m == IF a <= b THEN b ELSE a
<1>1. m \in {a, b} /\ \A y \in {a, b} : m >= y
  OBVIOUS
<1>2. \A x \in {a, b} : (\A y \in {a, b} : x >= y) => x = m
  OBVIOUS
<1> HIDE DEF m
<1> QED
  BY <1>1, <1>2 DEF Max

LEMMA TypeIs ==
  ASSUME TypeOK
  PROVE  /\ Len(log) \in Nat /\ gone \in 0..Len(log) /\ latest \in 0..Len(log)
         /\ chunk \in Seq(Places) /\ Len(chunk) \in Nat /\ DOMAIN chunk = 1..Len(chunk)
         /\ buf \in Seq(Places) /\ Len(buf) \in Nat /\ DOMAIN buf = 1..Len(buf)
         /\ \A i \in 1..Len(chunk) : chunk[i] \in Places
         /\ BufSize \in Nat /\ BufSize > 2
         /\ chunk = << >> <=> Len(chunk) = 0
         /\ buf = << >> <=> Len(buf) = 0
<1>1. /\ log \in Seq(Kinds) /\ chunk \in Seq(Places) /\ buf \in Seq(Places)
      /\ gone \in 0..Len(log) /\ latest \in 0..Len(log)
  BY DEF TypeOK
<1>2. BufSize \in Nat /\ BufSize > 2
  BY ConstantsAssumption
<1>3. /\ Len(log) \in Nat /\ Len(chunk) \in Nat /\ Len(buf) \in Nat
      /\ DOMAIN chunk = 1..Len(chunk) /\ DOMAIN buf = 1..Len(buf)
  BY <1>1, LenProperties
<1>4. \A i \in 1..Len(chunk) : chunk[i] \in Places
  BY <1>1, ElementOfSeq
<1>5. (chunk = << >> <=> Len(chunk) = 0) /\ (buf = << >> <=> Len(buf) = 0)
  BY <1>1, EmptySeq
<1> QED
  BY <1>1, <1>2, <1>3, <1>4, <1>5

LEMMA PlaceIs ==
  ASSUME TypeOK, NEW p \in Places
  PROVE  /\ p.of \in 0..Len(log) /\ p.at \in 1..7 /\ p.at <= Pieces(p.of)
         /\ p = [of |-> p.of, at |-> p.at]
         /\ [p EXCEPT !.at = @ + 1] = [of |-> p.of, at |-> p.at + 1]
BY DEF Places

-----------------------------------------------------------------------------
(* LogParcer::getLine.                                                     *)

LEMMA EndIs ==
  ASSUME TypeOK, NEW i \in 1..(Len(chunk) + 1), NEW k \in i..(Len(chunk) + 1),
         \A j \in i..(k - 1) : ~NewLine(chunk[j]),
         k <= Len(chunk) => NewLine(chunk[k])
  PROVE  LineEnd(i) = k
<1> DEFINE S == {j \in i..(Len(chunk) + 1) : j <= Len(chunk) => NewLine(chunk[j])}
<1>1. Len(chunk) \in Nat
  BY TypeIs
<1>2. S \in SUBSET Int /\ k \in S
  BY <1>1
<1>3. \A n \in S : k <= n
  BY <1>1
<1> HIDE DEF S
<1>4. Min(S) = k
  BY <1>2, <1>3, MinIs
<1> QED
  BY <1>4 DEF S, LineEnd

LEMMA GoIs ==
  ASSUME TypeOK, NEW i \in 1..(Len(chunk) + 1), NEW k \in i..(Len(chunk) + 1),
         \A j \in i..(k - 1) : NewLine(chunk[j]),
         k <= Len(chunk) => ~NewLine(chunk[k])
  PROVE  LineGo(i) = k
<1> DEFINE S == {j \in i..(Len(chunk) + 1) : j <= Len(chunk) => ~NewLine(chunk[j])}
<1>1. Len(chunk) \in Nat
  BY TypeIs
<1>2. S \in SUBSET Int /\ k \in S
  BY <1>1
<1>3. \A n \in S : k <= n
  BY <1>1
<1> HIDE DEF S
<1>4. Min(S) = k
  BY <1>2, <1>3, MinIs
<1> QED
  BY <1>4 DEF S, LineGo

(* The line begins at s and has at most r more pieces, for which there is   *)
(* room.                                                                   *)
LEMMA LineIs ==
  ASSUME TypeOK, NEW s \in 1..(Len(chunk) + 1), NEW r \in Nat, LineStart = s,
         \A j \in s..(s + r - 1) : j <= Len(chunk) => ~NewLine(chunk[j]),
         s + r <= Len(chunk) => NewLine(chunk[s + r]),
         Len(buf) + r <= BufSize,
         NEW z \in Nat, z = IF s + r <= Len(chunk) THEN s + r ELSE Len(chunk) + 1
  PROVE  /\ LineStop = z
         /\ Line \in Seq(Places) /\ Len(Line) = Len(buf) + (z - s)
         /\ \A i \in 1..Len(buf) : Line[i] = buf[i]
         /\ \A i \in 1..(z - s) : Line[Len(buf) + i] = chunk[s + i - 1]
         /\ Completed <=> (s + r <= Len(chunk) /\ Len(Line) # 0) \/ Len(Line) = BufSize
<1>1. /\ Len(chunk) \in Nat /\ Len(buf) \in Nat /\ BufSize \in Nat
      /\ chunk \in Seq(Places) /\ buf \in Seq(Places)
      /\ \A i \in 1..Len(chunk) : chunk[i] \in Places
  BY TypeIs
<1>2. z \in s..(Len(chunk) + 1) /\ z <= s + r /\ s \in 1..(Len(chunk) + 1)
  BY <1>1
<1>3. LineEnd(s) = z
  <2>1. \A j \in s..(z - 1) : ~NewLine(chunk[j])
    BY <1>1, <1>2
  <2>2. z <= Len(chunk) => NewLine(chunk[z])
    BY <1>1
  <2> QED
    BY ONLY TypeOK, <1>2, <2>1, <2>2, EndIs
<1>4. LineStop = z
  <2>1. z \in Int /\ s + BufSize - Len(buf) \in Int /\ z <= s + BufSize - Len(buf)
    BY <1>1, <1>2
  <2>2. Min({z, s + BufSize - Len(buf)}) = z
    BY ONLY <2>1, MinOf
  <2> QED
    BY <1>3, <2>2 DEF LineStop
<1> DEFINE t == SubSeq(chunk, s, z - 1)
<1>5. /\ t \in Seq(Places) /\ Len(t) = z - s
      /\ \A i \in 1..(z - s) : t[i] = chunk[s + i - 1]
  <2>1. s \in Int /\ z - 1 \in Int /\ \A i \in s..(z - 1) : chunk[i] \in Places
    BY <1>1, <1>2
  <2>2. /\ t \in Seq(Places) /\ Len(t) = IF s <= z - 1 THEN (z - 1) - s + 1 ELSE 0
        /\ \A i \in 1..((z - 1) - s + 1) : t[i] = chunk[s + i - 1]
    BY ONLY <2>1, SubSeqProperties
  <2>3. (z - 1) - s + 1 = z - s /\ (~(s <= z - 1) => z - s = 0)
    BY <1>2
  <2> QED
    BY <2>2, <2>3
<1>6. Line = buf \o t
  BY <1>4 DEF Line
<1> HIDE DEF t
<1>7. /\ Line \in Seq(Places) /\ Len(Line) = Len(buf) + (z - s)
      /\ \A i \in 1..(Len(buf) + (z - s)) :
           Line[i] = IF i <= Len(buf) THEN buf[i] ELSE t[i - Len(buf)]
  <2>1. /\ buf \o t \in Seq(Places) /\ Len(buf \o t) = Len(buf) + Len(t)
        /\ \A i \in 1..(Len(buf) + Len(t)) :
             (buf \o t)[i] = IF i <= Len(buf) THEN buf[i] ELSE t[i - Len(buf)]
    BY ONLY <1>1, <1>5, ConcatProperties
  <2> QED
    BY ONLY <2>1, <1>5, <1>6
<1>8. /\ \A i \in 1..Len(buf) : Line[i] = buf[i]
      /\ \A i \in 1..(z - s) : Line[Len(buf) + i] = chunk[s + i - 1]
  <2>1. ASSUME NEW i \in 1..Len(buf) PROVE Line[i] = buf[i]
    <3>1. i \in 1..(Len(buf) + (z - s)) /\ i <= Len(buf)
      BY <1>1, <1>2
    <3> QED
      BY <1>7, <3>1
  <2>2. ASSUME NEW i \in 1..(z - s) PROVE Line[Len(buf) + i] = chunk[s + i - 1]
    <3>1. Len(buf) + i \in 1..(Len(buf) + (z - s)) /\ ~(Len(buf) + i <= Len(buf))
          /\ (Len(buf) + i) - Len(buf) = i
      BY <1>1, <1>2
    <3> QED
      BY <1>5, <1>7, <3>1
  <2> QED
    BY <2>1, <2>2
<1>9. Line # << >> <=> Len(Line) # 0
  BY <1>7, EmptySeq
<1>10. /\ z <= Len(chunk) <=> s + r <= Len(chunk)
       /\ z <= Len(chunk) => NewLine(chunk[z])
  BY <1>1
<1> QED
  BY <1>3, <1>4, <1>7, <1>8, <1>9, <1>10 DEF Completed

LEMMA NextPiece ==
  ASSUME TypeOK, InOrder, NEW j \in 1..(Len(chunk) - 1), chunk[j].at < Pieces(chunk[j].of)
  PROVE  chunk[j + 1] = [of |-> chunk[j].of, at |-> chunk[j].at + 1]
<1>1. j \in 1..Len(chunk) /\ chunk[j] \in Places
  BY TypeIs
<1>2. chunk[j].at \in 1..7 /\ Pieces(chunk[j].of) \in Nat
  BY <1>1, PlaceIs DEF Pieces
<1>3. Follows(chunk[j], chunk[j + 1])
  BY DEF InOrder
<1>4. chunk[j + 1] = [chunk[j] EXCEPT !.at = @ + 1]
  BY <1>2, <1>3 DEF Follows
<1> QED
  BY <1>1, <1>4, PlaceIs

LEMMA Pieces7 == ASSUME TypeOK, NEW e \in Entries PROVE Pieces(e) = 7 /\ e # 0 /\ e \in Nat
BY TypeIs DEF Entries, Pieces

LEMMA InEntry ==
  ASSUME TypeOK, InOrder, NEW e \in Entries, NEW s \in 1..Len(chunk), NEW i \in 1..7,
         chunk[s] = [of |-> e, at |-> i]
  PROVE  \A k \in 0..3 : s + k <= Len(chunk) /\ i + k <= 7 =>
           chunk[s + k] = [of |-> e, at |-> i + k]
<1>1. Len(chunk) \in Nat /\ Pieces(e) = 7
  BY TypeIs, Pieces7
<1>2. ASSUME NEW k \in 0..2, s + k + 1 <= Len(chunk), i + k + 1 <= 7,
             chunk[s + k] = [of |-> e, at |-> i + k]
      PROVE  chunk[s + k + 1] = [of |-> e, at |-> i + k + 1]
  <2>1. s + k \in 1..(Len(chunk) - 1)
    <3>1. s \in Int /\ s >= 1 /\ k \in Int /\ k >= 0 /\ Len(chunk) \in Int
      BY ONLY <1>1, s \in 1..Len(chunk), k \in 0..2
    <3> QED
      BY ONLY <3>1, <1>2
  <2>2. chunk[s + k].at = i + k /\ chunk[s + k].of = e /\ i + k < 7
    BY <1>2, SMTT(30)
  <2>3. chunk[s + k].at < Pieces(chunk[s + k].of)
    BY <1>1, <2>2
  <2>4. chunk[(s + k) + 1] = [of |-> chunk[s + k].of, at |-> chunk[s + k].at + 1]
    BY ONLY TypeOK, InOrder, <2>1, <2>3, NextPiece
  <2> QED
    BY <2>2, <2>4
<1>3. chunk[s + 0] = [of |-> e, at |-> i + 0]
  BY <1>1
<1>4. s + 1 <= Len(chunk) /\ i + 1 <= 7 => chunk[s + 1] = [of |-> e, at |-> i + 1]
  BY <1>1, <1>2, <1>3
<1>5. s + 2 <= Len(chunk) /\ i + 2 <= 7 => chunk[s + 2] = [of |-> e, at |-> i + 2]
  BY <1>1, <1>2, <1>4
<1>6. s + 3 <= Len(chunk) /\ i + 3 <= 7 => chunk[s + 3] = [of |-> e, at |-> i + 3]
  BY <1>1, <1>2, <1>5
<1> QED
  BY <1>3, <1>4, <1>5, <1>6

LEMMA PartIs ==
  ASSUME TypeOK, NEW e \in Entries, NEW b \in 1..7, NEW n \in b..8
  PROVE  /\ Part(e, b, n) \in Seq(Places) /\ Len(Part(e, b, n)) = n - b
         /\ \A i \in 1..(n - b) : Part(e, b, n)[i] = [of |-> e, at |-> b + i - 1]
<1>1. \A i \in 1..(n - b) : [of |-> e, at |-> b + i - 1] \in Places
  BY TypeIs, Pieces7 DEF Places, Entries
<1>2. n - b \in Nat
  OBVIOUS
<1>3. Part(e, b, n) \in [1..(n - b) -> Places]
  BY <1>1 DEF Part
<1> QED
  BY <1>2, <1>3 DEF Part

(* Of a line (b is its first piece) the pieces from i on are in the chunk,  *)
(* at s.                                                                   *)
LEMMA GetsLine ==
  ASSUME TypeOK, InOrder, NEW e \in Entries, NEW b \in {1, 4}, NEW i \in b..(b + 2),
         NEW s \in 1..Len(chunk), LineStart = s, chunk[s] = [of |-> e, at |-> i],
         buf = Part(e, b, i)
  PROVE  LET t == s + (b + 2 - i) IN
         /\ t <= Len(chunk) =>
              /\ Completed /\ Line = Part(e, b, b + 2)
              /\ LineStop = t /\ chunk[t] = [of |-> e, at |-> b + 2]
         /\ ~(t <= Len(chunk)) =>
              /\ ~Completed /\ Line = Part(e, b, i + (Len(chunk) + 1 - s))
              /\ LineStop = Len(chunk) + 1
              /\ chunk[Len(chunk)] = [of |-> e, at |-> i + (Len(chunk) - s)]
              /\ i + (Len(chunk) + 1 - s) \in b..(b + 2)
<1>1. /\ Len(chunk) \in Nat /\ BufSize \in Nat /\ BufSize > 2
      /\ e # 0 /\ b \in 1..7 /\ i \in b..8 /\ i \in 1..7 /\ b \in Nat /\ i \in Nat /\ s \in Nat
      /\ s <= Len(chunk) /\ b <= i /\ i <= b + 2 /\ (b + 2 = 3 \/ b + 2 = 6)
  BY TypeIs, Pieces7
<1>0. /\ Len(chunk) \in Int /\ s \in Int /\ b \in Int /\ i \in Int
      /\ s >= 1 /\ s <= Len(chunk) /\ b >= 1 /\ b <= i /\ i <= b + 2
  BY ONLY <1>1, s \in 1..Len(chunk)
<1>r. PICK r \in 0..2 : r = b + 2 - i /\ i + r = b + 2
  <2>1. b + 2 - i \in 0..2 /\ i + (b + 2 - i) = b + 2
    BY ONLY <1>0
  <2> QED
    BY ONLY <2>1
<1>ri. r \in Int /\ r >= 0 /\ r <= 2
  BY ONLY r \in 0..2
<1>z. PICK z \in Nat : z = IF s + r <= Len(chunk) THEN s + r ELSE Len(chunk) + 1
  BY <1>1, <1>r, SMTT(30)
<1>d. PICK d \in 0..2 : d = z - s /\ d <= r /\ z = s + d /\ (s + r <= Len(chunk) => d = r)
                       /\ (~(s + r <= Len(chunk)) => d = Len(chunk) + 1 - s /\ d # 0)
  <2>1. CASE s + r <= Len(chunk)
    <3>1. z - s = r /\ s + r = z
      BY <1>1, <1>r, <1>z, <2>1
    <3> QED
      BY ONLY <3>1, <2>1, <1>r, r \in 0..2
  <2>2. CASE ~(s + r <= Len(chunk))
    <3>1. /\ z - s \in 0..2 /\ z - s <= r /\ z = s + (z - s)
          /\ z - s = Len(chunk) + 1 - s /\ z - s # 0
      BY ONLY <1>0, <1>ri, <1>z, <2>2
    <3> QED
      BY ONLY <3>1, <2>2
  <2> QED
    BY <2>1, <2>2
<1>n. PICK n \in b..(b + 2) : n = i + d
  BY <1>1, <1>r, <1>d, SMTT(30)
<1>2. /\ buf \in Seq(Places) /\ Len(buf) = i - b
      /\ \A k \in 1..(i - b) : buf[k] = [of |-> e, at |-> b + k - 1]
  BY ONLY <1>1, TypeOK, e \in Entries, buf = Part(e, b, i), PartIs
<1>3. \A k \in 0..2 : s + k <= Len(chunk) /\ k <= r => chunk[s + k] = [of |-> e, at |-> i + k]
  <2>1. \A k \in 0..3 : s + k <= Len(chunk) /\ i + k <= 7 => chunk[s + k] = [of |-> e, at |-> i + k]
    BY ONLY <1>1, TypeOK, InOrder, e \in Entries, s \in 1..Len(chunk),
            chunk[s] = [of |-> e, at |-> i], InEntry
  <2> QED
    BY ONLY <2>1, <1>1, <1>r
<1>4. \A j \in s..(s + r - 1) : j <= Len(chunk) => ~NewLine(chunk[j])
  <2> SUFFICES ASSUME NEW j \in s..(s + r - 1), j <= Len(chunk) PROVE ~NewLine(chunk[j])
    OBVIOUS
  <2>0. /\ j - s \in 0..2 /\ j = s + (j - s) /\ j - s < r
        /\ i + (j - s) < b + 2 /\ i + (j - s) >= b /\ i + (j - s) \in Nat
    <3>1. j \in Int /\ j >= s /\ j <= s + r - 1
      BY ONLY <1>0, <1>ri, j \in s..(s + r - 1)
    <3> QED
      BY ONLY <3>1, <1>0, <1>ri, <1>r
  <2>1. PICK k \in 0..2 : j = s + k /\ k < r /\ i + k < b + 2 /\ i + k >= b /\ i + k \in Nat
    BY ONLY <2>0
  <2>2. chunk[j] = [of |-> e, at |-> i + k]
    <3>1. s + k <= Len(chunk) /\ k <= r
      BY ONLY <1>ri, <2>1, k \in 0..2, j <= Len(chunk)
    <3>2. chunk[s + k] = [of |-> e, at |-> i + k]
      BY ONLY <1>3, <3>1, k \in 0..2
    <3> QED
      BY ONLY <2>1, <3>2
  <2>3. PICK a \in Nat : a = i + k /\ a < b + 2 /\ a >= b
    BY ONLY <2>1
  <2>4. e # 0 /\ a \notin {3, 6, 7}
    BY ONLY <1>1, <2>3
  <2>5. ~NewLine([of |-> e, at |-> a])
    BY ONLY <2>4 DEF NewLine
  <2> QED
    BY ONLY <2>2, <2>3, <2>5 DEF NewLine
<1>5. s + r <= Len(chunk) => chunk[s + r] = [of |-> e, at |-> b + 2] /\ NewLine(chunk[s + r])
  <2>1. s + r <= Len(chunk) => chunk[s + r] = [of |-> e, at |-> b + 2]
    <3>1. r <= r
      BY ONLY <1>ri
    <3> QED
      BY ONLY <1>3, <1>r, <3>1, r \in 0..2
  <2>2. NewLine([of |-> e, at |-> b + 2])
    <3>1. e # 0 /\ b + 2 \in {3, 6, 7}
      BY ONLY <1>1
    <3>2. ([of |-> e, at |-> b + 2]).of = e /\ ([of |-> e, at |-> b + 2]).at = b + 2
      OBVIOUS
    <3> QED
      BY ONLY <3>1, <3>2 DEF NewLine
  <2> QED
    BY ONLY <2>1, <2>2 DEF NewLine
<1>6. Len(buf) + r = 2 /\ Len(buf) + r <= BufSize
  BY <1>1, <1>2, <1>r, SMTT(30)
<1>7. /\ LineStop = z
      /\ Line \in Seq(Places) /\ Len(Line) = Len(buf) + (z - s)
      /\ \A k \in 1..Len(buf) : Line[k] = buf[k]
      /\ \A k \in 1..(z - s) : Line[Len(buf) + k] = chunk[s + k - 1]
      /\ Completed <=> (s + r <= Len(chunk) /\ Len(Line) # 0) \/ Len(Line) = BufSize
  <2>1. r \in Nat
    BY ONLY r \in 0..2
  <2>2. s + r <= Len(chunk) => NewLine(chunk[s + r])
    BY <1>5
  <2>3. Len(buf) + r <= BufSize
    BY <1>6
  <2>4. LineStop = z /\ Line \in Seq(Places) /\ Len(Line) = Len(buf) + (z - s)
    BY ONLY TypeOK, <2>1, <2>2, <2>3, <1>z, z \in Nat, <1>4, LineStart = s, s \in 1..(Len(chunk) + 1), LineIs, ZenonT(30)
  <2>5. \A k \in 1..Len(buf) : Line[k] = buf[k]
    BY ONLY TypeOK, <2>1, <2>2, <2>3, <1>z, z \in Nat, <1>4, LineStart = s, s \in 1..(Len(chunk) + 1), LineIs, ZenonT(30)
  <2>6. \A k \in 1..(z - s) : Line[Len(buf) + k] = chunk[s + k - 1]
    BY ONLY TypeOK, <2>1, <2>2, <2>3, <1>z, z \in Nat, <1>4, LineStart = s, s \in 1..(Len(chunk) + 1), LineIs, ZenonT(30)
  <2>7. Completed <=> (s + r <= Len(chunk) /\ Len(Line) # 0) \/ Len(Line) = BufSize
    BY ONLY TypeOK, <2>1, <2>2, <2>3, <1>z, z \in Nat, <1>4, LineStart = s, s \in 1..(Len(chunk) + 1), LineIs, ZenonT(30)
  <2> QED
    BY <2>4, <2>5, <2>6, <2>7
<1>8. Len(Line) = n - b /\ Len(buf) + d = n - b /\ i - b \in Nat /\ n - b \in 0..2
  <2>1. Len(Line) = Len(buf) + d /\ Len(buf) = i - b /\ n = i + d /\ d \in Int
    BY ONLY <1>2, <1>7, <1>d, <1>n, d \in 0..2
  <2>2. n \in Int /\ n >= b /\ n <= b + 2
    BY ONLY <1>0, n \in b..(b + 2)
  <2> QED
    BY ONLY <1>0, <2>1, <2>2
<1>9. Line = Part(e, b, n)
  <2>1. ASSUME NEW k \in 1..(n - b) PROVE Line[k] = [of |-> e, at |-> b + k - 1]
    <3>1. CASE k <= i - b
      <4>1. k \in 1..(i - b) /\ k \in 1..Len(buf)
        BY <1>1, <1>2, <1>8, <3>1
      <4> QED
        BY <1>2, <1>7, <4>1
    <3>2. CASE ~(k <= i - b)
      <4>0. k - (i - b) - 1 \in 0..2 /\ k = (i - b) + (k - (i - b) - 1) + 1 /\ k - (i - b) - 1 < d
        <5>1. k \in Int /\ k >= 1 /\ k <= n - b /\ k > i - b /\ n = i + d /\ d \in Int /\ d <= 2 /\ n \in Int
          BY ONLY <1>0, <1>n, <3>2, k \in 1..(n - b), d \in 0..2, n \in b..(b + 2)
        <5> QED
          BY ONLY <5>1, <1>0
      <4>1. PICK l \in 0..2 : k = (i - b) + l + 1 /\ l < d
        BY ONLY <4>0
      <4>2. /\ l + 1 \in 1..(z - s) /\ Len(buf) + (l + 1) = k /\ i + l = b + k - 1
            /\ l <= r /\ s + (l + 1) - 1 = s + l
        <5>1. l \in Int /\ l >= 0 /\ d = z - s /\ d <= r /\ Len(buf) = i - b
          BY <1>2, <1>d, l \in 0..2
        <5> QED
          BY ONLY <5>1, <4>1, <1>0, <1>ri
      <4>4. s + l <= Len(chunk)
        <5>1. z <= Len(chunk) + 1 /\ z = s + d /\ d \in Int /\ l \in Int /\ l < d
          BY ONLY <1>0, <1>d, <1>z, <4>1, d \in 0..2, l \in 0..2
        <5> QED
          BY ONLY <1>0, <5>1
      <4>3. Line[k] = chunk[s + l]
        BY <1>7, <4>2
      <4> QED
        BY <1>3, <4>2, <4>3, <4>4
    <3> QED
      BY <3>1, <3>2
  <2>2. n \in b..8
    BY <1>1
  <2>3. /\ Part(e, b, n) \in Seq(Places) /\ Len(Part(e, b, n)) = n - b
        /\ \A k \in 1..(n - b) : Part(e, b, n)[k] = [of |-> e, at |-> b + k - 1]
    BY ONLY <1>1, <2>2, TypeOK, e \in Entries, PartIs
  <2>4. Len(Line) = Len(Part(e, b, n)) /\ \A k \in 1..Len(Line) : Line[k] = Part(e, b, n)[k]
    BY <1>8, <2>1, <2>3
  <2> QED
    BY ONLY <1>7, <2>3, <2>4, SeqEqual
<1>10. s + (b + 2 - i) = s + r
  BY <1>1, <1>r
<1>11. CASE s + r <= Len(chunk)
  <2>0. z = s + r /\ d = r
    BY <1>11, <1>z, <1>d
  <2>1. z = s + r /\ n = b + 2 /\ Len(Line) # 0
    BY ONLY <2>0, <1>1, <1>8, <1>n, <1>r, n \in b..(b + 2), r \in 0..2
  <2> QED
    BY <1>5, <1>7, <1>9, <1>10, <1>11, <2>1
<1>12. CASE ~(s + r <= Len(chunk))
  <2>1. /\ z = Len(chunk) + 1 /\ n = i + (Len(chunk) + 1 - s) /\ Len(Line) # BufSize
        /\ Len(chunk) - s = d - 1 /\ d - 1 \in 0..2 /\ d - 1 <= r /\ s + (d - 1) = Len(chunk)
    <3>1. z = Len(chunk) + 1 /\ d = Len(chunk) + 1 - s /\ d # 0 /\ d <= r
      BY <1>12, <1>z, <1>d
    <3>2. n = i + (Len(chunk) + 1 - s)
      BY <1>n, <3>1
    <3>3. Len(Line) # BufSize
      BY <1>1, <1>8
    <3>4. Len(chunk) - s = d - 1 /\ d - 1 \in 0..2 /\ d - 1 <= r /\ s + (d - 1) = Len(chunk)
      BY ONLY <1>1, <3>1, d \in 0..2, r \in 0..2
    <3> QED
      BY <3>1, <3>2, <3>3, <3>4
  <2>2. chunk[Len(chunk)] = [of |-> e, at |-> i + (d - 1)]
    <3>1. s + (d - 1) <= Len(chunk)
      BY <1>1, <2>1
    <3>2. chunk[s + (d - 1)] = [of |-> e, at |-> i + (d - 1)]
      BY <1>3, <2>1, <3>1
    <3> QED
      BY <2>1, <3>2
  <2> QED
    BY <1>7, <1>9, <1>10, <1>12, <2>1, <2>2
<1> QED
  BY <1>11, <1>12

LEMMA StartIs ==
  ASSUME TypeOK, chunk # << >>
  PROVE  /\ buf # << >> \/ ~NewLine(chunk[1]) => LineStart = 1
         /\ buf = << >> /\ NewLine(chunk[1]) /\ (2 <= Len(chunk) => ~NewLine(chunk[2]))
              => LineStart = 2
<1>1. Len(chunk) \in Nat /\ Len(chunk) >= 1
  BY TypeIs
<1>2. ~NewLine(chunk[1]) => LineGo(1) = 1
  BY <1>1, GoIs
<1>3. NewLine(chunk[1]) /\ (2 <= Len(chunk) => ~NewLine(chunk[2])) => LineGo(1) = 2
  BY <1>1, GoIs
<1> QED
  BY <1>2, <1>3 DEF LineStart

-----------------------------------------------------------------------------
(* Lines.                                                                  *)

LEMMA PartIsLine ==
  ASSUME TypeOK, NEW e \in Entries
  PROVE  Part(e, 1, 3) = Meta(e) /\ Part(e, 4, 6) = Text(e)
BY DEF Part, Meta, Text

LEMMA MetaLine ==
  ASSUME NEW e \in Entries
  PROVE  /\ IsMeta(Meta(e)) /\ MtInfo(Meta(e)) = [at |-> log[e].at, by |-> log[e].by]
         /\ Meta(e)[1].of = e
<1>1. IsMeta(Meta(e))
  BY DEF IsMeta
<1>2. Meta(e)[1].of = e
  BY DEF Meta
<1> QED
  BY <1>1, <1>2 DEF MtInfo

LEMMA TextLine ==
  ASSUME NEW e \in Entries
  PROVE  /\ ~IsMeta(Text(e)) /\ MtInfo(Text(e)) = NoMeta
         /\ IsOdd(Text(e)) <=> log[e].bracketed
         /\ \A d \in Entries : Text(e) = Text(d) <=> d = e
<1>1. \A d \in Entries : Text(e)[1].at = 4 /\ Meta(d)[1].at = 1 /\ Text(d)[1].of = d
  BY DEF Text, Meta
<1>2. ~IsMeta(Text(e))
  BY <1>1 DEF IsMeta
<1>3. \A d \in Entries : Text(e) = Text(d) <=> d = e
  BY <1>1
<1> QED
  BY <1>2, <1>3 DEF MtInfo, IsOdd

LEMMA BrokenLine ==
  ASSUME TypeOK, NEW l, NEW i \in 1..Len(l), l[i] = Header
  PROVE  ~IsMeta(l) /\ ~IsOdd(l) /\ \A d \in Entries : l # Text(d)
<1>1. ASSUME NEW d \in Entries PROVE l # Meta(d) /\ l # Text(d)
  <2>1. d # 0
    BY Pieces7
  <2>2. \A m \in {Meta(d), Text(d)} : Len(m) = 2 /\ m[1].of = d /\ m[2].of = d
    BY DEF Meta, Text
  <2>3. l \in {Meta(d), Text(d)} => l[i].of = d
    <3> SUFFICES ASSUME l \in {Meta(d), Text(d)} PROVE l[i].of = d
      OBVIOUS
    <3>1. i \in 1..2
      BY <2>2
    <3> QED
      BY <2>2, <3>1
  <2> QED
    BY <2>1, <2>3 DEF Header
<1> QED
  BY <1>1 DEF IsMeta, IsOdd

-----------------------------------------------------------------------------
(* One round of HandleLogData.                                             *)

LEMMA Consumed ==
  ASSUME TypeOK, InOrder, NEW g \in 2..(Len(chunk) + 1),
         chunk' = SubSeq(chunk, g, Len(chunk)), last' = last, log' = log, gone' = gone
  PROVE  /\ InOrder' /\ chunk' \in Seq(Places)
         /\ g <= Len(chunk) => Here' = chunk[g] /\ Follows(chunk[g - 1], chunk[g])
         /\ ~(g <= Len(chunk)) =>
              Here' = [of |-> chunk[Len(chunk)].of, at |-> chunk[Len(chunk)].at + 1]
<1>1. /\ Len(chunk) \in Nat /\ Len(chunk) >= 1 /\ g \in Int /\ Len(chunk) \in Int
      /\ \A i \in 1..Len(chunk) : chunk[i] \in Places
      /\ last = chunk[Len(chunk)] /\ last \in Places
  <2>1. /\ Len(chunk) \in Nat /\ \A i \in 1..Len(chunk) : chunk[i] \in Places
        /\ chunk = << >> <=> Len(chunk) = 0
    BY TypeIs
  <2>2. Len(chunk) >= 1
    BY <2>1
  <2> QED
    BY <2>1, <2>2 DEF InOrder
<1>2. /\ chunk' \in Seq(Places)
      /\ Len(chunk') = IF g <= Len(chunk) THEN Len(chunk) - g + 1 ELSE 0
      /\ \A i \in 1..(Len(chunk) - g + 1) : chunk'[i] = chunk[g + i - 1]
  <2>1. \A i \in g..Len(chunk) : chunk[i] \in Places
    BY <1>1
  <2>2. SubSeq(chunk, g, Len(chunk)) \in Seq(Places)
    BY ONLY <1>1, <2>1, SubSeqProperties
  <2>3. Len(SubSeq(chunk, g, Len(chunk))) = IF g <= Len(chunk) THEN Len(chunk) - g + 1 ELSE 0
    BY ONLY <1>1, <2>1, SubSeqProperties
  <2>4. \A i \in 1..(Len(chunk) - g + 1) : SubSeq(chunk, g, Len(chunk))[i] = chunk[g + i - 1]
    BY ONLY <1>1, <2>1, SubSeqProperties
  <2> QED
    BY ONLY <2>2, <2>3, <2>4, chunk' = SubSeq(chunk, g, Len(chunk))
<1>3. chunk' = << >> <=> ~(g <= Len(chunk))
  <2>1. Len(chunk') = 0 <=> ~(g <= Len(chunk))
    BY <1>1, <1>2
  <2> QED
    BY <1>2, <2>1, EmptySeq
<1>4. \A i, j : Follows(i, j)' <=> Follows(i, j)
  BY DEF Follows, Pieces
<1>5. InOrder'
  <2>1. CASE g <= Len(chunk)
    <3>1. chunk'[Len(chunk')] = chunk[Len(chunk)]
      <4>1. Len(chunk') \in 1..(Len(chunk) - g + 1) /\ g + Len(chunk') - 1 = Len(chunk)
        BY <1>1, <1>2, <2>1
      <4> QED
        BY <1>2, <4>1
    <3>2. ASSUME NEW i \in 1..(Len(chunk') - 1) PROVE Follows(chunk'[i], chunk'[i + 1])
      <4>1. /\ i \in 1..(Len(chunk) - g + 1) /\ i + 1 \in 1..(Len(chunk) - g + 1)
            /\ g + i - 1 \in 1..(Len(chunk) - 1) /\ g + (i + 1) - 1 = (g + i - 1) + 1
        BY <1>1, <1>2, <2>1
      <4>2. chunk'[i] = chunk[g + i - 1] /\ chunk'[i + 1] = chunk[(g + i - 1) + 1]
        BY <1>2, <4>1
      <4> QED
        BY <4>1, <4>2 DEF InOrder
    <3> QED
      BY <1>1, <1>4, <3>1, <3>2 DEF InOrder
  <2>2. CASE ~(g <= Len(chunk))
    BY <1>2, <1>3, <2>2 DEF InOrder
  <2> QED
    BY <2>1, <2>2
<1>6. ASSUME g <= Len(chunk) PROVE Here' = chunk[g] /\ Follows(chunk[g - 1], chunk[g])
  <2>1. g - 1 \in 1..(Len(chunk) - 1) /\ (g - 1) + 1 = g /\ 1 \in 1..(Len(chunk) - g + 1)
        /\ g + 1 - 1 = g
    BY <1>1, <1>6
  <2>2. Follows(chunk[g - 1], chunk[g])
    BY <2>1 DEF InOrder
  <2> QED
    BY <1>2, <1>3, <1>6, <2>1, <2>2 DEF Here
<1>7. ASSUME ~(g <= Len(chunk))
      PROVE  Here' = [of |-> chunk[Len(chunk)].of, at |-> chunk[Len(chunk)].at + 1]
  BY <1>1, <1>3, <1>7, PlaceIs DEF Here
<1> QED
  BY <1>2, <1>5, <1>6, <1>7

(* The rest of a line of metadata is in the chunk, from s on.               *)
LEMMA ReadsMeta ==
  ASSUME TypeOK, InOrder, HandleLogData, NEW e \in Entries, NEW i \in 1..3,
         NEW s \in 1..Len(chunk), LineStart = s, chunk[s] = [of |-> e, at |-> i],
         buf = Part(e, 1, i)
  PROVE  /\ InOrder' /\ chunk' \in Seq(Places) /\ buf' \in Seq(Places)
         /\ \/ /\ Here' = [of |-> e, at |-> 4] /\ buf' = << >>
               /\ ParceMetaData([at |-> log[e].at, by |-> log[e].by])
               /\ UNCHANGED <<shown, bypassed>>
               /\ latest' = IF logRestarted' THEN latest ELSE e
            \/ /\ \E j \in 2..3 : Here' = [of |-> e, at |-> j] /\ buf' = Part(e, 1, j)
               /\ UNCHANGED <<metaVars, shown, bypassed, latest>>
<1>0. /\ Len(chunk) \in Nat /\ s \in Int /\ i \in Int /\ Len(chunk) \in Int
      /\ log' = log /\ gone' = gone /\ last' = last
      /\ chunk' = SubSeq(chunk, LineGo(LineStop), Len(chunk))
  BY TypeIs DEF HandleLogData, deviceVars
<1> DEFINE t == s + (1 + 2 - i)
<1>1. /\ t <= Len(chunk) =>
           /\ Completed /\ Line = Part(e, 1, 3)
           /\ LineStop = t /\ chunk[t] = [of |-> e, at |-> 3]
      /\ ~(t <= Len(chunk)) =>
           /\ ~Completed /\ Line = Part(e, 1, i + (Len(chunk) + 1 - s))
           /\ LineStop = Len(chunk) + 1
           /\ chunk[Len(chunk)] = [of |-> e, at |-> i + (Len(chunk) - s)]
           /\ i + (Len(chunk) + 1 - s) \in 1..3
  <2>1. 1 \in {1, 4} /\ i \in 1..(1 + 2)
    OBVIOUS
  <2>2. /\ s + (1 + 2 - i) <= Len(chunk) =>
             /\ Completed /\ Line = Part(e, 1, 1 + 2)
             /\ LineStop = s + (1 + 2 - i) /\ chunk[s + (1 + 2 - i)] = [of |-> e, at |-> 1 + 2]
        /\ ~(s + (1 + 2 - i) <= Len(chunk)) =>
             /\ ~Completed /\ Line = Part(e, 1, i + (Len(chunk) + 1 - s))
             /\ LineStop = Len(chunk) + 1
             /\ chunk[Len(chunk)] = [of |-> e, at |-> i + (Len(chunk) - s)]
             /\ i + (Len(chunk) + 1 - s) \in 1..(1 + 2)
    BY ONLY <2>1, TypeOK, InOrder, e \in Entries, s \in 1..Len(chunk), LineStart = s,
            chunk[s] = [of |-> e, at |-> i], buf = Part(e, 1, i), GetsLine
  <2>3. 1 + 2 = 3
    OBVIOUS
  <2> QED
    BY ONLY <2>2, <2>3
<1>2. CASE t <= Len(chunk)
  <2>1. t \in 1..Len(chunk) /\ t + 1 \in 2..(Len(chunk) + 1) /\ t \in Int
    <3>1. s \in Int /\ i \in Int /\ s >= 1 /\ i >= 1 /\ i <= 3 /\ Len(chunk) \in Int
      BY ONLY <1>0, i \in 1..3, s \in 1..Len(chunk)
    <3> QED
      BY ONLY <3>1, <1>2
  <2>2. LineGo(t) = t + 1
    <3>1. t + 1 <= Len(chunk) => chunk[t + 1] = [of |-> e, at |-> 4]
      <4>1. \A k \in 0..3 : t + k <= Len(chunk) /\ 3 + k <= 7 =>
              chunk[t + k] = [of |-> e, at |-> 3 + k]
        <5>1. chunk[t] = [of |-> e, at |-> 3] /\ 3 \in 1..7
          BY <1>1, <1>2
        <5> HIDE DEF t
        <5> QED
          BY ONLY <2>1, <5>1, TypeOK, InOrder, e \in Entries, InEntry
      <4> QED
        BY <4>1
    <3>2. NewLine(chunk[t]) /\ (t + 1 <= Len(chunk) => ~NewLine(chunk[t + 1]))
      BY <1>1, <1>2, <3>1, Pieces7 DEF NewLine
    <3>3. t \in 1..(Len(chunk) + 1) /\ t + 1 \in t..(Len(chunk) + 1) /\ \A j \in t..((t + 1) - 1) : j = t
      BY <1>0, <2>1, SMTT(30)
    <3> HIDE DEF t
    <3> QED
      BY <3>2, <3>3, GoIs
  <2>3. chunk' = SubSeq(chunk, t + 1, Len(chunk))
    BY <1>0, <1>1, <1>2, <2>2
  <2>4. /\ InOrder' /\ chunk' \in Seq(Places)
        /\ t + 1 <= Len(chunk) => Here' = chunk[t + 1] /\ Follows(chunk[(t + 1) - 1], chunk[t + 1])
        /\ ~(t + 1 <= Len(chunk)) =>
             Here' = [of |-> chunk[Len(chunk)].of, at |-> chunk[Len(chunk)].at + 1]
    <3> HIDE DEF t
    <3> QED
      BY ONLY <1>0, <2>1, <2>3, TypeOK, InOrder, Consumed
  <2>5. Here' = [of |-> e, at |-> 4]
    <3>1. CASE t + 1 <= Len(chunk)
      <4>1. t \in 1..(Len(chunk) - 1) /\ chunk[t].at < Pieces(chunk[t].of)
        <5> HIDE DEF t
        <5>1. chunk[t].of = e /\ chunk[t].at = 3 /\ Pieces(e) = 7
          BY <1>1, <1>2, Pieces7
        <5> QED
          BY <1>0, <2>1, <3>1, <5>1
      <4>2. chunk[t + 1] = [of |-> chunk[t].of, at |-> chunk[t].at + 1]
        <5> HIDE DEF t
        <5> QED
          BY <4>1, NextPiece
      <4> QED
        BY <1>1, <1>2, <2>4, <3>1, <4>2
    <3>2. CASE ~(t + 1 <= Len(chunk))
      <4>1. t = Len(chunk)
        BY <1>0, <2>1, <3>2
      <4> QED
        BY <1>1, <1>2, <2>4, <3>2, <4>1
    <3> QED
      BY <3>1, <3>2
  <2>6. Completed /\ Line = Meta(e)
    BY <1>1, <1>2, PartIsLine
  <2>7. /\ ParceMetaData([at |-> log[e].at, by |-> log[e].by])
        /\ UNCHANGED <<shown, bypassed>> /\ buf' = << >>
        /\ latest' = IF logRestarted' THEN latest ELSE e
    BY <2>6, MetaLine DEF HandleLogData, HandleLine
  <2>8. buf' \in Seq(Places)
    BY <2>7
  <2> QED
    BY <2>4, <2>5, <2>7, <2>8
<1>3. CASE ~(t <= Len(chunk))
  <2> DEFINE j == i + (Len(chunk) + 1 - s)
  <2>1. j \in 2..3 /\ i + (Len(chunk) - s) + 1 = j
    <3>1. /\ s \in Int /\ i \in Int /\ s <= Len(chunk) /\ i >= 1 /\ Len(chunk) \in Int
          /\ i + (Len(chunk) + 1 - s) \in 1..3
      BY ONLY <1>0, <1>3, i \in 1..3, s \in 1..Len(chunk), SMTT(30)
    <3> QED
      BY ONLY <3>1
  <2>2. LineGo(Len(chunk) + 1) = Len(chunk) + 1
    BY <1>0, GoIs
  <2>3. chunk' = SubSeq(chunk, Len(chunk) + 1, Len(chunk)) /\ Len(chunk) + 1 \in 2..(Len(chunk) + 1)
    <3>1. Len(chunk) >= 1
      BY ONLY <1>0, s \in 1..Len(chunk)
    <3>2. Len(chunk) + 1 \in 2..(Len(chunk) + 1)
      BY ONLY <1>0, <3>1
    <3>3. LineStop = Len(chunk) + 1
      BY <1>1, <1>3
    <3> QED
      BY ONLY <1>0, <2>2, <3>2, <3>3
  <2>4. /\ InOrder' /\ chunk' \in Seq(Places)
        /\ Here' = [of |-> chunk[Len(chunk)].of, at |-> chunk[Len(chunk)].at + 1]
    <3>1. ~(Len(chunk) + 1 <= Len(chunk))
      BY <1>0
    <3> QED
      BY ONLY <1>0, <2>3, <3>1, TypeOK, InOrder, Consumed
  <2>5. Here' = [of |-> e, at |-> j]
    BY <1>1, <1>3, <2>1, <2>4
  <2>6. buf' = Part(e, 1, j) /\ UNCHANGED <<metaVars, shown, bypassed, latest>>
    BY <1>1, <1>3 DEF HandleLogData
  <2>7. Part(e, 1, j) \in Seq(Places)
    <3>1. 1 \in 1..7 /\ j \in 1..8
      BY <2>1
    <3> HIDE DEF j
    <3> QED
      BY <3>1, PartIs
  <2> HIDE DEF j
  <2> QED
    BY <2>1, <2>4, <2>5, <2>6, <2>7
<1> QED
  BY <1>2, <1>3

(* The rest of a line of text is in the chunk.                              *)
LEMMA ReadsText ==
  ASSUME TypeOK, InOrder, HandleLogData, NEW e \in Entries, NEW i \in 4..6,
         chunk # << >>, LineStart = 1, chunk[1] = [of |-> e, at |-> i],
         buf = Part(e, 4, i)
  PROVE  /\ InOrder' /\ chunk' \in Seq(Places) /\ buf' \in Seq(Places)
         /\ \/ /\ buf' = << >> /\ latest' = latest
               /\ \/ \E j \in 7..8 : Here' = [of |-> e, at |-> j]
                  \/ \E q \in Entries : Here' = [of |-> q, at |-> 1]
                                        /\ Follows([of |-> e, at |-> 7], Here')
               /\ IF log[e].bracketed THEN ParceMetaData(NoMeta) ELSE UNCHANGED metaVars
               /\ WriteLog(Text(e), logRestarted')
            \/ /\ \E j \in 5..6 : Here' = [of |-> e, at |-> j] /\ buf' = Part(e, 4, j)
               /\ UNCHANGED <<metaVars, shown, bypassed, latest>>
<1>0. /\ Len(chunk) \in Nat /\ Len(chunk) >= 1 /\ i \in Int /\ Len(chunk) \in Int
      /\ log' = log /\ gone' = gone /\ last' = last
      /\ chunk' = SubSeq(chunk, LineGo(LineStop), Len(chunk))
      /\ \A k \in 1..Len(chunk) : chunk[k] \in Places
  <2>1. /\ Len(chunk) \in Nat /\ chunk = << >> <=> Len(chunk) = 0
        /\ \A k \in 1..Len(chunk) : chunk[k] \in Places
    BY TypeIs
  <2>2. Len(chunk) >= 1
    BY <2>1
  <2> QED
    BY <2>1, <2>2 DEF HandleLogData, deviceVars
<1> DEFINE t == 1 + (4 + 2 - i)
<1>1. /\ t <= Len(chunk) =>
           /\ Completed /\ Line = Part(e, 4, 6)
           /\ LineStop = t /\ chunk[t] = [of |-> e, at |-> 6]
      /\ ~(t <= Len(chunk)) =>
           /\ ~Completed /\ Line = Part(e, 4, i + (Len(chunk) + 1 - 1))
           /\ LineStop = Len(chunk) + 1
           /\ chunk[Len(chunk)] = [of |-> e, at |-> i + (Len(chunk) - 1)]
           /\ i + (Len(chunk) + 1 - 1) \in 4..6
  <2>1. 4 \in {1, 4} /\ i \in 4..(4 + 2) /\ 1 \in 1..Len(chunk)
    BY <1>0
  <2>2. /\ 1 + (4 + 2 - i) <= Len(chunk) =>
             /\ Completed /\ Line = Part(e, 4, 4 + 2)
             /\ LineStop = 1 + (4 + 2 - i) /\ chunk[1 + (4 + 2 - i)] = [of |-> e, at |-> 4 + 2]
        /\ ~(1 + (4 + 2 - i) <= Len(chunk)) =>
             /\ ~Completed /\ Line = Part(e, 4, i + (Len(chunk) + 1 - 1))
             /\ LineStop = Len(chunk) + 1
             /\ chunk[Len(chunk)] = [of |-> e, at |-> i + (Len(chunk) - 1)]
             /\ i + (Len(chunk) + 1 - 1) \in 4..(4 + 2)
    BY ONLY <2>1, TypeOK, InOrder, e \in Entries, LineStart = 1,
            chunk[1] = [of |-> e, at |-> i], buf = Part(e, 4, i), GetsLine
  <2>3. 4 + 2 = 6
    OBVIOUS
  <2> QED
    BY ONLY <2>2, <2>3
<1>2. CASE t <= Len(chunk)
  <2>1. t \in 1..Len(chunk) /\ t \in Int
    BY ONLY <1>0, <1>2, i \in 4..6
  <2>2. t + 1 <= Len(chunk) => chunk[t + 1] = [of |-> e, at |-> 7]
    <3>1. chunk[t] = [of |-> e, at |-> 6] /\ 6 \in 1..7
      BY <1>1, <1>2
    <3>2. \A k \in 0..3 : t + k <= Len(chunk) /\ 6 + k <= 7 =>
            chunk[t + k] = [of |-> e, at |-> 6 + k]
      <4> HIDE DEF t
      <4> QED
        BY ONLY <2>1, <3>1, TypeOK, InOrder, e \in Entries, InEntry
    <3> QED
      BY <3>2
  <2>3. ASSUME t + 2 <= Len(chunk)
        PROVE  \E q \in Entries : chunk[t + 2] = [of |-> q, at |-> 1]
                                  /\ Follows([of |-> e, at |-> 7], chunk[t + 2])
    <3>1. /\ t + 1 \in 1..(Len(chunk) - 1) /\ (t + 1) + 1 = t + 2
          /\ t + 2 \in 1..Len(chunk) /\ t + 1 <= Len(chunk)
      BY ONLY <1>0, <2>1, <2>3
    <3>2. Follows(chunk[t + 1], chunk[t + 2])
      BY <3>1 DEF InOrder
    <3>3. Pieces(e) = 7
      BY Pieces7
    <3>4. chunk[t + 2].at = 1 /\ e < chunk[t + 2].of
      BY <2>2, <3>1, <3>2, <3>3 DEF Follows
    <3>5. chunk[t + 2] \in Places
      BY <1>0, <3>1
    <3>6. chunk[t + 2].of \in Entries /\ chunk[t + 2] = [of |-> chunk[t + 2].of, at |-> 1]
      <4>1. PICK p \in Places : p = chunk[t + 2]
        BY <3>5
      <4>2. p.of \in 0..Len(log) /\ p = [of |-> p.of, at |-> p.at] /\ Len(log) \in Nat
        BY PlaceIs, TypeIs
      <4>3. p.at = 1 /\ e < p.of
        BY <3>4, <4>1
      <4>4. p.of \in 1..Len(log) /\ p = [of |-> p.of, at |-> 1]
        BY ONLY <4>2, <4>3, e \in 1..Len(log) DEF Entries
      <4> QED
        BY <4>1, <4>4 DEF Entries
    <3> QED
      BY <2>2, <3>1, <3>2, <3>6
  <2>4. /\ Completed /\ Line = Text(e)
        /\ buf' = << >> /\ latest' = latest
        /\ IF log[e].bracketed THEN ParceMetaData(NoMeta) ELSE UNCHANGED metaVars
        /\ WriteLog(Text(e), logRestarted')
    <3>1. Completed /\ Line = Text(e)
      BY <1>1, <1>2, PartIsLine
    <3> QED
      BY <3>1, TextLine DEF HandleLogData, HandleLine
  <2>5. buf' \in Seq(Places)
    BY <2>4
  <2>6. NewLine(chunk[t]) /\ (t + 1 <= Len(chunk) => NewLine(chunk[t + 1]))
    BY <1>1, <1>2, <2>2, Pieces7 DEF NewLine
  <2>7. CASE t + 1 <= Len(chunk)
    <3>1. t + 2 \in t..(Len(chunk) + 1) /\ t \in 1..(Len(chunk) + 1) /\ t + 2 \in 2..(Len(chunk) + 1)
          /\ (t + 2) - 1 = t + 1 /\ t + 1 \in Int
      BY ONLY <1>0, <2>1, <2>7
    <3>2. \A j \in t..((t + 2) - 1) : NewLine(chunk[j])
      <4>1. \A j \in t..((t + 2) - 1) : j = t \/ j = t + 1
        BY ONLY <2>1
      <4> QED
        BY <2>6, <2>7, <4>1
    <3>3. t + 2 <= Len(chunk) => ~NewLine(chunk[t + 2])
      <4>1. \A q \in Entries : ~NewLine([of |-> q, at |-> 1])
        BY Pieces7 DEF NewLine
      <4> QED
        BY <2>3, <4>1
    <3>4. LineGo(t) = t + 2
      <4> HIDE DEF t
      <4> QED
        BY ONLY <3>1, <3>2, <3>3, TypeOK, GoIs
    <3>5. chunk' = SubSeq(chunk, t + 2, Len(chunk))
      BY <1>0, <1>1, <1>2, <3>4
    <3>6. /\ InOrder' /\ chunk' \in Seq(Places)
          /\ t + 2 <= Len(chunk) => Here' = chunk[t + 2]
          /\ ~(t + 2 <= Len(chunk)) =>
               Here' = [of |-> chunk[Len(chunk)].of, at |-> chunk[Len(chunk)].at + 1]
      <4> HIDE DEF t
      <4> QED
        BY ONLY <1>0, <3>1, <3>5, TypeOK, InOrder, Consumed
    <3>7. CASE t + 2 <= Len(chunk)
      <4>1. \E q \in Entries : Here' = [of |-> q, at |-> 1] /\ Follows([of |-> e, at |-> 7], Here')
        BY <2>3, <3>6, <3>7
      <4> QED
        BY <2>4, <2>5, <3>6, <4>1
    <3>8. CASE ~(t + 2 <= Len(chunk))
      <4>1. Len(chunk) = t + 1
        BY ONLY <1>0, <2>1, <2>7, <3>8
      <4>2. Here' = [of |-> e, at |-> 8] /\ 8 \in 7..8
        BY <2>2, <2>7, <3>6, <3>8, <4>1
      <4> QED
        BY <2>4, <2>5, <3>6, <4>2
    <3> QED
      BY <3>7, <3>8
  <2>8. CASE ~(t + 1 <= Len(chunk))
    <3>1. t + 1 \in t..(Len(chunk) + 1) /\ t \in 1..(Len(chunk) + 1) /\ t + 1 \in 2..(Len(chunk) + 1)
          /\ t = Len(chunk)
      BY ONLY <1>0, <2>1, <2>8
    <3>2. \A j \in t..((t + 1) - 1) : NewLine(chunk[j])
      <4>1. \A j \in t..((t + 1) - 1) : j = t
        BY ONLY <2>1
      <4> QED
        BY <2>6, <4>1
    <3>4. LineGo(t) = t + 1
      <4> HIDE DEF t
      <4> QED
        BY ONLY <2>8, <3>1, <3>2, TypeOK, GoIs
    <3>5. chunk' = SubSeq(chunk, t + 1, Len(chunk))
      BY <1>0, <1>1, <1>2, <3>4
    <3>6. /\ InOrder' /\ chunk' \in Seq(Places)
          /\ Here' = [of |-> chunk[Len(chunk)].of, at |-> chunk[Len(chunk)].at + 1]
      <4> HIDE DEF t
      <4> QED
        BY ONLY <1>0, <2>8, <3>1, <3>5, TypeOK, InOrder, Consumed
    <3>7. Here' = [of |-> e, at |-> 7] /\ 7 \in 7..8
      BY <1>1, <1>2, <3>1, <3>6
    <3> QED
      BY <2>4, <2>5, <3>6, <3>7
  <2> QED
    BY <2>7, <2>8
<1>3. CASE ~(t <= Len(chunk))
  <2> DEFINE j == i + (Len(chunk) + 1 - 1)
  <2>1. j \in 5..6 /\ i + (Len(chunk) - 1) + 1 = j
    <3>1. i + (Len(chunk) + 1 - 1) \in 4..6
      BY <1>1, <1>3
    <3> QED
      BY ONLY <3>1, <1>0, i \in 4..6
  <2>2. LineGo(Len(chunk) + 1) = Len(chunk) + 1
    BY <1>0, GoIs
  <2>3. chunk' = SubSeq(chunk, Len(chunk) + 1, Len(chunk)) /\ Len(chunk) + 1 \in 2..(Len(chunk) + 1)
    BY <1>0, <1>1, <1>3, <2>2
  <2>4. /\ InOrder' /\ chunk' \in Seq(Places)
        /\ Here' = [of |-> chunk[Len(chunk)].of, at |-> chunk[Len(chunk)].at + 1]
    <3>1. ~(Len(chunk) + 1 <= Len(chunk))
      BY <1>0
    <3> QED
      BY ONLY <1>0, <2>3, <3>1, TypeOK, InOrder, Consumed
  <2>5. Here' = [of |-> e, at |-> j]
    BY <1>1, <1>3, <2>1, <2>4
  <2>6. buf' = Part(e, 4, j) /\ UNCHANGED <<metaVars, shown, bypassed, latest>>
    BY <1>1, <1>3 DEF HandleLogData
  <2>7. Part(e, 4, j) \in Seq(Places)
    <3>1. 4 \in 1..7 /\ j \in 4..8
      BY <2>1
    <3> HIDE DEF j
    <3> QED
      BY <3>1, PartIs
  <2> HIDE DEF j
  <2> QED
    BY <2>1, <2>4, <2>5, <2>6, <2>7
<1> QED
  BY <1>2, <1>3

(* Where HandleLogData can be: at the header, behind half a line of it, at  *)
(* a line end with nothing in mt, or inside of a line.                      *)
AtHeader == chunk[1] = Header
InHeader == chunk[1] = [of |-> 0, at |-> 2] /\ \E k \in 1..Len(buf) : buf[k] = Header
AtEnd    == /\ buf = << >>
            /\ chunk[1] = [of |-> 0, at |-> 2] \/ \E e \in Entries : chunk[1] = [of |-> e, at |-> 7]
AtLine(e, b, i) == chunk[1] = [of |-> e, at |-> i] /\ buf = Part(e, b, i)

LEMMA HereIs ==
  ASSUME TypeOK, HalfLine, chunk # << >>
  PROVE  \/ AtHeader \/ InHeader \/ AtEnd
         \/ \E e \in Entries : (\E i \in 1..3 : AtLine(e, 1, i)) \/ (\E i \in 4..6 : AtLine(e, 4, i))
<1>1. /\ chunk[1] \in Places /\ Len(buf) \in Nat /\ DOMAIN buf = 1..Len(buf) /\ Len(log) \in Nat
      /\ Here = chunk[1]
  BY TypeIs DEF Here
<1>2. PICK p \in Places : p = chunk[1]
  BY <1>1
<1>3. p.of \in 0..Len(log) /\ p.at \in 1..7 /\ p.at <= Pieces(p.of) /\ p = [of |-> p.of, at |-> p.at]
  BY PlaceIs
<1>4. CASE p.of = 0
  <2>1. p.at \in {1, 2}
    BY <1>3, <1>4 DEF Pieces
  <2>2. p = Header \/ p = [of |-> 0, at |-> 2]
    BY <1>3, <1>4, <2>1 DEF Header
  <2> QED
    BY <1>1, <1>2, <1>4, <2>2 DEF HalfLine, AtHeader, InHeader, AtEnd
<1>5. CASE p.of # 0
  <2>1. p.of \in Entries
    BY <1>1, <1>3, <1>5 DEF Entries
  <2>2. buf = IF p.at > 6 THEN << >> ELSE Part(p.of, FirstOf(p.at), p.at)
    BY <1>1, <1>2, <1>5 DEF HalfLine, Header
  <2>3. CASE p.at \in 1..3
    <3>1. buf = Part(p.of, 1, p.at)
      BY <2>2, <2>3 DEF FirstOf
    <3> QED
      BY <1>2, <1>3, <2>1, <2>3, <3>1 DEF AtLine
  <2>4. CASE p.at \in 4..6
    <3>1. buf = Part(p.of, 4, p.at)
      BY <2>2, <2>4 DEF FirstOf
    <3> QED
      BY <1>2, <1>3, <2>1, <2>4, <3>1 DEF AtLine
  <2>5. CASE p.at = 7
    BY <1>2, <1>3, <2>1, <2>2, <2>5 DEF AtEnd
  <2>6. p.at \in 1..3 \/ p.at \in 4..6 \/ p.at = 7
    BY <1>3
  <2> QED
    BY <2>3, <2>4, <2>5, <2>6
<1> QED
  BY <1>4, <1>5

(* The header is a line of its own, or the end of what was in mt.           *)
LEMMA GetsHeader ==
  ASSUME TypeOK, InOrder, HalfLine, chunk # << >>, AtHeader
  PROVE  /\ LineStop = 2 /\ Line \in Seq(Places)
         /\ \E k \in 1..Len(Line) : Line[k] = Header
         /\ ~Completed => Len(Line) < BufSize /\ ~(2 <= Len(chunk))
         /\ 2 <= Len(chunk) => Completed /\ chunk[2] = [of |-> 0, at |-> 2]
<1>1. /\ Len(chunk) \in Nat /\ Len(chunk) >= 1 /\ Len(buf) \in Nat /\ Len(buf) < BufSize
      /\ BufSize \in Nat
  <2>1. Len(chunk) # 0
    BY TypeIs
  <2> QED
    BY <2>1, TypeIs DEF HalfLine
<1>2. ~NewLine(chunk[1])
  BY DEF AtHeader, Header, NewLine
<1>3. LineStart = 1
  BY <1>2, StartIs
<1>4. 2 <= Len(chunk) => chunk[2] = [of |-> 0, at |-> 2] /\ NewLine(chunk[2])
  <2> SUFFICES ASSUME 2 <= Len(chunk) PROVE chunk[2] = [of |-> 0, at |-> 2] /\ NewLine(chunk[2])
    OBVIOUS
  <2>1. 1 \in 1..(Len(chunk) - 1) /\ 1 + 1 = 2
    BY <1>1
  <2>2. chunk[1].at < Pieces(chunk[1].of) /\ chunk[1].of = 0 /\ chunk[1].at = 1
    BY DEF AtHeader, Header, Pieces
  <2>3. chunk[1 + 1] = [of |-> 0, at |-> 1 + 1]
    BY <2>1, <2>2, NextPiece
  <2>4. chunk[2] = [of |-> 0, at |-> 2]
    BY <2>1, <2>3
  <2> QED
    BY <2>4 DEF NewLine
<1>5. /\ LineStop = 2 /\ Line \in Seq(Places) /\ Len(Line) = Len(buf) + (2 - 1)
      /\ \A k \in 1..(2 - 1) : Line[Len(buf) + k] = chunk[1 + k - 1]
      /\ Completed <=> (1 + 1 <= Len(chunk) /\ Len(Line) # 0) \/ Len(Line) = BufSize
  <2>1. /\ 1 \in 1..(Len(chunk) + 1) /\ 1 \in Nat /\ 2 \in Nat
        /\ 2 = IF 1 + 1 <= Len(chunk) THEN 1 + 1 ELSE Len(chunk) + 1
        /\ Len(buf) + 1 <= BufSize
    BY <1>1
  <2>2. \A j \in 1..(1 + 1 - 1) : j <= Len(chunk) => ~NewLine(chunk[j])
    BY <1>2
  <2>3. 1 + 1 <= Len(chunk) => NewLine(chunk[1 + 1])
    BY <1>4
  <2>4. LineStop = 2 /\ Line \in Seq(Places) /\ Len(Line) = Len(buf) + (2 - 1)
    BY ONLY TypeOK, <1>3, <2>1, <2>2, <2>3, LineIs
  <2>5. \A k \in 1..(2 - 1) : Line[Len(buf) + k] = chunk[1 + k - 1]
    BY ONLY TypeOK, <1>3, <2>1, <2>2, <2>3, LineIs
  <2>6. Completed <=> (1 + 1 <= Len(chunk) /\ Len(Line) # 0) \/ Len(Line) = BufSize
    BY ONLY TypeOK, <1>3, <2>1, <2>2, <2>3, LineIs
  <2> QED
    BY <2>4, <2>5, <2>6
<1>6. Len(buf) + 1 \in 1..Len(Line) /\ Line[Len(buf) + 1] = Header
  <2>1. Line[Len(buf) + 1] = chunk[1 + 1 - 1]
    BY <1>5
  <2> QED
    BY <1>1, <1>5, <2>1 DEF AtHeader
<1>7. ~Completed => Len(Line) < BufSize /\ ~(2 <= Len(chunk))
  BY <1>1, <1>5
<1> QED
  BY <1>1, <1>4, <1>5, <1>6, <1>7

LEMMA GetsBroken ==
  ASSUME TypeOK, InOrder, HalfLine, chunk # << >>, InHeader
  PROVE  /\ LineStop = 1 /\ Completed /\ Line \in Seq(Places)
         /\ \E k \in 1..Len(Line) : Line[k] = Header
<1>1. /\ Len(chunk) \in Nat /\ Len(chunk) >= 1 /\ Len(buf) \in Nat /\ BufSize \in Nat
      /\ buf # << >> /\ Len(buf) >= 1 /\ Len(buf) < BufSize
  <2>1. Len(chunk) # 0
    BY TypeIs
  <2>2. Len(buf) \in Nat /\ \E k \in 1..Len(buf) : TRUE
    BY TypeIs DEF InHeader
  <2>3. Len(buf) # 0
    BY <2>2
  <2> QED
    BY <2>1, <2>2, <2>3, TypeIs DEF HalfLine
<1>2. NewLine(chunk[1])
  BY DEF InHeader, NewLine
<1>3. LineStart = 1
  BY <1>1, StartIs
<1>4. /\ LineStop = 1 /\ Line \in Seq(Places) /\ Len(Line) = Len(buf) + (1 - 1)
      /\ \A k \in 1..Len(buf) : Line[k] = buf[k]
      /\ Completed <=> (1 + 0 <= Len(chunk) /\ Len(Line) # 0) \/ Len(Line) = BufSize
  <2>1. /\ 1 \in 1..(Len(chunk) + 1) /\ 0 \in Nat /\ 1 \in Nat
        /\ 1 = IF 1 + 0 <= Len(chunk) THEN 1 + 0 ELSE Len(chunk) + 1
        /\ Len(buf) + 0 <= BufSize
    BY <1>1
  <2>2. \A j \in 1..(1 + 0 - 1) : j <= Len(chunk) => ~NewLine(chunk[j])
    OBVIOUS
  <2>3. 1 + 0 <= Len(chunk) => NewLine(chunk[1 + 0])
    BY <1>2
  <2>4. LineStop = 1 /\ Line \in Seq(Places) /\ Len(Line) = Len(buf) + (1 - 1)
    BY ONLY TypeOK, <1>3, <2>1, <2>2, <2>3, LineIs
  <2>5. \A k \in 1..Len(buf) : Line[k] = buf[k]
    BY ONLY TypeOK, <1>3, <2>1, <2>2, <2>3, LineIs
  <2>6. Completed <=> (1 + 0 <= Len(chunk) /\ Len(Line) # 0) \/ Len(Line) = BufSize
    BY ONLY TypeOK, <1>3, <2>1, <2>2, <2>3, LineIs
  <2> QED
    BY <2>4, <2>5, <2>6
<1>5. Len(Line) = Len(buf)
  BY <1>1, <1>4
<1> QED
  BY <1>1, <1>4, <1>5 DEF InHeader

(* At a line end getLine goes on to the metadata of the next entry.         *)
LEMMA GetsNext ==
  ASSUME TypeOK, InOrder, chunk # << >>, AtEnd
  PROVE  /\ LineStart = 2
         /\ 2 <= Len(chunk) =>
              \E q \in Entries : chunk[2] = [of |-> q, at |-> 1] /\ Follows(chunk[1], chunk[2])
         /\ ~(2 <= Len(chunk)) => ~Completed /\ Line = << >> /\ LineStop = 2
<1>1. /\ Len(chunk) \in Nat /\ Len(chunk) >= 1 /\ Len(log) \in Nat /\ Len(buf) = 0
      /\ BufSize \in Nat /\ BufSize > 2 /\ buf = << >>
  <2>1. Len(chunk) # 0 /\ buf = << >>
    BY TypeIs DEF AtEnd
  <2> QED
    BY <2>1, TypeIs
<1>2. NewLine(chunk[1]) /\ chunk[1].at = Pieces(chunk[1].of) /\ chunk[1].of \in Nat
  <2>1. CASE chunk[1] = [of |-> 0, at |-> 2]
    BY <2>1 DEF NewLine, Pieces
  <2>2. ASSUME NEW e \in Entries, chunk[1] = [of |-> e, at |-> 7]
        PROVE  NewLine(chunk[1]) /\ chunk[1].at = Pieces(chunk[1].of) /\ chunk[1].of \in Nat
    <3>1. Pieces(e) = 7 /\ e # 0 /\ e \in Nat
      BY Pieces7
    <3> QED
      BY <2>2, <3>1 DEF NewLine
  <2> QED
    BY <2>1, <2>2 DEF AtEnd
<1>3. ASSUME 2 <= Len(chunk)
      PROVE  \E q \in Entries : chunk[2] = [of |-> q, at |-> 1] /\ Follows(chunk[1], chunk[2])
  <2>1. Follows(chunk[1], chunk[2])
    <3>1. 1 \in 1..(Len(chunk) - 1) /\ 1 + 1 = 2
      BY <1>1, <1>3
    <3> QED
      BY <3>1 DEF InOrder
  <2>2. ~(chunk[1].at < Pieces(chunk[1].of))
    BY <1>2 DEF Pieces
  <2>3. chunk[2].at = 1 /\ chunk[1].of < chunk[2].of
    BY <2>1, <2>2 DEF Follows
  <2>4. PICK p \in Places : p = chunk[2]
    <3>1. 2 \in 1..Len(chunk)
      BY <1>1, <1>3
    <3> QED
      BY <3>1, TypeIs
  <2>5. p.of \in 0..Len(log) /\ p = [of |-> p.of, at |-> p.at]
    BY PlaceIs
  <2>6. p.of \in 1..Len(log) /\ p = [of |-> p.of, at |-> 1]
    BY <1>1, <1>2, <2>3, <2>4, <2>5
  <2> QED
    BY <2>1, <2>4, <2>6 DEF Entries
<1>4. 2 <= Len(chunk) => ~NewLine(chunk[2])
  <2> SUFFICES ASSUME 2 <= Len(chunk) PROVE ~NewLine(chunk[2])
    OBVIOUS
  <2>1. PICK q \in Entries : chunk[2] = [of |-> q, at |-> 1]
    BY <1>3
  <2> QED
    BY <2>1, Pieces7 DEF NewLine
<1>5. LineStart = 2
  BY <1>1, <1>2, <1>4, StartIs
<1>6. ASSUME ~(2 <= Len(chunk)) PROVE ~Completed /\ Line = << >> /\ LineStop = 2
  <2>1. Len(chunk) = 1
    <3>1. PICK n \in Nat : n = Len(chunk) /\ n >= 1
      BY <1>1
    <3>2. ~(2 <= n)
      BY <1>6, <3>1
    <3> QED
      BY ONLY <3>1, <3>2, n \in Nat
  <2>2. /\ 2 \in 1..(Len(chunk) + 1) /\ 0 \in Nat /\ 2 \in Nat
        /\ 2 = IF 2 + 0 <= Len(chunk) THEN 2 + 0 ELSE Len(chunk) + 1
        /\ Len(buf) + 0 <= BufSize
    BY <1>1, <2>1
  <2>3. /\ \A j \in 2..(2 + 0 - 1) : j <= Len(chunk) => ~NewLine(chunk[j])
        /\ 2 + 0 <= Len(chunk) => NewLine(chunk[2 + 0])
    BY <2>1
  <2>4. LineStop = 2 /\ Line \in Seq(Places) /\ Len(Line) = Len(buf) + (2 - 2)
    BY ONLY TypeOK, <1>5, <2>2, <2>3, LineIs
  <2>5. Completed <=> (2 + 0 <= Len(chunk) /\ Len(Line) # 0) \/ Len(Line) = BufSize
    BY ONLY TypeOK, <1>5, <2>2, <2>3, LineIs
  <2>6. Len(Line) = 0
    BY <1>1, <2>4
  <2> QED
    BY <1>1, <2>4, <2>5, <2>6, EmptySeq
<1> QED
  BY <1>3, <1>5, <1>6

LEMMA LineStarts ==
  ASSUME TypeOK, chunk # << >>, NEW e \in Entries, NEW b \in {1, 4}, NEW i \in b..(b + 2),
         AtLine(e, b, i)
  PROVE  LineStart = 1
<1>1. CASE i = b
  <2>1. ~NewLine(chunk[1])
    BY <1>1, Pieces7 DEF AtLine, NewLine
  <2> QED
    BY <2>1, StartIs
<1>2. CASE i # b
  <2>1. b \in 1..7 /\ i \in b..8 /\ i - b # 0
    BY <1>2
  <2>2. Len(buf) = i - b
    BY <2>1, PartIs DEF AtLine
  <2>3. buf # << >>
    BY <2>1, <2>2, TypeIs
  <2> QED
    BY <2>3, StartIs
<1> QED
  BY <1>1, <1>2

LEMMA LineIsPrinted ==
  ASSUME TypeOK, InOrder, HalfLine PROVE LinesAsPrinted
<1> SUFFICES ASSUME chunk # << >>, Completed
             PROVE  Line \in Lines \/ \E k \in DOMAIN Line : Line[k] = Header
  BY DEF LinesAsPrinted
<1>0. Len(chunk) \in Nat /\ Len(chunk) >= 1
  <2>1. Len(chunk) \in Nat /\ Len(chunk) # 0
    BY TypeIs
  <2> QED
    BY <2>1
<1>1. ASSUME NEW e \in Entries, NEW b \in {1, 4}, NEW i \in b..(b + 2), NEW s \in 1..Len(chunk),
             LineStart = s, chunk[s] = [of |-> e, at |-> i], buf = Part(e, b, i)
      PROVE  Line \in Lines
  <2> DEFINE t == s + (b + 2 - i)
  <2>1. /\ t <= Len(chunk) => Completed /\ Line = Part(e, b, b + 2)
        /\ ~(t <= Len(chunk)) => ~Completed
    BY ONLY <1>1, TypeOK, InOrder, GetsLine
  <2>2. Line = Part(e, b, b + 2)
    BY <2>1
  <2>3. (b = 1 /\ b + 2 = 3) \/ (b = 4 /\ b + 2 = 6)
    OBVIOUS
  <2>4. Line = Meta(e) \/ Line = Text(e)
    BY <2>2, <2>3, PartIsLine
  <2> QED
    BY <2>4 DEF Lines
<1>2. ASSUME NEW k \in 1..Len(Line), Line[k] = Header, Line \in Seq(Places)
      PROVE  \E l \in DOMAIN Line : Line[l] = Header
  BY <1>2, LenProperties
<1>3. CASE AtHeader
  BY <1>2, <1>3, GetsHeader
<1>4. CASE InHeader
  BY <1>2, <1>4, GetsBroken
<1>5. CASE AtEnd
  <2>1. /\ LineStart = 2
        /\ 2 <= Len(chunk) =>
             \E q \in Entries : chunk[2] = [of |-> q, at |-> 1] /\ Follows(chunk[1], chunk[2])
    BY <1>5, GetsNext
  <2>2. 2 <= Len(chunk)
    BY <1>5, GetsNext
  <2>3. PICK q \in Entries : chunk[2] = [of |-> q, at |-> 1]
    BY <2>1, <2>2
  <2>4. buf = Part(q, 1, 1)
    BY <1>5 DEF AtEnd, Part
  <2>5. 2 \in 1..Len(chunk) /\ 1 \in {1, 4} /\ 1 \in 1..(1 + 2)
    BY <1>0, <2>2
  <2>6. Line \in Lines
    BY ONLY <1>1, <2>1, <2>3, <2>4, <2>5, q \in Entries
  <2> QED
    BY <2>6
<1>6. ASSUME NEW e \in Entries, NEW b \in {1, 4}, NEW i \in b..(b + 2), AtLine(e, b, i)
      PROVE  Line \in Lines
  <2>1. LineStart = 1
    BY <1>6, LineStarts
  <2>2. 1 \in 1..Len(chunk) /\ chunk[1] = [of |-> e, at |-> i] /\ buf = Part(e, b, i)
    BY <1>0, <1>6 DEF AtLine
  <2> QED
    BY ONLY <1>1, <2>1, <2>2, e \in Entries, b \in {1, 4}, i \in b..(b + 2)
<1>7. ASSUME NEW e \in Entries,
             (\E i \in 1..3 : AtLine(e, 1, i)) \/ (\E i \in 4..6 : AtLine(e, 4, i))
      PROVE  Line \in Lines
  <2>1. CASE \E i \in 1..3 : AtLine(e, 1, i)
    <3>1. PICK i \in 1..3 : AtLine(e, 1, i)
      BY <2>1
    <3>2. 1 \in {1, 4} /\ i \in 1..(1 + 2)
      OBVIOUS
    <3> QED
      BY ONLY <1>6, <3>1, <3>2, e \in Entries
  <2>2. CASE \E i \in 4..6 : AtLine(e, 4, i)
    <3>1. PICK i \in 4..6 : AtLine(e, 4, i)
      BY <2>2
    <3>2. 4 \in {1, 4} /\ i \in 4..(4 + 2)
      OBVIOUS
    <3> QED
      BY ONLY <1>6, <3>1, <3>2, e \in Entries
  <2> QED
    BY <1>7, <2>1, <2>2
<1> QED
  BY <1>3, <1>4, <1>5, <1>7, HereIs

(* What a round comes to, as far as entries are concerned.  From where the  *)
(* output has come to, entries up to m are passed: they are not printed.    *)
Passes(m) == m \in Nat /\ Met <= m /\ \A d \in (Met + 1)..m : d <= gone

Idle ==
  /\ UNCHANGED <<metaVars, shown, bypassed, latest>>
  /\ \/ Told < Met /\ Met' = Met /\ Told' = Told /\ Here'.of = Here.of
     \/ /\ Told = Met /\ Told' = Met' /\ Passes(Met')
        /\ Here'.of = Here.of \/ gone < Here'.of

MeetsMeta(e) ==
  /\ Told = Met /\ Passes(e - 1) /\ Told' = e - 1 /\ Met' = e
  /\ Here'.of = e /\ (Here.of = e \/ gone < e)
  /\ ParceMetaData([at |-> log[e].at, by |-> log[e].by])
  /\ UNCHANGED <<shown, bypassed>>
  /\ latest' = IF logRestarted' THEN latest ELSE e

MeetsText(e) ==
  /\ Told = e - 1 /\ Met = e /\ Told' = Met' /\ Passes(Met')
  /\ Here.of = e /\ (Here'.of = e \/ gone < Here'.of)
  /\ IF log[e].bracketed THEN ParceMetaData(NoMeta) ELSE UNCHANGED metaVars
  /\ WriteLog(Text(e), logRestarted')
  /\ UNCHANGED latest

LEMMA HereIn ==
  ASSUME TypeOK, NEW e \in Entries, NEW n \in 1..8, Here = [of |-> e, at |-> n]
  PROVE  /\ Met = IF n <= 3 THEN e - 1 ELSE e
         /\ Told = IF n <= 6 THEN e - 1 ELSE e
         /\ Here.of = e
BY Pieces7 DEF Met, Told

LEMMA HereThen ==
  ASSUME TypeOK, NEW e \in Entries, NEW n \in 1..8, Here' = [of |-> e, at |-> n]
  PROVE  /\ Met' = IF n <= 3 THEN e - 1 ELSE e
         /\ Told' = IF n <= 6 THEN e - 1 ELSE e
         /\ Here'.of = e
BY Pieces7 DEF Met, Told

LEMMA HereHeader ==
  ASSUME NEW n \in 1..3
  PROVE  /\ Here = [of |-> 0, at |-> n] => Met = 0 /\ Told = 0 /\ Here.of = 0
         /\ Here' = [of |-> 0, at |-> n] => Met' = 0 /\ Told' = 0 /\ Here'.of = 0
BY DEF Met, Told

LEMMA HalfLineThen ==
  ASSUME TypeOK, NEW e \in Entries, NEW n \in 1..8, Here' = [of |-> e, at |-> n],
         buf' = IF n > 6 THEN << >> ELSE Part(e, FirstOf(n), n)
  PROVE  HalfLine'
<1>1. e # 0 /\ BufSize \in Nat /\ BufSize > 2 /\ n \in Int /\ n >= 1 /\ n <= 8
  BY Pieces7, TypeIs
<1>2. Len(buf') < BufSize
  <2>1. CASE n > 6
    BY <1>1, <2>1
  <2>2. CASE ~(n > 6)
    <3>1. PICK b \in {1, 4} : b = FirstOf(n) /\ n >= b /\ n - b <= 2
      BY <1>1, <2>2 DEF FirstOf
    <3>2. b \in 1..7 /\ n \in b..8
      BY <1>1, <3>1
    <3>3. Len(Part(e, b, n)) = n - b
      BY <3>2, PartIs
    <3> QED
      BY <1>1, <2>2, <3>1, <3>3
  <2> QED
    BY <2>1, <2>2
<1>3. Here'.of = e /\ Here'.at = n
  OBVIOUS
<1> QED
  BY <1>1, <1>2, <1>3 DEF HalfLine

(* Behind a line end is the end of the chunk or the metadata of an entry.   *)
LEMMA PassesTo ==
  ASSUME TypeOK, NEW p \in Places, NEW q \in Entries, p.at = Pieces(p.of),
         Follows(p, [of |-> q, at |-> 1]), p.of = Met
  PROVE  Passes(q - 1) /\ gone < q
<1>1. p.of < q /\ gone < q /\ \A d \in (p.of + 1)..(q - 1) : d <= gone
  <2>1. ~(p.at < Pieces(p.of))
    BY DEF Pieces
  <2> QED
    BY <2>1 DEF Follows
<1>2. p.of \in Nat /\ q \in Nat
  <2>1. p.of \in 0..Len(log) /\ q \in Nat
    BY PlaceIs, Pieces7
  <2> QED
    BY <2>1
<1> QED
  BY <1>1, <1>2 DEF Passes

(* A line that is neither metadata nor the text of an entry.                *)
LEMMA BrokenIsIdle ==
  ASSUME TypeOK, Completed, HandleLogData, NEW i \in 1..Len(Line), Line[i] = Header
  PROVE  buf' = << >> /\ UNCHANGED <<metaVars, shown, bypassed, latest>>
<1>1. ~IsMeta(Line) /\ ~IsOdd(Line) /\ \A d \in Entries : Line # Text(d)
  BY BrokenLine
<1>2. {e \in Entries : Line = Text(e)} = {}
  BY <1>1
<1>3. UNCHANGED metaVars /\ WriteLog(Line, logRestarted') /\ buf' = << >> /\ UNCHANGED latest
  BY <1>1 DEF HandleLogData, HandleLine
<1>4. shown \in [Entries -> 0..2]
  BY DEF TypeOK
<1>5. [e \in Entries |-> IF e \in {} /\ shown[e] < 2 THEN shown[e] + 1 ELSE shown[e]] = shown
  BY <1>4
<1> QED
  BY <1>2, <1>3, <1>5 DEF WriteLog

LEMMA RoundOfMeta ==
  ASSUME TypeOK, InOrder, HandleLogData, NEW e \in Entries, NEW i \in 1..3,
         NEW s \in 1..Len(chunk), LineStart = s, chunk[s] = [of |-> e, at |-> i],
         buf = Part(e, 1, i), Told = Met, Passes(e - 1), Here.of = e \/ gone < e
  PROVE  /\ InOrder' /\ HalfLine' /\ chunk' \in Seq(Places) /\ buf' \in Seq(Places)
         /\ Idle \/ MeetsMeta(e)
<1>1. /\ InOrder' /\ chunk' \in Seq(Places) /\ buf' \in Seq(Places)
      /\ \/ /\ Here' = [of |-> e, at |-> 4] /\ buf' = << >>
            /\ ParceMetaData([at |-> log[e].at, by |-> log[e].by])
            /\ UNCHANGED <<shown, bypassed>>
            /\ latest' = IF logRestarted' THEN latest ELSE e
         \/ /\ \E j \in 2..3 : Here' = [of |-> e, at |-> j] /\ buf' = Part(e, 1, j)
            /\ UNCHANGED <<metaVars, shown, bypassed, latest>>
  BY ReadsMeta
<1>2. CASE /\ Here' = [of |-> e, at |-> 4] /\ buf' = << >>
           /\ ParceMetaData([at |-> log[e].at, by |-> log[e].by])
           /\ UNCHANGED <<shown, bypassed>>
           /\ latest' = IF logRestarted' THEN latest ELSE e
  <2>0. 4 \in 1..8 /\ ~(4 <= 3) /\ 4 <= 6 /\ ~(4 > 6)
    OBVIOUS
  <2>1. Met' = e /\ Told' = e - 1 /\ Here'.of = e
    BY <1>2, <2>0, HereThen
  <2>2. MeetsMeta(e)
    BY <1>2, <2>1 DEF MeetsMeta
  <2>3. Part(e, FirstOf(4), 4) = << >>
    BY DEF FirstOf, Part
  <2>4. HalfLine'
    BY <1>2, <2>0, <2>3, HalfLineThen
  <2> QED
    BY <1>1, <2>2, <2>4
<1>3. CASE /\ \E j \in 2..3 : Here' = [of |-> e, at |-> j] /\ buf' = Part(e, 1, j)
           /\ UNCHANGED <<metaVars, shown, bypassed, latest>>
  <2>1. PICK j \in 2..3 : Here' = [of |-> e, at |-> j] /\ buf' = Part(e, 1, j)
    BY <1>3
  <2>2. j \in 1..8 /\ j <= 3 /\ j <= 6 /\ ~(j > 6) /\ FirstOf(j) = 1
    BY DEF FirstOf
  <2>3. Met' = e - 1 /\ Told' = e - 1 /\ Here'.of = e
    BY <2>1, <2>2, HereThen
  <2>4. HalfLine'
    BY <2>1, <2>2, HalfLineThen
  <2>5. Idle
    BY <1>3, <2>3 DEF Idle
  <2> QED
    BY <1>1, <2>4, <2>5
<1> QED
  BY <1>1, <1>2, <1>3

LEMMA RoundOfText ==
  ASSUME TypeOK, InOrder, HandleLogData, NEW e \in Entries, NEW i \in 4..6, AtLine(e, 4, i)
  PROVE  /\ InOrder' /\ HalfLine' /\ chunk' \in Seq(Places) /\ buf' \in Seq(Places)
         /\ Idle \/ MeetsText(e)
<1>0. chunk # << >> /\ chunk[1] = [of |-> e, at |-> i] /\ buf = Part(e, 4, i)
  BY DEF HandleLogData, AtLine
<1>1. LineStart = 1
  <2>1. 4 \in {1, 4} /\ i \in 4..(4 + 2)
    OBVIOUS
  <2> QED
    BY ONLY <1>0, <2>1, TypeOK, e \in Entries, AtLine(e, 4, i), LineStarts
<1>2. Met = e /\ Told = e - 1 /\ Here.of = e /\ e \in Nat /\ Pieces(e) = 7
  <2>1. Here = [of |-> e, at |-> i] /\ i \in 1..8 /\ ~(i <= 3) /\ i <= 6
    BY <1>0 DEF Here
  <2> QED
    BY <2>1, HereIn, Pieces7
<1>3. /\ InOrder' /\ chunk' \in Seq(Places) /\ buf' \in Seq(Places)
      /\ \/ /\ buf' = << >> /\ latest' = latest
            /\ \/ \E j \in 7..8 : Here' = [of |-> e, at |-> j]
               \/ \E q \in Entries : Here' = [of |-> q, at |-> 1]
                                     /\ Follows([of |-> e, at |-> 7], Here')
            /\ IF log[e].bracketed THEN ParceMetaData(NoMeta) ELSE UNCHANGED metaVars
            /\ WriteLog(Text(e), logRestarted')
         \/ /\ \E j \in 5..6 : Here' = [of |-> e, at |-> j] /\ buf' = Part(e, 4, j)
            /\ UNCHANGED <<metaVars, shown, bypassed, latest>>
  BY <1>0, <1>1, ReadsText
<1>4. ASSUME NEW j \in 7..8, Here' = [of |-> e, at |-> j], buf' = << >>
      PROVE  HalfLine' /\ Told' = Met' /\ Passes(Met') /\ Here'.of = e
  <2>1. j \in 1..8 /\ ~(j <= 3) /\ ~(j <= 6) /\ j > 6
    OBVIOUS
  <2>2. Met' = e /\ Told' = e /\ Here'.of = e
    BY <1>4, <2>1, HereThen
  <2>3. HalfLine'
    BY <1>4, <2>1, HalfLineThen
  <2> QED
    BY <1>2, <2>2, <2>3 DEF Passes
<1>5. ASSUME NEW q \in Entries, Here' = [of |-> q, at |-> 1], buf' = << >>,
             Follows([of |-> e, at |-> 7], Here')
      PROVE  HalfLine' /\ Told' = Met' /\ Passes(Met') /\ gone < Here'.of
  <2>1. Met' = q - 1 /\ Told' = q - 1 /\ Here'.of = q
    <3>1. 1 \in 1..8 /\ 1 <= 3 /\ 1 <= 6
      OBVIOUS
    <3> QED
      BY <1>5, <3>1, HereThen
  <2>2. HalfLine'
    <3>1. Part(q, FirstOf(1), 1) = << >> /\ 1 \in 1..8 /\ ~(1 > 6)
      BY DEF FirstOf, Part
    <3> QED
      BY <1>5, <3>1, HalfLineThen
  <2>3. Passes(q - 1) /\ gone < q
    <3>1. [of |-> e, at |-> 7] \in Places
      BY <1>2, TypeIs DEF Places, Entries
    <3>2. /\ Follows([of |-> e, at |-> 7], [of |-> q, at |-> 1])
          /\ [of |-> e, at |-> 7].at = Pieces([of |-> e, at |-> 7].of)
          /\ [of |-> e, at |-> 7].of = Met
      BY <1>2, <1>5
    <3> QED
      BY ONLY <3>1, <3>2, TypeOK, q \in Entries, PassesTo
  <2> QED
    BY <2>1, <2>2, <2>3
<1>6. CASE /\ buf' = << >> /\ latest' = latest
           /\ \/ \E j \in 7..8 : Here' = [of |-> e, at |-> j]
              \/ \E q \in Entries : Here' = [of |-> q, at |-> 1]
                                    /\ Follows([of |-> e, at |-> 7], Here')
           /\ IF log[e].bracketed THEN ParceMetaData(NoMeta) ELSE UNCHANGED metaVars
           /\ WriteLog(Text(e), logRestarted')
  <2>1. HalfLine' /\ Told' = Met' /\ Passes(Met') /\ (Here'.of = e \/ gone < Here'.of)
    BY <1>4, <1>5, <1>6
  <2>2. MeetsText(e)
    BY <1>2, <1>6, <2>1 DEF MeetsText
  <2> QED
    BY <1>3, <2>1, <2>2
<1>7. CASE /\ \E j \in 5..6 : Here' = [of |-> e, at |-> j] /\ buf' = Part(e, 4, j)
           /\ UNCHANGED <<metaVars, shown, bypassed, latest>>
  <2>1. PICK j \in 5..6 : Here' = [of |-> e, at |-> j] /\ buf' = Part(e, 4, j)
    BY <1>7
  <2>2. j \in 1..8 /\ ~(j <= 3) /\ j <= 6 /\ ~(j > 6) /\ FirstOf(j) = 4
    BY DEF FirstOf
  <2>3. Met' = e /\ Told' = e - 1 /\ Here'.of = e
    BY <2>1, <2>2, HereThen
  <2>4. HalfLine'
    BY <2>1, <2>2, HalfLineThen
  <2>5. Idle
    BY <1>2, <1>7, <2>3 DEF Idle
  <2> QED
    BY <1>3, <2>4, <2>5
<1> QED
  BY <1>3, <1>6, <1>7

LEMMA RoundOfHeader ==
  ASSUME TypeOK, InOrder, HandleLogData, NEW s \in 1..Len(chunk),
         chunk[s] = [of |-> 0, at |-> 2], LineStop = s, buf' = << >>, Met = 0
  PROVE  /\ InOrder' /\ HalfLine' /\ chunk' \in Seq(Places)
         /\ Told' = Met' /\ Passes(Met') /\ (Here'.of = 0 \/ gone < Here'.of)
<1>0. /\ Len(chunk) \in Nat /\ Len(chunk) \in Int /\ s \in Int /\ s >= 1 /\ s <= Len(chunk)
      /\ log' = log /\ gone' = gone /\ last' = last /\ BufSize \in Nat /\ BufSize > 2
      /\ chunk' = SubSeq(chunk, LineGo(LineStop), Len(chunk))
  BY TypeIs DEF HandleLogData, deviceVars
<1>1. NewLine(chunk[s]) /\ chunk[s] \in Places /\ chunk[s].at = Pieces(chunk[s].of)
  BY TypeIs DEF NewLine, Pieces
<1>2. ASSUME s + 1 <= Len(chunk)
      PROVE  \E q \in Entries : chunk[s + 1] = [of |-> q, at |-> 1]
                                /\ Follows(chunk[s], chunk[s + 1])
  <2>1. s \in 1..(Len(chunk) - 1) /\ s + 1 \in 1..Len(chunk)
    BY ONLY <1>0, <1>2
  <2>2. Follows(chunk[s], chunk[s + 1])
    BY <2>1 DEF InOrder
  <2>3. chunk[s + 1].at = 1 /\ 0 < chunk[s + 1].of
    BY <2>2 DEF Follows, Pieces
  <2>4. PICK p \in Places : p = chunk[s + 1]
    BY <2>1, TypeIs
  <2>5. p.of \in 0..Len(log) /\ p = [of |-> p.of, at |-> p.at] /\ Len(log) \in Nat
    BY PlaceIs, TypeIs
  <2>6. p.of \in 1..Len(log) /\ p = [of |-> p.of, at |-> 1]
    BY <2>3, <2>4, <2>5
  <2> QED
    BY <2>2, <2>4, <2>6 DEF Entries
<1>3. LineGo(s) = s + 1
  <2>1. s + 1 <= Len(chunk) => ~NewLine(chunk[s + 1])
    <3> SUFFICES ASSUME s + 1 <= Len(chunk) PROVE ~NewLine(chunk[s + 1])
      OBVIOUS
    <3>1. PICK q \in Entries : chunk[s + 1] = [of |-> q, at |-> 1]
      BY <1>2
    <3> QED
      BY <3>1, Pieces7 DEF NewLine
  <2>2. s \in 1..(Len(chunk) + 1) /\ s + 1 \in s..(Len(chunk) + 1)
    BY ONLY <1>0
  <2>3. \A j \in s..((s + 1) - 1) : j = s
    BY ONLY <1>0
  <2> QED
    BY <1>1, <2>1, <2>2, <2>3, GoIs
<1>4. /\ InOrder' /\ chunk' \in Seq(Places)
      /\ s + 1 <= Len(chunk) => Here' = chunk[s + 1]
      /\ ~(s + 1 <= Len(chunk)) =>
           Here' = [of |-> chunk[Len(chunk)].of, at |-> chunk[Len(chunk)].at + 1]
  <2>1. s + 1 \in 2..(Len(chunk) + 1)
    BY ONLY <1>0
  <2>2. chunk' = SubSeq(chunk, s + 1, Len(chunk))
    BY <1>0, <1>3
  <2> QED
    BY ONLY <1>0, <2>1, <2>2, TypeOK, InOrder, Consumed
<1>5. CASE s + 1 <= Len(chunk)
  <2>1. PICK q \in Entries : chunk[s + 1] = [of |-> q, at |-> 1] /\ Follows(chunk[s], chunk[s + 1])
    BY <1>2, <1>5
  <2>2. Here' = [of |-> q, at |-> 1] /\ 1 \in 1..8 /\ 1 <= 3 /\ 1 <= 6 /\ ~(1 > 6)
    BY <1>4, <1>5, <2>1
  <2>3. Met' = q - 1 /\ Told' = q - 1 /\ Here'.of = q
    BY <2>2, HereThen
  <2>4. Part(q, FirstOf(1), 1) = << >>
    BY DEF FirstOf, Part
  <2>5. HalfLine'
    BY <2>2, <2>4, HalfLineThen
  <2>6. Passes(q - 1) /\ gone < q
    <3>1. Follows(chunk[s], [of |-> q, at |-> 1]) /\ chunk[s].of = Met
      BY <2>1
    <3> QED
      BY ONLY <1>1, <3>1, TypeOK, q \in Entries, PassesTo
  <2> QED
    BY <1>4, <2>3, <2>5, <2>6
<1>6. CASE ~(s + 1 <= Len(chunk))
  <2>1. s = Len(chunk)
    BY ONLY <1>0, <1>6
  <2>2. Here' = [of |-> 0, at |-> 3] /\ 3 \in 1..3
    BY <1>4, <1>6, <2>1
  <2>3. Met' = 0 /\ Told' = 0 /\ Here'.of = 0
    BY <2>2, HereHeader
  <2>4. HalfLine'
    BY <1>0, <2>3 DEF HalfLine
  <2>5. Passes(0)
    BY DEF Passes
  <2> QED
    BY <1>4, <2>3, <2>4, <2>5
<1> QED
  BY <1>5, <1>6

LEMMA RoundAtHeader ==
  ASSUME TypeOK, InOrder, HalfLine, HandleLogData, AtHeader \/ InHeader
  PROVE  /\ InOrder' /\ HalfLine' /\ chunk' \in Seq(Places) /\ buf' \in Seq(Places)
         /\ Idle
<1>0. /\ chunk # << >> /\ Len(chunk) \in Nat /\ Len(chunk) \in Int /\ Len(chunk) >= 1
      /\ log' = log /\ gone' = gone /\ last' = last
      /\ chunk' = SubSeq(chunk, LineGo(LineStop), Len(chunk))
  <2>1. chunk # << >> /\ Len(chunk) \in Nat /\ Len(chunk) # 0
    BY TypeIs DEF HandleLogData
  <2> QED
    BY <2>1 DEF HandleLogData, deviceVars
<1>1. Met = 0 /\ Told = 0 /\ Here.of = 0
  <2>1. Here = [of |-> 0, at |-> 1] \/ Here = [of |-> 0, at |-> 2]
    BY <1>0 DEF Here, AtHeader, InHeader, Header
  <2>2. 1 \in 1..3 /\ 2 \in 1..3
    OBVIOUS
  <2> QED
    BY <2>1, <2>2, HereHeader
<1>2. ASSUME UNCHANGED <<metaVars, shown, bypassed, latest>>,
             Told' = Met', Passes(Met'), Here'.of = 0 \/ gone < Here'.of
      PROVE  Idle
  BY <1>1, <1>2 DEF Idle
<1>3. CASE InHeader
  <2>1. /\ LineStop = 1 /\ Completed
        /\ \E k \in 1..Len(Line) : Line[k] = Header
    BY <1>0, <1>3, GetsBroken
  <2>2. buf' = << >> /\ UNCHANGED <<metaVars, shown, bypassed, latest>>
    BY <2>1, BrokenIsIdle
  <2>3. 1 \in 1..Len(chunk) /\ chunk[1] = [of |-> 0, at |-> 2]
    BY <1>0, <1>3 DEF InHeader
  <2>4. /\ InOrder' /\ HalfLine' /\ chunk' \in Seq(Places)
        /\ Told' = Met' /\ Passes(Met') /\ (Here'.of = 0 \/ gone < Here'.of)
    BY <1>1, <2>1, <2>2, <2>3, RoundOfHeader
  <2>5. buf' \in Seq(Places)
    BY <2>2
  <2> QED
    BY <1>2, <2>2, <2>4, <2>5
<1>4. CASE AtHeader
  <2>1. /\ LineStop = 2 /\ Line \in Seq(Places)
        /\ \E k \in 1..Len(Line) : Line[k] = Header
        /\ ~Completed => Len(Line) < BufSize /\ ~(2 <= Len(chunk))
        /\ 2 <= Len(chunk) => Completed /\ chunk[2] = [of |-> 0, at |-> 2]
    BY <1>0, <1>4, GetsHeader
  <2>2. Completed => buf' = << >>
    BY DEF HandleLogData
  <2>3. ~Completed => buf' = Line
    BY DEF HandleLogData
  <2>4. UNCHANGED <<metaVars, shown, bypassed, latest>>
    <3>1. CASE Completed
      BY <2>1, <3>1, BrokenIsIdle
    <3>2. CASE ~Completed
      BY <3>2 DEF HandleLogData
    <3> QED
      BY <3>1, <3>2
  <2>5. buf' \in Seq(Places)
    <3>1. << >> \in Seq(Places)
      OBVIOUS
    <3> QED
      BY <2>1, <2>2, <2>3, <3>1
  <2>6. CASE 2 <= Len(chunk)
    <3>1. 2 \in 1..Len(chunk)
      BY ONLY <1>0, <2>6
    <3>2. /\ InOrder' /\ HalfLine' /\ chunk' \in Seq(Places)
          /\ Told' = Met' /\ Passes(Met') /\ (Here'.of = 0 \/ gone < Here'.of)
      BY <1>1, <2>1, <2>2, <2>6, <3>1, RoundOfHeader
    <3> QED
      BY <1>2, <2>4, <2>5, <3>2
  <2>7. CASE ~(2 <= Len(chunk))
    <3>1. Len(chunk) = 1 /\ 2 \in 2..(Len(chunk) + 1)
      <4>1. PICK n \in Nat : n = Len(chunk) /\ n >= 1
        BY <1>0
      <4>2. ~(2 <= n)
        BY <2>7, <4>1
      <4> QED
        BY ONLY <4>1, <4>2, n \in Nat
    <3>2. LineGo(2) = 2
      BY <3>1, GoIs
    <3>3. chunk' = SubSeq(chunk, 2, Len(chunk))
      BY <1>0, <2>1, <3>2
    <3>4. /\ InOrder' /\ chunk' \in Seq(Places)
          /\ Here' = [of |-> chunk[Len(chunk)].of, at |-> chunk[Len(chunk)].at + 1]
      BY ONLY <1>0, <2>7, <3>1, <3>3, TypeOK, InOrder, Consumed
    <3>5. Here' = [of |-> 0, at |-> 2]
      BY <1>4, <3>1, <3>4 DEF AtHeader, Header
    <3>6. Met' = 0 /\ Told' = 0 /\ Here'.of = 0
      <4>1. 2 \in 1..3
        OBVIOUS
      <4> QED
        BY <3>5, <4>1, HereHeader
    <3>7. HalfLine'
      <4>1. CASE Completed
        BY <2>2, <3>5, <3>6, <4>1, TypeIs DEF HalfLine
      <4>2. CASE ~Completed
        <5>1. PICK k \in 1..Len(Line) : Line[k] = Header
          BY <2>1
        <5>2. k \in DOMAIN Line
          BY <2>1, LenProperties
        <5>3. (\E i \in DOMAIN buf : buf[i] = Header)' /\ Len(buf') < BufSize
          BY <2>1, <2>3, <4>2, <5>1, <5>2 DEF Header
        <5> QED
          BY <3>5, <5>3 DEF HalfLine
      <4> QED
        BY <4>1, <4>2
    <3>8. Passes(0)
      BY <1>1 DEF Passes
    <3> QED
      BY <1>2, <2>4, <2>5, <3>4, <3>6, <3>7, <3>8
  <2> QED
    BY <2>6, <2>7
<1> QED
  BY <1>3, <1>4

LEMMA RoundAtEnd ==
  ASSUME TypeOK, InOrder, HandleLogData, AtEnd
  PROVE  /\ InOrder' /\ HalfLine' /\ chunk' \in Seq(Places) /\ buf' \in Seq(Places)
         /\ Idle \/ \E e \in Entries : MeetsMeta(e)
<1>0. /\ chunk # << >> /\ Len(chunk) \in Nat /\ Len(chunk) \in Int /\ Len(chunk) >= 1
      /\ log' = log /\ gone' = gone /\ last' = last
      /\ chunk' = SubSeq(chunk, LineGo(LineStop), Len(chunk))
      /\ chunk[1] \in Places /\ BufSize \in Nat /\ BufSize > 2
  <2>1. chunk # << >> /\ Len(chunk) \in Nat /\ Len(chunk) # 0
    BY TypeIs DEF HandleLogData
  <2>2. 1 \in 1..Len(chunk)
    BY <2>1
  <2> QED
    BY <2>1, <2>2, TypeIs DEF HandleLogData, deviceVars
<1>1. PICK p \in Places : p = chunk[1] /\ Here = p /\ p.at = Pieces(p.of)
                          /\ Met = p.of /\ Told = p.of /\ Here.of = p.of
                          /\ (p = [of |-> 0, at |-> 2] \/ (p.of \in Entries /\ p.at = 7))
  <2>1. CASE chunk[1] = [of |-> 0, at |-> 2]
    <3>1. Here = [of |-> 0, at |-> 2] /\ 2 \in 1..3
      BY <1>0, <2>1 DEF Here
    <3>2. Met = 0 /\ Told = 0 /\ Here.of = 0
      BY <3>1, HereHeader
    <3> QED
      BY <1>0, <2>1, <3>1, <3>2 DEF Pieces
  <2>2. ASSUME NEW e \in Entries, chunk[1] = [of |-> e, at |-> 7]
        PROVE  \E p \in Places : p = chunk[1] /\ Here = p /\ p.at = Pieces(p.of)
                          /\ Met = p.of /\ Told = p.of /\ Here.of = p.of
                          /\ (p = [of |-> 0, at |-> 2] \/ (p.of \in Entries /\ p.at = 7))
    <3>1. Here = [of |-> e, at |-> 7] /\ 7 \in 1..8 /\ ~(7 <= 3) /\ ~(7 <= 6)
      BY <1>0, <2>2 DEF Here
    <3>2. Met = e /\ Told = e /\ Here.of = e /\ Pieces(e) = 7
      BY <3>1, HereIn, Pieces7
    <3> QED
      BY <1>0, <2>2, <3>1, <3>2
  <2> QED
    BY <2>1, <2>2 DEF AtEnd
<1>2. /\ LineStart = 2
      /\ 2 <= Len(chunk) =>
           \E q \in Entries : chunk[2] = [of |-> q, at |-> 1] /\ Follows(chunk[1], chunk[2])
      /\ ~(2 <= Len(chunk)) => ~Completed /\ Line = << >> /\ LineStop = 2
  BY <1>0, GetsNext
<1>3. CASE 2 <= Len(chunk)
  <2>1. PICK q \in Entries : chunk[2] = [of |-> q, at |-> 1] /\ Follows(chunk[1], chunk[2])
    BY <1>2, <1>3
  <2>2. Passes(q - 1) /\ gone < q
    <3>1. Follows(p, [of |-> q, at |-> 1]) /\ p.at = Pieces(p.of) /\ p.of = Met
      BY <1>1, <2>1
    <3> QED
      BY ONLY <3>1, TypeOK, p \in Places, q \in Entries, PassesTo
  <2>3. 1 \in 1..3 /\ 2 \in 1..Len(chunk) /\ buf = Part(q, 1, 1)
    BY <1>0, <1>3 DEF AtEnd, Part
  <2>4. /\ InOrder' /\ HalfLine' /\ chunk' \in Seq(Places) /\ buf' \in Seq(Places)
        /\ Idle \/ MeetsMeta(q)
    BY <1>1, <1>2, <2>1, <2>2, <2>3, RoundOfMeta
  <2> QED
    BY <2>4
<1>4. CASE ~(2 <= Len(chunk))
  <2>1. Len(chunk) = 1 /\ 2 \in 2..(Len(chunk) + 1)
    <3>1. PICK n \in Nat : n = Len(chunk) /\ n >= 1
      BY <1>0
    <3>2. ~(2 <= n)
      BY <1>4, <3>1
    <3> QED
      BY ONLY <3>1, <3>2, n \in Nat
  <2>2. LineGo(2) = 2
    BY <2>1, GoIs
  <2>3. chunk' = SubSeq(chunk, 2, Len(chunk))
    BY <1>0, <1>2, <1>4, <2>2
  <2>4. /\ InOrder' /\ chunk' \in Seq(Places)
        /\ Here' = [of |-> chunk[Len(chunk)].of, at |-> chunk[Len(chunk)].at + 1]
    BY ONLY <1>0, <1>4, <2>1, <2>3, TypeOK, InOrder, Consumed
  <2>5. Here' = [of |-> p.of, at |-> p.at + 1]
    BY <1>1, <2>1, <2>4
  <2>6. buf' = << >> /\ UNCHANGED <<metaVars, shown, bypassed, latest>>
    BY <1>2, <1>4 DEF HandleLogData
  <2>7. Met' = p.of /\ Told' = p.of /\ Here'.of = p.of /\ HalfLine'
    <3>1. CASE p = [of |-> 0, at |-> 2]
      <4>1. Here' = [of |-> 0, at |-> 3] /\ 3 \in 1..3
        BY <2>5, <3>1
      <4>2. Met' = 0 /\ Told' = 0 /\ Here'.of = 0
        BY <4>1, HereHeader
      <4> QED
        BY <1>0, <2>6, <3>1, <4>2 DEF HalfLine
    <3>2. CASE p.of \in Entries /\ p.at = 7
      <4>1. Here' = [of |-> p.of, at |-> 8] /\ 8 \in 1..8 /\ ~(8 <= 3) /\ ~(8 <= 6) /\ 8 > 6
        BY <2>5, <3>2
      <4>2. Met' = p.of /\ Told' = p.of /\ Here'.of = p.of
        BY <3>2, <4>1, HereThen
      <4>3. HalfLine'
        BY <2>6, <3>2, <4>1, HalfLineThen
      <4> QED
        BY <4>2, <4>3
    <3> QED
      BY <1>1, <3>1, <3>2
  <2>8. Passes(p.of)
    <3>1. p.of \in Nat
      <4>1. p.of \in 0..Len(log)
        BY PlaceIs
      <4> QED
        BY <4>1
    <3> QED
      BY <1>1, <3>1 DEF Passes
  <2>9. Idle
    BY <1>1, <2>6, <2>7, <2>8 DEF Idle
  <2> QED
    BY <2>4, <2>6, <2>7, <2>9
<1> QED
  BY <1>3, <1>4

LEMMA Round ==
  ASSUME TypeOK, InOrder, HalfLine, HandleLogData
  PROVE  /\ InOrder' /\ HalfLine' /\ chunk' \in Seq(Places) /\ buf' \in Seq(Places)
         /\ Idle \/ \E e \in Entries : MeetsMeta(e) \/ MeetsText(e)
<1>0. chunk # << >> /\ 1 \in 1..Len(chunk)
  <2>1. chunk # << >> /\ Len(chunk) \in Nat /\ Len(chunk) # 0
    BY TypeIs DEF HandleLogData
  <2> QED
    BY <2>1
<1>1. ASSUME NEW e \in Entries, NEW i \in 1..3, AtLine(e, 1, i)
      PROVE  /\ InOrder' /\ HalfLine' /\ chunk' \in Seq(Places) /\ buf' \in Seq(Places)
             /\ Idle \/ MeetsMeta(e)
  <2>1. chunk[1] = [of |-> e, at |-> i] /\ buf = Part(e, 1, i)
    BY <1>1 DEF AtLine
  <2>2. LineStart = 1
    <3>1. 1 \in {1, 4} /\ i \in 1..(1 + 2)
      OBVIOUS
    <3> QED
      BY ONLY <1>0, <1>1, <3>1, TypeOK, LineStarts
  <2>3. Met = e - 1 /\ Told = e - 1 /\ Here.of = e /\ e \in Nat
    <3>1. Here = [of |-> e, at |-> i] /\ i \in 1..8 /\ i <= 3 /\ i <= 6
      BY <1>0, <2>1 DEF Here
    <3> QED
      BY <3>1, HereIn, Pieces7
  <2>4. Passes(e - 1)
    <3>1. e - 1 \in Nat
      BY <2>3, Pieces7
    <3> QED
      BY <2>3, <3>1 DEF Passes
  <2> QED
    BY <1>0, <2>1, <2>2, <2>3, <2>4, RoundOfMeta
<1>2. CASE \E e \in Entries : \E i \in 1..3 : AtLine(e, 1, i)
  BY <1>1, <1>2
<1>3. CASE \E e \in Entries : \E i \in 4..6 : AtLine(e, 4, i)
  BY <1>3, RoundOfText
<1>4. CASE AtHeader \/ InHeader
  BY <1>4, RoundAtHeader
<1>5. CASE AtEnd
  BY <1>5, RoundAtEnd
<1> QED
  BY <1>0, <1>2, <1>3, <1>4, <1>5, HereIs

-----------------------------------------------------------------------------
(* What logcat prints.                                                     *)

LEMMA By7 ==
  ASSUME NEW n \in Nat
  PROVE  /\ n \div 7 \in Nat /\ n % 7 \in 0..6 /\ n = 7 * (n \div 7) + (n % 7)
         /\ n % 7 < 6 => (n + 1) \div 7 = n \div 7 /\ (n + 1) % 7 = (n % 7) + 1
         /\ n % 7 = 6 => (n + 1) \div 7 = n \div 7 + 1 /\ (n + 1) % 7 = 0
BY SMT

LEMMA LastIs ==
  ASSUME TypeOK
  PROVE  /\ last.of \in 0..Len(log) /\ last.at \in 0..7 /\ last.at <= Pieces(last.of)
         /\ last = [of |-> last.of, at |-> last.at]
         /\ [last EXCEPT !.at = @ + 1] = [of |-> last.of, at |-> last.at + 1]
         /\ last.at = 0 => last.of = 0
         /\ Rest \in 0..7 /\ Until \in 0..Len(log) /\ last.of <= Until /\ gone <= Until
         /\ Until = last.of \/ Until = gone
<1>1. Len(log) \in Nat /\ gone \in 0..Len(log) /\ last \in Places \cup {Nothing}
  BY TypeIs DEF TypeOK
<1>2. /\ last.of \in 0..Len(log) /\ last.at \in 0..7 /\ last.at <= Pieces(last.of)
      /\ last = [of |-> last.of, at |-> last.at]
      /\ [last EXCEPT !.at = @ + 1] = [of |-> last.of, at |-> last.at + 1]
      /\ last.at = 0 => last.of = 0
  <2>1. CASE last \in Places
    BY <2>1 DEF Places
  <2>2. CASE last = Nothing
    BY <1>1, <2>2 DEF Nothing, Pieces
  <2> QED
    BY <1>1, <2>1, <2>2
<1>3. Rest \in 0..7
  BY <1>2 DEF Rest, Pieces
<1>4. Until = IF last.of <= gone THEN gone ELSE last.of
  <2>1. last.of \in Int /\ gone \in Int
    BY <1>1, <1>2
  <2> QED
    BY ONLY <2>1, MaxIs DEF Until
<1>5. /\ Until \in 0..Len(log) /\ last.of <= Until /\ gone <= Until
      /\ Until = last.of \/ Until = gone
  BY <1>1, <1>2, <1>4
<1> QED
  BY <1>2, <1>3, <1>5

(* All that can be read now.                                               *)
Readable == [k \in 1..Ready |-> Coming(k)]

LEMMA ReadableIs ==
  ASSUME TypeOK
  PROVE  /\ Readable \in Seq(Places) /\ Len(Readable) = Ready /\ Len(Readable) \in Nat
         /\ \A k \in 1..Len(Readable) : Readable[k] = Coming(k)
<1> DEFINE K == Rest + 7 * (Len(log) - Until)
           R(k) == IF k <= Rest THEN [of |-> last.of, at |-> last.at + k]
                   ELSE [of |-> Until + 1 + (k - Rest - 1) \div 7,
                         at |-> 1 + ((k - Rest - 1) % 7)]
<1>1. /\ last.of \in 0..Len(log) /\ last.at \in 0..7 /\ last.at <= Pieces(last.of)
      /\ Rest \in 0..7 /\ Until \in 0..Len(log) /\ Len(log) \in Nat /\ K \in Nat
  <2>1. /\ last.of \in 0..Len(log) /\ last.at \in 0..7 /\ last.at <= Pieces(last.of)
        /\ Rest \in 0..7 /\ Until \in 0..Len(log) /\ Len(log) \in Nat
    BY LastIs, TypeIs
  <2>2. K \in Nat
    BY ONLY <2>1
  <2> QED
    BY <2>1, <2>2
<1>2. ASSUME NEW k \in 1..K PROVE R(k) \in Places
  <2>1. CASE k <= Rest
    <3>1. last.at + k <= Pieces(last.of) /\ last.at + k \in 1..7
      <4>1. /\ Rest = Pieces(last.of) - last.at /\ Pieces(last.of) <= 7 /\ Pieces(last.of) \in Int
            /\ last.at \in Int /\ last.at >= 0 /\ k \in Int /\ k >= 1
        BY <1>1 DEF Rest, Pieces
      <4> QED
        BY ONLY <2>1, <4>1, SMTT(20)
    <3> QED
      BY <1>1, <2>1, <3>1 DEF Places
  <2>2. CASE ~(k <= Rest)
    <3>1. PICK n \in Nat : n = k - Rest - 1 /\ n < 7 * (Len(log) - Until)
      BY <1>1, <2>2
    <3>2. n \div 7 \in Nat /\ n % 7 \in 0..6 /\ n = 7 * (n \div 7) + (n % 7)
      BY By7
    <3>3. PICK a \in Nat, b \in 0..6 : a = n \div 7 /\ b = n % 7 /\ n = 7 * a + b
      BY <3>2
    <3>4. PICK l \in Nat, u \in Nat : l = Len(log) /\ u = Until
      BY <1>1
    <3>5. a < l - u
      BY ONLY <3>1, <3>3, <3>4, n \in Nat, a \in Nat, b \in 0..6, l \in Nat, u \in Nat, SMTT(20)
    <3>6. Until + 1 + n \div 7 \in 1..Len(log) /\ 1 + (n % 7) \in 1..7
      BY ONLY <3>3, <3>4, <3>5, a \in Nat, b \in 0..6, l \in Nat, u \in Nat
    <3>7. R(k) = [of |-> Until + 1 + n \div 7, at |-> 1 + (n % 7)]
      BY <2>2, <3>1
    <3>8. Pieces(Until + 1 + n \div 7) = 7
      BY <3>6 DEF Pieces
    <3> HIDE DEF R
    <3> QED
      BY <3>6, <3>7, <3>8 DEF Places
  <2> QED
    BY <2>1, <2>2
<1>3. Readable = [k \in 1..K |-> R(k)]
  BY DEF Readable, Ready, Coming
<1> HIDE DEF R, K
<1>4. Readable \in Seq(Places) /\ Len(Readable) = K
  BY <1>1, <1>2, <1>3
<1>5. \A k \in 1..K : Readable[k] = R(k)
  BY <1>3
<1>6. Ready = K /\ \A k \in 1..K : Coming(k) = R(k)
  BY DEF Ready, Coming, R, K
<1> QED
  BY <1>1, <1>4, <1>5, <1>6 DEF R, K

LEMMA PrintedInOrder ==
  ASSUME TypeOK
  PROVE  /\ \A k \in 1..(Len(Readable) - 1) : Follows(Readable[k], Readable[k + 1])
         /\ Len(Readable) # 0 =>
              \/ Rest # 0 /\ Readable[1] = [of |-> last.of, at |-> last.at + 1]
              \/ /\ Rest = 0 /\ last \in Places /\ Until + 1 \in Entries
                 /\ Readable[1] = [of |-> Until + 1, at |-> 1]
                 /\ Follows(last, Readable[1])
<1>1. /\ last.of \in 0..Len(log) /\ last.at \in 0..7 /\ last.at <= Pieces(last.of)
      /\ Rest \in 0..7 /\ Until \in 0..Len(log) /\ Len(log) \in Nat
      /\ last.of <= Until /\ gone <= Until /\ (Until = last.of \/ Until = gone)
      /\ gone \in Nat
  BY LastIs, TypeIs
<1>2. /\ Len(Readable) \in Nat
      /\ \A k \in 1..Len(Readable) :
           Readable[k] = IF k <= Rest THEN [of |-> last.of, at |-> last.at + k]
                         ELSE [of |-> Until + 1 + (k - Rest - 1) \div 7,
                               at |-> 1 + ((k - Rest - 1) % 7)]
  BY ReadableIs DEF Coming
<1>0. /\ Rest = Pieces(last.of) - last.at /\ Pieces(last.of) \in Int /\ last.at \in Int
      /\ Rest \in Int /\ Rest >= 0 /\ Until \in Int /\ Until >= 0
      /\ last.of \in Int /\ last.of <= Until /\ gone \in Int /\ gone <= Until
  BY <1>1 DEF Rest, Pieces
<1>3. \A d \in (last.of + 1)..(Until + 1 - 1) : d <= gone
  BY <1>1
<1>4. 0 \div 7 = 0 /\ 0 % 7 = 0
  BY SMT
<1>5. ASSUME NEW k \in 1..(Len(Readable) - 1) PROVE Follows(Readable[k], Readable[k + 1])
  <2>0. k \in 1..Len(Readable) /\ k + 1 \in 1..Len(Readable) /\ k \in Int /\ k >= 1
    BY <1>2
  <2>1. CASE k + 1 <= Rest
    <3>0. k <= Rest
      BY ONLY <1>0, <2>0, <2>1
    <3>1. Readable[k] = [of |-> last.of, at |-> last.at + k]
      BY <1>2, <2>0, <3>0
    <3>2. Readable[k + 1] = [of |-> last.of, at |-> last.at + (k + 1)]
      BY <1>2, <2>0, <2>1
    <3>3. last.at + k < Pieces(last.of) /\ last.at + (k + 1) = (last.at + k) + 1
      BY ONLY <1>0, <2>0, <2>1, SMTT(30)
    <3> QED
      BY <3>1, <3>2, <3>3 DEF Follows
  <2>2. CASE k = Rest
    <3>0. k <= Rest
      BY ONLY <1>0, <2>0, <2>2
    <3>1. Readable[k] = [of |-> last.of, at |-> last.at + k]
      BY <1>2, <2>0, <3>0
    <3>2. Readable[k + 1] = [of |-> Until + 1, at |-> 1]
      <4>1. ~(k + 1 <= Rest) /\ (k + 1) - Rest - 1 = 0
        BY ONLY <1>0, <2>0, <2>2
      <4>2. Readable[k + 1] = [of |-> Until + 1 + ((k + 1) - Rest - 1) \div 7,
                               at |-> 1 + (((k + 1) - Rest - 1) % 7)]
        BY <1>2, <2>0, <4>1
      <4> QED
        BY ONLY <1>0, <1>4, <4>1, <4>2
    <3>3. last.at + k = Pieces(last.of)
      BY ONLY <1>0, <2>0, <2>2
    <3>4. last.of < Until + 1 /\ gone < Until + 1
      BY <1>1
    <3> QED
      BY ONLY <1>0, <1>3, <3>1, <3>2, <3>3, <3>4, SMTT(30) DEF Follows
  <2>3. CASE k > Rest
    <3>0. /\ k - Rest - 1 \in Nat /\ (k + 1) - Rest - 1 = (k - Rest - 1) + 1
          /\ ~(k <= Rest) /\ ~(k + 1 <= Rest)
      <4>1. k \in Int /\ Rest \in Int /\ k > Rest
        BY ONLY <1>0, <2>0, <2>3
      <4> QED
        BY ONLY <4>1
    <3>1. PICK n \in Nat : n = k - Rest - 1 /\ (k + 1) - Rest - 1 = n + 1
      BY <3>0
    <3>2. Readable[k] = [of |-> Until + 1 + n \div 7, at |-> 1 + (n % 7)]
      BY <1>2, <2>0, <3>0, <3>1
    <3>3. Readable[k + 1] = [of |-> Until + 1 + (n + 1) \div 7, at |-> 1 + ((n + 1) % 7)]
      BY <1>2, <2>0, <3>0, <3>1
    <3>4. /\ n \div 7 \in Nat /\ n % 7 \in 0..6
          /\ n % 7 < 6 => (n + 1) \div 7 = n \div 7 /\ (n + 1) % 7 = (n % 7) + 1
          /\ n % 7 = 6 => (n + 1) \div 7 = n \div 7 + 1 /\ (n + 1) % 7 = 0
      BY By7
    <3>5. PICK a \in Nat, b \in 0..6, c \in Nat : a = n \div 7 /\ b = n % 7 /\ c = Until + 1 + a /\ c # 0 /\ gone < c
      BY <1>1, <3>4
    <3>6. Readable[k] = [of |-> c, at |-> 1 + b] /\ Pieces(c) = 7
      BY <3>2, <3>5 DEF Pieces
    <3>7. CASE b < 6
      <4>1. Readable[k + 1] = [of |-> c, at |-> (1 + b) + 1]
        BY <3>3, <3>4, <3>5, <3>7
      <4> QED
        BY <3>6, <3>7, <4>1, SMTT(30) DEF Follows
    <3>8. CASE b = 6
      <4>1. Readable[k + 1] = [of |-> c + 1, at |-> 1]
        <5>1. (n + 1) \div 7 = a + 1 /\ (n + 1) % 7 = 0
          BY <3>4, <3>5, <3>8
        <5>2. Until + 1 + (a + 1) = c + 1
          BY <1>1, <3>5
        <5> QED
          BY <3>3, <5>1, <5>2
      <4>2. c < c + 1 /\ gone < c + 1 /\ \A d \in (c + 1)..(c + 1 - 1) : d <= gone
        BY ONLY <1>0, <3>5, c \in Nat
      <4> QED
        BY <3>6, <3>8, <4>1, <4>2 DEF Follows
    <3> QED
      BY <3>7, <3>8
  <2>4. k + 1 <= Rest \/ k = Rest \/ k > Rest
    BY ONLY <1>0, <2>0
  <2> QED
    BY <2>1, <2>2, <2>3, <2>4
<1>6. ASSUME Len(Readable) # 0
      PROVE  \/ Rest # 0 /\ Readable[1] = [of |-> last.of, at |-> last.at + 1]
             \/ /\ Rest = 0 /\ last \in Places /\ Until + 1 \in Entries
                /\ Readable[1] = [of |-> Until + 1, at |-> 1]
                /\ Follows(last, Readable[1])
  <2>1. 1 \in 1..Len(Readable)
    BY <1>2, <1>6
  <2>2. CASE Rest # 0
    <3>1. 1 <= Rest
      BY ONLY <1>0, <2>2
    <3> QED
      BY <1>2, <2>1, <2>2, <3>1
  <2>3. CASE Rest = 0
    <3>1. Readable[1] = [of |-> Until + 1, at |-> 1]
      <4>1. ~(1 <= Rest) /\ 1 - Rest - 1 = 0
        BY <2>3
      <4>2. Readable[1] = [of |-> Until + 1 + (1 - Rest - 1) \div 7,
                           at |-> 1 + ((1 - Rest - 1) % 7)]
        BY <1>2, <2>1, <4>1
      <4> QED
        BY ONLY <1>0, <1>4, <4>1, <4>2
    <3>2. last.at = Pieces(last.of) /\ last.at # 0
      <4>1. last.at = Pieces(last.of)
        BY ONLY <1>0, <2>3
      <4> QED
        BY <4>1 DEF Pieces
    <3>3. last \in Places
      BY <3>2 DEF TypeOK, Nothing
    <3>4. last.of < Until + 1 /\ gone < Until + 1 /\ ~(last.at < Pieces(last.of))
      BY ONLY <1>0, <3>2
    <3>5. Follows(last, Readable[1])
      BY ONLY <1>0, <1>3, <3>1, <3>2, <3>4, SMTT(30) DEF Follows
    <3>6. Until + 1 \in Entries
      <4>1. Readable[1] \in Places
        BY <2>1, ReadableIs, ElementOfSeq
      <4>2. Readable[1].of \in 0..Len(log)
        BY <4>1, PlaceIs
      <4> QED
        BY <1>1, <3>1, <4>2 DEF Entries
    <3> QED
      BY <2>3, <3>1, <3>3, <3>5, <3>6
  <2> QED
    BY <2>2, <2>3
<1> QED
  BY <1>5, <1>6

LEMMA Delivers ==
  ASSUME TypeOK, InOrder, HalfLine, Deliver
  PROVE  /\ InOrder' /\ HalfLine' /\ chunk' \in Seq(Places) /\ last' \in Places
         /\ Idle
<1>1. PICK c \in ChunkSizes :
        /\ chunk' = [k \in 1..Min({c, Ready}) |-> Coming(k)]
        /\ last' = Coming(Min({c, Ready}))
  BY DEF Deliver
<1>2. /\ chunk = << >> /\ Ready > 0 /\ log' = log /\ gone' = gone /\ buf' = buf
      /\ UNCHANGED <<metaVars, shown, bypassed, latest>>
  BY DEF Deliver, Waiting, deviceVars, history
<1>3. /\ Readable \in Seq(Places) /\ Len(Readable) \in Nat /\ Len(Readable) # 0
      /\ \A k \in 1..Len(Readable) : Readable[k] \in Places
      /\ \A k \in 1..(Len(Readable) - 1) : Follows(Readable[k], Readable[k + 1])
  <2>1. Readable \in Seq(Places) /\ Len(Readable) \in Nat
    BY ReadableIs
  <2>2. Len(Readable) # 0
    BY <1>2, ReadableIs
  <2>3. \A k \in 1..Len(Readable) : Readable[k] \in Places
    BY <2>1, ElementOfSeq
  <2> QED
    BY <2>1, <2>2, <2>3, PrintedInOrder
<1>4. PICK r \in 1..Len(Readable) : r = Min({c, Len(Readable)})
  <2>1. c \in Nat /\ c # 0
    BY ConstantsAssumption
  <2>2. CASE c <= Len(Readable)
    <3>1. Min({c, Len(Readable)}) = c
      BY <1>3, <2>1, <2>2, MinOf
    <3> QED
      BY <1>3, <2>1, <2>2, <3>1
  <2>3. CASE ~(c <= Len(Readable))
    <3>1. Len(Readable) <= c /\ {c, Len(Readable)} = {Len(Readable), c}
      BY <1>3, <2>1, <2>3
    <3>2. Min({c, Len(Readable)}) = Len(Readable)
      BY <1>3, <2>1, <3>1, MinOf
    <3> QED
      BY <1>3, <3>2
  <2> QED
    BY <2>2, <2>3
<1>5. /\ chunk' \in Seq(Places) /\ Len(chunk') = r /\ last' = Readable[r]
      /\ \A i \in 1..r : chunk'[i] = Readable[i]
  <2>1. r \in Nat /\ \A i \in 1..r : Coming(i) = Readable[i] /\ Coming(i) \in Places
    BY <1>3, ReadableIs
  <2>2. chunk' = [i \in 1..r |-> Coming(i)] /\ last' = Coming(r)
    BY <1>1, <1>4, ReadableIs
  <2>3. chunk' \in Seq(Places) /\ Len(chunk') = r /\ \A i \in 1..r : chunk'[i] = Coming(i)
    BY ONLY <2>1, <2>2
  <2> QED
    BY <2>1, <2>2, <2>3
<1>6. last' \in Places
  BY <1>3, <1>5
<1>7. InOrder'
  <2>1. \A i, j : Follows(i, j)' <=> Follows(i, j)
    BY <1>2 DEF Follows, Pieces
  <2>2. ASSUME NEW i \in 1..(r - 1) PROVE Follows(chunk'[i], chunk'[i + 1])
    <3>1. i \in 1..r /\ i + 1 \in 1..r /\ i \in 1..(Len(Readable) - 1)
      BY <1>3
    <3> QED
      BY <1>3, <1>5, <3>1
  <2>3. last' = chunk'[Len(chunk')]
    BY <1>5
  <2> QED
    BY <1>5, <2>1, <2>2, <2>3 DEF InOrder
<1>8. Here' = Readable[1] /\ chunk' # << >>
  <2>1. chunk' # << >>
    BY <1>5, EmptySeq
  <2> QED
    BY <1>5, <2>1 DEF Here
<1>9. Here = [of |-> last.of, at |-> last.at + 1] /\ Here.of = last.of
  BY <1>2, LastIs DEF Here
<1>10. CASE Readable[1] = [of |-> last.of, at |-> last.at + 1]
  <2>1. Here' = Here
    BY <1>8, <1>9, <1>10
  <2>2. Met' = Met /\ Told' = Told /\ Here'.of = Here.of
    BY <2>1 DEF Met, Told
  <2>3. HalfLine'
    BY <1>2, <2>1 DEF HalfLine
  <2>4. Idle
    <3>1. CASE Told < Met
      BY <1>2, <2>2, <3>1 DEF Idle
    <3>2. CASE ~(Told < Met)
      <4>1. Here.of \in Nat /\ Here.at \in Nat
        <5>1. last.of \in 0..Len(log) /\ last.at \in 0..7 /\ Len(log) \in Nat
          BY LastIs, TypeIs
        <5> QED
          BY ONLY <1>9, <5>1
      <4>2. Told = Met /\ Met \in Nat
        BY <3>2, <4>1 DEF Told, Met
      <4> QED
        BY <1>2, <2>2, <4>2 DEF Idle, Passes
    <3> QED
      BY <3>1, <3>2
  <2> QED
    BY <1>5, <1>6, <1>7, <2>3, <2>4
<1>11. CASE /\ Rest = 0 /\ last \in Places /\ Until + 1 \in Entries
            /\ Readable[1] = [of |-> Until + 1, at |-> 1]
            /\ Follows(last, Readable[1])
  <2>1. PICK q \in Entries : Here' = [of |-> q, at |-> 1] /\ Follows(last, Here') /\ 1 \in 1..8
    BY <1>8, <1>11
  <2>2. Met' = q - 1 /\ Told' = q - 1 /\ Here'.of = q
    <3>1. 1 <= 3 /\ 1 <= 6
      OBVIOUS
    <3> QED
      BY <2>1, <3>1, HereThen
  <2>3. last.at = Pieces(last.of)
    <3>1. last.at \in Int /\ Pieces(last.of) \in Int /\ Pieces(last.of) - last.at = 0
      BY <1>11, LastIs DEF Rest, Pieces
    <3> QED
      BY ONLY <3>1
  <2>4. Met = last.of /\ Told = last.of /\ buf = << >>
    <3>1. CASE last.of = 0
      <4>1. Here = [of |-> 0, at |-> 3] /\ 3 \in 1..3
        BY <1>9, <2>3, <3>1 DEF Pieces
      <4> QED
        BY <3>1, <4>1, HereHeader DEF HalfLine, Header
    <3>2. CASE last.of # 0
      <4>1. last.of \in Entries /\ Here = [of |-> last.of, at |-> 8] /\ 8 \in 1..8
            /\ ~(8 <= 3) /\ ~(8 <= 6)
        BY <1>9, <2>3, <3>2, LastIs, TypeIs DEF Pieces, Entries
      <4>2. Met = last.of /\ Told = last.of
        BY <4>1, HereIn
      <4> QED
        BY <3>2, <4>1, <4>2 DEF HalfLine, Header
    <3> QED
      BY <3>1, <3>2
  <2>5. Passes(q - 1) /\ gone < q
    BY <1>11, <2>1, <2>3, <2>4, PassesTo
  <2>6. HalfLine'
    <3>1. Part(q, FirstOf(1), 1) = << >>
      BY DEF FirstOf, Part
    <3> QED
      BY <1>2, <2>1, <2>4, <3>1, HalfLineThen
  <2>7. Idle
    BY <1>2, <2>2, <2>4, <2>5 DEF Idle
  <2> QED
    BY <1>5, <1>6, <1>7, <2>6, <2>7
<1> QED
  BY <1>3, <1>10, <1>11, PrintedInOrder

-----------------------------------------------------------------------------
(* What is bypassed and what is shown: facts about one state.               *)

LEMMA EntryIs ==
  ASSUME TypeOK
  PROVE  /\ Len(log) \in Nat /\ gone \in Nat /\ gone <= Len(log)
         /\ \A e : e \in Entries <=> e \in Nat /\ 1 <= e /\ e <= Len(log)
         /\ \A e \in Entries : /\ log[e] \in Kinds /\ log[e].at \in Nat /\ log[e].at > 0
                               /\ log[e].by \in Nat /\ log[e].bracketed \in BOOLEAN
         /\ gMtInfo.at \in Nat /\ gMtInfo.by \in Nat /\ cMtInfo \in Nat
         /\ logRestarted \in BOOLEAN /\ anew \in BOOLEAN
         /\ latest \in Nat /\ latest <= Len(log) /\ (latest # 0 => latest \in Entries)
         /\ \A e \in Entries : shown[e] \in 0..2
         /\ shown \in [Entries -> 0..2] /\ bypassed \subseteq Entries /\ cut \subseteq Entries
<1>1. /\ Len(log) \in Nat /\ gone \in 0..Len(log) /\ latest \in 0..Len(log)
  BY TypeIs
<1>2. \A e : e \in Entries <=> e \in Nat /\ 1 <= e /\ e <= Len(log)
  BY <1>1 DEF Entries
<1>3. ASSUME NEW e \in Entries
      PROVE  /\ log[e] \in Kinds /\ log[e].at \in Nat /\ log[e].at > 0
             /\ log[e].by \in Nat /\ log[e].bracketed \in BOOLEAN
  <2>1. log[e] \in Kinds
    BY ElementOfSeq DEF TypeOK, Entries
  <2>2. log[e] \in [at : Nat \ {0}, by : Nat \ {0}, bracketed : BOOLEAN]
    BY <2>1, ConstantsAssumption
  <2>3. log[e].at \in Nat \ {0} /\ log[e].by \in Nat \ {0} /\ log[e].bracketed \in BOOLEAN
    BY <2>2
  <2> QED
    BY <2>1, <2>3
<1>4. /\ gMtInfo.at \in Nat /\ gMtInfo.by \in Nat /\ cMtInfo \in Nat
      /\ logRestarted \in BOOLEAN /\ anew \in BOOLEAN
      /\ shown \in [Entries -> 0..2] /\ bypassed \subseteq Entries /\ cut \subseteq Entries
  BY DEF TypeOK
<1>5. latest \in Nat /\ latest <= Len(log) /\ (latest # 0 => latest \in Entries)
  BY <1>1, <1>2
<1> QED
  BY <1>1, <1>2, <1>3, <1>4, <1>5

LEMMA MetIs ==
  ASSUME TypeOK
  PROVE  /\ Met \in Nat /\ Met <= Len(log) /\ Told \in Nat /\ Told <= Met
         /\ Here.of \in Nat /\ Here.of <= Len(log)
         /\ Told < Met => Told = Met - 1 /\ Here.of = Met /\ Met \in Entries
<1>1. /\ Here.of \in 0..Len(log) /\ Here.at \in 1..8 /\ Len(log) \in Nat
  <2>1. CASE chunk = << >>
    BY <2>1, LastIs, TypeIs DEF Here
  <2>2. CASE chunk # << >>
    <3>1. 1 \in 1..Len(chunk)
      BY <2>2, TypeIs
    <3>2. chunk[1] \in Places
      BY <3>1, TypeIs
    <3>3. PICK p \in Places : p = chunk[1] /\ Here = p
      BY <2>2, <3>2 DEF Here
    <3>4. p.of \in 0..Len(log) /\ p.at \in 1..7
      BY PlaceIs
    <3> QED
      BY <3>3, <3>4, TypeIs
  <2> QED
    BY <2>1, <2>2
<1>2. PICK o \in Nat, n \in Nat : o = Here.of /\ n = Here.at /\ o <= Len(log)
  BY <1>1
<1>3. /\ Met = IF o # 0 /\ n <= 3 THEN o - 1 ELSE o
      /\ Told = IF o # 0 /\ n <= 6 THEN o - 1 ELSE o
  BY <1>2 DEF Met, Told
<1>4. Told < Met => Told = Met - 1 /\ o = Met /\ 1 <= Met
  BY ONLY <1>3, o \in Nat, n \in Nat
<1>5. Met \in Nat /\ Told \in Nat /\ Told <= Met /\ Met <= o
  BY ONLY <1>3, o \in Nat, n \in Nat
<1>6. Met <= Len(log)
  BY <1>1, <1>2, <1>5
<1> QED
  BY <1>1, <1>2, <1>4, <1>5, <1>6, EntryIs

LEMMA LikeIs ==
  ASSUME TypeOK, NEW n \in Nat, NEW m \in Nat
  PROVE  /\ LikeLatest(n) \subseteq 1..n /\ IsFiniteSet(LikeLatest(n))
         /\ Cardinality(LikeLatest(n)) \in Nat
         /\ IsFiniteSet(LikeLatest(n) \ 1..m)
         /\ Cardinality(LikeLatest(n) \ 1..m) \in Nat
         /\ Cardinality(LikeLatest(n) \ 1..m) <= Cardinality(LikeLatest(n))
<1>1. LikeLatest(n) \subseteq 1..n
  BY DEF LikeLatest
<1>2. IsFiniteSet(LikeLatest(n))
  <2>1. IsFiniteSet(1..n)
    BY FS_Interval
  <2> QED
    BY <1>1, <2>1, FS_Subset
<1>3. /\ IsFiniteSet(LikeLatest(n) \ 1..m)
      /\ Cardinality(LikeLatest(n) \ 1..m) <= Cardinality(LikeLatest(n))
  <2>1. LikeLatest(n) \ 1..m \in SUBSET LikeLatest(n)
    OBVIOUS
  <2> QED
    BY <1>2, <2>1, FS_Subset
<1> QED
  BY <1>1, <1>2, <1>3, FS_CardinalityType

(* What excuses an entry excuses all of its time behind it.                 *)
LEMMA ExcusedLater ==
  ASSUME TypeOK, NEW d \in Entries, NEW e \in Entries, d <= e, log[d].at = log[e].at,
         Excused(d)
  PROVE  Excused(e)
<1>1. d \in Nat /\ e \in Nat
  BY EntryIs
<1>2. CASE ClockWentBack(d)
  <2>1. PICK i \in 1..d, j \in 1..d : i < j /\ log[i].at > log[j].at
    BY <1>2 DEF ClockWentBack
  <2>2. i \in 1..e /\ j \in 1..e
    BY <1>1
  <2> QED
    BY <2>1, <2>2 DEF Excused, ClockWentBack
<1>3. CASE \E c \in SameTime(d) : c <= d /\ (c <= gone \/ c \in cut \/ log[c].bracketed)
  <2>1. PICK c \in SameTime(d) : c <= d /\ (c <= gone \/ c \in cut \/ log[c].bracketed)
    BY <1>3
  <2>2. c \in SameTime(e) /\ c \in Nat
    BY EntryIs DEF SameTime
  <2>3. c <= e
    BY ONLY <1>1, <2>1, <2>2, d <= e
  <2> QED
    BY <2>1, <2>2, <2>3 DEF Excused
<1> QED
  BY <1>2, <1>3 DEF Excused

LEMMA GoneIsExcused ==
  ASSUME TypeOK, NEW d \in Entries, NEW e \in Entries, d <= e, log[d].at = log[e].at, d <= gone
  PROVE  Excused(e)
BY DEF Excused, SameTime

LEMMA BackIsExcused ==
  ASSUME TypeOK, NEW d \in Entries, NEW f \in Entries, NEW e \in Entries,
         d < f, f <= e, log[d].at > log[f].at
  PROVE  Excused(e) /\ ClockWentBack(e) /\ ClockWentBack(Len(log))
<1>1. d \in 1..e /\ f \in 1..e /\ d \in 1..Len(log) /\ f \in 1..Len(log)
  <2>1. d \in Nat /\ e \in Nat /\ f \in Nat /\ d >= 1 /\ f >= 1 /\ e <= Len(log) /\ Len(log) \in Nat
    BY EntryIs
  <2> QED
    BY ONLY <2>1, d < f, f <= e
<1> QED
  BY <1>1 DEF Excused, ClockWentBack

(* No entry of the time of the latest is among those that left the buffer   *)
(* as long as an earlier one is in it, and the clock never went back.       *)
LEMMA TellingIs ==
  ASSUME TypeOK, NEW t \in Nat, Telling(t)
  PROVE  /\ \A d, e \in Entries : d < e => log[d].at <= log[e].at
         /\ \A e \in Entries : log[e].at >= t => gone < e
         /\ \E d \in Entries : gone < d /\ log[d].at < t
         /\ \A d, e \in Entries : log[d].at = t /\ log[e].at = t => log[d].by = log[e].by
<1>1. \A d, e \in Entries : d < e => log[d].at <= log[e].at
  <2> SUFFICES ASSUME NEW d \in Entries, NEW e \in Entries, d < e PROVE log[d].at <= log[e].at
    OBVIOUS
  <2>1. ~ClockWentBack(Len(log))
    BY DEF Telling
  <2>2. e <= e /\ log[d].at \in Nat /\ log[e].at \in Nat
    BY EntryIs
  <2>3. ~(log[d].at > log[e].at)
    BY <2>1, <2>2, BackIsExcused
  <2> QED
    BY <2>2, <2>3
<1>2. PICK d \in Entries : d > gone /\ log[d].at < t
  BY DEF Telling
<1>3. ASSUME NEW e \in Entries, log[e].at >= t PROVE gone < e
  <2>1. d \in Nat /\ e \in Nat /\ gone \in Nat /\ log[d].at \in Nat /\ log[e].at \in Nat
    BY EntryIs
  <2>2. e < d => log[e].at <= log[d].at
    BY <1>1
  <2>3. ~(e < d)
    BY ONLY <1>2, <1>3, <2>1, <2>2, t \in Nat
  <2> QED
    BY ONLY <1>2, <2>1, <2>3
<1>4. gone < d
  BY <1>2, EntryIs
<1> QED
  BY <1>1, <1>2, <1>3, <1>4 DEF Telling

-----------------------------------------------------------------------------
(* ... and about a step that leaves the log and the buffer alone.           *)

Frame == UNCHANGED <<log, gone, cut, miscounted>>

LEMMA SameLog ==
  ASSUME Frame
  PROVE  /\ log' = log /\ gone' = gone /\ Entries' = Entries
         /\ \A e : Excused(e)' <=> Excused(e)
         /\ \A t : Telling(t)' <=> Telling(t)
<1>1. log' = log /\ gone' = gone /\ cut' = cut /\ miscounted' = miscounted
  BY DEF Frame
<1>2. Entries' = Entries
  BY <1>1 DEF Entries
<1>3. \A e : ClockWentBack(e)' <=> ClockWentBack(e)
  BY <1>1 DEF ClockWentBack
<1>4. \A e : SameTime(e)' = SameTime(e)
  BY <1>1, <1>2 DEF SameTime
<1>5. \A e : Excused(e)' <=> Excused(e)
  BY <1>1, <1>3, <1>4 DEF Excused
<1>6. \A t : Telling(t)' <=> Telling(t)
  BY <1>1, <1>2, <1>3 DEF Telling
<1> QED
  BY <1>1, <1>2, <1>5, <1>6

LEMMA SameLatest ==
  ASSUME Frame, gMtInfo' = gMtInfo, latest' = latest
  PROVE  /\ \A n : LikeLatest(n)' = LikeLatest(n)
         /\ BackBehind' <=> BackBehind
BY DEF Frame, LikeLatest, BackBehind

(* The entries that are passed have left the buffer: if one of them is like *)
(* the latest entry and before it, that one is excused.                     *)
LEMMA PassedIsExcused ==
  ASSUME TypeOK, LatestKnown, latest # 0, ~Excused(latest), NEW m \in Nat, Met <= m,
         \A d \in (Met + 1)..m : d <= gone
  PROVE  /\ LikeLatest(latest) \ 1..m = LikeLatest(latest) \ 1..Met
         /\ \A d \in LikeLatest(latest) : ~(d \in (Met + 1)..m)
<1>1. Met \in Nat /\ latest \in Entries /\ latest \in Nat /\ latest <= Len(log)
      /\ gMtInfo.at = log[latest].at
  BY MetIs, EntryIs DEF LatestKnown
<1>2. ASSUME NEW d \in LikeLatest(latest), d \in (Met + 1)..m PROVE FALSE
  <2>1. d \in 1..latest /\ log[d].at = log[latest].at /\ d <= gone
    BY <1>1, <1>2 DEF LikeLatest
  <2>2. d \in Entries /\ d <= latest
    BY <1>1, <2>1, EntryIs
  <2> QED
    BY <1>1, <2>1, <2>2, GoneIsExcused
<1>3. \A d \in LikeLatest(latest) : d \in 1..m <=> d \in 1..Met
  <2> SUFFICES ASSUME NEW d \in LikeLatest(latest) PROVE d \in 1..m <=> d \in 1..Met
    OBVIOUS
  <2>1. ~(d \in (Met + 1)..m) /\ d \in 1..latest
    BY <1>2 DEF LikeLatest
  <2>2. d \in Nat
    BY <1>1, <2>1
  <2> QED
    BY ONLY <1>1, <2>1, <2>2, m \in Nat, Met <= m
<1> QED
  BY <1>2, <1>3

-----------------------------------------------------------------------------
(* Nothing is met.                                                         *)

LEMMA IdleStep ==
  ASSUME TypeOK, Replaying, Idle, Frame, anew' = anew
  PROVE  Replaying'
<1> USE DEF Replaying
<1>0. /\ Met \in Nat /\ Told \in Nat /\ Told <= Met /\ Here.of \in Nat /\ gone \in Nat
      /\ latest \in Nat /\ cMtInfo \in Nat /\ (latest # 0 => latest \in Entries)
  BY MetIs, EntryIs
<1>1. /\ shown' = shown /\ bypassed' = bypassed /\ latest' = latest
      /\ gMtInfo' = gMtInfo /\ cMtInfo' = cMtInfo /\ logRestarted' = logRestarted
  BY DEF Idle, metaVars
<1>2. /\ log' = log /\ gone' = gone /\ Entries' = Entries
      /\ \A e : Excused(e)' <=> Excused(e)
      /\ \A t : Telling(t)' <=> Telling(t)
  BY SameLog
<1>3. (\A n : LikeLatest(n)' = LikeLatest(n)) /\ (BackBehind' <=> BackBehind)
  BY <1>1, SameLatest
<1>4. LatestKnown'
  BY <1>1, <1>2 DEF LatestKnown
<1>5. OnlyOldBypassed'
  BY <1>1, <1>2 DEF OnlyOldBypassed
<1>6. CASE Told < Met /\ Met' = Met /\ Told' = Told /\ Here'.of = Here.of
  <2>1. AllAccounted' /\ InHand' /\ EarlierShown' /\ InStep'
    BY <1>1, <1>2, <1>6 DEF AllAccounted, InHand, EarlierShown, InStep
  <2>2. CountAtMost' /\ CountAtLeast'
    BY <1>1, <1>2, <1>3, <1>6 DEF CountAtMost, CountAtLeast
  <2>3. NoneLater' /\ FirstTime'
    BY <1>1, <1>2, <1>6 DEF NoneLater, FirstTime
  <2> QED
    BY <1>4, <1>5, <2>1, <2>2, <2>3
<1>7. CASE /\ Told = Met /\ Told' = Met' /\ Passes(Met')
           /\ Here'.of = Here.of \/ gone < Here'.of
  <2>0. PICK m \in Nat : m = Met' /\ m = Told' /\ Met <= m /\ \A d \in (Met + 1)..m : d <= gone
    BY <1>7 DEF Passes
  <2>1. \A d \in 1..m : d \in 1..Met \/ d <= gone
    BY <1>0, <2>0
  <2>2. AllAccounted'
    BY <1>1, <1>2, <1>7, <2>0, <2>1 DEF AllAccounted
  <2>3. ~(Told < Met) /\ ~(Told' < Met')
    BY <1>0, <1>7, <2>0
  <2>4. InHand' /\ EarlierShown'
    BY <1>1, <1>2, <2>3 DEF InHand, EarlierShown
  <2>5. InStep'
    <3>1. ASSUME \A d \in 1..Met : d <= gone PROVE \A d \in 1..m : d <= gone
      BY <2>1, <3>1
    <3>2. ASSUME latest <= Met, \A d \in (latest + 1)..Met : d <= gone
          PROVE  latest <= m /\ \A d \in (latest + 1)..m : d <= gone
      <4>1. \A d \in (latest + 1)..m : d \in (latest + 1)..Met \/ d \in (Met + 1)..m
        BY <1>0, <2>0
      <4> QED
        BY <1>0, <2>0, <3>2, <4>1
    <3> QED
      BY <1>1, <1>2, <2>0, <3>1, <3>2 DEF InStep
  <2>6. CountAtMost'
    <3> SUFFICES ASSUME latest # 0, ~Excused(latest)
                 PROVE  IF logRestarted
                        THEN cMtInfo <= Cardinality(LikeLatest(latest) \ 1..m) \/ BackBehind
                        ELSE (\E f \in 1..latest : log[f].at < gMtInfo.at /\ (f > gone \/ f = Here'.of))
                               => cMtInfo <= Cardinality(LikeLatest(latest))
      BY <1>1, <1>2, <1>3, <2>0 DEF CountAtMost
    <3>1. LikeLatest(latest) \ 1..m = LikeLatest(latest) \ 1..Met
      BY <2>0, PassedIsExcused
    <3>2. \A f \in 1..latest : f > gone \/ f = Here'.of => f > gone \/ f = Here.of
      BY <1>0, <1>7
    <3> QED
      BY <3>1, <3>2 DEF CountAtMost
  <2>7. NoneLater'
    BY <1>0, <1>1, <1>2, <2>0, <2>1 DEF NoneLater
  <2>8. CountAtLeast'
    <3> SUFFICES ASSUME latest # 0, Telling(gMtInfo.at)
                 PROVE  /\ \A e \in LikeLatest(Len(log)) : shown[e] > 0 => e <= latest
                        /\ IF anew THEN latest <= m
                           ELSE ~logRestarted => Cardinality(LikeLatest(latest)) <= cMtInfo
                        /\ logRestarted => Cardinality(LikeLatest(latest) \ 1..m) <= cMtInfo
      BY <1>1, <1>2, <1>3, <2>0 DEF CountAtLeast
    <3>1. Cardinality(LikeLatest(latest) \ 1..m) <= Cardinality(LikeLatest(latest) \ 1..Met)
      <4>1. LikeLatest(latest) \ 1..m \in SUBSET (LikeLatest(latest) \ 1..Met)
        BY <1>0, <2>0
      <4>2. IsFiniteSet(LikeLatest(latest) \ 1..Met)
        BY <1>0, LikeIs
      <4> QED
        BY <4>1, <4>2, FS_Subset
    <3>2. Cardinality(LikeLatest(latest) \ 1..m) \in Nat /\ Cardinality(LikeLatest(latest) \ 1..Met) \in Nat
      BY <1>0, <2>0, LikeIs
    <3> QED
      BY <1>0, <2>0, <3>1, <3>2 DEF CountAtLeast
  <2>9. FirstTime'
    BY <1>1, <1>2, <2>3 DEF FirstTime
  <2> QED
    BY <1>4, <1>5, <2>2, <2>4, <2>5, <2>6, <2>7, <2>8, <2>9
<1> QED
  BY <1>6, <1>7 DEF Idle

-----------------------------------------------------------------------------
(* The metadata of an entry is met.                                        *)

Anew == anew' = (gMtInfo'.at = gMtInfo.at /\ (anew \/ (logRestarted /\ ~logRestarted')))
Info(e) == [at |-> log[e].at, by |-> log[e].by]

(* What all three ways to go on have in common.                             *)
LEMMA MetaStep ==
  ASSUME TypeOK, Replaying, NEW e \in Entries, MeetsMeta(e), Frame
  PROVE  /\ Met \in Nat /\ Told = Met /\ Met < e /\ Met' = e /\ Told' = e - 1 /\ Here'.of = e
         /\ e \in Nat /\ e <= Len(log) /\ Len(log) \in Nat
         /\ \A d \in (Met + 1)..(e - 1) : d <= gone
         /\ \A d \in Entries : d <= Met \/ d <= gone \/ d >= e
         /\ shown' = shown /\ bypassed' = bypassed
         /\ Here.of = e \/ gone < e
         /\ AllAccounted' /\ OnlyOldBypassed'
         /\ latest # 0 => latest \in Entries /\ latest \in Nat /\ gMtInfo.at = log[latest].at
<1> USE DEF Replaying
<1>0. /\ Met \in Nat /\ Told \in Nat /\ Len(log) \in Nat /\ latest \in Nat
      /\ e \in Nat /\ e >= 1 /\ e <= Len(log)
      /\ (latest # 0 => latest \in Entries)
  BY MetIs, EntryIs
<1>1. /\ Told = Met /\ Met' = e /\ Told' = e - 1 /\ Here'.of = e
      /\ Met <= e - 1 /\ \A d \in (Met + 1)..(e - 1) : d <= gone
      /\ shown' = shown /\ bypassed' = bypassed /\ (Here.of = e \/ gone < e)
  BY DEF MeetsMeta, Passes
<1>2. Met < e
  BY ONLY <1>0, <1>1
<1>3. ASSUME NEW d \in Entries PROVE d <= Met \/ d <= gone \/ d >= e
  <2>1. d \in Nat
    BY EntryIs
  <2>2. d <= Met \/ d >= e \/ d \in (Met + 1)..(e - 1)
    BY ONLY <1>0, <2>1
  <2> QED
    BY <1>1, <2>2
<1>4. AllAccounted'
  <2>1. \A d \in 1..(e - 1) : d \in 1..Told \/ d <= gone
    BY <1>0, <1>1
  <2> QED
    BY <1>1, <2>1, SameLog DEF AllAccounted
<1>5. OnlyOldBypassed'
  BY <1>1, SameLog DEF OnlyOldBypassed
<1>6. latest # 0 => gMtInfo.at = log[latest].at
  BY DEF LatestKnown
<1> QED
  BY <1>0, <1>1, <1>2, <1>3, <1>4, <1>5, <1>6

LEMMA MetaBypassed ==
  ASSUME TypeOK, Replaying, NEW e \in Entries, MeetsMeta(e), Bypass(Info(e)), Frame, Anew
  PROVE  Replaying'
<1> USE DEF Replaying
<1>0. /\ Met \in Nat /\ Told = Met /\ Met < e /\ Met' = e /\ Told' = e - 1 /\ Here'.of = e
      /\ e \in Nat /\ e <= Len(log) /\ Len(log) \in Nat
      /\ \A d \in (Met + 1)..(e - 1) : d <= gone
      /\ \A d \in Entries : d <= Met \/ d <= gone \/ d >= e
      /\ shown' = shown /\ bypassed' = bypassed
      /\ AllAccounted' /\ OnlyOldBypassed'
      /\ latest # 0 => latest \in Entries /\ latest \in Nat /\ gMtInfo.at = log[latest].at
  BY MetaStep
<1>1. /\ log' = log /\ gone' = gone /\ Entries' = Entries
      /\ \A d : Excused(d)' <=> Excused(d)
      /\ \A t : Telling(t)' <=> Telling(t)
  BY SameLog
<1>2. /\ gMtInfo.at \in Nat /\ cMtInfo \in Nat /\ gone \in Nat
      /\ log[e].at \in Nat /\ \A d \in Entries : log[d].at \in Nat /\ d \in Nat /\ d >= 1
      /\ logRestarted \in BOOLEAN /\ anew \in BOOLEAN
  BY EntryIs
<1>3. /\ logRestarted /\ logRestarted' = logRestarted /\ gMtInfo' = gMtInfo
      /\ cMtInfo' = IF gMtInfo.at = log[e].at THEN cMtInfo - 1 ELSE cMtInfo
      /\ latest' = latest /\ latest # 0
      /\ gMtInfo.at > log[e].at \/ (gMtInfo.at = log[e].at /\ cMtInfo # 0)
  <2>1. /\ logRestarted /\ logRestarted' = logRestarted /\ gMtInfo' = gMtInfo
        /\ cMtInfo' = IF gMtInfo.at = log[e].at THEN cMtInfo - 1 ELSE cMtInfo
        /\ ~(gMtInfo.at < log[e].at) /\ ~(gMtInfo.at = log[e].at /\ cMtInfo = 0)
    BY DEF Bypass, EndsBypass, Info
  <2>2. latest' = latest /\ latest # 0
    BY <2>1 DEF MeetsMeta, LatestKnown
  <2> QED
    BY <1>2, <2>1, <2>2
<1>4. anew' = anew
  BY <1>2, <1>3 DEF Anew
<1>5. (\A n : LikeLatest(n)' = LikeLatest(n)) /\ (BackBehind' <=> BackBehind)
  BY <1>3, SameLatest
<1>6. LatestKnown'
  BY <1>1, <1>3 DEF LatestKnown
<1>7. latest \in Entries /\ latest \in Nat /\ gMtInfo.at = log[latest].at /\ latest >= 1
  BY <1>0, <1>2, <1>3
(* Behind the latest entry, the count has run out or the clock went back.   *)
<1>8. ASSUME ~Excused(latest), gMtInfo.at = log[e].at, latest < e PROVE BackBehind
  <2>1. cMtInfo <= Cardinality(LikeLatest(latest) \ 1..Met) \/ BackBehind
    BY <1>3, <1>8 DEF CountAtMost
  <2>2. LikeLatest(latest) \ 1..Met = {}
    <3>1. \A d \in LikeLatest(latest) : ~(d \in (Met + 1)..(e - 1))
      <4>1. e - 1 \in Nat /\ Met <= e - 1
        BY <1>0
      <4> QED
        BY <1>0, <1>3, <1>8, <4>1, PassedIsExcused
    <3>2. \A d \in LikeLatest(latest) : d \in 1..latest
      BY DEF LikeLatest
    <3>3. \A d \in 1..latest : d \in 1..Met \/ d \in (Met + 1)..(e - 1)
      BY <1>0, <1>7, <1>8
    <3> QED
      BY <3>1, <3>2, <3>3
  <2>3. Cardinality(LikeLatest(latest) \ 1..Met) = 0
    BY <2>2, FS_EmptySet
  <2>4. cMtInfo # 0
    BY <1>2, <1>3, <1>8
  <2> QED
    BY <1>2, <2>1, <2>3, <2>4
<1>9. InHand'
  <2>1. shown[e] > 0 \/ Excused(e)
    <3>1. CASE e <= latest
      <4>1. e \in 1..latest /\ ~(Told < Met)
        BY <1>0, <1>2, <1>7, <3>1
      <4> QED
        BY <4>1 DEF EarlierShown
    <3>2. CASE latest < e /\ gMtInfo.at > log[e].at
      BY <1>2, <1>7, <3>2, BackIsExcused
    <3>3. CASE latest < e /\ gMtInfo.at = log[e].at
      <4>1. CASE Excused(latest)
        <5>1. latest <= e /\ log[latest].at = log[e].at
          BY <1>0, <1>7, <3>3
        <5> QED
          BY ONLY <1>7, <4>1, <5>1, TypeOK, e \in Entries, ExcusedLater
      <4>2. CASE ~Excused(latest)
        <5>1. BackBehind
          BY <1>8, <3>3, <4>2
        <5>2. PICK f \in (latest + 1)..Len(log) :
                /\ log[f].at < gMtInfo.at
                /\ \A d \in (latest + 1)..f : log[d].at # gMtInfo.at
          BY <5>1 DEF BackBehind
        <5>3. f \in Entries /\ f \in Nat /\ latest < f
          <6>1. f \in Nat /\ f >= 1 /\ f <= Len(log) /\ latest < f
            BY ONLY <1>0, <1>7, <5>2
          <6> QED
            BY <6>1, EntryIs
        <5>4. ~(e \in (latest + 1)..f)
          BY <3>3, <5>2
        <5>5. f < e
          BY ONLY <1>0, <1>7, <3>3, <5>3, <5>4
        <5>6. log[latest].at > log[f].at /\ f <= e
          BY ONLY <1>0, <1>2, <1>7, <5>2, <5>3, <5>5
        <5> QED
          BY ONLY <1>7, <5>3, <5>6, TypeOK, e \in Entries, BackIsExcused
      <4> QED
        BY <4>1, <4>2
    <3> QED
      BY <1>2, <1>3, <1>7, <3>1, <3>2, <3>3
  <2> QED
    BY <1>0, <1>1, <1>3, <2>1 DEF InHand
<1>10. EarlierShown'
  <2>1. ~(Told < Met)
    BY <1>0
  <2> QED
    BY <1>0, <1>1, <1>3, <2>1 DEF EarlierShown
<1>11. InStep'
  BY <1>3 DEF InStep
<1>12. FirstTime'
  BY <1>0, <1>1, <1>3 DEF FirstTime
<1>13. NoneLater'
  <2>1. log[e].at <= gMtInfo.at
    BY <1>2, <1>3
  <2>2. \A d \in 1..e : d > gone => d \in 1..Met \/ d = e
    BY <1>0, <1>2
  <2> QED
    BY <1>0, <1>1, <1>3, <2>1, <2>2 DEF NoneLater
(* The entry counts down what is still to come.                             *)
<1> DEFINE P == LikeLatest(latest) \ 1..Met
           Q == LikeLatest(latest) \ 1..e
<1>14. /\ IsFiniteSet(P) /\ Cardinality(P) \in Nat /\ IsFiniteSet(Q) /\ Cardinality(Q) \in Nat
       /\ Q \subseteq P \ {e}
  <2>1. IsFiniteSet(P) /\ Cardinality(P) \in Nat /\ IsFiniteSet(Q) /\ Cardinality(Q) \in Nat
    BY <1>0, <1>7, LikeIs
  <2>2. e \in 1..e /\ 1..Met \subseteq 1..e
    BY <1>0, <1>2
  <2> QED
    BY <2>1, <2>2
<1>15. e \in P => gMtInfo.at = log[e].at /\ e <= latest
  <2>1. e \in P => e \in 1..latest /\ log[e].at = gMtInfo.at
    BY DEF LikeLatest
  <2> QED
    BY <1>7, <2>1
<1>16. gMtInfo.at = log[e].at /\ e <= latest => e \in P
  <2>1. e \notin 1..Met /\ (e <= latest => e \in 1..latest)
    BY <1>0, <1>2, <1>7
  <2> QED
    BY <2>1 DEF LikeLatest
<1>17. CountAtMost'
  <2> SUFFICES ASSUME ~Excused(latest)
               PROVE  cMtInfo' <= Cardinality(Q) \/ BackBehind
    BY <1>0, <1>1, <1>3, <1>5 DEF CountAtMost
  <2>1. cMtInfo <= Cardinality(P) \/ BackBehind
    BY <1>3 DEF CountAtMost
  <2>2. Q = P \ {e}
    <3>1. \A d \in LikeLatest(latest) : ~(d \in (Met + 1)..(e - 1)) /\ d \in 1..latest
      <4>1. e - 1 \in Nat /\ Met <= e - 1
        BY <1>0
      <4> QED
        BY <1>0, <1>3, <4>1, PassedIsExcused DEF LikeLatest
    <3>2. \A d \in 1..latest : d \in 1..e <=> d \in 1..Met \/ d \in (Met + 1)..(e - 1) \/ d = e
      BY <1>0, <1>2, <1>7
    <3> QED
      BY <3>1, <3>2
  <2>3. Cardinality(Q) = IF e \in P THEN Cardinality(P) - 1 ELSE Cardinality(P)
    <3> HIDE DEF P, Q
    <3> QED
      BY <1>14, <2>2, FS_RemoveElement
  <2>4. CASE e \in P
    <3>1. cMtInfo' = cMtInfo - 1
      BY <1>3, <1>15, <2>4
    <3> HIDE DEF P, Q
    <3> QED
      BY <1>2, <1>14, <2>1, <2>3, <2>4, <3>1
  <2>5. CASE e \notin P /\ gMtInfo.at = log[e].at
    <3>1. latest < e
      BY <1>0, <1>7, <1>16, <2>5
    <3> QED
      BY <1>8, <2>5, <3>1
  <2>6. CASE e \notin P /\ gMtInfo.at # log[e].at
    <3>1. cMtInfo' = cMtInfo
      BY <1>3, <2>6
    <3> HIDE DEF P, Q
    <3> QED
      BY <2>1, <2>3, <2>6, <3>1
  <2> QED
    BY <2>4, <2>5, <2>6
<1>18. CountAtLeast'
  <2> SUFFICES ASSUME Telling(gMtInfo.at)
               PROVE  /\ \A d \in LikeLatest(Len(log)) : shown[d] > 0 => d <= latest
                      /\ anew => latest <= e
                      /\ Cardinality(Q) <= cMtInfo'
    BY <1>0, <1>1, <1>3, <1>4, <1>5 DEF CountAtLeast
  <2>1. /\ \A d \in LikeLatest(Len(log)) : shown[d] > 0 => d <= latest
        /\ anew => latest <= Met
        /\ Cardinality(P) <= cMtInfo
    BY <1>3 DEF CountAtLeast
  <2>2. anew => latest <= e
    BY <1>0, <1>7, <2>1
  <2>3. Cardinality(Q) <= cMtInfo'
    <3> HIDE DEF P, Q
    <3>1. /\ IsFiniteSet(P \ {e}) /\ Cardinality(P \ {e}) \in Nat
          /\ Cardinality(P \ {e}) = IF e \in P THEN Cardinality(P) - 1 ELSE Cardinality(P)
      BY <1>14, FS_RemoveElement, FS_CardinalityType
    <3>2. Cardinality(Q) <= Cardinality(P \ {e})
      BY <1>14, <3>1, FS_Subset
    <3>3. CASE e \in P
      <4>1. cMtInfo' = cMtInfo - 1
        BY <1>3, <1>15, <3>3
      <4> QED
        BY <1>2, <1>14, <2>1, <3>1, <3>2, <3>3, <4>1
    <3>4. CASE e \notin P /\ gMtInfo.at = log[e].at
      <4>1. latest < e
        BY <1>0, <1>7, <1>16, <3>4
      <4>2. Q = {}
        <5>1. \A d \in LikeLatest(latest) : d \in 1..latest
          BY DEF LikeLatest
        <5>2. \A d \in 1..latest : d \in 1..e
          BY <1>0, <1>7, <4>1
        <5> QED
          BY <5>1, <5>2 DEF Q
      <4>3. Cardinality(Q) = 0
        BY <4>2, FS_EmptySet
      <4>4. cMtInfo' = cMtInfo - 1 /\ cMtInfo # 0
        BY <1>2, <1>3, <3>4
      <4> QED
        BY ONLY <1>2, <4>3, <4>4
    <3>5. CASE e \notin P /\ gMtInfo.at # log[e].at
      <4>1. cMtInfo' = cMtInfo
        BY <1>3, <3>5
      <4> QED
        BY <1>2, <1>14, <2>1, <3>1, <3>2, <3>5, <4>1
    <3> QED
      BY <3>3, <3>4, <3>5
  <2> QED
    BY <2>1, <2>2, <2>3
<1> QED
  BY <1>0, <1>6, <1>9, <1>10, <1>11, <1>12, <1>13, <1>17, <1>18

LEMMA MetaGoesOn ==
  ASSUME TypeOK, Replaying, NEW e \in Entries, MeetsMeta(e), GoesOn(Info(e)), Frame, Anew
  PROVE  Replaying'
<1> USE DEF Replaying
<1>0. /\ Met \in Nat /\ Told = Met /\ Met < e /\ Met' = e /\ Told' = e - 1 /\ Here'.of = e
      /\ e \in Nat /\ e <= Len(log) /\ Len(log) \in Nat
      /\ \A d \in (Met + 1)..(e - 1) : d <= gone
      /\ \A d \in Entries : d <= Met \/ d <= gone \/ d >= e
      /\ shown' = shown /\ bypassed' = bypassed
      /\ AllAccounted' /\ OnlyOldBypassed'
      /\ latest # 0 => latest \in Entries /\ latest \in Nat /\ gMtInfo.at = log[latest].at
  BY MetaStep
<1>1. /\ log' = log /\ gone' = gone /\ Entries' = Entries
      /\ \A d : Excused(d)' <=> Excused(d)
      /\ \A t : Telling(t)' <=> Telling(t)
  BY SameLog
<1>2. /\ gMtInfo.at \in Nat /\ cMtInfo \in Nat /\ gone \in Nat /\ latest \in Nat
      /\ log[e].at \in Nat /\ log[e].at > 0
      /\ \A d \in Entries : log[d].at \in Nat /\ log[d].at > 0 /\ d \in Nat /\ d >= 1 /\ shown[d] \in 0..2
      /\ logRestarted \in BOOLEAN /\ anew \in BOOLEAN
  BY EntryIs
<1>3. /\ logRestarted' = FALSE /\ gMtInfo' = Info(e) /\ gMtInfo'.at = log[e].at /\ latest' = e
      /\ gMtInfo.at <= log[e].at
      /\ logRestarted => gMtInfo.at < log[e].at \/ (gMtInfo.at = log[e].at /\ cMtInfo = 0)
      /\ cMtInfo' = IF ~logRestarted /\ gMtInfo = Info(e) THEN cMtInfo + 1 ELSE 1
  <2>1. /\ logRestarted' = FALSE /\ gMtInfo' = Info(e)
        /\ ~logRestarted \/ gMtInfo.at < log[e].at \/ (gMtInfo.at = log[e].at /\ cMtInfo = 0)
        /\ Latest(Info(e)).at <= log[e].at
        /\ cMtInfo' = IF Latest(Info(e)) = Info(e) THEN cMtInfo + 1 ELSE 1
    BY DEF GoesOn, EndsBypass, Info
  <2>2. latest' = e
    BY <2>1 DEF MeetsMeta
  <2>3. CASE logRestarted
    <3>1. gMtInfo \in [at : Nat, by : Nat]
      BY DEF TypeOK
    <3>2. Latest(Info(e)).at = 0
      BY <2>3, <3>1 DEF Latest
    <3>3. Latest(Info(e)) # Info(e)
      BY <1>2, <3>2 DEF Info
    <3> QED
      BY <1>2, <2>1, <2>2, <2>3, <3>3 DEF Info
  <2>4. CASE ~logRestarted
    <3>1. Latest(Info(e)) = gMtInfo
      BY <2>4 DEF Latest
    <3> QED
      BY <2>1, <2>2, <2>4, <3>1 DEF Info
  <2> QED
    BY <2>3, <2>4
<1>4. LatestKnown'
  BY <1>0, <1>1, <1>2, <1>3 DEF LatestKnown, Info
<1>5. InHand'
  BY <1>0, <1>3 DEF InHand
<1>6. EarlierShown'
  <2> SUFFICES ASSUME NEW d \in 1..e, d # e PROVE shown[d] > 0 \/ Excused(d)
    BY <1>0, <1>1, <1>3 DEF EarlierShown
  <2>1. d \in Entries /\ d \in Nat /\ d < e
    BY <1>0, EntryIs, SMTT(30)
  <2>2. CASE d <= gone
    BY <2>1, <2>2, GoneIsExcused
  <2>3. CASE ~(d <= gone)
    <3>1. d \in 1..Told
      BY <1>0, <2>1, <2>3
    <3>2. shown[d] > 0 \/ d \in bypassed
      BY <2>3, <3>1 DEF AllAccounted
    <3> QED
      BY <3>2 DEF OnlyOldBypassed
  <2> QED
    BY <2>2, <2>3
<1>7. InStep'
  <2>1. e <= e /\ \A d \in (e + 1)..e : FALSE
    BY <1>0
  <2> QED
    BY <1>0, <1>3, <2>1 DEF InStep
<1>8. NoneLater'
  <2>1. \A d \in 1..e : d > gone => d \in 1..Met \/ d = e
    <3> SUFFICES ASSUME NEW d \in 1..e, d > gone PROVE d \in 1..Met \/ d = e
      OBVIOUS
    <3>1. d \in Entries /\ d \in Nat /\ d >= 1
      <4>1. d \in Nat /\ d >= 1 /\ d <= Len(log)
        BY ONLY <1>0, d \in 1..e
      <4> QED
        BY <4>1, EntryIs
    <3>2. d <= Met \/ d <= gone \/ d >= e
      BY <1>0, <3>1
    <3> QED
      BY ONLY <1>0, <1>2, <3>1, <3>2, d > gone, d \in 1..e
  <2>2. ASSUME NEW d \in Entries, log[d].at <= gMtInfo.at PROVE log[d].at <= log[e].at
    BY <1>2, <1>3, <2>2
  <2>3. \A d \in Entries : shown[d] > 0 => log[d].at <= log[e].at
    BY <2>2 DEF NoneLater
  <2>4. \A d \in 1..e : d > gone => log[d].at <= log[e].at
    <3> SUFFICES ASSUME NEW d \in 1..e, d > gone PROVE log[d].at <= log[e].at
      OBVIOUS
    <3>1. CASE d \in 1..Met
      <4>1. d \in Entries
        <5>1. d \in Nat /\ d >= 1 /\ d <= Len(log)
          BY ONLY <1>0, d \in 1..e
        <5> QED
          BY <5>1, EntryIs
      <4> QED
        BY <2>2, <3>1, <4>1 DEF NoneLater
    <3>2. CASE d = e
      BY <1>2, <3>2
    <3> QED
      BY <2>1, <3>1, <3>2
  <2> QED
    BY <1>0, <1>1, <1>3, <2>3, <2>4 DEF NoneLater
<1> DEFINE L == LikeLatest(latest)
           M == {d \in 1..e : log[d].at = log[e].at}
<1>9. (\A n : LikeLatest(n)' = {d \in 1..n : log[d].at = log[e].at}) /\ LikeLatest(latest)' = M
  BY <1>1, <1>3 DEF LikeLatest
<1>10. /\ IsFiniteSet(L) /\ Cardinality(L) \in Nat /\ IsFiniteSet(M) /\ Cardinality(M) \in Nat
       /\ e \in M /\ Cardinality(M) >= 1
  <2>1. IsFiniteSet(L) /\ Cardinality(L) \in Nat
    BY <1>0, <1>2, LikeIs
  <2>2. IsFiniteSet(M)
    <3>1. IsFiniteSet(1..e) /\ M \in SUBSET (1..e)
      BY <1>0, FS_Interval
    <3> QED
      BY <3>1, FS_Subset
  <2>3. e \in M
    BY <1>0, <1>2
  <2> HIDE DEF M
  <2>4. Cardinality(M) \in Nat /\ Cardinality(M) # 0
    BY <2>2, <2>3, FS_CardinalityType, FS_EmptySet
  <2> QED
    BY <2>1, <2>2, <2>3, <2>4
<1>11. CountAtMost'
  <2> SUFFICES ASSUME ~Excused(e), NEW f \in 1..e, log[f].at < log[e].at, f > gone \/ f = e
               PROVE  cMtInfo' <= Cardinality(M)
    BY <1>0, <1>1, <1>3, <1>9 DEF CountAtMost
  <2>1. CASE cMtInfo' = 1
    BY <1>10, <2>1
  <2>2. CASE cMtInfo' # 1
    <3>1. ~logRestarted /\ gMtInfo = Info(e) /\ cMtInfo' = cMtInfo + 1
      BY <1>3, <2>2
    <3>2. gMtInfo.at = log[e].at /\ latest # 0
      BY <1>2, <3>1 DEF Info, LatestKnown, NoMeta
    <3>3. f \in Entries /\ f \in Nat /\ f # e /\ log[f].at \in Nat
      BY <1>0, <1>2, EntryIs
    <3>4. f > gone /\ f < e /\ f <= Met
      <4>1. f <= Met \/ f <= gone \/ f >= e
        BY <1>0, <3>3
      <4> QED
        BY ONLY <1>0, <1>2, <3>3, <4>1, f \in 1..e, f > gone \/ f = e
    <3>5. f \in 1..Met
      BY <1>0, <3>3, <3>4
    <3>6. ~(f <= gone)
      BY <1>2, <3>3, <3>4
    <3>7. latest <= Met /\ \A d \in (latest + 1)..Met : d <= gone
      BY <3>1, <3>5, <3>6 DEF InStep
    <3>8. f \in 1..latest
      <4>1. ~(f \in (latest + 1)..Met)
        BY <3>6, <3>7
      <4> QED
        BY ONLY <1>0, <1>2, <3>3, <3>4, <3>7, <4>1, f \in 1..e
    <3>9. ~Excused(latest)
      <4>1. latest \in Entries /\ latest <= e /\ log[latest].at = log[e].at
        BY <1>0, <1>2, <3>2, <3>7
      <4> QED
        BY <4>1, ExcusedLater
    <3>10. cMtInfo <= Cardinality(L)
      <4>1. log[f].at < gMtInfo.at /\ f > gone
        BY <3>2, <3>4
      <4> QED
        BY <3>1, <3>2, <3>8, <3>9, <4>1 DEF CountAtMost
    <3>11. L \cup {e} \subseteq M /\ e \notin L
      <4>1. latest < e /\ \A d \in 1..latest : d \in 1..e /\ d # e
        BY <1>0, <1>2, <3>7
      <4> QED
        BY <1>10, <3>2, <4>1 DEF LikeLatest
    <3>12. Cardinality(L) + 1 <= Cardinality(M)
      <4> HIDE DEF L, M
      <4>1. Cardinality(L \cup {e}) = Cardinality(L) + 1 /\ IsFiniteSet(L \cup {e})
        BY <1>10, <3>11, FS_AddElement
      <4>2. Cardinality(L \cup {e}) <= Cardinality(M)
        BY <1>10, <3>11, FS_Subset
      <4> QED
        BY <4>1, <4>2
    <3> HIDE DEF L, M
    <3> QED
      BY ONLY <1>2, <1>10, <3>1, <3>10, <3>12
  <2> QED
    BY <2>1, <2>2
<1>12. ASSUME Telling(log[e].at)
       PROVE  /\ \E d \in 1..Met : ~(d <= gone)
              /\ \A d \in M : ~(d <= gone) /\ (d \in 1..Met \/ d = e)
              /\ gMtInfo.at = log[e].at =>
                   /\ latest # 0 /\ latest <= Met
                   /\ ~logRestarted => \A d \in (latest + 1)..Met : d <= gone
  <2>1. /\ \A d, f \in Entries : d < f => log[d].at <= log[f].at
        /\ \A f \in Entries : log[f].at >= log[e].at => gone < f
        /\ \E d \in Entries : gone < d /\ log[d].at < log[e].at
    BY <1>2, <1>12, TellingIs
  <2>2. \E d \in 1..Met : ~(d <= gone)
    <3>1. PICK d \in Entries : gone < d /\ log[d].at < log[e].at
      BY <2>1
    <3>2. d \in Nat /\ d >= 1 /\ log[d].at \in Nat /\ d # e
      BY <1>2, <3>1
    <3>3. ~(e < d)
      <4>1. e < d => log[e].at <= log[d].at
        BY <2>1
      <4> QED
        BY ONLY <1>2, <3>1, <3>2, <4>1
    <3>4. d <= Met \/ d <= gone \/ d >= e
      BY <1>0
    <3>5. d \in 1..Met /\ ~(d <= gone)
      BY ONLY <1>0, <1>2, <3>1, <3>2, <3>3, <3>4
    <3> QED
      BY <3>5
  <2>3. ASSUME NEW d \in M PROVE ~(d <= gone) /\ (d \in 1..Met \/ d = e)
    <3>1. d \in 1..e /\ log[d].at = log[e].at
      OBVIOUS
    <3>2. d \in Entries /\ d \in Nat
      BY <1>0, <3>1, EntryIs, SMTT(30)
    <3>3. gone < d
      BY <1>2, <2>1, <3>1, <3>2
    <3>4. d <= Met \/ d <= gone \/ d >= e
      BY <1>0, <3>2
    <3> QED
      BY ONLY <1>0, <1>2, <3>1, <3>2, <3>3, <3>4
  <2>4. ASSUME gMtInfo.at = log[e].at
        PROVE  /\ latest # 0 /\ latest <= Met
               /\ ~logRestarted => \A d \in (latest + 1)..Met : d <= gone
    <3>1. latest # 0
      BY <1>2, <2>4 DEF LatestKnown, NoMeta
    <3>2. CASE ~logRestarted
      BY <2>2, <3>1, <3>2 DEF InStep
    <3>3. CASE logRestarted
      <4>1. cMtInfo = 0
        BY <1>2, <1>3, <2>4, <3>3
      <4>2. Cardinality(LikeLatest(latest) \ 1..Met) <= 0
        BY <1>12, <2>4, <3>1, <3>3, <4>1 DEF CountAtLeast
      <4>3. /\ IsFiniteSet(LikeLatest(latest) \ 1..Met)
            /\ Cardinality(LikeLatest(latest) \ 1..Met) \in Nat
        BY <1>0, <1>2, LikeIs
      <4>4. Cardinality(LikeLatest(latest) \ 1..Met) = 0
        BY <4>2, <4>3
      <4>5. LikeLatest(latest) \ 1..Met = {}
        BY <4>3, <4>4, FS_EmptySet
      <4>6. latest \in LikeLatest(latest)
        <5>1. latest \in 1..latest /\ log[latest].at = gMtInfo.at
          BY <1>0, <1>2, <3>1
        <5> QED
          BY <5>1 DEF LikeLatest
      <4>7. latest \in 1..Met
        BY <4>5, <4>6
      <4> QED
        BY <1>0, <3>1, <3>3, <4>7
    <3> QED
      BY <3>2, <3>3
  <2> QED
    BY <2>2, <2>3, <2>4
<1>13. ASSUME Telling(log[e].at), NEW d \in Entries, log[d].at = log[e].at, shown[d] > 0
       PROVE  d < e
  <2>1. gMtInfo.at = log[e].at
    <3>1. log[d].at <= gMtInfo.at
      BY <1>13 DEF NoneLater
    <3> QED
      BY ONLY <1>2, <1>3, <1>13, <3>1
  <2>2. latest # 0 /\ latest <= Met
    BY <1>12, <1>13, <2>1
  <2>3. d \in LikeLatest(Len(log))
    BY <1>13, <2>1 DEF LikeLatest, Entries
  <2>4. d <= latest
    BY <1>13, <2>1, <2>2, <2>3 DEF CountAtLeast
  <2>5. d \in Nat
    BY <1>2
  <2> QED
    BY ONLY <1>0, <1>2, <2>2, <2>4, <2>5
<1>14. CountAtLeast'
  <2> SUFFICES ASSUME Telling(log[e].at)
               PROVE  /\ \A d \in Entries : log[d].at = log[e].at /\ shown[d] > 0 => d <= e
                      /\ ~anew' => Cardinality(M) <= cMtInfo'
    <3>1. (LikeLatest(Len(log)))' = {d \in 1..Len(log) : log[d].at = log[e].at}
      BY <1>1, <1>3 DEF LikeLatest
    <3> HIDE DEF M
    <3> QED
      BY <1>0, <1>1, <1>3, <1>9, <3>1 DEF CountAtLeast, Entries
  <2>1. \A d \in Entries : log[d].at = log[e].at /\ shown[d] > 0 => d <= e
    BY <1>0, <1>2, <1>13
  <2>2. ASSUME ~anew', gMtInfo.at # log[e].at PROVE Cardinality(M) <= cMtInfo'
    <3>1. cMtInfo' = 1
      BY <1>3, <2>2 DEF Info
    <3>2. M = {e}
      <4>1. ASSUME NEW d \in M, d # e PROVE FALSE
        <5>1. d \in 1..Met /\ ~(d <= gone) /\ log[d].at = log[e].at
          BY <1>12, <4>1
        <5>2. d \in Entries /\ d \in Nat
          BY <1>0, <5>1, EntryIs
        <5>3. d > gone
          BY <1>2, <5>1, <5>2
        <5>4. log[d].at <= gMtInfo.at
          BY <5>1, <5>3 DEF NoneLater
        <5> QED
          BY ONLY <1>2, <1>3, <2>2, <5>1, <5>4
      <4> HIDE DEF M
      <4> QED
        BY <1>10, <4>1
    <3>3. Cardinality(M) = 1
      BY <3>2, FS_Singleton
    <3> QED
      BY <3>1, <3>3
  <2>3. ASSUME ~anew', gMtInfo.at = log[e].at PROVE Cardinality(M) <= cMtInfo'
    <3>1. ~anew /\ ~logRestarted
      BY <1>3, <2>3 DEF Anew
    <3>2. /\ latest # 0 /\ latest <= Met
          /\ \A d \in (latest + 1)..Met : d <= gone
      BY <1>12, <2>3, <3>1
    <3>3. gMtInfo = Info(e)
      <4>1. gMtInfo = [at |-> log[latest].at, by |-> log[latest].by]
        BY <3>2 DEF LatestKnown
      <4>2. log[latest].by = log[e].by
        BY <1>0, <2>3, <3>2, <1>2, TellingIs
      <4> QED
        BY <2>3, <4>1, <4>2 DEF Info
    <3>4. cMtInfo' = cMtInfo + 1
      BY <1>3, <3>1, <3>3
    <3>5. Cardinality(L) <= cMtInfo
      BY <2>3, <3>1, <3>2 DEF CountAtLeast
    <3>6. M \subseteq L \cup {e}
      <4> SUFFICES ASSUME NEW d \in M, d # e PROVE d \in L
        OBVIOUS
      <4>1. d \in 1..Met /\ ~(d <= gone) /\ log[d].at = gMtInfo.at
        BY <1>12, <2>3
      <4>2. ~(d \in (latest + 1)..Met)
        BY <3>2, <4>1
      <4>3. d \in 1..latest
        BY ONLY <1>0, <1>2, <3>2, <4>1, <4>2
      <4> QED
        BY <4>1, <4>3 DEF LikeLatest
    <3> HIDE DEF L, M
    <3>7. IsFiniteSet(L \cup {e}) /\ Cardinality(L \cup {e}) <= Cardinality(L) + 1
          /\ Cardinality(L \cup {e}) \in Nat
      <4>1. /\ IsFiniteSet(L \cup {e})
            /\ Cardinality(L \cup {e}) = IF e \in L THEN Cardinality(L) ELSE Cardinality(L) + 1
        BY <1>10, FS_AddElement
      <4>2. Cardinality(L) \in Nat
        BY <1>10
      <4> QED
        BY ONLY <4>1, <4>2
    <3>8. Cardinality(M) <= Cardinality(L \cup {e})
      BY <3>6, <3>7, FS_Subset
    <3> QED
      BY ONLY <1>2, <1>10, <3>4, <3>5, <3>7, <3>8
  <2> QED
    BY <2>1, <2>2, <2>3
<1>15. FirstTime'
  <2>1. Telling(log[e].at) => shown[e] = 0
    <3> SUFFICES ASSUME Telling(log[e].at) PROVE shown[e] = 0
      OBVIOUS
    <3>1. ~(shown[e] > 0)
      <4>1. shown[e] > 0 => e < e
        BY <1>13
      <4> QED
        BY ONLY <1>0, <4>1
    <3> QED
      BY <1>2, <3>1
  <2>2. \A d \in Entries' : shown'[d] > 1 => ~Telling(log[d].at)'
    BY <1>0, <1>1 DEF FirstTime
  <2> QED
    BY <1>0, <1>1, <1>3, <2>1, <2>2 DEF FirstTime
<1> QED
  BY <1>0, <1>4, <1>5, <1>6, <1>7, <1>8, <1>11, <1>14, <1>15

LEMMA MetaRestarts ==
  ASSUME TypeOK, Replaying, NEW e \in Entries, MeetsMeta(e), Restarts(Info(e)), Frame, Anew
  PROVE  Replaying'
<1> USE DEF Replaying
<1>0. /\ Met \in Nat /\ Told = Met /\ Met < e /\ Met' = e /\ Told' = e - 1 /\ Here'.of = e
      /\ e \in Nat /\ e <= Len(log) /\ Len(log) \in Nat
      /\ \A d \in (Met + 1)..(e - 1) : d <= gone
      /\ \A d \in Entries : d <= Met \/ d <= gone \/ d >= e
      /\ shown' = shown /\ bypassed' = bypassed /\ (Here.of = e \/ gone < e)
      /\ AllAccounted' /\ OnlyOldBypassed'
      /\ latest # 0 => latest \in Entries /\ latest \in Nat /\ gMtInfo.at = log[latest].at
  BY MetaStep
<1>1. /\ log' = log /\ gone' = gone /\ Entries' = Entries
      /\ \A d : Excused(d)' <=> Excused(d)
      /\ \A t : Telling(t)' <=> Telling(t)
  BY SameLog
<1>2. /\ gMtInfo.at \in Nat /\ cMtInfo \in Nat /\ gone \in Nat
      /\ log[e].at \in Nat /\ log[e].at > 0 /\ e >= 1
      /\ \A d \in Entries : log[d].at \in Nat /\ d \in Nat /\ d >= 1
      /\ logRestarted \in BOOLEAN /\ anew \in BOOLEAN
  BY EntryIs
<1>3. /\ ~logRestarted /\ logRestarted' = TRUE /\ gMtInfo' = gMtInfo /\ cMtInfo' = cMtInfo
      /\ log[e].at < gMtInfo.at /\ latest' = latest
  <2>1. /\ logRestarted' = TRUE /\ cMtInfo' = cMtInfo
        /\ Latest(Info(e)).at > log[e].at /\ gMtInfo' = Latest(Info(e))
    BY DEF Restarts, Info
  <2>2. latest' = latest
    BY <2>1 DEF MeetsMeta
  <2>3. ~logRestarted
    <3> SUFFICES ASSUME logRestarted PROVE FALSE
      OBVIOUS
    <3>1. gMtInfo \in [at : Nat, by : Nat]
      BY DEF TypeOK
    <3>2. Latest(Info(e)).at = 0
      BY <3>1 DEF Latest
    <3> QED
      BY <1>2, <2>1, <3>2
  <2>4. Latest(Info(e)) = gMtInfo
    BY <2>3 DEF Latest
  <2> QED
    BY <1>2, <2>1, <2>2, <2>3, <2>4
<1>4. latest \in Entries /\ latest \in Nat /\ gMtInfo.at = log[latest].at /\ latest # 0
      /\ latest >= 1 /\ latest # e
  <2>1. latest # 0
    BY <1>2, <1>3 DEF LatestKnown, NoMeta
  <2> QED
    BY <1>0, <1>2, <1>3, <2>1
<1>5. anew' = anew
  BY <1>2, <1>3 DEF Anew
<1>6. (\A n : LikeLatest(n)' = LikeLatest(n)) /\ (BackBehind' <=> BackBehind)
  BY <1>3, SameLatest
<1>7. LatestKnown'
  BY <1>1, <1>3, <1>4 DEF LatestKnown
<1>8. ~(Told < Met)
  BY <1>0
<1>9. InHand'
  <2>1. shown[e] > 0 \/ Excused(e)
    <3>1. CASE e <= latest
      <4>1. e \in 1..latest
        BY <1>2, <1>0, <1>4, <3>1
      <4> QED
        BY <1>8, <4>1 DEF EarlierShown
    <3>2. CASE latest < e
      <4>1. log[latest].at > log[e].at /\ e <= e
        BY <1>0, <1>2, <1>3, <1>4
      <4> QED
        BY ONLY <1>4, <3>2, <4>1, TypeOK, e \in Entries, BackIsExcused
    <3> QED
      BY ONLY <1>0, <1>4, <3>1, <3>2
  <2> QED
    BY <1>0, <1>1, <1>3, <2>1 DEF InHand
<1>10. EarlierShown'
  BY <1>0, <1>1, <1>3, <1>8 DEF EarlierShown
<1>11. InStep'
  BY <1>3 DEF InStep
<1>12. FirstTime'
  BY <1>0, <1>1, <1>3 DEF FirstTime
<1>13. NoneLater'
  <2>1. log[e].at <= gMtInfo.at
    BY <1>2, <1>3
  <2>2. \A d \in 1..e : d > gone => d \in 1..Met \/ d = e
    BY <1>0, <1>2
  <2> QED
    BY <1>0, <1>1, <1>3, <2>1, <2>2 DEF NoneLater
<1>14. CountAtMost'
  <2> SUFFICES ASSUME ~Excused(latest)
               PROVE  cMtInfo <= Cardinality(LikeLatest(latest) \ 1..e) \/ BackBehind
    BY <1>0, <1>1, <1>3, <1>6 DEF CountAtMost
  <2>1. CASE e < latest
    <3>1. e \in 1..latest /\ (e > gone \/ e = Here.of)
      BY <1>0, <1>2, <1>4, <2>1
    <3>2. cMtInfo <= Cardinality(LikeLatest(latest))
      BY <1>3, <1>4, <3>1 DEF CountAtMost
    <3>3. ASSUME NEW d \in LikeLatest(latest), d \in 1..e PROVE FALSE
      <4>1. d \in 1..latest /\ log[d].at = gMtInfo.at
        BY DEF LikeLatest
      <4>2. d \in Entries /\ d < e /\ e <= latest /\ log[d].at > log[e].at
        <5>1. d \in Nat /\ d # e
          BY <1>2, <1>3, <3>3, <4>1
        <5>2. d >= 1 /\ d <= Len(log) /\ d < e /\ e <= latest
          BY ONLY <1>0, <1>4, <2>1, <3>3, <5>1
        <5>3. d \in Entries
          BY <5>1, <5>2, EntryIs
        <5> QED
          BY <1>3, <4>1, <5>2, <5>3
      <4> QED
        BY ONLY <1>4, <4>2, TypeOK, e \in Entries, ~Excused(latest), BackIsExcused
    <3>4. LikeLatest(latest) \ 1..e = LikeLatest(latest)
      BY <3>3
    <3> QED
      BY <3>2, <3>4
  <2>2. CASE latest < e
    <3>1. ASSUME NEW d \in (latest + 1)..e, log[d].at = gMtInfo.at PROVE FALSE
      <4>1. d \in Entries /\ d \in Nat /\ latest < d /\ d # e /\ d < e
        <5>1. d \in Nat /\ latest < d /\ d <= e /\ d # e
          BY <1>0, <1>2, <1>3, <1>4, <3>1
        <5>2. d >= 1 /\ d <= Len(log) /\ d < e
          BY ONLY <1>0, <1>4, <5>1
        <5> QED
          BY <5>1, <5>2, EntryIs
      <4>2. d <= gone
        <5>1. CASE d <= Met
          <6>1. d \in 1..Met /\ (latest <= Met => d \in (latest + 1)..Met)
            BY ONLY <1>0, <1>4, <4>1, <5>1
          <6> QED
            BY <1>3, <6>1 DEF InStep
        <5>2. CASE ~(d <= Met)
          <6>1. ~(d >= e)
            BY ONLY <1>0, <4>1
          <6> QED
            BY <1>0, <4>1, <5>2, <6>1
        <5> QED
          BY <5>1, <5>2
      <4>3. latest <= gone /\ latest <= latest
        BY ONLY <1>2, <1>4, <4>1, <4>2
      <4> QED
        BY ONLY <1>4, <4>3, TypeOK, ~Excused(latest), GoneIsExcused
    <3>2. e \in (latest + 1)..Len(log)
      BY ONLY <1>0, <1>4, <2>2
    <3>3. BackBehind
      BY <1>3, <3>1, <3>2 DEF BackBehind
    <3> QED
      BY <3>3
  <2> QED
    BY ONLY <1>0, <1>4, <2>1, <2>2
<1>15. CountAtLeast'
  <2> SUFFICES ASSUME Telling(gMtInfo.at)
               PROVE  /\ \A d \in LikeLatest(Len(log)) : shown[d] > 0 => d <= latest
                      /\ anew => latest <= e
                      /\ Cardinality(LikeLatest(latest) \ 1..e) <= cMtInfo
    BY <1>0, <1>1, <1>3, <1>5, <1>6 DEF CountAtLeast
  <2>1. /\ \A d \in LikeLatest(Len(log)) : shown[d] > 0 => d <= latest
        /\ anew => latest <= Met
        /\ ~anew => Cardinality(LikeLatest(latest)) <= cMtInfo
    BY <1>3, <1>4 DEF CountAtLeast
  <2>2. anew => latest <= e
    BY <1>0, <1>4, <2>1
  <2>3. /\ Cardinality(LikeLatest(latest) \ 1..e) <= Cardinality(LikeLatest(latest))
        /\ Cardinality(LikeLatest(latest) \ 1..e) \in Nat /\ Cardinality(LikeLatest(latest)) \in Nat
    BY <1>0, <1>4, LikeIs
  <2>4. CASE anew
    <3>1. \A d \in LikeLatest(latest) : d \in 1..e
      <4>1. \A d \in LikeLatest(latest) : d \in 1..latest
        BY DEF LikeLatest
      <4>2. \A d \in 1..latest : d \in 1..e
        BY <1>0, <1>4, <2>2, <2>4
      <4> QED
        BY <4>1, <4>2
    <3>2. LikeLatest(latest) \ 1..e = {}
      BY <3>1
    <3>3. Cardinality(LikeLatest(latest) \ 1..e) = 0
      BY <3>2, FS_EmptySet
    <3> QED
      BY <1>2, <2>1, <2>2, <3>3
  <2>5. CASE ~anew
    BY <1>2, <2>1, <2>3, <2>5
  <2> QED
    BY <2>4, <2>5
<1> QED
  BY <1>0, <1>7, <1>9, <1>10, <1>11, <1>12, <1>13, <1>14, <1>15

-----------------------------------------------------------------------------
(* The text of an entry is met.                                            *)

LEMMA TextStep ==
  ASSUME TypeOK, Replaying, NEW e \in Entries, MeetsText(e), Frame, Anew
  PROVE  /\ Met = e /\ Told = e - 1 /\ Here.of = e /\ Told' = Met' /\ Met' \in Nat /\ e <= Met'
         /\ \A d \in (e + 1)..Met' : d <= gone
         /\ Here'.of = e \/ gone < Here'.of
         /\ latest \in Entries /\ latest # 0 /\ gMtInfo.at = log[latest].at
         /\ latest' = latest /\ gMtInfo' = gMtInfo /\ cMtInfo' = cMtInfo /\ anew' = anew
         /\ logRestarted' = (logRestarted \/ log[e].bracketed)
         /\ ~logRestarted => latest = e
         /\ \A d \in Entries : Text(e) = Text(d) <=> d = e
<1> USE DEF Replaying
<1>0. /\ e \in Nat /\ e >= 1 /\ e - 1 < e /\ log[e].bracketed \in BOOLEAN
      /\ logRestarted \in BOOLEAN /\ anew \in BOOLEAN
      /\ (latest # 0 => latest \in Entries)
      /\ \A d \in Entries : log[d].at \in Nat /\ log[d].at > 0
  BY EntryIs
<1>1. /\ Met = e /\ Told = e - 1 /\ Here.of = e /\ Told' = Met' /\ Met' \in Nat /\ e <= Met'
      /\ \A d \in (e + 1)..Met' : d <= gone
      /\ Here'.of = e \/ gone < Here'.of
      /\ latest' = latest
  BY DEF MeetsText, Passes
<1>2. ~logRestarted => latest = e
  BY <1>0, <1>1 DEF InHand
<1>3. latest # 0
  <2>1. CASE logRestarted
    BY <2>1 DEF LatestKnown
  <2>2. CASE ~logRestarted
    BY <1>0, <1>2, <2>2
  <2> QED
    BY <2>1, <2>2
<1>4. gMtInfo.at = log[latest].at /\ gMtInfo.at \in Nat /\ gMtInfo.at > 0
  <2>1. gMtInfo = [at |-> log[latest].at, by |-> log[latest].by]
    BY <1>3 DEF LatestKnown
  <2>2. gMtInfo.at = log[latest].at
    BY <2>1
  <2> QED
    BY <1>0, <1>3, <2>2
<1>5. /\ gMtInfo' = gMtInfo /\ cMtInfo' = cMtInfo
      /\ logRestarted' = (logRestarted \/ log[e].bracketed)
  <2>1. CASE ~log[e].bracketed
    <3>1. UNCHANGED metaVars
      BY <2>1 DEF MeetsText
    <3> QED
      BY <1>0, <2>1, <3>1 DEF metaVars
  <2>2. CASE log[e].bracketed /\ logRestarted
    <3>1. ~EndsBypass(NoMeta) /\ gMtInfo.at # NoMeta.at
      BY <1>4 DEF EndsBypass, NoMeta
    <3>2. Bypass(NoMeta)
      BY <2>2, <3>1 DEF MeetsText, ParceMetaData, GoesOn, Restarts
    <3> QED
      BY <2>2, <3>1, <3>2 DEF Bypass
  <2>3. CASE log[e].bracketed /\ ~logRestarted
    <3>1. Latest(NoMeta) = gMtInfo /\ NoMeta.at = 0
      BY <2>3 DEF Latest, NoMeta
    <3>2. ~(Latest(NoMeta).at <= NoMeta.at)
      BY <1>4, <3>1
    <3>3. Restarts(NoMeta)
      BY <2>3, <3>2 DEF MeetsText, ParceMetaData, Bypass, GoesOn
    <3> QED
      BY <2>3, <3>1, <3>3 DEF Restarts
  <2> QED
    BY <1>0, <2>1, <2>2, <2>3
<1>6. anew' = anew
  BY <1>0, <1>5 DEF Anew
<1>7. \A d \in Entries : Text(e) = Text(d) <=> d = e
  BY TextLine
<1> QED
  BY <1>0, <1>1, <1>2, <1>3, <1>4, <1>5, <1>6, <1>7

LEMMA TextWritten ==
  ASSUME TypeOK, Replaying, NEW e \in Entries, MeetsText(e), Frame, Anew
  PROVE  /\ bypassed' = IF logRestarted' THEN bypassed \cup {e} ELSE bypassed
         /\ shown' \in [Entries -> 0..2]
         /\ logRestarted' => shown' = shown
         /\ \A d \in Entries : /\ shown[d] > 0 => shown'[d] > 0
                               /\ d # e => shown'[d] = shown[d]
                               /\ shown'[d] > 1 => shown[d] > 0
         /\ ~logRestarted' => shown'[e] > 0
<1>1. {d \in Entries : Text(e) = Text(d)} = {e}
  BY TextStep
<1>2. shown \in [Entries -> 0..2]
  BY EntryIs
<1>3. WriteLog(Text(e), logRestarted')
  BY DEF MeetsText
<1>4. CASE logRestarted'
  <2>1. bypassed' = bypassed \cup {e} /\ shown' = shown
    BY <1>1, <1>3, <1>4 DEF WriteLog
  <2>2. \A d \in Entries : shown[d] \in 0..2
    BY <1>2
  <2>3. \A d \in Entries : shown[d] > 1 => shown[d] > 0
    BY <2>2
  <2> QED
    BY <1>2, <1>4, <2>1, <2>3
<1>5. CASE ~logRestarted'
  <2>1. /\ bypassed' = bypassed
        /\ shown' = [d \in Entries |-> IF d \in {e} /\ shown[d] < 2 THEN shown[d] + 1 ELSE shown[d]]
    BY <1>1, <1>3, <1>5 DEF WriteLog
  <2>2. \A d \in Entries : shown[d] \in 0..2
    BY <1>2
  <2>3. \A d \in Entries : /\ d # e => shown'[d] = shown[d]
                           /\ d = e => shown'[d] = IF shown[d] < 2 THEN shown[d] + 1 ELSE shown[d]
    BY <2>1
  <2>4. \A d \in Entries : shown'[d] \in 0..2
    BY <2>2, <2>3
  <2>5. shown' \in [Entries -> 0..2]
    <3>1. shown' = [d \in Entries |-> shown'[d]]
      BY <2>1
    <3> QED
      BY <2>4, <3>1
  <2>6. \A d \in Entries : /\ shown[d] > 0 => shown'[d] > 0
                           /\ shown'[d] > 1 => shown[d] > 0
    BY <2>2, <2>3
  <2>7. shown'[e] > 0
    BY <2>2, <2>3
  <2> QED
    BY <1>5, <2>1, <2>3, <2>5, <2>6, <2>7
<1> QED
  BY <1>4, <1>5

LEMMA TextMet ==
  ASSUME TypeOK, Replaying, NEW e \in Entries, MeetsText(e), Frame, Anew
  PROVE  Replaying'
<1> USE DEF Replaying
<1>0. /\ Met = e /\ Told = e - 1 /\ Here.of = e /\ Told' = Met' /\ Met' \in Nat /\ e <= Met'
      /\ \A d \in (e + 1)..Met' : d <= gone
      /\ Here'.of = e \/ gone < Here'.of
      /\ latest \in Entries /\ latest # 0 /\ gMtInfo.at = log[latest].at
      /\ latest' = latest /\ gMtInfo' = gMtInfo /\ cMtInfo' = cMtInfo /\ anew' = anew
      /\ logRestarted' = (logRestarted \/ log[e].bracketed)
      /\ ~logRestarted => latest = e
  BY TextStep
<1>1. /\ log' = log /\ gone' = gone /\ Entries' = Entries
      /\ \A d : Excused(d)' <=> Excused(d)
      /\ \A t : Telling(t)' <=> Telling(t)
  BY SameLog
<1>2. /\ gMtInfo.at \in Nat /\ cMtInfo \in Nat /\ gone \in Nat /\ Len(log) \in Nat
      /\ e \in Nat /\ e >= 1 /\ e <= Len(log) /\ latest \in Nat /\ latest <= Len(log) /\ latest >= 1
      /\ \A d \in Entries : log[d].at \in Nat /\ d \in Nat /\ d >= 1
      /\ logRestarted \in BOOLEAN /\ anew \in BOOLEAN /\ log[e].bracketed \in BOOLEAN
  BY <1>0, EntryIs
<1>3. /\ bypassed' = IF logRestarted' THEN bypassed \cup {e} ELSE bypassed
      /\ logRestarted' => shown' = shown
      /\ \A d \in Entries : /\ shown[d] > 0 => shown'[d] > 0
                            /\ d # e => shown'[d] = shown[d]
                            /\ shown'[d] > 1 => shown[d] > 0
      /\ ~logRestarted' => shown'[e] > 0
  BY TextWritten
<1>4. (\A n : LikeLatest(n)' = LikeLatest(n)) /\ (BackBehind' <=> BackBehind)
  BY <1>0, SameLatest
<1>5. LatestKnown'
  BY <1>0, <1>1 DEF LatestKnown
<1>6. Told < Met /\ ~(Told' < Met')
  BY ONLY <1>0, <1>2
<1>7. log[e].bracketed => Excused(e)
  BY <1>2 DEF Excused, SameTime
<1>8. \A d \in 1..Met' : d \in 1..(e - 1) \/ d = e \/ d <= gone
  <2>1. \A d \in 1..Met' : d \in 1..(e - 1) \/ d = e \/ d \in (e + 1)..Met'
    BY <1>0, <1>2
  <2> QED
    BY <1>0, <2>1
<1>9. OnlyOldBypassed'
  <2>1. \A d \in bypassed : d \in Entries /\ (shown[d] > 0 \/ Excused(d))
    BY EntryIs DEF OnlyOldBypassed
  <2>2. logRestarted' => shown[e] > 0 \/ Excused(e)
    BY <1>0, <1>6, <1>7 DEF InHand
  <2> QED
    BY <1>1, <1>3, <2>1, <2>2 DEF OnlyOldBypassed
<1>10. AllAccounted'
  <2> SUFFICES ASSUME NEW d \in 1..Met' PROVE d <= gone \/ shown'[d] > 0 \/ d \in bypassed'
    BY <1>0, <1>1 DEF AllAccounted
  <2>1. CASE d \in 1..(e - 1)
    <3>1. d \in Entries
      BY <1>2, <2>1, EntryIs, SMTT(30)
    <3>2. d <= gone \/ shown[d] > 0 \/ d \in bypassed
      BY <1>0, <2>1 DEF AllAccounted
    <3> QED
      BY <1>3, <3>1, <3>2
  <2>2. CASE d = e
    BY <1>3, <2>2
  <2>3. CASE d <= gone
    BY <2>3
  <2> QED
    BY <1>8, <2>1, <2>2, <2>3
<1>11. InHand'
  BY <1>6 DEF InHand
<1>12. EarlierShown'
  <2>1. ASSUME NEW d \in 1..latest PROVE shown'[d] > 0 \/ Excused(d)
    <3>1. d \in Entries
      <4>1. d \in Nat /\ 1 <= d /\ d <= Len(log)
        BY <1>2
      <4> QED
        BY <4>1, EntryIs
    <3>2. shown[d] > 0 \/ Excused(d) \/ (d = e /\ ~logRestarted)
      <4>1. shown[d] > 0 \/ Excused(d) \/ (d = Met /\ Told < Met /\ ~logRestarted)
        BY DEF EarlierShown
      <4> QED
        BY <1>0, <4>1
    <3>3. d = e /\ ~logRestarted => shown'[d] > 0 \/ Excused(d)
      BY <1>0, <1>3, <1>7
    <3> QED
      BY <1>3, <3>1, <3>2, <3>3
  <2>2. \A d \in 1..latest : shown'[d] > 0 \/ Excused(d)'
    BY <1>1, <2>1
  <2> QED
    BY <1>0, <2>2 DEF EarlierShown
<1>13. InStep'
  <2> SUFFICES ASSUME ~logRestarted'
               PROVE  latest <= Met' /\ \A d \in (latest + 1)..Met' : d <= gone
    BY <1>0, <1>1 DEF InStep
  <2> QED
    BY <1>0
<1>14. CountAtMost'
  <2> SUFFICES ASSUME ~Excused(latest)
               PROVE  IF logRestarted'
                      THEN cMtInfo <= Cardinality(LikeLatest(latest) \ 1..Met') \/ BackBehind
                      ELSE (\E f \in 1..latest : log[f].at < gMtInfo.at /\ (f > gone \/ f = Here'.of))
                             => cMtInfo <= Cardinality(LikeLatest(latest))
    BY <1>0, <1>1, <1>4 DEF CountAtMost
  <2>1. CASE logRestarted
    <3>1. LikeLatest(latest) \ 1..Met' = LikeLatest(latest) \ 1..Met
      BY <1>0, PassedIsExcused
    <3>2. cMtInfo <= Cardinality(LikeLatest(latest) \ 1..Met) \/ BackBehind
      BY <1>0, <2>1 DEF CountAtMost
    <3>3. logRestarted'
      BY <1>0, <2>1
    <3> QED
      BY <3>1, <3>2, <3>3
  <2>2. CASE ~logRestarted /\ ~logRestarted'
    <3>1. \A f \in 1..latest : f > gone \/ f = Here'.of => f > gone \/ f = Here.of
      BY <1>0, <1>2
    <3> QED
      BY <1>0, <2>2, <3>1 DEF CountAtMost
  <2>3. CASE ~logRestarted /\ logRestarted'
    BY <1>0, <1>7, <2>3
  <2> QED
    BY <2>1, <2>2, <2>3
<1>15. NoneLater'
  <2>1. ASSUME NEW d \in Entries, shown'[d] > 0 PROVE log[d].at <= gMtInfo.at
    <3>1. CASE shown[d] > 0
      BY <3>1 DEF NoneLater
    <3>2. CASE ~(shown[d] > 0)
      <4>1. d = e /\ ~logRestarted
        BY <1>0, <1>3, <2>1, <3>2
      <4> QED
        BY <1>0, <1>2, <4>1
    <3> QED
      BY <3>1, <3>2
  <2>2. ASSUME NEW d \in 1..Met', d > gone PROVE log[d].at <= gMtInfo.at
    <3>1. d \in 1..e
      <4>1. ~(d <= gone)
        BY <1>2, <2>2
      <4> QED
        BY <1>2, <1>8, <4>1
    <3> QED
      BY <1>0, <2>2, <3>1 DEF NoneLater
  <2> QED
    BY <1>0, <1>1, <2>1, <2>2 DEF NoneLater
<1>16. CountAtLeast'
  <2> SUFFICES ASSUME Telling(gMtInfo.at)
               PROVE  /\ \A d \in LikeLatest(Len(log)) : shown'[d] > 0 => d <= latest
                      /\ IF anew THEN latest <= Met'
                         ELSE ~logRestarted' => Cardinality(LikeLatest(latest)) <= cMtInfo
                      /\ logRestarted' => Cardinality(LikeLatest(latest) \ 1..Met') <= cMtInfo
    BY <1>0, <1>1, <1>4 DEF CountAtLeast
  <2>1. /\ \A d \in LikeLatest(Len(log)) : shown[d] > 0 => d <= latest
        /\ IF anew THEN latest <= Met
           ELSE ~logRestarted => Cardinality(LikeLatest(latest)) <= cMtInfo
        /\ logRestarted => Cardinality(LikeLatest(latest) \ 1..Met) <= cMtInfo
    BY <1>0 DEF CountAtLeast
  <2>2. ASSUME NEW d \in LikeLatest(Len(log)), shown'[d] > 0 PROVE d <= latest
    <3>1. d \in Entries
      BY <1>2, EntryIs, SMTT(30) DEF LikeLatest
    <3>2. shown[d] > 0 \/ (d = e /\ latest = e)
      BY <1>0, <1>3, <2>2, <3>1
    <3> QED
      BY <1>2, <2>1, <3>2
  <2>3. anew => latest <= Met'
    BY <1>0, <1>2, <2>1
  <2>4. ~anew /\ ~logRestarted' => Cardinality(LikeLatest(latest)) <= cMtInfo
    BY <1>0, <2>1
  <2>5. ASSUME logRestarted' PROVE Cardinality(LikeLatest(latest) \ 1..Met') <= cMtInfo
    <3>1. CASE logRestarted
      <4>1. LikeLatest(latest) \ 1..Met' \in SUBSET (LikeLatest(latest) \ 1..e)
        BY <1>0, <1>2
      <4>2. IsFiniteSet(LikeLatest(latest) \ 1..e) /\ Cardinality(LikeLatest(latest) \ 1..e) \in Nat
        BY <1>2, LikeIs
      <4>3. Cardinality(LikeLatest(latest) \ 1..Met') \in Nat
        BY <1>0, <1>2, LikeIs
      <4>4. Cardinality(LikeLatest(latest) \ 1..Met') <= Cardinality(LikeLatest(latest) \ 1..e)
        BY <4>1, <4>2, FS_Subset
      <4>5. Cardinality(LikeLatest(latest) \ 1..e) <= cMtInfo
        BY <1>0, <2>1, <3>1
      <4> QED
        BY <1>2, <4>2, <4>3, <4>4, <4>5
    <3>2. CASE ~logRestarted
      <4>1. \A d \in LikeLatest(latest) : d \in 1..Met'
        <5>1. \A d \in LikeLatest(latest) : d \in 1..latest
          BY DEF LikeLatest
        <5>2. \A d \in 1..latest : d \in 1..Met'
          BY <1>0, <1>2, <3>2
        <5> QED
          BY <5>1, <5>2
      <4>2. LikeLatest(latest) \ 1..Met' = {}
        BY <4>1
      <4>3. Cardinality(LikeLatest(latest) \ 1..Met') = 0
        BY <4>2, FS_EmptySet
      <4> QED
        BY <1>2, <4>3
    <3> QED
      BY <3>1, <3>2
  <2> QED
    BY <1>2, <2>2, <2>3, <2>4, <2>5
<1>17. FirstTime'
  <2> SUFFICES ASSUME NEW d \in Entries, shown'[d] > 1 PROVE ~Telling(log[d].at)
    BY <1>1, <1>6 DEF FirstTime
  <2>1. CASE shown'[d] = shown[d]
    BY <2>1 DEF FirstTime
  <2>2. CASE shown'[d] # shown[d]
    <3>1. d = e /\ ~logRestarted /\ shown[e] > 0
      BY <1>0, <1>3, <2>2
    <3>2. shown[e] # 0
      BY <3>1, EntryIs
    <3> QED
      BY <1>0, <1>6, <3>1, <3>2 DEF FirstTime
  <2> QED
    BY <2>1, <2>2
<1> QED
  BY <1>5, <1>9, <1>10, <1>11, <1>12, <1>13, <1>14, <1>15, <1>16, <1>17

-----------------------------------------------------------------------------
(* Every step keeps the invariant.  First the loop of HandleLogData...      *)

LEMMA MetaTypes ==
  ASSUME TypeOK, NEW e \in Entries, MeetsMeta(e)
  PROVE  /\ gMtInfo' \in [at : Nat, by : Nat] /\ cMtInfo' \in Nat /\ logRestarted' \in BOOLEAN
         /\ latest' \in 0..Len(log)
         /\ Bypass(Info(e)) \/ GoesOn(Info(e)) \/ Restarts(Info(e))
<1>1. /\ gMtInfo \in [at : Nat, by : Nat] /\ cMtInfo \in Nat /\ gMtInfo.at \in Nat
      /\ logRestarted \in BOOLEAN /\ Info(e) \in [at : Nat, by : Nat]
      /\ latest \in Nat /\ latest <= Len(log) /\ Len(log) \in Nat
      /\ e \in Nat /\ 1 <= e /\ e <= Len(log) /\ Info(e).at = log[e].at /\ Info(e).at \in Nat
  BY EntryIs DEF TypeOK, Info
<1>2. Bypass(Info(e)) \/ GoesOn(Info(e)) \/ Restarts(Info(e))
  BY DEF MeetsMeta, ParceMetaData, Info
<1>3. latest' \in 0..Len(log)
  <2>1. latest' = latest \/ latest' = e
    BY DEF MeetsMeta
  <2> QED
    BY <1>1, <2>1
<1>4. [gMtInfo EXCEPT !.at = 0] \in [at : Nat, by : Nat]
  BY <1>1
<1>5. Latest(Info(e)) \in [at : Nat, by : Nat]
  BY <1>1, <1>4 DEF Latest
<1>6. gMtInfo' \in [at : Nat, by : Nat] /\ cMtInfo' \in Nat /\ logRestarted' \in BOOLEAN
  <2>1. CASE Bypass(Info(e))
    <3>1. /\ gMtInfo' = gMtInfo /\ logRestarted' = logRestarted
          /\ cMtInfo' = IF gMtInfo.at = Info(e).at THEN cMtInfo - 1 ELSE cMtInfo
          /\ ~(gMtInfo.at = Info(e).at /\ cMtInfo = 0)
      BY <2>1 DEF Bypass, EndsBypass
    <3> QED
      BY <1>1, <3>1
  <2>2. CASE GoesOn(Info(e))
    <3>1. /\ gMtInfo' = Info(e) /\ logRestarted' = FALSE
          /\ cMtInfo' = cMtInfo + 1 \/ cMtInfo' = 1
      BY <2>2 DEF GoesOn
    <3>2. gMtInfo' \in [at : Nat, by : Nat] /\ logRestarted' \in BOOLEAN
      BY <1>1, <3>1
    <3>3. cMtInfo' \in Nat
      BY <1>1, <3>1
    <3> QED
      BY <3>2, <3>3
  <2>3. CASE Restarts(Info(e))
    BY <1>1, <1>5, <2>3 DEF Restarts
  <2> QED
    BY <1>2, <2>1, <2>2, <2>3
<1> QED
  BY <1>2, <1>3, <1>6

(* Steps that leave the log alone leave its places alone.                   *)
LEMMA SamePlaces ==
  ASSUME TypeOK, UNCHANGED <<log, gone, cut, miscounted>>,
         last' \in Places \cup {Nothing}, chunk' \in Seq(Places), buf' \in Seq(Places),
         gMtInfo' \in [at : Nat, by : Nat], cMtInfo' \in Nat, logRestarted' \in BOOLEAN,
         shown' \in [Entries -> 0..2], latest' \in 0..Len(log), bypassed' \subseteq Entries,
         anew' \in BOOLEAN
  PROVE  TypeOK'
<1>1. Places' = Places /\ Entries' = Entries
  BY DEF Places, Entries
<1> QED
  BY <1>1 DEF TypeOK

LEMMA HandleLogDataKeeps ==
  ASSUME IInv, HandleLogData
  PROVE  IInv'
<1>0. TypeOK /\ InOrder /\ HalfLine /\ Replaying
  BY DEF IInv
<1>1. /\ InOrder' /\ HalfLine' /\ chunk' \in Seq(Places) /\ buf' \in Seq(Places)
      /\ Idle \/ \E e \in Entries : MeetsMeta(e) \/ MeetsText(e)
  BY <1>0, Round
<1>2. /\ UNCHANGED <<log, gone, last, cut, miscounted>> /\ Frame /\ Anew
      /\ last' \in Places \cup {Nothing} /\ anew' \in BOOLEAN
  <2>1. UNCHANGED <<log, gone, last, cut, miscounted>> /\ Frame /\ Anew
    BY DEF HandleLogData, deviceVars, Frame, Anew
  <2>2. last' \in Places \cup {Nothing}
    BY <1>0, <2>1 DEF TypeOK
  <2>3. anew' \in BOOLEAN
    BY <2>1 DEF Anew
  <2> QED
    BY <2>1, <2>2, <2>3
<1>3. /\ gMtInfo \in [at : Nat, by : Nat] /\ cMtInfo \in Nat /\ logRestarted \in BOOLEAN
      /\ shown \in [Entries -> 0..2] /\ latest \in 0..Len(log) /\ bypassed \subseteq Entries
      /\ anew \in BOOLEAN
  BY <1>0 DEF TypeOK
<1>4. CASE Idle
  <2>1. UNCHANGED <<gMtInfo, cMtInfo, logRestarted, shown, bypassed, latest>>
    BY <1>4 DEF Idle, metaVars
  <2>2. anew' = anew
    BY <1>2, <1>3, <2>1 DEF Anew
  <2>3. TypeOK'
    BY <1>0, <1>1, <1>2, <1>3, <2>1, SamePlaces
  <2>4. Replaying'
    BY <1>0, <1>2, <1>4, <2>2, IdleStep
  <2> QED
    BY <1>1, <2>3, <2>4 DEF IInv
<1>5. ASSUME NEW e \in Entries, MeetsMeta(e) PROVE IInv'
  <2>1. /\ gMtInfo' \in [at : Nat, by : Nat] /\ cMtInfo' \in Nat /\ logRestarted' \in BOOLEAN
        /\ latest' \in 0..Len(log)
        /\ Bypass(Info(e)) \/ GoesOn(Info(e)) \/ Restarts(Info(e))
    BY <1>0, <1>5, MetaTypes
  <2>2. shown' = shown /\ bypassed' = bypassed
    BY <1>5 DEF MeetsMeta
  <2>3. TypeOK'
    BY <1>0, <1>1, <1>2, <1>3, <2>1, <2>2, SamePlaces
  <2>4. Replaying'
    <3>1. CASE Bypass(Info(e))
      BY ONLY <1>0, <1>2, <1>5, <3>1, e \in Entries, MetaBypassed
    <3>2. CASE GoesOn(Info(e))
      BY ONLY <1>0, <1>2, <1>5, <3>2, e \in Entries, MetaGoesOn
    <3>3. CASE Restarts(Info(e))
      BY ONLY <1>0, <1>2, <1>5, <3>3, e \in Entries, MetaRestarts
    <3> QED
      BY <2>1, <3>1, <3>2, <3>3
  <2> QED
    BY <1>1, <2>3, <2>4 DEF IInv
<1>6. ASSUME NEW e \in Entries, MeetsText(e) PROVE IInv'
  <2>1. /\ latest' = latest /\ gMtInfo' = gMtInfo /\ cMtInfo' = cMtInfo
        /\ logRestarted' = (logRestarted \/ log[e].bracketed)
    BY <1>0, <1>2, <1>6, TextStep
  <2>2. /\ bypassed' = IF logRestarted' THEN bypassed \cup {e} ELSE bypassed
        /\ shown' \in [Entries -> 0..2]
    BY <1>0, <1>2, <1>6, TextWritten
  <2>3. bypassed' \subseteq Entries /\ logRestarted' \in BOOLEAN
    BY <1>3, <2>1, <2>2
  <2>4. TypeOK'
    BY <1>0, <1>1, <1>2, <1>3, <2>1, <2>2, <2>3, SamePlaces
  <2>5. Replaying'
    BY <1>0, <1>2, <1>6, TextMet
  <2> QED
    BY <1>1, <2>4, <2>5 DEF IInv
<1> QED
  BY <1>1, <1>4, <1>5, <1>6

(* ... then what the output and the connection do...                        *)

LEMMA DeliverKeeps ==
  ASSUME IInv, Deliver
  PROVE  IInv'
<1>0. TypeOK /\ InOrder /\ HalfLine /\ Replaying
  BY DEF IInv
<1>1. /\ InOrder' /\ HalfLine' /\ chunk' \in Seq(Places) /\ last' \in Places
      /\ Idle
  BY <1>0, Delivers
<1>2. /\ UNCHANGED <<log, gone, buf, gMtInfo, cMtInfo, logRestarted>>
      /\ UNCHANGED <<shown, bypassed, latest, cut, anew, miscounted>>
  BY DEF Deliver, deviceVars, metaVars, history
<1>3. Frame
  BY <1>2 DEF Frame
<1>4. /\ gMtInfo \in [at : Nat, by : Nat] /\ cMtInfo \in Nat /\ logRestarted \in BOOLEAN
      /\ shown \in [Entries -> 0..2] /\ latest \in 0..Len(log) /\ bypassed \subseteq Entries
      /\ anew \in BOOLEAN /\ buf \in Seq(Places)
  BY <1>0 DEF TypeOK
<1>5. TypeOK'
  BY <1>0, <1>1, <1>2, <1>4, SamePlaces
<1>6. Replaying'
  BY <1>0, <1>1, <1>2, <1>3, IdleStep
<1> QED
  BY <1>1, <1>5, <1>6 DEF IInv

(* Before anything is read, the output begins with the header.              *)
LEMMA Begins ==
  /\ chunk = << >> /\ last = Nothing
       => Here = Header /\ Met = 0 /\ Told = 0 /\ Here.of = 0 /\ InOrder
  /\ chunk' = << >> /\ last' = Nothing
       => Here' = Header /\ Met' = 0 /\ Told' = 0 /\ Here'.of = 0 /\ InOrder'
BY DEF Here, Header, Nothing, Met, Told, InOrder

(* A break loses what Open names, and forgets how far the output had come.  *)
LEMMA ReconnectKeeps ==
  ASSUME IInv, Reconnect
  PROVE  IInv'
<1> USE DEF Replaying
<1>0. TypeOK /\ InOrder /\ HalfLine /\ Replaying
  BY DEF IInv
<1>1. /\ chunk = << >> /\ chunk' = << >> /\ last' = Nothing /\ buf' = buf
      /\ log' = log /\ gone' = gone
      /\ gMtInfo' = gMtInfo /\ cMtInfo' = cMtInfo /\ logRestarted' = logRestarted
      /\ shown' = shown /\ bypassed' = bypassed /\ latest' = latest /\ anew' = anew
      /\ cut' = cut \cup {e \in Open : shown[e] = 0}
      /\ miscounted' = IF logRestarted \/ anew THEN miscounted \cup {gMtInfo.at} ELSE miscounted
  BY DEF Reconnect, Waiting, deviceVars, metaVars
<1>2. /\ Len(log) \in Nat /\ gone \in Nat /\ latest \in Nat /\ latest <= Len(log)
      /\ (latest # 0 => latest \in Entries) /\ cMtInfo \in Nat
      /\ logRestarted \in BOOLEAN /\ anew \in BOOLEAN
      /\ \A e : e \in Entries <=> e \in Nat /\ 1 <= e /\ e <= Len(log)
      /\ \A e \in Entries : shown[e] \in 0..2 /\ log[e].at \in Nat
  BY <1>0, EntryIs
<1>3. Here' = Header /\ Met' = 0 /\ Told' = 0 /\ Here'.of = 0 /\ InOrder'
  BY <1>1, Begins
<1>4. HalfLine'
  BY <1>0, <1>1, <1>3 DEF HalfLine
<1>5. Entries' = Entries /\ Places' = Places
  BY <1>1 DEF Entries, Places
<1>6. TypeOK'
  <2>1. {e \in Open : shown[e] = 0} \subseteq Entries
    BY DEF Open
  <2>2. gMtInfo.at \in Nat
    BY <1>0, EntryIs
  <2> QED
    BY <1>0, <1>1, <1>5, <2>1, <2>2 DEF TypeOK
<1>7. \A e : Excused(e) => Excused(e)'
  <2>1. \A e : (ClockWentBack(e)' <=> ClockWentBack(e)) /\ SameTime(e)' = SameTime(e)
    BY <1>1, <1>5 DEF ClockWentBack, SameTime
  <2> QED
    BY <1>1, <2>1 DEF Excused
<1>8. \A t : Telling(t)' => Telling(t) /\ (t = gMtInfo.at => ~logRestarted /\ ~anew)
  <2>1. \A e : ClockWentBack(e)' <=> ClockWentBack(e)
    BY <1>1 DEF ClockWentBack
  <2> QED
    BY <1>1, <1>5, <2>1 DEF Telling
<1>9. LatestKnown'
  BY <1>0, <1>1 DEF LatestKnown
<1>10. AllAccounted' /\ InHand'
  BY <1>3 DEF AllAccounted, InHand
<1>11. OnlyOldBypassed'
  BY <1>0, <1>1, <1>7 DEF OnlyOldBypassed
<1>12. EarlierShown'
  <2>1. ASSUME NEW e \in 1..latest PROVE shown[e] > 0 \/ Excused(e)'
    <3>1. CASE e = Met /\ Told < Met /\ shown[e] = 0
      <4>1. Here.of = e /\ e \in Entries
        BY <1>0, <3>1, MetIs
      <4>2. Here = [of |-> last.of, at |-> last.at + 1] /\ last.at \in 0..7
        BY <1>0, <1>1, LastIs DEF Here
      <4>3. last.of = e /\ ~(last.at + 1 <= 3) /\ last.at + 1 <= 6
        <5>1. PICK a \in Nat : a = last.at + 1
          BY <4>2
        <5>2. Here.of = last.of /\ Here.at = a
          BY <4>2, <5>1
        <5>3. e # 0
          BY <1>2, <4>1
        <5>4. ~(a <= 3)
          BY <1>2, <3>1, <4>1, <5>2, <5>3 DEF Met
        <5>5. a <= 6
          BY <1>2, <3>1, <4>1, <5>2, <5>3, <5>4 DEF Met, Told
        <5> QED
          BY <4>1, <5>1, <5>2, <5>4, <5>5
      <4>4. e \in Open
        BY <4>1, <4>2, <4>3 DEF Open
      <4>5. e \in cut' /\ e \in SameTime(e)'
        BY <1>1, <1>5, <3>1, <4>1, <4>4 DEF SameTime
      <4>6. e <= e
        BY <1>2, <4>1
      <4> QED
        BY <4>5, <4>6 DEF Excused
    <3>2. CASE ~(e = Met /\ Told < Met /\ shown[e] = 0)
      <4>1. e \in Entries
        BY <1>2
      <4>2. shown[e] # 0 => shown[e] > 0
        BY <1>2, <4>1
      <4> QED
        BY <1>0, <1>7, <3>2, <4>2 DEF EarlierShown
    <3> QED
      BY <3>1, <3>2
  <2> QED
    BY <1>1, <2>1 DEF EarlierShown
<1>13. InStep'
  BY <1>3 DEF InStep
<1>14. LikeLatest(latest)' = LikeLatest(latest) /\ LikeLatest(Len(log))' = LikeLatest(Len(log))
       /\ (BackBehind' <=> BackBehind)
  BY <1>1 DEF LikeLatest, BackBehind
<1>15. CountAtMost'
  <2> SUFFICES ASSUME latest # 0, ~Excused(latest)
               PROVE  IF logRestarted
                      THEN cMtInfo <= Cardinality(LikeLatest(latest) \ 1..0) \/ BackBehind
                      ELSE (\E f \in 1..latest : log[f].at < gMtInfo.at /\ (f > gone \/ f = 0))
                             => cMtInfo <= Cardinality(LikeLatest(latest))
    BY <1>1, <1>3, <1>7, <1>14 DEF CountAtMost
  <2>1. CASE logRestarted
    <3>1. cMtInfo <= Cardinality(LikeLatest(latest) \ 1..Met) \/ BackBehind
      BY <1>0, <2>1 DEF CountAtMost
    <3>2. LikeLatest(latest) \ 1..Met \in SUBSET LikeLatest(latest)
      OBVIOUS
    <3>3. /\ IsFiniteSet(LikeLatest(latest)) /\ Cardinality(LikeLatest(latest)) \in Nat
          /\ Cardinality(LikeLatest(latest) \ 1..Met) \in Nat
      BY <1>0, <1>2, LikeIs, MetIs
    <3>4. Cardinality(LikeLatest(latest) \ 1..Met) <= Cardinality(LikeLatest(latest))
      BY <3>2, <3>3, FS_Subset
    <3>5. LikeLatest(latest) \ 1..0 = LikeLatest(latest)
      OBVIOUS
    <3> QED
      BY <1>2, <2>1, <3>1, <3>3, <3>4, <3>5
  <2>2. CASE ~logRestarted
    <3>1. \A f \in 1..latest : f # 0
      OBVIOUS
    <3> QED
      BY <1>0, <2>2, <3>1 DEF CountAtMost
  <2> QED
    BY <2>1, <2>2
<1>16. NoneLater'
  BY <1>0, <1>1, <1>3, <1>5 DEF NoneLater
<1>17. CountAtLeast'
  <2> SUFFICES ASSUME latest # 0, Telling(gMtInfo.at), ~logRestarted, ~anew
               PROVE  /\ \A e \in LikeLatest(Len(log)) : shown[e] > 0 => e <= latest
                      /\ Cardinality(LikeLatest(latest)) <= cMtInfo
    BY <1>1, <1>8, <1>14 DEF CountAtLeast
  <2>1. /\ \A e \in LikeLatest(Len(log)) : shown[e] > 0 => e <= latest
        /\ IF anew THEN latest <= Met
           ELSE ~logRestarted => Cardinality(LikeLatest(latest)) <= cMtInfo
    BY <1>0 DEF CountAtLeast
  <2> QED
    BY <2>1
<1>18. FirstTime'
  <2>1. \A e \in Entries : shown[e] > 1 => ~Telling(log[e].at)'
    <3> SUFFICES ASSUME NEW e \in Entries, Telling(log[e].at)' PROVE Telling(log[e].at)
      BY <1>0 DEF FirstTime
    <3>1. log'[e].at = log[e].at
      BY <1>1
    <3> QED
      BY <1>8, <3>1
  <2> QED
    BY <1>1, <1>3, <1>5, <2>1 DEF FirstTime
<1> QED
  BY <1>3, <1>4, <1>6, <1>9, <1>10, <1>11, <1>12, <1>13, <1>15, <1>16, <1>17, <1>18 DEF IInv

(* ... what the device does: it never takes back what it logged, and at      *)
(* most makes an entry that was told about leave the buffer...              *)
LEMMA DeviceKeeps ==
  ASSUME TypeOK, Replaying, UNCHANGED <<metaVars, bypassed, latest, anew>>,
         Entries \subseteq Entries', Len(log)' \in Nat, Len(log) <= Len(log)', gone' \in Nat,
         gone <= gone',
         \A e \in Entries : log'[e] = log[e] /\ shown'[e] = shown[e],
         \A e \in Entries' : e \in Entries \/ shown'[e] = 0,
         Here' = Here, Met' = Met, Told' = Told,
         \A e \in Entries : Excused(e) => Excused(e)',
         \A e \in Entries : Telling(log[e].at)' => Telling(log[e].at)
  PROVE  Replaying'
<1> USE DEF Replaying
<1>1. /\ gMtInfo' = gMtInfo /\ cMtInfo' = cMtInfo /\ logRestarted' = logRestarted
      /\ bypassed' = bypassed /\ latest' = latest /\ anew' = anew
  BY DEF metaVars
<1>2. /\ Len(log) \in Nat /\ gone \in Nat /\ latest \in Nat /\ latest <= Len(log)
      /\ (latest # 0 => latest \in Entries) /\ bypassed \subseteq Entries
      /\ Met \in Nat /\ Met <= Len(log) /\ Told \in Nat /\ Told <= Met
      /\ (Told < Met => Met \in Entries)
      /\ \A e : e \in Entries <=> e \in Nat /\ 1 <= e /\ e <= Len(log)
      /\ \A e \in Entries : shown[e] \in 0..2 /\ log[e].at \in Nat
  BY EntryIs, MetIs
<1>3. /\ \A e \in 1..latest : e \in Entries
      /\ \A e \in 1..Met : e \in Entries
      /\ \A e \in 1..Told : e \in Entries
      /\ \A e \in (latest + 1)..Len(log) : e \in Entries
  <2>1. Entries = 1..Len(log)
    BY DEF Entries
  <2>2. /\ 1..latest \subseteq 1..Len(log)
        /\ 1..Met \subseteq 1..Len(log)
        /\ 1..Told \subseteq 1..Len(log)
        /\ (latest + 1)..Len(log) \subseteq 1..Len(log)
    BY <1>2
  <2> QED
    BY <2>1, <2>2
<1>4. \A e \in 1..Len(log)' : e \in Entries \/ e > Len(log)
  BY <1>2
<1>5. latest # 0 => gMtInfo.at = log[latest].at
  BY DEF LatestKnown
<1>6. LatestKnown'
  <2>1. CASE latest = 0
    BY <1>1, <2>1 DEF LatestKnown
  <2>2. CASE latest # 0
    <3>1. log'[latest] = log[latest] /\ latest' # 0
      BY <1>1, <1>2, <2>2
    <3>2. gMtInfo = [at |-> log[latest].at, by |-> log[latest].by]
      BY <2>2 DEF LatestKnown
    <3> QED
      BY <1>1, <3>1, <3>2 DEF LatestKnown
  <2> QED
    BY <2>1, <2>2
<1>7. AllAccounted'
  BY <1>1, <1>2, <1>3 DEF AllAccounted
<1>8. OnlyOldBypassed'
  <2>1. \A e \in bypassed : shown'[e] > 0 \/ Excused(e)'
    BY <1>2 DEF OnlyOldBypassed
  <2> QED
    BY <1>1, <2>1 DEF OnlyOldBypassed
<1>9. InHand'
  BY <1>1, <1>2 DEF InHand
<1>10. EarlierShown'
  <2>1. \A e \in 1..latest : shown'[e] > 0 \/ Excused(e)' \/ (e = Met /\ Told < Met /\ ~logRestarted)
    BY <1>3 DEF EarlierShown
  <2> QED
    BY <1>1, <2>1 DEF EarlierShown
<1>11. InStep'
  <2>1. \A e \in 1..Met : e <= gone => e <= gone'
    BY <1>2
  <2>2. \A e \in (latest + 1)..Met : e <= gone => e <= gone'
    BY <1>2
  <2> QED
    BY <1>1, <2>1, <2>2 DEF InStep
<1>12. LikeLatest(latest)' = LikeLatest(latest)
  BY <1>1, <1>3 DEF LikeLatest
<1>13. BackBehind => BackBehind'
  <2> SUFFICES ASSUME BackBehind PROVE BackBehind'
    OBVIOUS
  <2>1. PICK f \in (latest + 1)..Len(log) :
          /\ log[f].at < gMtInfo.at
          /\ \A e \in (latest + 1)..f : log[e].at # gMtInfo.at
    BY DEF BackBehind
  <2>2. f \in Nat /\ f <= Len(log)
    BY <1>2
  <2>3. \A e \in (latest + 1)..f : e \in Entries
    BY <1>2, <2>2
  <2>4. f \in (latest + 1)..Len(log)' /\ f \in Entries
    BY <1>2, <1>3, <2>2
  <2>5. log'[f].at < gMtInfo.at /\ \A e \in (latest + 1)..f : log'[e].at # gMtInfo.at
    BY <2>1, <2>3, <2>4
  <2> QED
    BY <1>1, <2>4, <2>5 DEF BackBehind
<1>14. CountAtMost'
  <2> SUFFICES ASSUME latest # 0, ~Excused(latest)
               PROVE  IF logRestarted
                      THEN cMtInfo <= Cardinality(LikeLatest(latest) \ 1..Met) \/ BackBehind
                      ELSE (\E f \in 1..latest : log'[f].at < gMtInfo.at /\ (f > gone' \/ f = Here.of))
                             => cMtInfo <= Cardinality(LikeLatest(latest))
    BY <1>1, <1>2, <1>12, <1>13 DEF CountAtMost
  <2>1. \A f \in 1..latest : log'[f].at = log[f].at /\ (f > gone' => f > gone)
    BY <1>2, <1>3
  <2> QED
    BY <2>1 DEF CountAtMost
<1>15. NoneLater'
  <2>1. \A e \in Entries' : shown'[e] > 0 => e \in Entries /\ shown[e] > 0
    BY <1>2
  <2>2. \A e \in 1..Met : e > gone' => e > gone
    BY <1>2
  <2>3. \A e \in Entries' : shown'[e] > 0 => log'[e].at <= gMtInfo.at
    BY <2>1 DEF NoneLater
  <2>4. \A e \in 1..Met : e > gone' => log'[e].at <= gMtInfo.at
    BY <1>3, <2>2 DEF NoneLater
  <2> QED
    BY <1>1, <2>3, <2>4 DEF NoneLater
<1>16. CountAtLeast'
  <2> SUFFICES ASSUME latest # 0, Telling(gMtInfo.at)
               PROVE  /\ \A e \in LikeLatest(Len(log))' : shown'[e] > 0 => e <= latest
                      /\ IF anew THEN latest <= Met
                         ELSE ~logRestarted => Cardinality(LikeLatest(latest)) <= cMtInfo
                      /\ logRestarted => Cardinality(LikeLatest(latest) \ 1..Met) <= cMtInfo
    BY <1>1, <1>2, <1>5, <1>12 DEF CountAtLeast
  <2>1. /\ \A e \in LikeLatest(Len(log)) : shown[e] > 0 => e <= latest
        /\ IF anew THEN latest <= Met
           ELSE ~logRestarted => Cardinality(LikeLatest(latest)) <= cMtInfo
        /\ logRestarted => Cardinality(LikeLatest(latest) \ 1..Met) <= cMtInfo
    BY DEF CountAtLeast
  <2>2. ASSUME NEW e \in LikeLatest(Len(log))', shown'[e] > 0 PROVE e <= latest
    <3>1. e \in 1..Len(log)' /\ log'[e].at = gMtInfo.at
      BY <1>1 DEF LikeLatest
    <3>2. e \in Entries' /\ shown'[e] # 0
      <4>1. e \in Entries'
        BY <3>1 DEF Entries
      <4>2. 0 # 1
        OBVIOUS
      <4> QED
        BY <2>2, <4>1
    <3>3. e \in Entries /\ shown[e] > 0 /\ log[e].at = gMtInfo.at
      BY <2>2, <3>1, <3>2
    <3>4. e \in LikeLatest(Len(log))
      BY <1>2, <3>3 DEF LikeLatest
    <3> QED
      BY <2>1, <3>3, <3>4
  <2> QED
    BY <2>1, <2>2
<1>17. FirstTime'
  <2>1. ASSUME NEW e \in Entries', shown'[e] > 1 PROVE ~Telling(log[e].at)'
    <3>1. e \in Entries
      BY <2>1
    <3>2. shown[e] > 1 /\ log'[e].at = log[e].at
      BY <2>1, <3>1
    <3> QED
      BY <3>1, <3>2 DEF FirstTime
  <2>2. Told < Met /\ ~logRestarted /\ Telling(log[Met].at)' => shown'[Met] = 0
    <3>1. Told < Met => log'[Met] = log[Met] /\ shown'[Met] = shown[Met] /\ Met \in Entries
      BY <1>2
    <3>2. log'[Met'].at = log'[Met].at
      OBVIOUS
    <3>3. Told < Met /\ Telling(log[Met].at)' => Telling(log[Met].at)
      BY <3>1, <3>2
    <3> QED
      BY <3>1, <3>3 DEF FirstTime
  <2> QED
    BY <1>1, <2>1, <2>2 DEF FirstTime
<1> QED
  BY <1>6, <1>7, <1>8, <1>9, <1>10, <1>11, <1>14, <1>15, <1>16, <1>17

(* A step while the chunk is empty, after which it still is.                *)
LEMMA StillWaits ==
  ASSUME HalfLine, chunk = << >>, chunk' = << >>, last' = last, buf' = buf
  PROVE  InOrder' /\ HalfLine' /\ Here' = Here /\ Met' = Met /\ Told' = Told
<1>1. Here' = Here
  BY DEF Here
<1> QED
  BY <1>1 DEF InOrder, HalfLine, Met, Told

LEMMA DropOldestKeeps ==
  ASSUME IInv, DropOldest
  PROVE  IInv'
<1>0. TypeOK /\ InOrder /\ HalfLine /\ Replaying
  BY DEF IInv
<1>1. /\ chunk = << >> /\ gone < Len(log) /\ gone' = gone + 1
      /\ UNCHANGED <<log, last, chunk, buf, gMtInfo, cMtInfo, logRestarted>>
      /\ UNCHANGED <<shown, bypassed, latest, cut, anew, miscounted>>
  BY DEF DropOldest, Waiting, metaVars, history
<1>2. Len(log) \in Nat /\ gone \in Nat
  BY <1>0, EntryIs
<1>3. Entries' = Entries /\ Places' = Places /\ gone' \in 0..Len(log) /\ gone <= gone'
  BY <1>1, <1>2 DEF Entries, Places
<1>4. TypeOK'
  BY <1>0, <1>1, <1>3 DEF TypeOK
<1>5. InOrder' /\ HalfLine' /\ Here' = Here /\ Met' = Met /\ Told' = Told
  BY <1>0, <1>1, StillWaits
<1>6. \A e : (ClockWentBack(e)' <=> ClockWentBack(e)) /\ SameTime(e)' = SameTime(e)
  BY <1>1, <1>3 DEF ClockWentBack, SameTime
<1>7. \A d \in Entries : /\ d <= gone => d <= gone'
                         /\ d > gone' => d > gone
  <2>1. \A d \in Entries : d \in Nat
    BY <1>0, EntryIs
  <2> QED
    BY <1>1, <1>2, <2>1
<1>8. ASSUME NEW e \in Entries, Excused(e) PROVE Excused(e)'
  <2>1. CASE ClockWentBack(e)
    BY <1>6, <2>1 DEF Excused
  <2>2. CASE \E d \in SameTime(e) : d <= e /\ (d <= gone \/ d \in cut \/ log[d].bracketed)
    <3>1. PICK d \in SameTime(e) : d <= e /\ (d <= gone \/ d \in cut \/ log[d].bracketed)
      BY <2>2
    <3>2. d \in Entries /\ d \in SameTime(e)'
      BY <1>6 DEF SameTime
    <3>3. d <= gone' \/ d \in cut' \/ log'[d].bracketed
      BY <1>1, <1>7, <3>1, <3>2
    <3> QED
      BY <3>1, <3>2, <3>3 DEF Excused
  <2> QED
    BY <1>8, <2>1, <2>2 DEF Excused
<1>9. \A t : Telling(t)' => Telling(t)
  BY <1>1, <1>3, <1>6, <1>7 DEF Telling
<1>10. \A e \in Entries : Telling(log[e].at)' => Telling(log[e].at)
  <2> SUFFICES ASSUME NEW e \in Entries, Telling(log[e].at)' PROVE Telling(log[e].at)
    OBVIOUS
  <2>1. log'[e].at = log[e].at
    BY <1>1
  <2> QED
    BY <1>9, <2>1
<1>11. Replaying'
  <2>1. UNCHANGED <<metaVars, bypassed, latest, anew>>
    BY <1>1 DEF metaVars
  <2>2. Entries \subseteq Entries' /\ Len(log)' \in Nat /\ Len(log) <= Len(log)' /\ gone' \in Nat
    BY <1>1, <1>2, <1>3
  <2>3. /\ \A e \in Entries : log'[e] = log[e] /\ shown'[e] = shown[e]
        /\ \A e \in Entries' : e \in Entries \/ shown'[e] = 0
    BY <1>1, <1>3
  <2> QED
    BY <1>0, <1>3, <1>5, <1>8, <1>10, <2>1, <2>2, <2>3, DeviceKeeps
<1> QED
  BY <1>4, <1>5, <1>11 DEF IInv

LEMMA LogKeeps ==
  ASSUME IInv, NEW entry \in Kinds, Log(entry)
  PROVE  IInv'
<1>0. TypeOK /\ InOrder /\ HalfLine /\ Replaying
  BY DEF IInv
<1>1. /\ chunk = << >> /\ Len(log) < MaxEntries
      /\ log' = Append(log, entry) /\ shown' = Append(shown, 0)
      /\ UNCHANGED <<gone, last, chunk, buf, gMtInfo, cMtInfo, logRestarted>>
      /\ UNCHANGED <<bypassed, latest, cut, anew, miscounted>>
  BY DEF Log, Waiting, metaVars
<1>2. /\ Len(log) \in Nat /\ gone \in Nat /\ gone <= Len(log) /\ MaxEntries \in Nat
      /\ log \in Seq(Kinds) /\ shown \in [1..Len(log) -> 0..2]
  BY <1>0, EntryIs, ConstantsAssumption DEF TypeOK, Entries
<1>3. shown \in Seq(0..2) /\ Len(shown) = Len(log)
  <2>1. shown \in Seq(0..2)
    BY <1>2
  <2>2. DOMAIN shown = 1..Len(log)
    BY <1>2
  <2> QED
    BY <1>2, <2>1, <2>2, LenProperties
<1>4. /\ log' \in Seq(Kinds) /\ Len(log') = Len(log) + 1
      /\ \A e \in 1..Len(log) : log'[e] = log[e]
  BY <1>1, <1>2, AppendProperties
<1>5. /\ shown' \in Seq(0..2) /\ Len(shown') = Len(log) + 1
      /\ \A e \in 1..Len(log) : shown'[e] = shown[e]
      /\ shown'[Len(log) + 1] = 0
  <2>1. 0 \in 0..2
    OBVIOUS
  <2> QED
    BY <1>1, <1>3, <2>1, AppendProperties
<1>6. /\ Entries = 1..Len(log) /\ Entries' = 1..(Len(log) + 1) /\ Entries \subseteq Entries'
      /\ \A e \in Entries' : e \in Entries \/ e = Len(log) + 1
  BY <1>2, <1>4 DEF Entries
<1>7. Places \subseteq Places'
  <2>1. 0..Len(log) \subseteq 0..Len(log')
    BY <1>2, <1>4
  <2> QED
    BY <2>1 DEF Places
<1>8. TypeOK'
  <2>1. shown' \in [Entries' -> 0..2]
    BY <1>5, <1>6, LenProperties
  <2>2. chunk' \in Seq(Places') /\ buf' \in Seq(Places')
    BY <1>0, <1>1, <1>7, SeqMonotonic DEF TypeOK
  <2>3. last' \in Places' \cup {Nothing}
    BY <1>0, <1>1, <1>7 DEF TypeOK
  <2>4. gone' \in 0..Len(log') /\ latest' \in 0..Len(log') /\ Len(log') <= MaxEntries
    <3>1. latest \in Nat /\ latest <= Len(log)
      BY <1>0, EntryIs
    <3> QED
      BY <1>1, <1>2, <1>4, <3>1
  <2>5. bypassed' \cup cut' \subseteq Entries'
    BY <1>0, <1>1, <1>6 DEF TypeOK
  <2>6. /\ gMtInfo' \in [at : Nat, by : Nat] /\ cMtInfo' \in Nat /\ logRestarted' \in BOOLEAN
        /\ anew' \in BOOLEAN /\ miscounted' \subseteq Nat
    BY <1>0, <1>1 DEF TypeOK
  <2> QED
    BY <1>4, <2>1, <2>2, <2>3, <2>4, <2>5, <2>6 DEF TypeOK
<1>9. InOrder' /\ HalfLine' /\ Here' = Here /\ Met' = Met /\ Told' = Told
  BY <1>0, <1>1, StillWaits
<1>10. /\ \A e \in Entries : e \in Nat /\ 1 <= e /\ e <= Len(log) /\ log'[e] = log[e]
       /\ \A e \in Entries : log[e].at \in Nat
  BY <1>0, <1>4, <1>6, EntryIs
<1>11. ASSUME NEW e \in Entries, Excused(e) PROVE Excused(e)'
  <2>1. CASE ClockWentBack(e)
    <3>1. PICK d \in 1..e, f \in 1..e : d < f /\ log[d].at > log[f].at
      BY <2>1 DEF ClockWentBack
    <3>2. d \in 1..Len(log) /\ f \in 1..Len(log)
      BY <1>2, <1>10
    <3>3. log'[d].at > log'[f].at
      BY <1>4, <3>1, <3>2
    <3> QED
      BY <3>1, <3>3 DEF Excused, ClockWentBack
  <2>2. CASE \E d \in SameTime(e) : d <= e /\ (d <= gone \/ d \in cut \/ log[d].bracketed)
    <3>1. PICK d \in SameTime(e) : d <= e /\ (d <= gone \/ d \in cut \/ log[d].bracketed)
      BY <2>2
    <3>2. d \in Entries /\ log'[d] = log[d] /\ log'[e] = log[e] /\ d \in Entries'
          /\ log[d].at = log[e].at
      BY <1>6, <1>10 DEF SameTime
    <3>3. d \in SameTime(e)'
      BY <3>2 DEF SameTime
    <3>4. d <= gone' \/ d \in cut' \/ log'[d].bracketed
      BY <1>1, <3>1, <3>2
    <3> QED
      BY <3>1, <3>3, <3>4 DEF Excused
  <2> QED
    BY <1>11, <2>1, <2>2 DEF Excused
(* If the new entry were the only one left before its time, the clock would *)
(* have gone back.                                                         *)
<1>12. ASSUME NEW e \in Entries, Telling(log[e].at)' PROVE Telling(log[e].at)
  <2>0. PICK t \in Nat : t = log[e].at /\ t = log'[e].at
    BY <1>10
  <2>1. /\ ~ClockWentBack(Len(log))' /\ t \notin miscounted'
        /\ \A c, d \in Entries' : log'[c].at = t /\ log'[d].at = t => log'[c].by = log'[d].by
        /\ \E d \in Entries' : d > gone' /\ log'[d].at < t
    BY <1>12, <2>0 DEF Telling
  <2>2. ~ClockWentBack(Len(log))
    <3> SUFFICES ASSUME ClockWentBack(Len(log)) PROVE FALSE
      OBVIOUS
    <3>1. PICK d \in 1..Len(log), f \in 1..Len(log) : d < f /\ log[d].at > log[f].at
      BY DEF ClockWentBack
    <3>2. d \in 1..Len(log') /\ f \in 1..Len(log')
      BY <1>2, <1>4
    <3>3. log'[d].at > log'[f].at
      BY <1>4, <3>1
    <3> QED
      BY <2>1, <3>1, <3>2, <3>3 DEF ClockWentBack
  <2>3. \A c, d \in Entries : log[c].at = t /\ log[d].at = t => log[c].by = log[d].by
    <3> SUFFICES ASSUME NEW c \in Entries, NEW d \in Entries, log[c].at = t, log[d].at = t
                 PROVE  log[c].by = log[d].by
      OBVIOUS
    <3>1. log'[c] = log[c] /\ log'[d] = log[d]
      BY <1>10
    <3>2. c \in Entries' /\ d \in Entries'
      BY <1>6
    <3> QED
      BY <2>1, <3>1, <3>2
  <2>4. \E d \in Entries : d > gone /\ log[d].at < t
    <3>1. PICK d \in Entries' : d > gone' /\ log'[d].at < t
      BY <2>1
    <3>2. ASSUME d = Len(log) + 1 PROVE FALSE
      <4>1. e \in 1..Len(log') /\ d \in 1..Len(log') /\ e < d
        BY <1>2, <1>4, <1>10, <3>2
      <4>2. log'[e].at > log'[d].at
        <5>1. log'[d].at \in Nat
          BY <1>4, <4>1, ElementOfSeq, ConstantsAssumption
        <5> QED
          BY <2>0, <3>1, <5>1
      <4> QED
        BY <2>1, <4>1, <4>2 DEF ClockWentBack
    <3>3. d \in Entries
      BY <1>6, <3>2
    <3> QED
      BY <1>1, <1>10, <3>1, <3>3
  <2>5. Telling(t)
    <3>1. t \notin miscounted
      BY <1>1, <2>1
    <3> QED
      BY ONLY <2>2, <2>3, <2>4, <3>1 DEF Telling
  <2> QED
    BY ONLY <2>0, <2>5
<1>13. Replaying'
  <2>1. UNCHANGED <<metaVars, bypassed, latest, anew>>
    BY <1>1 DEF metaVars
  <2>2. Entries \subseteq Entries' /\ Len(log)' \in Nat /\ Len(log) <= Len(log)' /\ gone' \in Nat
        /\ gone <= gone'
    BY <1>1, <1>2, <1>4, <1>6
  <2>3. /\ \A e \in Entries : log'[e] = log[e] /\ shown'[e] = shown[e]
        /\ \A e \in Entries' : e \in Entries \/ shown'[e] = 0
    BY <1>5, <1>6, <1>10
  <2> QED
    BY <1>0, <1>9, <1>11, <1>12, <2>1, <2>2, <2>3, DeviceKeeps
<1> QED
  BY <1>8, <1>9, <1>13 DEF IInv

(* ... and the start: nothing is known of what was logged before it.        *)
Fresh ==
  /\ chunk = << >> /\ buf = << >> /\ last = Nothing
  /\ gMtInfo = NoMeta /\ cMtInfo = 0 /\ logRestarted = FALSE
  /\ shown = [e \in Entries |-> 0] /\ bypassed = {}
  /\ latest = 0 /\ cut = {} /\ anew = FALSE /\ miscounted = {}

LEMMA FreshIsFine ==
  log \in Seq(Kinds) /\ Len(log) <= MaxEntries /\ gone \in 0..Len(log) /\ Fresh => IInv
<1> SUFFICES ASSUME log \in Seq(Kinds), Len(log) <= MaxEntries, gone \in 0..Len(log), Fresh
             PROVE  IInv
  OBVIOUS
<1>1. Len(log) \in Nat /\ BufSize \in Nat /\ BufSize > 2
  BY ConstantsAssumption, LenProperties
<1>2. Here = Header /\ Met = 0 /\ Told = 0 /\ Here.of = 0 /\ InOrder
  BY Begins DEF Fresh
<1>3. HalfLine
  <2>1. Len(buf) = 0
    BY DEF Fresh
  <2> QED
    BY <1>1, <1>2, <2>1 DEF HalfLine
<1>4. TypeOK
  <2>1. shown \in [Entries -> 0..2]
    BY DEF Fresh
  <2>2. {chunk, buf} \subseteq Seq(Places)
    BY DEF Fresh
  <2>3. gMtInfo \in [at : Nat, by : Nat] /\ cMtInfo \in Nat /\ logRestarted \in BOOLEAN
    <3>1. NoMeta \in [at : Nat, by : Nat]
      BY DEF NoMeta
    <3>2. gMtInfo = NoMeta /\ cMtInfo = 0 /\ logRestarted = FALSE
      BY DEF Fresh
    <3>3. gMtInfo \in [at : Nat, by : Nat]
      BY <3>1, <3>2
    <3>4. cMtInfo \in Nat
      BY <3>2
    <3>5. logRestarted \in BOOLEAN
      BY <3>2, Zenon
    <3> QED
      BY <3>3, <3>4, <3>5
  <2>4. latest \in 0..Len(log)
    BY <1>1 DEF Fresh
  <2>5. bypassed \cup cut \subseteq Entries /\ miscounted \subseteq Nat
    BY DEF Fresh
  <2>6. anew \in BOOLEAN
    BY Zenon DEF Fresh
  <2>7. last \in Places \cup {Nothing}
    BY DEF Fresh
  <2> QED
    BY <2>1, <2>2, <2>3, <2>4, <2>5, <2>6, <2>7 DEF TypeOK
<1>5. \A e \in Entries : ~(shown[e] > 0) /\ ~(shown[e] > 1)
  BY DEF Fresh
<1>6. LatestKnown /\ OnlyOldBypassed
  BY DEF Fresh, LatestKnown, OnlyOldBypassed
<1>7. AllAccounted /\ InHand /\ EarlierShown /\ InStep
  BY <1>2 DEF Fresh, AllAccounted, InHand, EarlierShown, InStep
<1>8. CountAtMost /\ CountAtLeast
  BY DEF Fresh, CountAtMost, CountAtLeast
<1>9. NoneLater /\ FirstTime
  BY <1>2, <1>5 DEF NoneLater, FirstTime
<1> QED
  BY <1>2, <1>3, <1>4, <1>6, <1>7, <1>8, <1>9 DEF IInv, Replaying

LEMMA InitIsFine == Init => IInv
<1> SUFFICES ASSUME Init PROVE IInv
  OBVIOUS
<1>1. log = << >> /\ gone = 0
  BY DEF Init
<1>2. log \in Seq(Kinds) /\ Len(log) = 0 /\ Entries = {}
  BY <1>1 DEF Entries
<1>3. Len(log) <= MaxEntries /\ gone \in 0..Len(log)
  BY <1>1, <1>2, ConstantsAssumption
<1>4. shown = [e \in Entries |-> 0]
  <2>1. DOMAIN << >> = 1..0 /\ 1..0 = {}
    OBVIOUS
  <2>2. [e \in Entries |-> 0] = << >>
    BY <1>2
  <2> QED
    BY <2>2 DEF Init
<1>5. Fresh
  BY <1>4 DEF Fresh, Init
<1> QED
  BY <1>2, <1>3, <1>5, FreshIsFine

LEMMA FreshThen ==
  (log \in Seq(Kinds) /\ Len(log) <= MaxEntries /\ gone \in 0..Len(log) /\ Fresh)' => IInv'
BY FreshIsFine, PTL

LEMMA RestartKeeps ==
  ASSUME IInv, NEW reset \in BOOLEAN, Restart(reset)
  PROVE  IInv'
<1>1. TypeOK
  BY DEF IInv
<1>2. log \in Seq(Kinds) /\ Len(log) <= MaxEntries /\ gone \in 0..Len(log) /\ Len(log) \in Nat
  BY <1>1, TypeIs DEF TypeOK
<1>3. log' = log /\ Entries' = Entries
  BY DEF Restart, Entries
<1>4. gone' \in 0..Len(log')
  BY <1>2, <1>3 DEF Restart
<1>5. Fresh'
  BY <1>3 DEF Restart, Fresh
<1> QED
  BY <1>2, <1>3, <1>4, <1>5, FreshThen

LEMMA Stutters ==
  ASSUME IInv, UNCHANGED vars
  PROVE  IInv'
<1>0. TypeOK /\ InOrder /\ HalfLine /\ Replaying
  BY DEF IInv
<1>1. /\ UNCHANGED <<log, gone, last, chunk, buf, gMtInfo, cMtInfo, logRestarted>>
      /\ UNCHANGED <<shown, bypassed, latest, cut, anew, miscounted, metaVars>> /\ Frame
  BY DEF vars, deviceVars, metaVars, history, Frame
<1>2. TypeOK' /\ InOrder'
  BY <1>0, <1>1 DEF TypeOK, Places, Entries, InOrder, Follows
<1>3. Here' = Here
  BY <1>1 DEF Here
<1>4. HalfLine' /\ Met' = Met /\ Told' = Told
  BY <1>0, <1>1, <1>3 DEF HalfLine, Met, Told
<1>5. Idle
  <2>1. Met \in Nat /\ Told \in Nat /\ Told <= Met
    BY <1>0, MetIs
  <2>2. Passes(Met)
    BY <2>1 DEF Passes
  <2> QED
    BY <1>1, <1>3, <1>4, <2>1, <2>2 DEF Idle
<1>6. Replaying'
  BY <1>0, <1>1, <1>5, IdleStep
<1> QED
  BY <1>2, <1>4, <1>6 DEF IInv

LEMMA NextKeeps == IInv /\ [Next]_vars => IInv'
<1> SUFFICES ASSUME IInv, [Next]_vars PROVE IInv'
  OBVIOUS
<1>1. CASE DropOldest
  BY <1>1, DropOldestKeeps
<1>2. CASE \E entry \in Kinds : Log(entry)
  BY <1>2, LogKeeps
<1>3. CASE Deliver
  BY <1>3, DeliverKeeps
<1>4. CASE Reconnect
  BY <1>4, ReconnectKeeps
<1>5. CASE HandleLogData
  BY <1>5, HandleLogDataKeeps
<1>6. CASE \E reset \in BOOLEAN : Restart(reset)
  BY <1>6, RestartKeeps
<1>7. CASE UNCHANGED vars
  BY <1>7, Stutters
<1> QED
  BY <1>1, <1>2, <1>3, <1>4, <1>5, <1>6, <1>7 DEF Next, Device, User

-----------------------------------------------------------------------------
(* What the invariant says of the properties.                               *)

LEMMA FirstTimeShowsOnce ==
  ASSUME IInv
  PROVE  ShownOnce
<1>1. TypeOK /\ FirstTime
  BY DEF IInv, Replaying
<1> SUFFICES ASSUME NEW e \in Entries, shown[e] > 1
             PROVE  \/ \E d \in SameTime(e) : log[d].by # log[e].by
                    \/ \A d \in (gone + 1)..e : log[d].at >= log[e].at
                    \/ log[e].at \in miscounted
                    \/ ClockWentBack(Len(log))
  BY DEF ShownOnce
<1>2. ~Telling(log[e].at)
  BY <1>1 DEF FirstTime
<1>3. \/ ClockWentBack(Len(log)) \/ log[e].at \in miscounted
      \/ \E c, d \in Entries : log[c].at = log[e].at /\ log[d].at = log[e].at /\ log[c].by # log[d].by
      \/ \A d \in Entries : ~(d > gone /\ log[d].at < log[e].at)
  BY <1>2 DEF Telling
<1>4. CASE \E c, d \in Entries :
             log[c].at = log[e].at /\ log[d].at = log[e].at /\ log[c].by # log[d].by
  BY <1>4 DEF SameTime
<1>5. CASE \A d \in Entries : ~(d > gone /\ log[d].at < log[e].at)
  <2>1. ASSUME NEW d \in (gone + 1)..e PROVE log[d].at >= log[e].at
    <3>1. gone \in Nat /\ Len(log) \in Nat /\ e \in Nat /\ e <= Len(log)
      BY <1>1, EntryIs
    <3>2. d \in Nat /\ d >= 1 /\ d <= Len(log) /\ d > gone
      BY <3>1
    <3>3. d \in Entries /\ log[d].at \in Nat /\ log[e].at \in Nat
      BY <1>1, <3>2, EntryIs
    <3> QED
      BY <1>5, <3>2, <3>3
  <2> QED
    BY <2>1
<1> QED
  BY <1>3, <1>4, <1>5

LEMMA AllReadIsAccounted ==
  ASSUME IInv
  PROVE  EveryEntryShown
<1>1. TypeOK /\ AllAccounted
  BY DEF IInv, Replaying
<1> SUFFICES ASSUME chunk = << >>, Ready = 0, NEW e \in Entries
             PROVE  e <= gone \/ e \in bypassed \/ shown[e] > 0
  BY DEF EveryEntryShown
<1>2. /\ Len(log) \in Nat /\ e \in Nat /\ 1 <= e /\ e <= Len(log)
  BY <1>1, EntryIs
<1>3. /\ last.of \in 0..Len(log) /\ last.at \in 0..7
      /\ Rest \in 0..7 /\ Until \in 0..Len(log) /\ (Until = last.of \/ Until = gone)
      /\ Here = [of |-> last.of, at |-> last.at + 1]
  BY <1>1, LastIs DEF Here
<1>4. Rest + 7 * (Len(log) - Until) = 0
  BY DEF Ready
<1>5. Rest = 0 /\ Until = Len(log)
  BY ONLY <1>2, <1>3, <1>4
<1>6. CASE Until = gone
  BY <1>2, <1>5, <1>6
<1>7. CASE Until = last.of
  <2>1. last.of # 0 /\ last.at = 7
    BY <1>2, <1>3, <1>5, <1>7 DEF Rest, Pieces
  <2>2. Here.of = last.of /\ Here.at = 8
    BY <1>3, <2>1
  <2>3. Told = Len(log)
    BY <1>5, <1>7, <2>2 DEF Told
  <2>4. e \in 1..Told
    BY <1>2, <2>3
  <2> QED
    BY <1>1, <2>4 DEF AllAccounted
<1> QED
  BY <1>3, <1>6, <1>7

-----------------------------------------------------------------------------
(* The theorems.                                                           *)

LEMMA AlwaysIInv == Spec => []IInv
<1>1. Init => IInv
  BY InitIsFine
<1>2. IInv /\ [Next]_vars => IInv'
  BY NextKeeps
<1> QED
  BY <1>1, <1>2, PTL DEF Spec

(* getLine: wherever the output is cut into chunks, HandleLogData is given  *)
(* the lines that logcat printed, whole and one by one, or a line that is   *)
(* broken because the connection was.                                      *)
THEOREM LinesArePrinted == Spec => []LinesAsPrinted
<1>1. IInv => LinesAsPrinted
  BY LineIsPrinted DEF IInv
<1> QED
  BY <1>1, AlwaysIInv, PTL

(* ParceMetaData: however often the output starts again, what it makes      *)
(* WriteLog bypass was shown before, unless the clock went back, or an      *)
(* entry of the same millisecond was dropped by the device, cut off by the  *)
(* break, or mistaken for metadata.                                        *)
THEOREM OldIsBypassed == Spec => []OnlyOldBypassed
<1>1. IInv => OnlyOldBypassed
  BY DEF IInv, Replaying
<1> QED
  BY <1>1, AlwaysIInv, PTL

(* ParceMetaData: WriteLog writes an entry to the archive twice only where  *)
(* cMtInfo cannot tell, or was miscounted by an earlier break.              *)
THEOREM EachShownOnce == Spec => []ShownOnce
<1>1. IInv => ShownOnce
  BY FirstTimeShowsOnce
<1> QED
  BY <1>1, AlwaysIInv, PTL

(* HandleLogData: when the program has caught up with the device, no entry  *)
(* that is still in its buffer was left out: it was shown or bypassed.      *)
THEOREM AllIsShown == Spec => []EveryEntryShown
<1>1. IInv => EveryEntryShown
  BY AllReadIsAccounted
<1> QED
  BY <1>1, AlwaysIInv, PTL
=============================================================================
