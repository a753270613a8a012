---------------------------- MODULE LogcatReplay ----------------------------
(***************************************************************************)
(* Reading the log of a device: the loop of LogcatLogSupplier::Work,       *)
(* LogParcer::getLine, and HandleLogData with ParceMetaData and WriteLog    *)
(* (LogReceiverAdb.cpp).                                                   *)
(*                                                                         *)
(* `logcat -v long' prints the whole ring buffer of the device and then     *)
(* what is logged from then on.  An entry is a line of metadata (time of   *)
(* day, process, thread) and its text.  The output arrives in chunks cut    *)
(* anywhere.  When the connection breaks the command is started again and   *)
(* prints the buffer once more; what was shown before is recognised by the  *)
(* time going back, and bypassed until the time of the latest entry.       *)
(***************************************************************************)
EXTENDS Integers, Sequences, FiniteSetsExt

CONSTANTS
  Kinds,        \* what is logged: time of day in milliseconds, by whom (pid, tid
                \* and length of the line of metadata), and if the text is "[...]"
  BufSize,      \* LOGGER_ENTRY_MAX_LEN: no line that is printed is longer
  MaxEntries,   \* entries the device logs (bounds the model)
  ChunkSizes    \* how much of the output arrives at a time, if there is that much

ASSUME ConstantsAssumption ==
  /\ Kinds \subseteq [at : Nat \ {0}, by : Nat \ {0}, bracketed : BOOLEAN]
  /\ MaxEntries \in Nat /\ BufSize \in Nat /\ BufSize > 2
  /\ ChunkSizes \subseteq Nat \ {0}

VARIABLES
  log,          \* all the device logged
  gone,         \* entries that have left the ring buffer
  last,         \* what logcat printed last: piece `at' of an entry, 0 is the header
  chunk,        \* what HandleLogData has still to look at
  buf,          \* LogParcer::_buf of mt
  gMtInfo,      \* the latest entry
  cMtInfo,      \* entries like it with the same time
  logRestarted, \* entries are bypassed
  shown,        \* whether an entry was written to the archive once, twice (history)
  bypassed,     \* entries that were bypassed (history)
  latest,       \* the entry gMtInfo is about (history)
  cut,          \* entries whose text was lost behind their metadata (history)
  anew,         \* cMtInfo counts only what came behind a break (history)
  miscounted    \* times of which cMtInfo said too little at a break (history)

deviceVars == <<log, gone>>
metaVars   == <<gMtInfo, cMtInfo, logRestarted>>
history    == <<shown, bypassed, latest, cut, anew, miscounted>>
vars       == <<deviceVars, last, chunk, buf, metaVars, history>>

Entries == 1..Len(log)

-----------------------------------------------------------------------------
(* What logcat prints, in pieces, which are named by their place: the line  *)
(* of metadata and the line of text in two pieces each, so that a chunk may *)
(* end inside of them, a line end behind the one and two behind the other;  *)
(* and at the start the header ("--------- beginning of main").            *)

Pieces(e)  == IF e = 0 THEN 2 ELSE 7
NewLine(p) == IF p.of = 0 THEN p.at = 2 ELSE p.at \in {3, 6, 7}

Header  == [of |-> 0, at |-> 1]
Meta(e) == << [of |-> e, at |-> 1], [of |-> e, at |-> 2] >>
Text(e) == << [of |-> e, at |-> 4], [of |-> e, at |-> 5] >>

(* What can be read now: the rest of the entry being printed, and the       *)
(* entries after it that are still in the buffer.                          *)
Rest  == Pieces(last.of) - last.at
Until == Max({last.of, gone})
Ready == Rest + 7 * (Len(log) - Until)
Coming(k) ==
  IF k <= Rest THEN [of |-> last.of, at |-> last.at + k]
  ELSE [of |-> Until + 1 + (k - Rest - 1) \div 7, at |-> 1 + ((k - Rest - 1) % 7)]

Nothing == [of |-> 0, at |-> 0]   \* logcat was just started
NoMeta == [at |-> 0, by |-> 0]

Init ==
  /\ log = << >> /\ gone = 0
  /\ last = Nothing
  /\ chunk = << >>
  /\ buf = << >>
  /\ gMtInfo = NoMeta /\ cMtInfo = 0 /\ logRestarted = FALSE
  /\ shown = << >> /\ bypassed = {} /\ latest = 0 /\ cut = {}
  /\ anew = FALSE /\ miscounted = {}

-----------------------------------------------------------------------------
(* The device and the connection to it, which are outside the program.     *)
(* What is logged, or leaves the buffer, while a chunk is handled, is not   *)
(* seen before the next chunk: it is modelled as logged, or gone, after it. *)
Waiting == chunk = << >>

(* An entry is logged; at midnight, or when the clock is set, the time goes *)
(* back.                                                                   *)
Log(entry) ==
  /\ Waiting
  /\ Len(log) < MaxEntries
  /\ log' = Append(log, entry)
  /\ shown' = Append(shown, 0)
  /\ UNCHANGED <<gone, last, chunk, buf, metaVars, bypassed, latest, cut, anew, miscounted>>

(* The ring buffer is full: its oldest entry makes room.                    *)
DropOldest ==
  /\ Waiting
  /\ gone < Len(log)
  /\ gone' = gone + 1
  /\ UNCHANGED <<log, last, chunk, buf, metaVars, history>>

Deliver ==
  /\ Waiting
  /\ Ready > 0
  /\ \E c \in ChunkSizes :
       LET read == Min({c, Ready}) IN
       /\ chunk' = [k \in 1..read |-> Coming(k)]
       /\ last' = Coming(read)
  /\ UNCHANGED <<deviceVars, buf, metaVars, history>>

(* The entry whose line of metadata has arrived and whose line of text has  *)
(* not.                                                                    *)
Open == {e \in Entries : last.of = e /\ last.at \in 3..5}

(* The connection breaks; Work starts logcat again a second later.  What is *)
(* in mt stays there.                                                      *)
Reconnect ==
  /\ Waiting
  /\ cMtInfo <= MaxEntries   \* it may rise with every break (bounds the model)
  /\ last' = Nothing
  /\ cut' = cut \cup {e \in Open : shown[e] = 0}
  /\ miscounted' = IF logRestarted \/ anew THEN miscounted \cup {gMtInfo.at} ELSE miscounted
  /\ UNCHANGED <<deviceVars, chunk, buf, metaVars, shown, bypassed, latest, anew>>

-----------------------------------------------------------------------------
(* LogParcer::getLine.                                                     *)

(* The first place from i on where the chunk is at a line end, or is not at *)
(* one, or ends.                                                           *)
LineEnd(i) == Min({j \in i..(Len(chunk) + 1) : j <= Len(chunk) => NewLine(chunk[j])})
LineGo(i)  == Min({j \in i..(Len(chunk) + 1) : j <= Len(chunk) => ~NewLine(chunk[j])})

Wrong_LineStart == LineGo(1)   \* line ends are skipped behind half a line, too
LineStart == IF buf = << >> THEN LineGo(1) ELSE 1

LineStop ==
  LET start == LineStart IN Min({LineEnd(start), start + BufSize - Len(buf)})

Line == buf \o SubSeq(chunk, LineStart, LineStop - 1)
Completed ==
  \/ /\ Line # << >>
     /\ LET stop == LineStop IN stop <= Len(chunk) /\ NewLine(chunk[stop])
  \/ Len(Line) = BufSize

-----------------------------------------------------------------------------
(* HandleLogData: what is done with a line.                                *)

IsMeta(line) == \E e \in Entries : line = Meta(e)
(* Text that begins with "[" and ends with "]" is parsed as metadata, too,  *)
(* and found to be none after the time was set to 0.                       *)
IsOdd(line) == \E e \in Entries : log[e].bracketed /\ line = Text(e)

MtInfo(line) ==
  IF IsMeta(line) THEN LET e == line[1].of IN [at |-> log[e].at, by |-> log[e].by]
  ELSE NoMeta

(* ParceMetaData: bypassing ends behind the latest entry...                 *)
EndsBypass(mtInfo) ==
  gMtInfo.at < mtInfo.at \/ (gMtInfo.at = mtInfo.at /\ cMtInfo = 0)

Wrong_Bypass(mtInfo) ==   \* all of the latest millisecond is taken to be old
  /\ logRestarted /\ ~(gMtInfo.at < mtInfo.at)
  /\ UNCHANGED metaVars
Bypass(mtInfo) ==
  /\ logRestarted /\ ~EndsBypass(mtInfo)
  /\ cMtInfo' = IF gMtInfo.at = mtInfo.at THEN cMtInfo - 1 ELSE cMtInfo
  /\ UNCHANGED <<gMtInfo, logRestarted>>

(* ... and begins where the time goes back.                                 *)
Latest(mtInfo) == IF logRestarted THEN [gMtInfo EXCEPT !.at = 0] ELSE gMtInfo

Wrong_GoesOn(mtInfo) ==   \* the entries of a millisecond are not counted
  /\ ~logRestarted \/ EndsBypass(mtInfo)
  /\ Latest(mtInfo).at <= mtInfo.at
  /\ gMtInfo' = mtInfo
  /\ cMtInfo' = 1
  /\ logRestarted' = FALSE
GoesOn(mtInfo) ==
  /\ ~logRestarted \/ EndsBypass(mtInfo)
  /\ Latest(mtInfo).at <= mtInfo.at
  /\ gMtInfo' = mtInfo
  /\ cMtInfo' = IF Latest(mtInfo) = mtInfo THEN cMtInfo + 1 ELSE 1
  /\ logRestarted' = FALSE

Restarts(mtInfo) ==
  /\ ~logRestarted \/ EndsBypass(mtInfo)
  /\ Latest(mtInfo).at > mtInfo.at
  /\ gMtInfo' = Latest(mtInfo)
  /\ logRestarted' = TRUE
  /\ UNCHANGED cMtInfo

ParceMetaData(mtInfo) == Bypass(mtInfo) \/ GoesOn(mtInfo) \/ Restarts(mtInfo)

(* WriteLog: the text goes to the archive unless it is bypassed.            *)
WriteLog(line, restarted) ==
  LET whole == {e \in Entries : line = Text(e)} IN
  IF restarted
  THEN bypassed' = bypassed \cup whole /\ UNCHANGED shown
  ELSE shown' = [e \in Entries |-> IF e \in whole /\ shown[e] < 2 THEN shown[e] + 1 ELSE shown[e]]
       /\ UNCHANGED bypassed

HandleLine(line) ==
  /\ IF IsMeta(line) \/ IsOdd(line)
     THEN ParceMetaData(MtInfo(line))
     ELSE UNCHANGED metaVars
  /\ IF IsMeta(line)
     THEN UNCHANGED <<shown, bypassed>>
     ELSE WriteLog(line, logRestarted')
  /\ latest' = IF IsMeta(line) /\ ~logRestarted' THEN line[1].of ELSE latest

(* One round of its loop.                                                  *)
HandleLogData ==
  /\ chunk # << >>
  /\ IF Completed
     THEN HandleLine(Line) /\ buf' = << >>
     ELSE buf' = Line /\ UNCHANGED <<metaVars, shown, bypassed, latest>>
  /\ chunk' = SubSeq(chunk, LineGo(LineStop), Len(chunk))
  /\ anew' = (gMtInfo'.at = gMtInfo.at /\ (anew \/ (logRestarted /\ ~logRestarted')))
  /\ UNCHANGED <<deviceVars, last, cut, miscounted>>

(* LogReceiverAdb::stop, which ends the loop over the chunk, and start; the *)
(* buffer of the device is cleared if the user clears the log.              *)
Restart(reset) ==
  /\ last' = Nothing
  /\ chunk' = << >>
  /\ buf' = << >>
  /\ gMtInfo' = NoMeta /\ cMtInfo' = 0 /\ logRestarted' = FALSE
  /\ gone' = IF reset THEN Len(log) ELSE gone
  /\ shown' = [e \in Entries |-> 0] /\ bypassed' = {}
  /\ latest' = 0 /\ cut' = {} /\ anew' = FALSE /\ miscounted' = {}
  /\ UNCHANGED log

-----------------------------------------------------------------------------
Device == DropOldest \/ \E entry \in Kinds : Log(entry)
User   == \E reset \in BOOLEAN : Restart(reset)
Next == Device \/ Deliver \/ Reconnect \/ HandleLogData \/ User

Spec == Init /\ [][Next]_vars

-----------------------------------------------------------------------------
(* Properties.                                                             *)

Places == {p \in [of : 0..Len(log), at : 1..7] : p.at <= Pieces(p.of)}

TypeOK ==
  /\ log \in Seq(Kinds) /\ Len(log) <= MaxEntries
  /\ gone \in 0..Len(log)
  /\ last \in Places \cup {Nothing}
  /\ {chunk, buf} \subseteq Seq(Places)
  /\ gMtInfo \in [at : Nat, by : Nat] /\ cMtInfo \in Nat
  /\ logRestarted \in BOOLEAN
  /\ shown \in [Entries -> 0..2]
  /\ latest \in 0..Len(log)
  /\ bypassed \cup cut \subseteq Entries /\ anew \in BOOLEAN /\ miscounted \subseteq Nat
Lines == {<< Header >>} \cup {Meta(e) : e \in Entries} \cup {Text(e) : e \in Entries}

(* However the output is cut into chunks, a line that is handled is a line  *)
(* that was printed.  Only where the connection broke the first line of the *)
(* new output follows half a line of the old one.                          *)
LinesAsPrinted ==
  chunk # << >> /\ Completed => Line \in Lines \/ \E i \in DOMAIN Line : Line[i] = Header

ClockWentBack(e) == \E d, f \in 1..e : d < f /\ log[d].at > log[f].at
SameTime(e) == {d \in Entries : log[d].at = log[e].at}

Excused(e) ==
  \/ ClockWentBack(e)
  \/ \E d \in SameTime(e) : d <= e /\ (d <= gone \/ d \in cut \/ log[d].bracketed)

(* An entry that is bypassed before it was ever shown comes after the clock *)
(* went back, or it or one before it of the same millisecond has left the   *)
(* buffer, had its text cut off, or has its text in brackets.              *)
OnlyOldBypassed == \A e \in bypassed : shown[e] > 0 \/ Excused(e)

(* An entry is shown twice only if its millisecond is shared by another     *)
(* process, if no earlier one is left to tell that the output starts again,  *)
(* if the clock went back, or if a second break found its millisecond       *)
(* counted down in part, or counted from 1 again behind the first break.    *)
ShownOnce ==
  \A e \in Entries : shown[e] > 1 =>
    \/ \E d \in SameTime(e) : log[d].by # log[e].by
    \/ \A d \in (gone + 1)..e : log[d].at >= log[e].at
    \/ log[e].at \in miscounted
    \/ ClockWentBack(Len(log))

(* When all that can be read was read, every entry was shown, or was        *)
(* bypassed as OnlyOldBypassed says, or had left the buffer.  What a break  *)
(* cut off is among them: it is printed again.                             *)
EveryEntryShown ==
  chunk = << >> /\ Ready = 0 =>
    \A e \in Entries : e <= gone \/ e \in bypassed \/ shown[e] > 0

-----------------------------------------------------------------------------
(* The inductive invariant.                                                *)

(* What HandleLogData sees next, as far as that is known.                   *)
Here == IF chunk = << >> THEN [last EXCEPT !.at = @ + 1] ELSE chunk[1]

(* Entries from gone + 1 on are printed without a gap.                      *)
Follows(p, q) ==
  \/ p.at < Pieces(p.of) /\ q = [p EXCEPT !.at = @ + 1]
  \/ /\ p.at = Pieces(p.of) /\ q.at = 1
     /\ p.of < q.of /\ gone < q.of
     /\ \A d \in (p.of + 1)..(q.of - 1) : d <= gone

InOrder ==
  /\ \A i \in 1..(Len(chunk) - 1) : Follows(chunk[i], chunk[i + 1])
  /\ chunk # << >> => last = chunk[Len(chunk)]

(* Pieces of an entry: from the first one of a line up to, not including,   *)
(* piece n.                                                                *)
FirstOf(n) == IF n < 4 THEN 1 ELSE 4
Part(e, first, n) == [i \in 1..(n - first) |-> [of |-> e, at |-> first + i - 1]]

(* What is in mt: the part of a line that came before the next piece, or,   *)
(* behind a break, part of a broken line.                                  *)
HalfLine ==
  /\ Len(buf) < BufSize
  /\ \/ Here = Header
     \/ Here = [of |-> 0, at |-> 2] /\ \E i \in DOMAIN buf : buf[i] = Header
     \/ buf = IF Here.of = 0 \/ Here.at > 6 THEN << >>
              ELSE Part(Here.of, FirstOf(Here.at), Here.at)

(* How far the output has come since the last break: the metadata of the    *)
(* entries up to Met is behind, and the text of those up to Told.           *)
Met  == IF Here.of # 0 /\ Here.at <= 3 THEN Here.of - 1 ELSE Here.of
Told == IF Here.of # 0 /\ Here.at <= 6 THEN Here.of - 1 ELSE Here.of

AllAccounted ==
  \A e \in 1..Told : e <= gone \/ shown[e] > 0 \/ e \in bypassed

LatestKnown ==
  /\ latest = 0 => gMtInfo = NoMeta /\ cMtInfo = 0 /\ ~logRestarted
  /\ latest # 0 => gMtInfo = [at |-> log[latest].at, by |-> log[latest].by]

(* The entry between its metadata and its text.                            *)
InHand ==
  Told < Met =>
    IF logRestarted THEN shown[Met] > 0 \/ Excused(Met) ELSE latest = Met

EarlierShown ==
  \A e \in 1..latest : shown[e] > 0 \/ Excused(e) \/ (e = Met /\ Told < Met /\ ~logRestarted)

(* As long as nothing is bypassed, the latest entry is the one met last, or *)
(* nothing was met since the last break.                                   *)
InStep ==
  ~logRestarted =>
    \/ \A e \in 1..Met : e <= gone
    \/ /\ latest <= Met
       /\ \A e \in (latest + 1)..Met : e <= gone

LikeLatest(n) == {e \in 1..n : log[e].at = gMtInfo.at}

(* cMtInfo does not say too much: the entries of its millisecond that are   *)
(* still to come again.  Where the clock goes back behind them, the rest    *)
(* is as good as excused.                                                  *)
BackBehind ==
  \E f \in (latest + 1)..Len(log) :
    /\ log[f].at < gMtInfo.at
    /\ \A e \in (latest + 1)..f : log[e].at # gMtInfo.at

CountAtMost ==
  latest # 0 /\ ~Excused(latest) =>
    IF logRestarted
    THEN cMtInfo <= Cardinality(LikeLatest(latest) \ 1..Met) \/ BackBehind
    ELSE (\E f \in 1..latest : log[f].at < gMtInfo.at /\ (f > gone \/ f = Here.of))
           => cMtInfo <= Cardinality(LikeLatest(latest))

(* The time of the latest entry, if none of ShownOnce's exceptions is about *)
(* it.                                                                     *)
Telling(t) ==
  /\ ~ClockWentBack(Len(log)) /\ t \notin miscounted
  /\ \A d, e \in Entries : log[d].at = t /\ log[e].at = t => log[d].by = log[e].by
  /\ \E d \in Entries : d > gone /\ log[d].at < t

NoneLater ==
  /\ \A e \in Entries : shown[e] > 0 => log[e].at <= gMtInfo.at
  /\ \A e \in 1..Met : e > gone => log[e].at <= gMtInfo.at

(* ... nor too little.                                                     *)
CountAtLeast ==
  latest # 0 /\ Telling(gMtInfo.at) =>
    /\ \A e \in LikeLatest(Len(log)) : shown[e] > 0 => e <= latest
    /\ IF anew THEN latest <= Met
       ELSE ~logRestarted => Cardinality(LikeLatest(latest)) <= cMtInfo
    /\ logRestarted => Cardinality(LikeLatest(latest) \ 1..Met) <= cMtInfo

FirstTime ==
  /\ \A e \in Entries : shown[e] > 1 => ~Telling(log[e].at)
  /\ Told < Met /\ ~logRestarted /\ Telling(log[Met].at) => shown[Met] = 0

Replaying ==
  /\ LatestKnown /\ AllAccounted /\ OnlyOldBypassed /\ InHand /\ EarlierShown
  /\ InStep /\ CountAtMost /\ NoneLater /\ CountAtLeast /\ FirstTime

IInv == TypeOK /\ InOrder /\ HalfLine /\ Replaying
=============================================================================
