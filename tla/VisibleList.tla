---------------------------- MODULE VisibleList ----------------------------
(***************************************************************************)
(* What the list view shows: ListedNodes (Archive.h, Archive.cpp) and the  *)
(* search that goes with it (MainFrm.cpp, SearchInfo.h).  The UI thread    *)
(* brings both up to date, on a timer for what is new and from the start   *)
(* when a filter or the search changes, while a receiver goes on adding    *)
(* nodes and lengthening lines.  No lock is between the two: each look at  *)
(* a node is a step of its own here.                                       *)
(*                                                                         *)
(* A node is its number in the archive, 1 for the root; lines of the list  *)
(* count from 0 as in the code.  A text is the number of its matches.      *)
(***************************************************************************)
EXTENDS Integers, Sequences, Functions, FiniteSetsExt

CONSTANTS
  Threads,   \* threads whose nodes can be hidden in the tree view
  Contents,  \* what nodes can be filled with: kind, thread and hits
  MaxNodes,  \* size of the archive (bounds the model)
  MaxHits    \* a line with so many matches grows no more (bounds the model)

ASSUME ConstantsAssumption ==
  /\ Threads # {}
  /\ Contents \subseteq [kind : {"app", "flow", "trace"}, thread : Threads, hits : Nat]
  /\ MaxNodes \in Nat \ {0} /\ MaxHits \in Nat

VARIABLES
  node,      \* m_pNodes: for every node whether threadNode is set, kind, thread,
             \* hits, and lineSearchPos
  working,   \* gLogReceiver.working(); the timer runs then too
  listed,    \* m_pListNodes, a sequence of nodes
  listCount, \* ListedNodes::archiveCount
  search,    \* searchInfo: archiveCount, firstLine, lastLine, total, curLine
  searching, \* there is a text to search for
  filterOn,  \* bSearchFilterOn
  flowsHidden, \* gSettings.GetFlowTracesHiden()
  shown,     \* the threads that are checked
  pc,        \* what the UI thread is in: "idle", "search" or "list"
  job,       \* its local variables: reset, listToo, count, i, j, selected
  passed,    \* history: nodes updateList looked at too early
  calm       \* history: nothing went on during a refresh since the last reset

filters == <<searching, filterOn, flowsHidden, shown>>
vars    == <<node, working, listed, listCount, search, filters, pc, job, passed, calm>>

Root   == [filled |-> FALSE, kind |-> "app", thread |-> CHOOSE t \in Threads : TRUE,
           hits |-> 0, pos |-> 0]
NoNode == 0
NoLine == -1
Cleared == [archiveCount |-> 0, firstLine |-> 0, lastLine |-> 0, total |-> 0, curLine |-> NoLine]
NoJob   == [reset |-> FALSE, listToo |-> FALSE, count |-> 0, i |-> 0, j |-> 0, selected |-> NoNode]

Nodes == 1..Len(node)

TypeOK ==
  /\ node \in Seq([filled : BOOLEAN, kind : {"app", "flow", "trace"}, thread : Threads,
                   hits : Nat, pos : Nat])
  /\ working \in BOOLEAN
  /\ listed \in Seq(Nodes) /\ listCount \in 0..Len(node)
  /\ search \in [archiveCount : 0..Len(node), firstLine : Nat, lastLine : Nat,
                 total : Nat, curLine : Nat \cup {NoLine}]
  /\ searching \in BOOLEAN /\ filterOn \in BOOLEAN /\ flowsHidden \in BOOLEAN
  /\ shown \subseteq Threads
  /\ pc \in {"idle", "search", "list"}
  /\ job \in [reset : BOOLEAN, listToo : BOOLEAN, count : 0..Len(node), i : 0..Len(node),
              j : Nat, selected : Nodes \cup {NoNode}]
  /\ passed \subseteq Nodes
  /\ calm \in BOOLEAN

Init ==
  /\ node = <<Root>>
  /\ working = TRUE
  /\ listed = <<>> /\ listCount = 0
  /\ search = Cleared
  /\ searching = FALSE /\ filterOn = FALSE
  /\ flowsHidden \in BOOLEAN
  /\ shown = Threads
  /\ pc = "idle" /\ job = NoJob
  /\ passed = {} /\ calm = TRUE

(* isVisibleLog.  A node that is being added has no threadNode yet; nodes   *)
(* of applications and threads have none at all or are no information.      *)
Visible(n) ==
  /\ node[n].filled
  /\ node[n].kind # "app"
  /\ node[n].thread \in shown
  /\ node[n].kind = "trace" \/ ~flowsHidden

-----------------------------------------------------------------------------
(* The receiver, one thread at a time under the lock of the receivers.      *)

InRefresh == pc # "idle"

(* A node is counted before anything is in it.                              *)
Publish ==
  /\ working /\ Len(node) < MaxNodes
  /\ node[Len(node)].filled \/ Len(node) = 1
  /\ node' = Append(node, Root)
  /\ calm' = (calm /\ ~InRefresh)
  /\ UNCHANGED <<working, listed, listCount, search, filters, pc, job, passed>>

(* threadNode is set last.                                                  *)
Fill ==
  LET n == Len(node) IN
  /\ working /\ n > 1 /\ ~node[n].filled
  /\ \E c \in Contents :
       node' = [node EXCEPT ![n] = [filled |-> TRUE, kind |-> c.kind, thread |-> c.thread,
                                    hits |-> c.hits, pos |-> node[n].pos]]
  /\ calm' = (calm /\ ~InRefresh /\ n > listCount /\ n > search.archiveCount)
  /\ UNCHANGED <<working, listed, listCount, search, filters, pc, job, passed>>

(* A record continues the latest line of a thread.                          *)
IsLatest(n) ==
  /\ node[n].filled /\ node[n].kind = "trace"
  /\ \A m \in Nodes : m > n =>
       node[m].filled /\ ~(node[m].kind = "trace" /\ node[m].thread = node[n].thread)
Grow ==
  /\ working
  /\ \E n \in Nodes :
       /\ IsLatest(n) /\ node[n].hits < MaxHits
       /\ node' = [node EXCEPT ![n].hits = @ + 1]
       /\ calm' = (calm /\ ~InRefresh /\ n > search.archiveCount)
  /\ UNCHANGED <<working, listed, listCount, search, filters, pc, job, passed>>

-----------------------------------------------------------------------------
(* SearchRefresh.                                                          *)

NodeAt(line) == IF line + 1 \in DOMAIN listed THEN listed[line + 1] ELSE NoNode
Selected == IF search.curLine = NoLine THEN NoNode ELSE NodeAt(search.curLine)

(* Its head; a reset takes the text in the search box, which the user may   *)
(* have changed.                                                           *)
Wrong_Refresh(reset, listToo) ==   \* the results of the last search are not cleared
  /\ IF reset THEN searching' \in BOOLEAN /\ calm' = (calm \/ listToo)
              ELSE UNCHANGED searching /\ calm' = (calm /\ search.archiveCount = listCount)
  /\ search' = IF reset THEN [search EXCEPT !.archiveCount = 0] ELSE search
  /\ job' = [reset |-> reset, listToo |-> listToo, count |-> Len(node),
             i |-> search'.archiveCount, j |-> IF reset THEN 0 ELSE Len(listed),
             selected |-> Selected]
  /\ pc' = "search"
Refresh(reset, listToo) ==
  /\ IF reset
       THEN /\ searching' \in BOOLEAN
            /\ search' = Cleared
            /\ calm' = (calm \/ listToo)
       ELSE /\ UNCHANGED <<searching, search>>
            /\ calm' = (calm /\ search.archiveCount = listCount)
  /\ job' = [reset |-> reset, listToo |-> listToo, count |-> Len(node),
             i |-> search'.archiveCount, j |-> IF reset THEN 0 ELSE Len(listed),
             selected |-> Selected]
  /\ pc' = "search"

(* What the loop notes of a visible node with h matches: the number of the  *)
(* first, the lines of all, and the line the next visible node will have.   *)
FirstMatch(h) == IF h = 0 THEN 0 ELSE search.total + 1

Wrong_Found(n, h) ==   \* the current match is left where ClearSearchResults put it
  IF h = 0 THEN search ELSE
  [search EXCEPT !.firstLine = IF @ = 0 /\ search.total = 0 THEN job.j ELSE @,
                 !.lastLine = job.j,
                 !.total = @ + h]
Found(n, h) ==
  IF h = 0 THEN search ELSE
  [search EXCEPT !.firstLine = IF @ = 0 /\ search.total = 0 THEN job.j ELSE @,
                 !.lastLine = job.j,
                 !.total = @ + h,
                 !.curLine = IF job.reset /\ n = job.selected THEN job.j ELSE @]

Wrong_NextLine(h) == job.j + 1   \* the filter is not looked at
NextLine(h) == IF filterOn /\ h = 0 THEN job.j ELSE job.j + 1

(* The loop looks at the next node.                                         *)
SearchNode ==
  LET n == job.i + 1
      h == node[n].hits IN
  /\ pc = "search" /\ searching /\ job.i < job.count
  /\ IF Visible(n)
       THEN /\ node' = [node EXCEPT ![n].pos = FirstMatch(h)]
            /\ search' = Found(n, h)
            /\ job' = [job EXCEPT !.i = n, !.j = NextLine(h)]
       ELSE /\ job' = [job EXCEPT !.i = n]
            /\ UNCHANGED <<node, search>>
  /\ UNCHANGED <<working, listed, listCount, filters, pc, passed, calm>>

(* Its end, and the head of updateList, which asks for the count again.     *)
SearchDone ==
  /\ pc = "search" /\ (searching => job.i = job.count)
  /\ search' = [search EXCEPT !.archiveCount = job.count]
  /\ IF ~job.listToo
       THEN /\ pc' = "idle" /\ job' = NoJob
            /\ UNCHANGED <<listed, listCount, passed>>
       ELSE /\ pc' = "list"
            /\ job' = [job EXCEPT !.count = Len(node), !.i = IF job.reset THEN 0 ELSE listCount]
            /\ listed' = IF job.reset THEN <<>> ELSE listed
            /\ listCount' = IF job.reset THEN 0 ELSE listCount
            /\ passed' = IF job.reset THEN {} ELSE passed
  /\ UNCHANGED <<node, working, filters, calm>>

-----------------------------------------------------------------------------
(* updateList.                                                             *)

ListNode ==
  LET n == job.i + 1
      take == Visible(n) /\ (node[n].pos # 0 \/ ~filterOn)
      early == n > 1 /\ (~node[n].filled \/ n > search.archiveCount) IN
  /\ pc = "list" /\ job.i < job.count
  /\ listed' = IF take THEN Append(listed, n) ELSE listed
  /\ passed' = IF ~take /\ early THEN passed \cup {n} ELSE passed
  /\ job' = [job EXCEPT !.i = n]
  /\ UNCHANGED <<node, working, listCount, search, filters, pc, calm>>

Wrong_ListDone ==   \* the count is read again at the end
  /\ pc = "list" /\ job.i = job.count
  /\ listCount' = Len(node)
  /\ pc' = "idle" /\ job' = NoJob
  /\ UNCHANGED <<node, working, listed, search, filters, passed, calm>>
ListDone ==
  /\ pc = "list" /\ job.i = job.count
  /\ listCount' = job.count
  /\ pc' = "idle" /\ job' = NoJob
  /\ UNCHANGED <<node, working, listed, search, filters, passed, calm>>

-----------------------------------------------------------------------------
(* What starts a refresh.  The message a click in the tree posts comes      *)
(* before any further input and any timer, so click and refresh are one.    *)

Idle == pc = "idle"

OnTimer ==
  /\ Idle /\ working
  /\ Refresh(FALSE, TRUE)
  /\ UNCHANGED <<node, working, listed, listCount, filterOn, flowsHidden, shown, passed>>

(* StopLogging without clearing: the receiver has ended its record.         *)
Stopped == node[Len(node)].filled \/ Len(node) = 1
OnPause ==
  /\ Idle /\ working /\ Stopped
  /\ working' = FALSE
  /\ Refresh(FALSE, TRUE)
  /\ UNCHANGED <<node, listed, listCount, filterOn, flowsHidden, shown, passed>>

OnStart ==
  /\ Idle /\ ~working
  /\ working' = TRUE
  /\ UNCHANGED <<node, listed, listCount, search, filters, pc, job, passed, calm>>

OnUpdateFilter ==
  /\ Idle
  /\ \/ shown' \in SUBSET Threads /\ UNCHANGED flowsHidden
     \/ flowsHidden' = ~flowsHidden /\ UNCHANGED shown
  /\ Refresh(TRUE, TRUE)
  /\ UNCHANGED <<node, working, listed, listCount, filterOn, passed>>

OnSearchFilter ==
  /\ Idle
  /\ filterOn' = ~filterOn
  /\ Refresh(TRUE, TRUE)
  /\ UNCHANGED <<node, working, listed, listCount, flowsHidden, shown, passed>>

(* The search starts from the first node; without the filter the list is    *)
(* left as it is.                                                          *)
OnSearchRefresh ==
  /\ Idle
  /\ Refresh(TRUE, filterOn)
  /\ UNCHANGED <<node, working, listed, listCount, filterOn, flowsHidden, shown, passed>>

(* SearchNavigate to the first or the last match, or to one in between.     *)
Navigate ==
  /\ Idle /\ search.total > 0
  /\ \E line \in {search.firstLine, search.lastLine}
               \cup {k - 1 : k \in {k \in DOMAIN listed : node[listed[k]].pos # 0}} :
       search' = [search EXCEPT !.curLine = line]
  /\ UNCHANGED <<node, working, listed, listCount, filters, pc, job, passed, calm>>

(* ClearLog; the receiver is started again if the user asked for it.        *)
ClearLog(restart) ==
  /\ Idle
  /\ node' = <<Root>>
  /\ working' = restart
  /\ listed' = <<>> /\ listCount' = 0
  /\ search' = Cleared
  /\ passed' = {} /\ calm' = TRUE
  /\ UNCHANGED <<filters, pc, job>>

Receiver == Publish \/ Fill \/ Grow
Ui ==
  \/ OnTimer \/ OnPause \/ OnStart
  \/ OnUpdateFilter \/ OnSearchFilter \/ OnSearchRefresh
  \/ Navigate \/ \E restart \in BOOLEAN : ClearLog(restart)
  \/ SearchNode \/ SearchDone \/ ListNode \/ ListDone

Next == Receiver \/ Ui

Spec == Init /\ [][Next]_vars

-----------------------------------------------------------------------------
(* Correctness.                                                            *)

(* Between two refreshes the list shows, in order and once, the nodes that  *)
(* pass the filters, of those it has looked at: all but the ones that were  *)
(* looked at before the receiver had filled them in or, if only matches are *)
(* shown, before the search had reached them.                              *)
InOrder   == \A k, l \in DOMAIN listed : k < l => listed[k] < listed[l]
Passes(n) == Visible(n) /\ n \notin passed /\ (filterOn => node[n].pos # 0)
ListExact == Idle => InOrder /\ Range(listed) = {n \in 1..listCount : Passes(n)}

(* Every match is counted once: none twice, and, if the receiver was quiet  *)
(* during every refresh and lengthened no line that was searched, none less.*)
SumTo(h, k) == LET sum[m \in 0..k] == IF m = 0 THEN 0 ELSE sum[m - 1] + h[m] IN sum[k]
Matches(k)  == SumTo([n \in Nodes |-> IF Visible(n) THEN node[n].hits ELSE 0], k)
MatchesCounted ==
  Idle /\ searching =>
    /\ search.total <= Matches(search.archiveCount)
    /\ calm => search.total = Matches(search.archiveCount)

(* Then also the first and the last match are in the lines the search says, *)
(* which the keys for the first and the last match go to.                  *)
Matched == {n \in 1..search.archiveCount : Visible(n) /\ node[n].pos # 0}
EndsFound ==
  Idle /\ searching /\ calm /\ search.archiveCount = listCount /\ search.total > 0 =>
    /\ NodeAt(search.firstLine) = Min(Matched)
    /\ NodeAt(search.lastLine) = Max(Matched)

(* SearchNavigate takes every line up to lastLine for a line of the list,   *)
(* which by then shows all nodes that were searched.                       *)
LastLineListed ==
  Idle /\ search.total > 0 /\ search.archiveCount <= listCount =>
    search.lastLine < Len(listed)

(* A refresh from the start leaves the current match at the node it was at, *)
(* whatever came into the list or left it, and gives it up only if the node *)
(* no longer matches or is no longer shown.                                *)
SelectionKept ==
  [][Idle' /\ InRefresh /\ job.reset /\ calm /\ search'.archiveCount = listCount'
       /\ job.selected # NoNode /\ searching =>
     IF Visible(job.selected) /\ node[job.selected].hits > 0
       THEN NodeAt(search.curLine) = job.selected
       ELSE search.curLine = NoLine]_vars

-----------------------------------------------------------------------------
(* What makes these inductive.                                              *)

(* How far the list and the search have come.                               *)
Position == IF pc = "list" THEN job.i ELSE listCount
Searched == IF pc = "search" THEN job.i ELSE search.archiveCount

(* The filters have changed, and the list will be made anew.                *)
Outdated == pc = "search" /\ job.reset /\ job.listToo

JobFits ==
  /\ Len(node) >= 1 /\ ~node[1].filled
  /\ pc = "idle" => job = NoJob
  /\ pc # "idle" => job.i <= job.count
  /\ pc = "search" => search.archiveCount <= job.i /\ job.selected <= job.count
  /\ pc = "search" => job.listToo \/ (job.reset /\ ~filterOn)
  /\ pc = "list" => job.selected <= search.archiveCount

(* A node that the search has not reached has no match noted, so a list of  *)
(* matches does not have it; what could come into the list was passed.      *)
NotNoted ==
  \A n \in Nodes : n > (IF pc = "search" THEN job.count ELSE search.archiveCount) => node[n].pos = 0
NotListed ==
  \A n \in 2..Position :
    \/ n \in passed
    \/ node[n].filled /\ ~(filterOn /\ n > search.archiveCount /\ Visible(n))
ListedSoFar ==
  ~Outdated => /\ InOrder /\ Range(listed) = {n \in 1..Position : Passes(n)}
               /\ NotListed /\ passed \subseteq 1..Position

Counted ==
  searching => /\ search.total <= Matches(Searched)
               /\ calm => search.total = Matches(Searched)

ListInv == TypeOK /\ JobFits /\ NotNoted /\ ListedSoFar /\ Counted

(* As long as it is calm, the line of a node is the number of those before   *)
(* it that are shown, in the search as in the list it is for.               *)
Match(n) == Visible(n) /\ node[n].hits # 0
Shown(n) == Visible(n) /\ (filterOn => node[n].hits # 0)
Lines(k) == SumTo([n \in Nodes |-> IF Shown(n) THEN 1 ELSE 0], k)

CalmFits ==
  /\ pc = "idle" => listCount <= search.archiveCount
  /\ pc = "search" => job.count = Len(node) /\ (~job.reset => search.archiveCount = listCount)
  /\ pc = "list" => job.count = Len(node) /\ job.count = search.archiveCount
ListLines ==
  (searching \/ ~filterOn) /\ ~Outdated =>
    /\ Len(listed) = Lines(Position)
    /\ \A n \in 1..Position :
         Shown(n) => Lines(n - 1) + 1 \in DOMAIN listed /\ listed[Lines(n - 1) + 1] = n

PosTells == \A n \in 1..Searched : Visible(n) => (node[n].pos # 0 <=> node[n].hits # 0)
EndsKnown ==
  /\ search.total = 0 => search.firstLine = 0 /\ \A n \in 1..Searched : ~Match(n)
  /\ search.total # 0 =>
       \E a, b \in 1..Searched :
         /\ Match(a) /\ Match(b)
         /\ \A n \in 1..Searched : Match(n) => a <= n /\ n <= b
         /\ search.firstLine = Lines(a - 1) /\ search.lastLine = Lines(b - 1)
LineKnown == pc = "search" => job.j = Lines(job.i)
CurrentKnown ==
  pc # "idle" /\ job.reset /\ job.selected # NoNode =>
    search.curLine = IF job.selected <= Searched /\ Match(job.selected)
                     THEN Lines(job.selected - 1) ELSE NoLine

CalmInv ==
  calm => /\ CalmFits /\ ListLines
          /\ searching => PosTells /\ EndsKnown /\ LineKnown /\ CurrentKnown
=============================================================================
