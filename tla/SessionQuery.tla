----------------------------- MODULE SessionQuery -----------------------------
(***************************************************************************)
(* Searching Sessions: the Query actor that answers one request after      *)
(* another from sources it reads anew each time (session/query), the       *)
(* derived full-text index it brings up to date first (session/query/      *)
(* sqlite), and the API's session.search, which pages through the answers  *)
(* for the Sessions the client may list (apiproxy/session).                *)
(*                                                                         *)
(* Sessions are numbered in the order of their creation.  Every message    *)
(* matches the searched text equally well, so the newest match ranks       *)
(* first; `at` is an event's time, and tells the events of a Session that  *)
(* a crash lost from those written in their place.                         *)
(***************************************************************************)
EXTENDS Integers, Sequences, FiniteSets, SequencesExt

CONSTANTS
  Sessions,    \* 1..n
  Searchers,   \* calls of session.search
  Settings     \* sizes and bounds of the behaviours, one after another:
               \*   history   of each Session, the length of its log at the start
               \*   hidden    Sessions with neither a directory nor a parent
               \*   page      Sessions of a page of stored headers
               \*   limit     of a search
               \*   kinds     of surface operations that are committed
               \*   events, opens, closes, calls, restarts, cancels, faults

VARIABLES
  sessions,    \* each Session's log, the stored length, the creation if it is open
  index,       \* the rows of the index and its generation, on disk
  query,       \* the Query actor: requests waiting, the task at work
  searches,    \* the calls of session.search
  used         \* the setting, and how much of it is used

queryVars == <<sessions, index, query, searches, used>>

Setting == Settings[used.of]
NoUse ==
  [events |-> 0, opens |-> 0, closes |-> 0, calls |-> 0, restarts |-> 0, cancels |-> 0, faults |-> 0]
NoCursor == [generation |-> 0, offset |-> 0]
NoRow == [log |-> <<>>, live |-> FALSE, persisted |-> FALSE, generation |-> 0]
NoRows == [s \in Sessions |-> NoRow]
NewestFirst == Cardinality(Sessions) + 1   \* the cursor of a first page
Idle == [pc |-> "idle", for |-> "none", online |-> [s \in Sessions |-> 0], unread |-> {},
         cursor |-> NewestFirst, entries |-> {}, found |-> {}]
NoSearch == [pc |-> "idle", visible |-> {}, page |-> NewestFirst, live |-> {}, cursor |-> NoCursor,
             items |-> <<>>, restarts |-> 0, more |-> FALSE, cancelled |-> FALSE,
             asked |-> [s \in Sessions |-> 0], rows |-> NoRows]

Message(at) == [op |-> "append", start |-> 0, end |-> 0, at |-> at]
Written(s, length) ==
  [log |-> [i \in 1..length |-> Message(s + i * Cardinality(Sessions))],
   stored |-> length, creation |-> 0]

Init ==
  /\ used \in [of : DOMAIN Settings, n : {NoUse}]
  /\ sessions = [s \in Sessions |->
                   Written(s, IF s \in DOMAIN Setting.history THEN Setting.history[s] ELSE 0)]
  /\ index = [generation |-> 0, rows |-> NoRows]
  /\ query = [waiting |-> <<>>, task |-> Idle]
  /\ searches = [a \in Searchers |-> NoSearch]

Uses(what) ==
  /\ used.n[what] < Setting[what]
  /\ used' = [used EXCEPT !.n[what] = @ + 1]

Live == {s \in Sessions : sessions[s].creation # 0}
Stored == {s \in Sessions : sessions[s].stored > 0}
Greatest(S) == CHOOSE n \in S : \A m \in S : m <= n
Least(S) == CHOOSE n \in S : \A m \in S : n <= m

----------------------------------------------------------------------------
(* The Surface of a log (session/query/documents.go, exact.go).            *)

Placed(nodes, log, i) ==
  LET e == log[i]
      At(seq) == CHOOSE p \in DOMAIN nodes : nodes[p] = seq
  IN CASE e.op = "append" -> Append(nodes, i)
       [] e.op = "replace" -> SubSeq(nodes, 1, At(e.start) - 1) \o <<i>>
                              \o SubSeq(nodes, At(e.end) + 1, Len(nodes))
       [] OTHER -> nodes

(* currentSurface: the nodes after each event in turn.                     *)
Surface(log) ==
  FoldLeft(LAMBDA nodes, i : Placed(nodes, log, i), <<>>, [i \in DOMAIN log |-> i])
Current(log) == ToSet(Surface(log))

(* BuildDocuments: an event with an operation that is not current is       *)
(* shadowed.                                                               *)
DocumentPlacement(log, i) ==
  IF log[i].op = "none" THEN "log-only"
  ELSE IF i \in Current(log) THEN "current" ELSE "shadowed"

(* analyzeLog: the event that took the place of another.                   *)
ReplacedBy(log) ==
  [i \in DOMAIN log |->
     LET by == {j \in DOMAIN log : /\ j > i
                                   /\ i \in Current(SubSeq(log, 1, j - 1))
                                   /\ i \notin Current(SubSeq(log, 1, j))}
     IN IF by = {} THEN 0 ELSE Least(by)]
EventPlacement(log, i) ==
  IF i \in Current(log) THEN "current"
  ELSE IF ReplacedBy(log)[i] # 0 THEN "shadowed" ELSE "log-only"

(* TraceEvent: the replacement of the replacement, and so on; 0 ends it.   *)
ReplacementChain(log, i) ==
  LET by == ReplacedBy(log)
      next[n \in 0..Len(log)] == IF n = 0 THEN <<i>>
                                 ELSE IF Last(next[n - 1]) = 0 THEN next[n - 1]
                                 ELSE Append(next[n - 1], by[Last(next[n - 1])])
  IN next[Len(log)]

----------------------------------------------------------------------------
(* Sessions (SessionGrain.tla and SessionRegistry.tla have them in full).  *)

Session(s) == sessions[s]

Open(s) ==
  /\ s \in DOMAIN Setting.history \ Live /\ Uses("opens")
  /\ sessions' = [sessions EXCEPT ![s].creation = used.n.opens + 1]
  /\ UNCHANGED <<index, query, searches>>

(* A replacement takes the place of a span of the Surface.                 *)
Commit(s) ==
  /\ s \in Live /\ Uses("events")
  /\ LET at == 100 + used.n.events
         nodes == Surface(Session(s).log)
     IN \E op \in Setting.kinds, i, j \in 0..Len(nodes) :
          /\ IF op = "replace" THEN 1 <= i /\ i <= j ELSE i = 0 /\ j = 0
          /\ LET seq(p) == IF p = 0 THEN 0 ELSE nodes[p]
             IN sessions' = [sessions EXCEPT ![s].log =
                  Append(@, [op |-> op, start |-> seq(i), end |-> seq(j), at |-> at])]
  /\ UNCHANGED <<index, query, searches>>

Store(s) ==
  /\ s \in Live /\ Session(s).stored < Len(Session(s).log)
  /\ sessions' = [sessions EXCEPT ![s].stored = Len(Session(s).log)]
  /\ UNCHANGED <<index, query, searches, used>>

(* A Session is retired, and no longer listed, once its log is stored.     *)
Close(s) ==
  /\ s \in Live /\ Uses("closes")
  /\ sessions' = [sessions EXCEPT ![s].stored = Len(Session(s).log), ![s].creation = 0]
  /\ UNCHANGED <<index, query, searches>>

(* The process dies: what was not stored is lost, the index stays.         *)
Restart ==
  /\ Uses("restarts")
  /\ sessions' = [s \in Sessions |->
       [Session(s) EXCEPT !.log = SubSeq(@, 1, Session(s).stored), !.creation = 0]]
  /\ query' = [waiting |-> <<>>, task |-> Idle]
  /\ searches' = [a \in Searchers |->
       IF searches[a].pc = "idle" THEN NoSearch ELSE [NoSearch EXCEPT !.pc = "lost"]]
  /\ UNCHANGED index

----------------------------------------------------------------------------
(* Pages of stored headers, newest first, after a cursor (persistence).    *)

After(cursor) == {s \in Stored : s < cursor}
Page(cursor) ==
  {s \in After(cursor) : Cardinality({t \in After(cursor) : t > s}) < Setting.page}
IsLast(cursor) == Page(cursor) = After(cursor)

(* The Sessions a client may list (VisibleSessionIDs): on every page the   *)
(* open Sessions are listed first, and shown on the first page only.       *)
Search(a) ==
  /\ searches[a].pc = "idle" /\ Uses("calls")
  /\ searches' = [searches EXCEPT ![a].pc = "live"]
  /\ UNCHANGED <<sessions, index, query>>

ListLive(a) ==
  /\ searches[a].pc = "live"
  /\ searches' = [searches EXCEPT ![a].pc = "stored", ![a].live = Live \ Setting.hidden]
  /\ UNCHANGED <<sessions, index, query, used>>

(* A request is asked of the Query actor; `asked` is the log of each       *)
(* Session then.                                                           *)
Asking(search) ==
  [search EXCEPT !.pc = "asked", !.asked = [s \in Sessions |-> Len(Session(s).log)]]
Waits(a) == query' = [query EXCEPT !.waiting = Append(@, a)]

ListStored(a) ==
  LET me == searches[a]
      page == Page(me.page)
      visible == me.visible \cup (IF me.page = NewestFirst THEN me.live ELSE {})
                   \cup (page \ (Setting.hidden \cup me.live))
      listed == [me EXCEPT !.visible = visible, !.live = {}, !.page = NewestFirst]
  IN /\ me.pc = "stored"
     /\ IF ~IsLast(me.page)
        THEN /\ searches' = [searches EXCEPT
                  ![a] = [listed EXCEPT !.pc = "live", !.page = Least(page)]]
             /\ UNCHANGED query
        ELSE IF visible = {}
        THEN searches' = [searches EXCEPT ![a] = [listed EXCEPT !.pc = "answered"]] /\ UNCHANGED query
        ELSE searches' = [searches EXCEPT ![a] = Asking(listed)] /\ Waits(a)
     /\ UNCHANGED <<sessions, index, used>>

(* A call's context is cancelled, or a request of it fails or is answered  *)
(* too late.                                                               *)
Cancel(a) ==
  /\ searches[a].pc \in {"live", "stored", "asked"} /\ Uses("cancels")
  /\ searches' = [searches EXCEPT ![a] = [NoSearch EXCEPT !.pc = "failed", !.cancelled = TRUE]]
  /\ UNCHANGED <<sessions, index, query>>
SearchFails(a) ==
  /\ searches[a].pc \in {"live", "stored", "asked"} /\ Uses("faults")
  /\ searches' = [searches EXCEPT ![a] = [NoSearch EXCEPT !.pc = "failed"]]
  /\ UNCHANGED <<sessions, index, query>>

----------------------------------------------------------------------------
(* The Query actor: the request at work is stashed until its task ends,    *)
(* the ones that arrive meanwhile until it is answered.                    *)

Task == query.task
Works(task) == query' = [query EXCEPT !.task = task]

Receive ==
  /\ Task.pc = "idle" /\ query.waiting # <<>>
  /\ query' = [waiting |-> Tail(query.waiting),
               task |-> [Idle EXCEPT !.pc = "list", !.for = Head(query.waiting)]]
  /\ UNCHANGED <<sessions, index, searches, used>>

(* ReadSources: the open Sessions, each read as the creation listed.       *)
ReadListing ==
  /\ Task.pc = "list"
  /\ Works([Task EXCEPT !.pc = IF Live = {} THEN "page" ELSE "read", !.unread = Live,
                        !.online = [s \in Sessions |-> Session(s).creation]])
  /\ UNCHANGED <<sessions, index, searches, used>>

Source(s, log, live) == [session |-> s, log |-> log, live |-> live, persisted |-> ~live]

ReadLive ==
  /\ Task.pc = "read"
  /\ LET s == Least(Task.unread)
     IN /\ Session(s).creation = Task.online[s]
        /\ Works([Task EXCEPT !.unread = @ \ {s},
                              !.found = @ \cup {Source(s, Session(s).log, TRUE)},
                              !.pc = IF Task.unread = {s} THEN "page" ELSE "read"])
  /\ UNCHANGED <<sessions, index, searches, used>>

(* ListSnapshots: a Session read already gives its header only.            *)
Online(task) == {s \in Sessions : task.online[s] # 0}
Paged(task) ==
  [task EXCEPT !.entries = Page(task.cursor), !.pc = "inspect",
               !.cursor = IF IsLast(task.cursor) THEN 0 ELSE Least(Page(task.cursor))]
ReadPage ==
  /\ Task.pc = "page"
  /\ LET headers == {Source(s, <<>>, FALSE) : s \in Page(Task.cursor) \cap Online(Task)}
     IN Works([Paged(Task) EXCEPT !.entries = @ \ Online(Task), !.found = @ \cup headers])
  /\ UNCHANGED <<sessions, index, searches, used>>

(* Inspect: the stored log of each other Session of the page.              *)
Inspect ==
  /\ Task.pc = "inspect"
  /\ IF Task.entries = {}
     THEN Works([Task EXCEPT !.pc = IF Task.cursor = 0 THEN "observe" ELSE "page"])
     ELSE LET s == Greatest(Task.entries)
              log == SubSeq(Session(s).log, 1, Session(s).stored)
          IN Works([Task EXCEPT !.entries = @ \ {s}, !.found = @ \cup {Source(s, log, FALSE)}])
  /\ UNCHANGED <<sessions, index, searches, used>>

(* Observe: the log of the open Session wins over the stored one.          *)
Observed(found) ==
  [s \in {source.session : source \in found} |->
     LET of == {source \in found : source.session = s}
         live == {source \in of : source.live}
     IN [log |-> (CHOOSE source \in IF live # {} THEN live ELSE of : TRUE).log,
         live |-> live # {}, persisted |-> of # live]]

(* Variant: a log is taken to be the one indexed when it is as long.       *)
SameLength(row, source) == Len(row.log) = Len(source.log)

(* sourceRevision: of the events themselves.                               *)
SameRevision(row, source) == row.log = source.log

(* reconcile: rows whose source or availability changed are replaced, the  *)
(* documents with a changed source only; rows without a source go.         *)
Reconciled(current, desired) ==
  LET sameLog(s) == current[s].generation # 0 /\ SameRevision(current[s], desired[s])
      same(s) == /\ sameLog(s)
                 /\ current[s].live = desired[s].live
                 /\ current[s].persisted = desired[s].persisted
  IN [s \in Sessions |->
        IF s \notin DOMAIN desired THEN NoRow
        ELSE IF same(s) THEN current[s]
        ELSE [log |-> IF sameLog(s) THEN current[s].log ELSE desired[s].log,
              live |-> desired[s].live, persisted |-> desired[s].persisted,
              generation |-> current[s].generation + 1]]

(* One transaction; without a change nothing is written.                   *)
Updated ==
  LET rows == Reconciled(index.rows, Observed(Task.found))
  IN IF rows = index.rows THEN index
     ELSE [generation |-> index.generation + 1, rows |-> rows]

Reconcile ==
  /\ Task.pc = "observe"
  /\ index' = Updated
  /\ Works([Task EXCEPT !.pc = "search", !.found = {}])
  /\ UNCHANGED <<sessions, searches, used>>

----------------------------------------------------------------------------
(* Answers.                                                                *)

(* Sessions with a current message, the newest match first.                *)
Matches(log) == {i \in Current(log) : log[i].op = "append"}
Ranking(rows) ==
  LET best(s) == Greatest({rows[s].log[i].at : i \in Matches(rows[s].log)})
  IN SetToSortSeq({s \in Sessions : Matches(rows[s].log) # {}}, LAMBDA s, t : best(s) > best(t))

Min2(a, b) == IF a < b THEN a ELSE b
Hits(offset) ==
  SubSeq(Ranking(index.rows), offset + 1,
         Min2(offset + Setting.limit, Len(Ranking(index.rows))))
NextCursor(offset) ==
  IF Len(Ranking(index.rows)) > offset + Setting.limit
  THEN [generation |-> index.generation, offset |-> offset + Setting.limit]
  ELSE NoCursor

(* Variant: a call that starts over keeps what it has.                     *)
StartedOverKeeping(search) ==
  [search EXCEPT !.cursor = NoCursor, !.restarts = @ + 1]

(* A stale cursor: the call starts over, once.                             *)
StartedOver(search) ==
  [search EXCEPT !.items = <<>>, !.cursor = NoCursor, !.restarts = @ + 1]

(* The call after a page: done with one item more than it shows, or with   *)
(* the last page.                                                          *)
Accepted(search) ==
  LET offset == search.cursor.offset
      fresh(s) == s \in search.visible /\ s \notin ToSet(search.items)
      items == search.items \o SelectSeq(Hits(offset), fresh)
      more == Len(items) > Setting.limit
      paged == [search EXCEPT !.items = items, !.cursor = NextCursor(offset), !.rows = index.rows]
  IN IF more \/ NextCursor(offset) = NoCursor
     THEN [paged EXCEPT !.pc = "answered", !.more = more,
                        !.items = SubSeq(@, 1, Min2(Setting.limit, Len(@)))]
     ELSE Asking(paged)

Stale(search) ==
  search.cursor # NoCursor /\ search.cursor.generation # index.generation

(* What the call does with the answer, when it still waits for it.         *)
Told(search) ==
  IF search.pc # "asked" THEN search
  ELSE IF ~Stale(search) THEN Accepted(search)
  ELSE IF search.restarts = 0 THEN Asking(StartedOver(search))
  ELSE [NoSearch EXCEPT !.pc = "failed"]

Answers(a, told) ==
  /\ searches' = [searches EXCEPT ![a] = told]
  /\ query' = [waiting |-> IF told.pc = "asked" THEN Append(query.waiting, a) ELSE query.waiting,
               task |-> Idle]

SearchIndex ==
  /\ Task.pc = "search"
  /\ Answers(Task.for, Told(searches[Task.for]))
  /\ UNCHANGED <<sessions, index, used>>

Failed(search) ==
  IF search.pc = "asked" THEN [NoSearch EXCEPT !.pc = "failed"] ELSE search

(* A listed Session is no longer that creation.                            *)
CreationIsGone ==
  /\ Task.pc = "read"
  /\ LET s == Least(Task.unread) IN Session(s).creation # Task.online[s]
  /\ Answers(Task.for, Failed(searches[Task.for]))
  /\ UNCHANGED <<sessions, index, used>>

(* The requester's context is cancelled.                                   *)
TaskAborts ==
  /\ Task.pc # "idle" /\ searches[Task.for].cancelled
  /\ Answers(Task.for, searches[Task.for])
  /\ UNCHANGED <<sessions, index, used>>

(* A read, the transaction or the search fails; the transaction may have   *)
(* been committed.                                                         *)
TaskFails ==
  /\ Task.pc # "idle" /\ Uses("faults")
  /\ Answers(Task.for, Failed(searches[Task.for]))
  /\ index' \in IF Task.pc = "observe" THEN {index, Updated} ELSE {index}
  /\ UNCHANGED sessions

Next ==
  \/ \E s \in Sessions : Open(s) \/ Commit(s) \/ Store(s) \/ Close(s)
  \/ \E a \in Searchers : \/ Search(a) \/ ListLive(a) \/ ListStored(a)
                          \/ Cancel(a) \/ SearchFails(a)
  \/ Receive \/ ReadListing \/ ReadLive \/ ReadPage \/ Inspect \/ Reconcile
  \/ SearchIndex \/ CreationIsGone \/ TaskAborts \/ TaskFails
  \/ Restart

Spec == Init /\ [][Next]_queryVars

----------------------------------------------------------------------------

(* An answered search shows the best of the Sessions the client may list,  *)
(* in the order of one state of the index, although it is read page by     *)
(* page while Sessions change; and that state has every event a Session    *)
(* had when the last page was asked for, and none it never had             *)
(* (SearchGateway.Search, Service.SearchSessions, Service.reconcile,       *)
(* Logs.ReadSources).                                                      *)
SearchesAreTrue ==
  \A a \in Searchers :
    LET search == searches[a]
        shown == SelectSeq(Ranking(search.rows), LAMBDA s : s \in search.visible)
    IN search.pc = "answered" =>
         /\ search.items = SubSeq(shown, 1, Min2(Setting.limit, Len(shown)))
         /\ search.more <=> Len(shown) > Setting.limit
         /\ search.visible # {} =>
              \A s \in Sessions : /\ IsPrefix(search.rows[s].log, sessions[s].log)
                                  /\ Len(search.rows[s].log) >= search.asked[s]

(* Where the index and the exact reads place an event of the logs just     *)
(* indexed agrees, and the replacements of a shadowed event lead to a      *)
(* current one (BuildDocuments, analyzeLog, TraceEvent).                   *)
PlacementsAgree ==
  Task.pc = "search" => \A s \in Sessions :
    LET log == index.rows[s].log
    IN \A i \in DOMAIN log :
         /\ DocumentPlacement(log, i) = EventPlacement(log, i)
         /\ EventPlacement(log, i) = "shadowed" =>
              \E j \in Current(log) : Contains(ReplacementChain(log, i), j)
=============================================================================
