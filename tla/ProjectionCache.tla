---------------------------- MODULE ProjectionCache ----------------------------
(***************************************************************************)
(* Projections of Sessions that are not open: the checkpoint cache of one  *)
(* Session (session/projectioncache), its cold rebuilds from pages of the  *)
(* durable log, and the history page the API pairs with such a rebuild     *)
(* (apiproxy/session/read.go).                                             *)
(*                                                                         *)
(* The durable log belongs to the Session's writer; here it only grows, or *)
(* is another log under the same SessionID after a restart.  A checkpoint  *)
(* row is the fold of the first `next` events of the log `of`; a fold over *)
(* a gap, or over two logs, is a Mixture.                                  *)
(***************************************************************************)
EXTENDS Naturals, Sequences, FiniteSets

CONSTANTS
  Units,       \* keys of projection Units
  Settings     \* sizes and bounds of the behaviours, one after another:
               \*   page, batch   events of a replay page and of a history page
               \*   messages      messages a history page is asked for
               \*   appends       commits, of one or two events
               \*   definitions   registrations of Units
               \*   writes        checkpoints
               \*   reads         cold views, history pages and cached views
               \*   restarts      of the process
               \*   faults        failed requests

VARIABLES
  durable,   \* the log on disk and its revision
  defs,      \* the state versions of the registered Units
  disk,      \* the stored checkpoint record
  cache,     \* the Session's cache Grain and the Registry's entry for it
  reader,    \* its cold rebuild
  told,      \* the answer the last step gave
  used       \* the setting, and how much of it is used

cacheVars == <<durable, defs, disk, cache, reader, told, used>>

Mixture == 0
NoRow == [version |-> 0, of |-> 0, next |-> 0]
NoRecord == [of |-> 0, rows |-> [u \in Units |-> NoRow]]
NoReader == [pc |-> "none", tail |-> FALSE, asked |-> 0, initial |-> NoRecord, cursor |-> 0,
             of |-> 0, revision |-> 0, rows |-> [u \in Units |-> NoRow], page |-> 0, more |-> FALSE]
NoAnswer == [kind |-> "none"]
NoUse == [appends |-> 0, definitions |-> 0, writes |-> 0, reads |-> 0, restarts |-> 0, faults |-> 0]

Init ==
  /\ durable = [of |-> 1, log |-> <<>>, revision |-> 0]
  /\ defs = [u \in Units |-> 0]
  /\ disk = NoRecord
  /\ cache = [life |-> "none", record |-> NoRecord, writing |-> NoRecord, closing |-> FALSE]
  /\ reader = NoReader
  /\ told = NoAnswer
  /\ used \in [of : DOMAIN Settings, n : {NoUse}]

Uses(what) ==
  /\ used.n[what] < Settings[used.of][what]
  /\ used' = [used EXCEPT !.n[what] = @ + 1]
Unused == UNCHANGED used
Silent == told' = NoAnswer
Setting == Settings[used.of]
Length == Len(durable.log)

Min2(a, b) == IF a < b THEN a ELSE b
Max2(a, b) == IF a > b THEN a ELSE b
Least(S) == CHOOSE n \in S : \A m \in S : n <= m
Registered == {u \in Units : defs[u] # 0}
Has(row) == row.version # 0

----------------------------------------------------------------------------
(* Folding (registry_restore.go).                                          *)

(* A row is usable for a read of the log from the event `from` on when it  *)
(* is of the registered version and inside what was read.                  *)
Usable(u, row, from, length) ==
  row.version = defs[u] /\ row.next >= from /\ row.next <= from + length

(* advanceCell over the events from+1 .. from+length of the log `of`.      *)
Folded(row, of, from, length) ==
  [row EXCEPT !.next = from + length,
              !.of = IF row.next = from + length THEN @
                     ELSE IF row.next = 0 /\ from = 0 THEN of
                     ELSE IF row.of = of /\ row.next >= from THEN of ELSE Mixture]

(* Restore: without a usable row a Unit is folded from the first event,    *)
(* which takes a read from the start.                                      *)
Restorable(rows, from, length) ==
  \A u \in Registered : Usable(u, rows[u], from, length) \/ from = 0
Restored(rows, of, from, length) ==
  [u \in Units |->
     IF u \notin Registered THEN NoRow
     ELSE IF Usable(u, rows[u], from, length)
          THEN Folded(rows[u], of, from, length)
          ELSE Folded([version |-> defs[u], of |-> of, next |-> 0], of, from, length)]

(* RestoreFloor: one below the lowest usable row.                          *)
RestoreFloor(rows) ==
  LET need(u) == IF rows[u].version = defs[u] THEN rows[u].next ELSE 0
      floor == Least({need(u) : u \in Registered})
  IN IF Registered = {} THEN 0 ELSE Max2(floor, 1) - 1

----------------------------------------------------------------------------
(* Checkpoints (record.go, cache.go, grain.go, writer.go).                 *)

(* Variant: a live checkpoint is taken as it is, flushed or not.           *)
NewCheckpointUnflushed(next, flushed) == TRUE

(* NewCheckpoint: only a cut that is durable.                              *)
NewCheckpoint(next, flushed) == next <= flushed

Dominates(current, rows) ==
  \A u \in Units : Has(rows[u]) =>
    current[u].version = rows[u].version /\ current[u].next >= rows[u].next

(* Merge: a compatible row never goes back.                                *)
Merged(current, incoming) ==
  IF current.of # incoming.of THEN incoming
  ELSE [incoming EXCEPT !.rows =
          [u \in Units |->
             IF Has(current.rows[u]) /\ (\/ ~Has(@[u])
                                         \/ /\ current.rows[u].version = @[u].version
                                            /\ current.rows[u].next > @[u].next)
             THEN current.rows[u] ELSE @[u]]]

(* Prepare: nothing to write when the record covers every row already.     *)
Covered(current, incoming) ==
  current.of = incoming.of /\ Dominates(current.rows, incoming.rows)

(* Write a checkpoint of the registered Units after the first `next`       *)
(* events of the open Session, of which `flushed` are known to be durable. *)
(* Other requests wait until the writer answered.                          *)
Write(next, flushed) ==
  /\ Uses("writes")
  /\ cache.life = "ready" /\ cache.writing = NoRecord
  /\ LET row(u) == IF u \in Registered
                   THEN [version |-> defs[u], of |-> durable.of, next |-> next] ELSE NoRow
         incoming == [of |-> durable.of, rows |-> [u \in Units |-> row(u)]]
     IN /\ NewCheckpoint(next, flushed) /\ ~Covered(cache.record, incoming)
        /\ cache' = [cache EXCEPT !.writing = Merged(cache.record, incoming)]
  /\ UNCHANGED <<durable, defs, disk, reader>> /\ Silent

(* Replace, and Confirm when it is acknowledged.                           *)
WriteCompletes ==
  /\ cache.writing # NoRecord
  /\ disk' = cache.writing
  /\ cache' = [cache EXCEPT !.record = cache.writing, !.writing = NoRecord]
  /\ UNCHANGED <<durable, defs, reader, used>> /\ Silent

(* The write fails, possibly after it took effect.                         *)
WriteFails ==
  /\ cache.writing # NoRecord /\ Uses("faults")
  /\ disk' \in {disk, cache.writing}
  /\ cache' = [cache EXCEPT !.writing = NoRecord]
  /\ UNCHANGED <<durable, defs, reader>> /\ Silent

----------------------------------------------------------------------------
(* The cache of a Session (actor/registry.go).                             *)

(* CacheForSession: initialized with the record found at startup; a failed *)
(* initialization is remembered.                                           *)
Acquire(ok) ==
  /\ cache.life = "none" /\ ~cache.closing
  /\ cache' = [cache EXCEPT !.life = IF ok THEN "ready" ELSE "failed",
                            !.record = IF ok THEN disk ELSE @]
  /\ IF ok THEN Unused ELSE Uses("faults")
  /\ UNCHANGED <<durable, defs, disk, reader>> /\ Silent

(* CloseRegistry: no further acquisition; each cache stops its writer when *)
(* it has answered.                                                        *)
CloseRegistry ==
  /\ ~cache.closing /\ cache.writing = NoRecord
  /\ cache' = [cache EXCEPT !.closing = TRUE, !.life = IF @ = "ready" THEN "closed" ELSE @]
  /\ UNCHANGED <<durable, defs, disk, reader, used>> /\ Silent

----------------------------------------------------------------------------
(* Cold rebuilds (replay.go, actor/reader.go).                             *)

Idle == cache.life = "ready" /\ cache.writing = NoRecord

(* ColdSnapshot, for itself or for a history page.                         *)
ColdSnapshot(tail) ==
  /\ Idle /\ reader.pc = "none" /\ Uses("reads")
  /\ reader' = [NoReader EXCEPT !.pc = "floor", !.tail = tail, !.asked = Length,
                                !.initial = cache.record]
  /\ UNCHANGED <<durable, defs, disk, cache>> /\ Silent

(* The registered Units say where to start.                                *)
Floor ==
  /\ reader.pc = "floor"
  /\ LET floor == RestoreFloor(reader.initial.rows)
     IN reader' = IF reader.initial = NoRecord /\ floor # 0
                  THEN NoReader
                  ELSE [reader EXCEPT !.pc = "read", !.cursor = floor, !.rows = reader.initial.rows]
  /\ UNCHANGED <<durable, defs, disk, cache, used>> /\ Silent

(* retry: once, without the checkpoint.                                    *)
Retried(r) ==
  IF r.initial = NoRecord THEN NoReader
  ELSE [NoReader EXCEPT !.pc = "read", !.tail = r.tail, !.asked = r.asked]

(* ValidatePage: a page after the first is of the same log and revision.   *)
SameLog(r) == r.of = 0 \/ (r.of = durable.of /\ r.revision = durable.revision)

(* ErrCheckpointIdentity: the checkpoint was made of another log.          *)
AnotherLog(r) == r.of = 0 /\ r.initial # NoRecord /\ r.initial.of # durable.of

(* ReadEventsFrom: at most `limit` events after the first `from`.          *)
Segment(from, limit) ==
  LET length == Min2(limit, Max2(Length, from) - from)
  IN [length |-> length, more |-> from + length < Length]

ReadPage ==
  /\ reader.pc = "read"
  /\ LET page == Segment(reader.cursor, Setting.page)
     IN reader' =
          CASE ~SameLog(reader) -> NoReader
            [] SameLog(reader) /\ AnotherLog(reader) -> Retried(reader)
            [] OTHER -> [reader EXCEPT !.pc = "restore", !.page = page.length, !.more = page.more,
                                       !.of = durable.of, !.revision = durable.revision]
  /\ UNCHANGED <<durable, defs, disk, cache, used>> /\ Silent

----------------------------------------------------------------------------
(* History pages (apiproxy/session/read.go).                               *)

(* historyMessageGroupStart: an appended message and the events it is made *)
(* of belong together.                                                     *)
GroupStart(log, e) == IF log[e].message THEN Max2(e - log[e].sources, 1) ELSE 0

(* findHistoryCut in the events below `before`, newest first: the start of *)
(* the group of the last message wanted.                                   *)
HistoryCut(log, from, before, counted, wanted) ==
  LET messages == {e \in from..before - 1 : log[e].message}
      nth == {e \in messages : Cardinality({m \in messages : m >= e}) + counted = wanted}
  IN {GroupStart(log, e) : e \in nth}

(* historyPage of an open Session.                                         *)
HistoryPage(log, before, wanted) ==
  LET cut == HistoryCut(log, 1, before, 0, wanted)
  IN [events |-> {e \in 1..before - 1 : \A c \in cut : e >= c}, more |-> \E c \in cut : c > 1]

(* ReadEventsBefore: a window of at most `limit` events.                   *)
WindowStart(before, limit) == Max2(before, limit + 1) - limit

(* coldHistoryPage: the same in batches from the newest event, until the   *)
(* cut is found and reached.                                               *)
ColdHistoryPage(log, before, wanted, batch) ==
  LET messages(from, to) == Cardinality({e \in from..to - 1 : log[e].message})
      read[k \in 0..before] ==
        IF k = 0 THEN [low |-> before, counted |-> 0, cut |-> {}]
        ELSE LET r == read[k - 1]
                 low == WindowStart(r.low, batch)
             IN IF r.low = 1 \/ \E c \in r.cut : r.low <= c THEN r
                ELSE [low |-> low, counted |-> r.counted + messages(low, r.low),
                      cut |-> IF r.cut = {} THEN HistoryCut(log, low, r.low, r.counted, wanted)
                              ELSE r.cut]
      all == read[before]
  IN [events |-> {e \in all.low..before - 1 : \A c \in all.cut : e >= c},
      more |-> \E c \in all.cut : c > 1]

(* The page ends with the event the projection ends with.                  *)
MatchesCut(page, cut) ==
  IF cut = 0 THEN page.events = {} ELSE cut \in page.events /\ \A e \in page.events : e <= cut

----------------------------------------------------------------------------

(* Restore and Accept: the rows move to the end of the page; the last page *)
(* completes the view.  A refused restore is tried again from the start.   *)
RestorePage ==
  /\ reader.pc = "restore"
  /\ LET r == reader
         rows == Restored(r.rows, r.of, r.cursor, r.page)
         next == [r EXCEPT !.rows = rows, !.cursor = @ + r.page,
                           !.pc = IF r.more THEN "read" ELSE IF r.tail THEN "history" ELSE "none"]
         refused == ~Restorable(r.rows, r.cursor, r.page)
     IN /\ reader' = IF refused THEN Retried(r)
                     ELSE IF next.pc = "none" THEN NoReader ELSE next
        /\ told' = IF refused \/ next.pc # "none" THEN NoAnswer
                   ELSE [kind |-> "cold", asked |-> r.asked, cut |-> next.cursor,
                         rows |-> rows, units |-> Registered]
  /\ UNCHANGED <<durable, defs, disk, cache, used>>

(* coldHistoryTail: the newest page up to the view's cut; one that ends    *)
(* elsewhere sends for a new view (a log that only grows never makes it).  *)
HistoryTail ==
  /\ reader.pc = "history"
  /\ LET page == ColdHistoryPage(durable.log, reader.cursor + 1, Setting.messages, Setting.batch)
         matches == MatchesCut(page, reader.cursor)
     IN /\ told' = IF ~matches THEN NoAnswer
                   ELSE [kind |-> "tail", asked |-> reader.asked, cut |-> reader.cursor,
                         rows |-> reader.rows, units |-> {u \in Units : Has(reader.rows[u])},
                         page |-> page]
        /\ reader' = IF matches THEN NoReader
                     ELSE [NoReader EXCEPT !.pc = "floor", !.tail = TRUE, !.asked = reader.asked,
                                           !.initial = cache.record]
  /\ UNCHANGED <<durable, defs, disk, cache, used>>

(* A read of the log, or a request of the reader, fails.                   *)
ReaderFails ==
  /\ reader.pc # "none" /\ Uses("faults")
  /\ reader' = NoReader
  /\ UNCHANGED <<durable, defs, disk, cache>> /\ Silent

(* CachedSnapshot: the confirmed rows of registered versions, without      *)
(* reading the log.                                                        *)
CachedSnapshot ==
  /\ Idle /\ Uses("reads")
  /\ cache.record.of = durable.of
  /\ LET units == {u \in Registered : cache.record.rows[u].version = defs[u]}
     IN /\ units # {}
        /\ told' = [kind |-> "cached", cut |-> Least({cache.record.rows[u].next : u \in units}),
                    rows |-> cache.record.rows, units |-> units]
  /\ UNCHANGED <<durable, defs, disk, cache, reader>>

----------------------------------------------------------------------------
(* The rest of the process.                                                *)

(* The writer of the open Session flushes events.                          *)
AppendBatch(message, sources) ==
  /\ Uses("appends")
  /\ durable' = [durable EXCEPT !.log = Append(@, [message |-> message, sources |-> sources]),
                                !.revision = @ + 1]
  /\ UNCHANGED <<defs, disk, cache, reader>> /\ Silent

(* Units are registered and removed by their owners.                       *)
Register(u, version) ==
  /\ defs[u] = 0 /\ Uses("definitions")
  /\ defs' = [defs EXCEPT ![u] = version]
  /\ UNCHANGED <<durable, disk, cache, reader>> /\ Silent

Remove(u) ==
  /\ defs[u] # 0 /\ Uses("definitions")
  /\ defs' = [defs EXCEPT ![u] = 0]
  /\ UNCHANGED <<durable, disk, cache, reader>> /\ Silent

(* The process ends and starts again, with other definitions, and perhaps  *)
(* over another log of the same SessionID.                                 *)
Restart(definitions, another) ==
  /\ Uses("restarts")
  /\ durable' = IF another THEN [of |-> durable.of + 1, log |-> <<>>, revision |-> 0] ELSE durable
  /\ defs' = definitions
  /\ cache' = [life |-> "none", record |-> NoRecord, writing |-> NoRecord, closing |-> FALSE]
  /\ disk' \in {disk} \cup ({cache.writing} \ {NoRecord})
  /\ reader' = NoReader /\ Silent

Next ==
  \/ \E message \in BOOLEAN, sources \in 0..1 : (message \/ sources = 0) /\ AppendBatch(message, sources)
  \/ \E u \in Units : (\E version \in 1..2 : Register(u, version)) \/ Remove(u)
  \/ \E next \in 0..Length + 1, flushed \in 0..Length : Write(next, flushed)
  \/ WriteCompletes \/ WriteFails
  \/ \E ok \in BOOLEAN : Acquire(ok)
  \/ CloseRegistry
  \/ \E tail \in BOOLEAN : ColdSnapshot(tail)
  \/ Floor \/ ReadPage \/ RestorePage \/ HistoryTail \/ ReaderFails
  \/ CachedSnapshot
  \/ \E definitions \in [Units -> 1..2], another \in BOOLEAN : Restart(definitions, another)

Spec == Init /\ [][Next]_cacheVars

----------------------------------------------------------------------------
(* Properties.                                                             *)

(* Records, requests and answers keep the shapes of the code.              *)
TypeOK ==
  /\ defs \in [Units -> 0..2]
  /\ cache.life \in {"none", "ready", "failed", "closed"}
  /\ cache.writing # NoRecord => cache.life = "ready"
  /\ reader.pc \in {"none", "floor", "read", "restore", "history"}
  /\ told.kind \in {"none", "cold", "tail", "cached"}

(* "Durable Session events remain the only source of truth"                *)
(* (contracts.go:2): every row, stored, confirmed or on its way, is the    *)
(* fold of events that are durable in the log it names, over restarts,     *)
(* merges and writes whose outcome is unknown.                             *)
CheckpointsAreDurable ==
  \A record \in {disk, cache.record, cache.writing} : \A u \in Units :
    LET row == record.rows[u]
    IN Has(row) => /\ row.of = record.of
                   /\ record.of = durable.of => row.next <= Length

(* "View contains a projection proven against one durable Session revision"*)
(* (replay.go:21): a rebuild shows every Unit at one cut of this log, no   *)
(* older than the log was when it was asked for, whatever was registered,  *)
(* appended or found in the cache while its pages were read.               *)
ViewsAreOneCut ==
  told.kind \in {"cold", "tail"} =>
    /\ told.asked <= told.cut /\ told.cut <= Length
    /\ \A u \in told.units :
         told.rows[u].next = told.cut /\ (told.cut > 0 => told.rows[u].of = durable.of)

(* A cached view is never ahead of a Unit's value nor of another log.      *)
CachedViewsAreOurs ==
  told.kind = "cached" =>
    \A u \in told.units : told.rows[u].of = durable.of /\ told.cut <= told.rows[u].next

(* A page read in batches from the log is the page an open Session would   *)
(* have given, and ends where its projections end.                         *)
PagesAgree ==
  told.kind = "tail" =>
    told.page = HistoryPage(durable.log, told.cut + 1, Setting.messages)

ColdViewsAreTrue ==
  TypeOK /\ CheckpointsAreDurable /\ ViewsAreOneCut /\ CachedViewsAreOurs /\ PagesAgree
================================================================================
