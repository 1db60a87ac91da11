------------------------------ MODULE MCServices ------------------------------
(* The services a Session's work runs through: model requests (ModelCall),  *)
(* the folds of its events (Projection) and their checkpoints               *)
(* (ProjectionCache), what clients are shown and asked (ClientFeed), the    *)
(* Workspaces Sessions are created in (Workspaces) and the search for       *)
(* Sessions (SessionQuery).  They share no variable here, so a behaviour    *)
(* exercises one of them, chosen at the start.                              *)
EXTENDS ModelCall, TLC

CONSTANTS Units, Clients, question, approval

Setting(requests, attempts, chunks, faults, timeouts, cancels, others) ==
  [requests |-> requests, attempts |-> attempts, chunks |-> chunks, faults |-> faults,
   timeouts |-> timeouts, cancels |-> cancels, others |-> others]
MCSettings ==
  {Setting(2, 2, 1, 1, 0, 1, 0), Setting(2, 2, 1, 0, 1, 1, 0), Setting(1, 2, 1, 1, 1, 1, 0),
   Setting(2, 2, 1, 0, 1, 0, 1), Setting(2, 2, 1, 1, 0, 0, 1), Setting(1, 1, 3, 2, 1, 1, 0)}

FoldSettings == <<[events |-> 3, tokens |-> 2, reads |-> 1, faults |-> 1]>>

CacheSetting(page, batch, messages, appends, definitions, writes, reads, restarts, faults) ==
  [page |-> page, batch |-> batch, messages |-> messages, appends |-> appends,
   definitions |-> definitions, writes |-> writes, reads |-> reads, restarts |-> restarts,
   faults |-> faults]
CacheSettings ==
  <<CacheSetting(2, 2, 1, 3, 1, 1, 1, 0, 0), CacheSetting(1, 1, 2, 2, 0, 1, 1, 1, 1),
   CacheSetting(1, 1, 0, 1, 2, 1, 1, 0, 0)>>

FeedSetting(events, creations, turns, opens, capacity, bodies, cancels, faults, closing, policy) ==
  [events |-> events, creations |-> creations, turns |-> turns, opens |-> opens,
   capacity |-> capacity, bodies |-> bodies, cancels |-> cancels, faults |-> faults,
   closing |-> closing, policy |-> policy]
FeedSettings ==
  <<FeedSetting(3, 2, 0, 1, 2, {}, 0, 1, FALSE, "ask"),
   FeedSetting(2, 2, 0, 2, 1, {}, 0, 1, FALSE, "ask"),
   FeedSetting(0, 1, 1, 1, 1, {question, approval}, 0, 0, TRUE, "ask"),
   FeedSetting(0, 1, 1, 1, 1, {question, approval}, 1, 0, FALSE, "ask"),
   FeedSetting(0, 1, 1, 1, 1, {question}, 1, 1, TRUE, "ask"),
   FeedSetting(1, 1, 1, 1, 1, {approval}, 1, 0, TRUE, "ask"),
   FeedSetting(0, 1, 2, 1, 1, {approval}, 1, 1, TRUE, "ask"),
   FeedSetting(0, 1, 1, 1, 1, {approval}, 1, 1, FALSE, "never")>>

Places(history, commands, ops, creations, moves, faults, restarts) ==
  [history |-> history, commands |-> commands, ops |-> ops, creations |-> creations,
   moves |-> moves, faults |-> faults, restarts |-> restarts]
NoHistory == [s \in {} |-> "none"]
PlaceSettings ==
  <<Places(NoHistory, 2, {"create", "delete", "rename", "archive"}, 2, 0, 1, 1),
   Places([s \in {1, 2} |-> "a"], 2, {"move", "insert", "detach", "create"}, 1, 1, 1, 1),
   Places(NoHistory, 1, {"create", "rename"}, 2, 1, 0, 2),
   Places([s \in {1} |-> "a"], 2, {"move", "insert", "detach", "rename", "delete", "archive"},
          1, 1, 1, 1)>>

QuerySetting(history, hidden, page, kinds, events, closes, searching, restarts, cancels, faults) ==
  [history |-> history, hidden |-> hidden, page |-> page, limit |-> 1, kinds |-> kinds,
   events |-> events, opens |-> 1 + restarts, closes |-> closes, calls |-> searching,
   restarts |-> restarts, cancels |-> cancels, faults |-> faults]
QuerySettings ==
  <<QuerySetting(<<1, 1, 0>>, {2}, 2, {"append"}, 1, 1, 1, 0, 0, 0),
    QuerySetting(<<1, 1>>, {}, 1, {"append"}, 2, 1, 1, 0, 0, 0),
    QuerySetting(<<1, 0>>, {}, 2, {"append"}, 1, 0, 2, 0, 1, 1),
    QuerySetting(<<1>>, {}, 2, {"append"}, 2, 0, 2, 1, 0, 0),
    QuerySetting(<<2>>, {}, 2, {"append", "replace", "none"}, 2, 0, 1, 0, 0, 0)>>

VARIABLES part,
          events, registry, fold, notices, reads, published, folded,
          durable, defs, disk, cache, reader, told, cached,
          session, subscriber, broker, clients, asks, gateway, fed,
          present, headers, stored, workspaces, task, flow, seen, placed,
          sessions, index, query, searches, sought

Folds == INSTANCE Projection WITH Settings <- FoldSettings, used <- folded
Checkpoints == INSTANCE ProjectionCache WITH Settings <- CacheSettings, used <- cached
Feed ==
  INSTANCE ClientFeed WITH Questions <- {question}, Approvals <- {approval},
                           Settings <- FeedSettings, used <- fed

Space ==
  INSTANCE Workspaces WITH Paths <- {"a", "b"}, Sessions <- {1, 2}, Settings <- PlaceSettings,
                           disk <- stored, registry <- workspaces, used <- placed

Query ==
  INSTANCE SessionQuery WITH Sessions <- 1..3, Searchers <- {1, 2}, Settings <- QuerySettings,
                             used <- sought

foldVars == <<events, registry, fold, notices, reads, published, folded>>
cacheVars == <<durable, defs, disk, cache, reader, told, cached>>
feedVars == <<session, subscriber, broker, clients, asks, gateway, fed>>
spaceVars == <<present, headers, stored, workspaces, task, flow, seen, placed>>
queryVars == <<sessions, index, query, searches, sought>>
partVars == <<part, vars, foldVars, cacheVars, feedVars, spaceVars, queryVars>>

First(S) == CHOOSE s \in S : TRUE

(* The parts that are not exercised stay in one initial state.              *)
PartInit ==
  /\ part \in {"model", "folds", "checkpoints", "feed", "workspaces", "queries"}
  /\ Init /\ Folds!Init /\ Checkpoints!Init /\ Feed!Init /\ Space!Init /\ Query!Init
  /\ part # "model" => log = <<>> /\ spent.of = First(Settings)
  /\ part # "folds" => folded.of = 1
  /\ part # "checkpoints" => cached.of = 1
  /\ part # "feed" => fed.of = 1
  /\ part # "workspaces" => placed.of = 1
  /\ part # "queries" => sought.of = 1

PartNext ==
  /\ UNCHANGED part
  /\ \/ /\ part = "model" /\ Next
        /\ UNCHANGED <<foldVars, cacheVars, feedVars, spaceVars, queryVars>>
     \/ /\ part = "folds" /\ Folds!Next
        /\ UNCHANGED <<vars, cacheVars, feedVars, spaceVars, queryVars>>
     \/ /\ part = "checkpoints" /\ Checkpoints!Next
        /\ UNCHANGED <<vars, foldVars, feedVars, spaceVars, queryVars>>
     \/ /\ part = "feed" /\ Feed!Next
        /\ UNCHANGED <<vars, foldVars, cacheVars, spaceVars, queryVars>>
     \/ /\ part = "workspaces" /\ Space!Next
        /\ UNCHANGED <<vars, foldVars, cacheVars, feedVars, queryVars>>
     \/ /\ part = "queries" /\ Query!Next
        /\ UNCHANGED <<vars, foldVars, cacheVars, feedVars, spaceVars>>

PartSpec == PartInit /\ [][PartNext]_partVars

Symmetry == Permutations(Configs) \cup Permutations(Units)

(* Folds, the changes they publish, their checkpoints and the search index  *)
(* tell what the log says (Projection.tla, ProjectionCache.tla,             *)
(* SessionQuery.tla).                                                       *)
ViewsAreTrue ==
  /\ part = "folds" => Folds!ProjectionsAreTrue
  /\ part = "checkpoints" => Checkpoints!ColdViewsAreTrue
  /\ part = "queries" => Query!SearchesAreTrue /\ Query!PlacementsAgree

(* A client is shown every event and interaction once, and tools hear what  *)
(* was answered (ClientFeed.tla).                                           *)
ClientsAreTold == part = "feed" => Feed!FeedIsTrue /\ Feed!AnswersAreTrue

(* Memory, the store, clients and members agree (Workspaces.tla).           *)
WorkspacesAreTrue == part = "workspaces" => Space!WorkspacesAreTrue
=============================================================================
